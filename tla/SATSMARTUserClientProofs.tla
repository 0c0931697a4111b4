----------------------- MODULE SATSMARTUserClientProofs -----------------------
(***************************************************************************)
(* What SATSMARTUserClient guarantees for any number of callers in every      *)
(* behaviour: the counter is exact until an update of it is lost, no call     *)
(* loses its connection before that or a late close, and what a call holds   *)
(* balances always.                                                         *)
(***************************************************************************)
EXTENDS SATSMARTUserClient, FiniteSetTheorems, TLAPS

(* There is at least one value of the counter, since the callers are fewer    *)
(* than its values.                                                          *)
LEMMA CounterModPositive == CounterMod \in Nat /\ CounterMod > 0
BY CallersAssumption, CounterAssumption, FS_CardinalityType

(* The wrap of a UInt32 lands among its values, and                           *)
LEMMA ModType ==
  ASSUME NEW i \in Int
  PROVE  i % CounterMod \in 0 .. CounterMod - 1
BY CounterModPositive

(* leaves a value that fits alone.                                           *)
LEMMA ModSmall ==
  ASSUME NEW i \in 0 .. CounterMod - 1
  PROVE  i % CounterMod = i
BY CounterModPositive

(* Taking or giving back a set of resources changes one caller's counts by n. *)
LEMMA AddType ==
  ASSUME held \in [Callers -> [Resources -> Int]],
         NEW c \in Callers, NEW rs, NEW n \in Int, Add(c, rs, n)
  PROVE  held' \in [Callers -> [Resources -> Int]]
<1> DEFINE h == [r \in Resources |-> IF r \in rs THEN held[c][r] + n ELSE held[c][r]]
<1>1. h \in [Resources -> Int]
  OBVIOUS
<1>2. held' = [held EXCEPT ![c] = h]
  BY DEF Add
<1> QED
  BY <1>1, <1>2

(* So do Take and Give, by one.                                              *)
LEMMA TakeGiveType ==
  ASSUME held \in [Callers -> [Resources -> Int]],
         NEW c \in Callers, NEW rs, Take(c, rs) \/ Give(c, rs)
  PROVE  held' \in [Callers -> [Resources -> Int]]
<1>1. CASE Take(c, rs)
  BY <1>1, AddType DEF Take
<1>2. CASE Give(c, rs)
  BY <1>2, AddType, -1 \in Int DEF Give
<1> QED
  BY <1>1, <1>2

(* A user client that has just started is well typed.                        *)
LEMMA TypeInitially == Init => TypeOK
<1> SUFFICES ASSUME Init PROVE TypeOK
  OBVIOUS
<1>1. pc \in [Callers -> CallerPC] /\ tpc \in [Terminators -> {"idle"}]
  BY DEF Init, CallerPC
<1>2. held \in [Callers -> [Resources -> Int]]
  BY DEF Init, Nothing
<1>3. result \in [Callers -> {"kATANoErr"}] /\ status \in [Callers -> {NoStatus}]
  BY DEF Init
<1>4. hasBuffer \in [Callers -> BOOLEAN] /\ isDone \in [Callers -> BOOLEAN]
  BY DEF Init
<1>5. /\ register \in [Callers -> 0 .. CounterMod - 1]
      /\ fOutstandingCommands \in 0 .. CounterMod - 1
  BY CounterModPositive DEF Init
<1>6. /\ fProvider \in BOOLEAN /\ opened \in BOOLEAN /\ attached \in BOOLEAN
      /\ nubInactive \in BOOLEAN /\ inactive \in BOOLEAN /\ closing \in BOOLEAN
      /\ lost \in BOOLEAN /\ late \in BOOLEAN
  BY DEF Init
<1> QED
  BY <1>1, <1>2, <1>3, <1>4, <1>5, <1>6 DEF TypeOK

(* Every call, every step of a call, and every step of a termination keeps    *)
(* every variable of the client in its type.                                 *)
THEOREM TypeCorrect == Spec => []TypeOK
<1>1. Init => TypeOK
  BY TypeInitially
<1>2. TypeOK /\ [Next]_vars => TypeOK'
  <2> SUFFICES ASSUME TypeOK, [Next]_vars PROVE TypeOK'
    OBVIOUS
  <2> USE DEF TypeOK
  <2>1. ASSUME NEW c \in Callers, Call(c) PROVE TypeOK'
    BY <2>1 DEF Call, Goto, SetStatus, NoStatus, CallerPC, Entering, serviceVars
  <2>2. ASSUME NEW c \in Callers, CallStep(c) PROVE TypeOK'
    <3> USE DEF Goto, SetStatus, CallerPC, Counted, Committed, Ladder,
            counterVars, serviceVars, ForgetBuffer, Entering
    <3>1. CASE IncLoad(c) \/ DecLoad(c)
      <4>1. register' = [register EXCEPT ![c] = fOutstandingCommands]
        BY <3>1 DEF IncLoad, DecLoad, LoadCounter
      <4>2. register' \in [Callers -> 0 .. CounterMod - 1]
        BY <4>1
      <4>3. pc' \in [Callers -> CallerPC]
        BY <3>1 DEF IncLoad, DecLoad, LoadCounter
      <4> QED
        BY <3>1, <4>2, <4>3 DEF IncLoad, DecLoad, LoadCounter
    <3>2. CASE IncStore(c)
      <4>1. register[c] + 1 \in Int
        BY CounterModPositive
      <4>2. (register[c] + 1) % CounterMod \in 0 .. CounterMod - 1
        BY <4>1, ModType
      <4> QED
        BY <3>2, <4>2, CounterModPositive DEF IncStore, StoreCounter
    <3>3. CASE DecStore(c)
      <4>1. register[c] + (-1) \in Int
        BY CounterModPositive
      <4>2. (register[c] + (-1)) % CounterMod \in 0 .. CounterMod - 1
        BY <4>1, ModType
      <4> QED
        BY <3>3, <4>2, CounterModPositive DEF DecStore, StoreCounter
    <3>4. CASE CheckInactive(c)
      BY <3>4 DEF CheckInactive, Refusals
    <3>5. CASE RetainProvider(c)
      BY <3>5, TakeGiveType DEF RetainProvider
    <3>6. CASE AllocateCommand(c)
      BY <3>6, TakeGiveType DEF AllocateCommand, Refusals
    <3>7. CASE PrepareBuffer(c)
      BY <3>7, TakeGiveType DEF PrepareBuffer, Refusals
    <3>8. CASE SendSMARTCommand(c)
      BY <3>8, TakeGiveType DEF SendSMARTCommand
    <3>9. CASE Forward(c)
      BY <3>9, TakeGiveType DEF Forward, AfterSend, Refusals
    <3>10. CASE DriverRejects(c)
      BY <3>10, TakeGiveType DEF DriverRejects, AfterSend, Outcomes
    <3>11. CASE DriverCompletes(c)
      BY <3>11, TakeGiveType DEF DriverCompletes
    <3>12. CASE WaitForCommand(c)
      BY <3>12 DEF WaitForCommand, AfterSend, StatusOf, Outcomes
    <3>13. CASE ReleaseResources(c)
      BY <3>13, TakeGiveType DEF ReleaseResources
    <3>14. CASE ReleaseProvider(c)
      BY <3>14, TakeGiveType DEF ReleaseProvider
    <3> QED
      BY <2>2, <3>1, <3>2, <3>3, <3>4, <3>5, <3>6, <3>7, <3>8, <3>9, <3>10, <3>11, <3>12,
         <3>13, <3>14 DEF CallStep
  <2>3. CASE TerminateNub \/ TerminateClient
    BY <2>3 DEF TerminateNub, TerminateClient, callVars, counterVars
  <2>4. CASE Message
    BY <2>4 DEF Message, TGoto, callVars, Terminators, counterVars
  <2>5. CASE ClientClose \/ LoadProvider
    BY <2>5 DEF ClientClose, LoadProvider, TGoto, callVars, counterVars, Terminators
  <2>6. ASSUME NEW t \in Terminators, HandleTerminate(t) PROVE TypeOK'
    BY <2>6 DEF HandleTerminate, Drain, IsOpen, Close, Detach, ClearProvider, TGoto, callVars, counterVars
  <2>7. CASE UNCHANGED vars
    BY <2>7 DEF vars, callVars, counterVars, serviceVars
  <2> QED
    BY <2>1, <2>2, <2>3, <2>4, <2>5, <2>6, <2>7 DEF Next
<1> QED
  BY <1>1, <1>2, PTL DEF Spec
-------------------------------------------------------------------------------
(* The inductive invariant.  What ties a terminating thread past its polling  *)
(* loop to the calls: when it got there the counter was exact and zero, and   *)
(* what let it start keeps calls from passing the isInactive test later.      *)
Past == {"isOpen", "close", "detach", "clear", "done"}
CountedCallers == {c \in Callers : pc[c] \in Counted}

StartOfTermination ==
  /\ tpc["clientClose"] # "idle" => closing
  /\ tpc["message"] # "idle" => inactive

NobodyEnters == closing => \A c \in Callers : pc[c] \notin Entering

Drained ==
  /\ (\E t \in Terminators : tpc[t] \in Past) => \A c \in Callers : pc[c] \notin Committed
  /\ tpc["clientClose"] \in Past => inactive \/ \A c \in Callers : pc[c] \notin Counted

Kept == (fProvider /\ opened /\ attached) \/ \E t \in Terminators : tpc[t] \in Past

NoPanic == \A c \in Callers : pc[c] # "panic"

InOrder == NobodyEnters /\ Drained /\ Kept /\ NoPanic

IInv ==
  /\ TypeOK
  /\ CounterExact
  /\ StartOfTermination
  /\ Orderly => InOrder

(* The calls between the ++ and the -- are fewer than the values of a UInt32. *)
LEMMA CountedFinite ==
  /\ IsFiniteSet(CountedCallers)
  /\ Cardinality(CountedCallers) \in 0 .. CounterMod - 1
<1>1. CountedCallers \subseteq Callers
  BY DEF CountedCallers
<1>2. /\ IsFiniteSet(CountedCallers)
      /\ Cardinality(CountedCallers) <= Cardinality(Callers)
  BY <1>1, CallersAssumption, FS_Subset
<1> QED
  BY <1>2, CounterAssumption, CallersAssumption, FS_CardinalityType

(* A step that moves no caller across the ++ or the -- leaves the count alone. *)
LEMMA CountKept ==
  ASSUME CounterExact, UNCHANGED <<fOutstandingCommands, lost>>,
         \A c \in Callers : pc'[c] \in Counted <=> pc[c] \in Counted
  PROVE  CounterExact'
<1>1. {c \in Callers : pc'[c] \in Counted} = {c \in Callers : pc[c] \in Counted}
  OBVIOUS
<1> QED
  BY <1>1 DEF CounterExact

(* With the invariant a call past the isInactive test has its connection. *)
LEMMA CommittedConnected ==
  ASSUME IInv, Orderly, NEW c \in Callers, pc[c] \in Committed
  PROVE  fProvider /\ opened /\ attached /\ ~(\E t \in Terminators : tpc[t] \in Past)
BY DEF IInv, InOrder, Drained, Kept

(* A step of one call between its isInactive test and the release of the nub, *)
(* which touches nothing the calls share.  One that finds fProvider NULL is   *)
(* a step into a panic, and not an orderly one.                              *)
LEMMA PrivateStep ==
  ASSUME IInv, TypeOK', NEW c \in Callers, NEW to \in Committed \cup {"decLoad", "panic"},
         pc[c] \in Committed, pc' = [pc EXCEPT ![c] = to], to = "panic" => ~fProvider,
         UNCHANGED <<counterVars, serviceVars>>
  PROVE  IInv'
<1> USE DEF IInv, TypeOK
<1>1. \A d \in Callers : d # c => pc'[d] = pc[d]
  OBVIOUS
<1>2. pc'[c] = to /\ to \in Counted /\ to \notin Entering
  BY DEF Counted, Committed, Ladder, Entering
<1>3. pc[c] \in Counted
  BY DEF Counted
<1>4. CounterExact'
  <2>1. \A d \in Callers : pc'[d] \in Counted <=> pc[d] \in Counted
    BY <1>1, <1>2, <1>3
  <2> QED
    BY <2>1, CountKept DEF counterVars
<1>5. StartOfTermination'
  BY DEF StartOfTermination, serviceVars
<1>6. ASSUME Orderly' PROVE InOrder'
  <2>1. Orderly
    BY <1>6 DEF Orderly, counterVars
  <2>2. fProvider /\ ~(\E t \in Terminators : tpc[t] \in Past)
    BY <2>1, CommittedConnected
  <2>3. NobodyEnters' /\ NoPanic'
    BY <1>1, <1>2, <2>1, <2>2 DEF InOrder, NobodyEnters, NoPanic, serviceVars
  <2>4. Drained' /\ Kept'
    BY <2>1, <2>2 DEF InOrder, Drained, Kept, serviceVars, Terminators
  <2> QED
    BY <2>3, <2>4 DEF InOrder
<1> QED
  BY <1>4, <1>5, <1>6

(* The ++ keeps the count exact if nothing was stored since its load.         *)
LEMMA IncrementExact ==
  ASSUME IInv, NEW c \in Callers, IncStore(c)
  PROVE  CounterExact'
<1> SUFFICES ASSUME ~lost'
             PROVE  fOutstandingCommands' = Cardinality({d \in Callers : pc'[d] \in Counted})
  BY DEF CounterExact
<1> USE DEF IInv, TypeOK
<1> DEFINE S == CountedCallers
           T == {d \in Callers : pc'[d] \in Counted}
<1>1. pc[c] = "incStore" /\ pc' = [pc EXCEPT ![c] = "checkInactive"]
  BY DEF IncStore, StoreCounter, Goto
<1>2. c \notin S /\ T = S \cup {c}
  BY <1>1 DEF CountedCallers, Counted, Committed, Ladder
<1>3. register[c] = Cardinality(S)
  BY DEF IncStore, StoreCounter, CounterExact, CountedCallers
<1>4. Cardinality(T) = Cardinality(S) + 1
  BY <1>2, CountedFinite, FS_AddElement
<1>5. Cardinality(T) <= Cardinality(Callers)
  BY CallersAssumption, FS_Subset
<1>6. Cardinality(S) + 1 \in 0 .. CounterMod - 1
  BY <1>4, <1>5, CountedFinite, CounterAssumption, CallersAssumption, FS_CardinalityType
<1>7. fOutstandingCommands' = Cardinality(S) + 1
  BY <1>3, <1>6, ModSmall DEF IncStore, StoreCounter
<1> QED
  BY <1>4, <1>7

(* The same for the -- of a call on any of its ways out.                     *)
LEMMA DecrementExact ==
  ASSUME IInv, NEW c \in Callers, DecStore(c)
  PROVE  CounterExact'
<1> SUFFICES ASSUME ~lost'
             PROVE  fOutstandingCommands' = Cardinality({d \in Callers : pc'[d] \in Counted})
  BY DEF CounterExact
<1> USE DEF IInv, TypeOK
<1> DEFINE S == CountedCallers
           T == {d \in Callers : pc'[d] \in Counted}
<1>1. pc[c] = "decStore" /\ pc' = [pc EXCEPT ![c] = "idle"]
  BY DEF DecStore, StoreCounter, Goto
<1>2. c \in S /\ T = S \ {c}
  BY <1>1 DEF CountedCallers, Counted, Committed, Ladder
<1>3. register[c] = Cardinality(S)
  BY DEF DecStore, StoreCounter, CounterExact, CountedCallers
<1>4. Cardinality(T) = Cardinality(S) - 1
  BY <1>2, CountedFinite, FS_RemoveElement
<1>5. Cardinality(T) \in Nat
  BY <1>2, CountedFinite, FS_RemoveElement, FS_CardinalityType
<1>6. Cardinality(S) + (-1) \in 0 .. CounterMod - 1
  BY <1>4, <1>5, CountedFinite, CounterModPositive
<1>7. fOutstandingCommands' = Cardinality(S) - 1
  BY <1>3, <1>6, CountedFinite, ModSmall DEF DecStore, StoreCounter
<1> QED
  BY <1>4, <1>7

(* The steps that touch the counter, whatever other updates are under way.    *)
LEMMA CounterStep ==
  ASSUME IInv, TypeOK', NEW c \in Callers,
         IncLoad(c) \/ IncStore(c) \/ DecLoad(c) \/ DecStore(c)
  PROVE  IInv'
<1> USE DEF IInv, TypeOK
<1>1. PICK to \in {"incStore", "checkInactive", "decStore", "idle"} :
        /\ pc' = [pc EXCEPT ![c] = to]
        /\ to = "incStore" => pc[c] = "incLoad"
        /\ to = "checkInactive" => pc[c] = "incStore"
        /\ to = "decStore" => pc[c] = "decLoad"
        /\ to = "idle" => pc[c] = "decStore"
  BY DEF IncLoad, IncStore, DecLoad, DecStore, LoadCounter, StoreCounter, Goto
<1>2. UNCHANGED serviceVars /\ (Orderly' => Orderly)
  BY DEF IncLoad, IncStore, DecLoad, DecStore, LoadCounter, StoreCounter, counterVars, Orderly
<1>3. CounterExact'
  <2>1. CASE IncLoad(c) \/ DecLoad(c)
    <3>1. \A d \in Callers : pc'[d] \in Counted <=> pc[d] \in Counted
      BY <2>1 DEF IncLoad, DecLoad, LoadCounter, Goto, Counted, Committed, Ladder
    <3>2. UNCHANGED <<fOutstandingCommands, lost>>
      BY <2>1 DEF IncLoad, DecLoad, LoadCounter, counterVars
    <3> QED
      BY <3>1, <3>2, CountKept
  <2> QED
    BY <2>1, IncrementExact, DecrementExact
<1>4. StartOfTermination'
  BY <1>2 DEF StartOfTermination, serviceVars
<1>5. ASSUME Orderly' PROVE InOrder'
  <2>1. InOrder
    BY <1>2, <1>5
  <2>2. NobodyEnters' /\ NoPanic'
    BY <1>1, <1>2, <2>1 DEF InOrder, NobodyEnters, NoPanic, Entering, serviceVars
  <2>3. Kept'
    BY <1>2, <2>1 DEF InOrder, Kept, serviceVars
  <2>4. Drained'
    <3>1. \A d \in Callers : pc'[d] \in Committed => pc[d] \in Committed
      BY <1>1 DEF Committed, Ladder
    <3>2. closing => \A d \in Callers : pc'[d] \in Counted => pc[d] \in Counted
      BY <1>1, <2>1 DEF InOrder, NobodyEnters, Entering, Counted, Committed, Ladder
    <3>3. tpc["clientClose"] \in Past => closing
      BY DEF StartOfTermination, Past
    <3> QED
      BY <1>2, <2>1, <3>1, <3>2, <3>3 DEF InOrder, Drained, serviceVars
  <2> QED
    BY <2>2, <2>3, <2>4 DEF InOrder
<1> QED
  BY <1>3, <1>4, <1>5

(* The isInactive test lets a call in only while no thread is past its        *)
(* polling: message has not started, and clientClose waits for this call.    *)
LEMMA CheckInactiveStep ==
  ASSUME IInv, TypeOK', NEW c \in Callers, CheckInactive(c)
  PROVE  IInv'
<1> USE DEF IInv, TypeOK
<1>1. PICK to \in {"decLoad", "retainProvider"} :
        pc' = [pc EXCEPT ![c] = to] /\ (to = "retainProvider" => ~inactive)
  BY DEF CheckInactive, Goto
<1>2. pc[c] = "checkInactive" /\ UNCHANGED <<counterVars, serviceVars>>
  BY DEF CheckInactive, Goto
<1>3. \A d \in Callers : pc'[d] \in Counted <=> pc[d] \in Counted
  BY <1>1, <1>2 DEF Counted, Committed
<1>4. CounterExact'
  BY <1>2, <1>3, CountKept DEF counterVars
<1>5. StartOfTermination'
  BY <1>2 DEF StartOfTermination, serviceVars
<1>6. ASSUME Orderly' PROVE InOrder'
  <2>1. InOrder
    BY <1>2, <1>6 DEF Orderly, counterVars
  <2>2. NobodyEnters' /\ NoPanic' /\ Kept'
    BY <1>1, <1>2, <2>1 DEF InOrder, NobodyEnters, NoPanic, Kept, Entering, serviceVars
  <2>3. CASE to = "decLoad"
    <3>1. Drained'
      BY <1>1, <1>2, <1>3, <2>1, <2>3 DEF InOrder, Drained, serviceVars, Committed, Ladder
    <3> QED
      BY <2>2, <3>1 DEF InOrder
  <2>4. CASE to = "retainProvider"
    <3>1. tpc["message"] = "idle" /\ tpc["clientClose"] \notin Past
      BY <1>1, <1>2, <2>1, <2>4 DEF StartOfTermination, InOrder, Drained, Counted
    <3>2. Drained'
      BY <1>2, <3>1 DEF Drained, serviceVars, Past, Terminators
    <3> QED
      BY <2>2, <3>2 DEF InOrder
  <2> QED
    BY <1>1, <2>3, <2>4
<1> QED
  BY <1>4, <1>5, <1>6

(* A new call changes nothing the invariant counts; one that comes after the  *)
(* close is late.                                                            *)
LEMMA CallKeeps ==
  ASSUME IInv, TypeOK', NEW c \in Callers, Call(c)
  PROVE  IInv'
<1> USE DEF IInv, TypeOK
<1>1. /\ pc[c] = "idle" /\ pc' = [pc EXCEPT ![c] = "incLoad"]
      /\ late' = (late \/ closing)
      /\ UNCHANGED <<fOutstandingCommands, lost, serviceVars>>
  BY DEF Call, Goto
<1>2. \A d \in Callers : pc'[d] \in Counted <=> pc[d] \in Counted
  BY <1>1 DEF Counted, Committed, Ladder
<1>3. CounterExact' /\ StartOfTermination'
  BY <1>1, <1>2, CountKept DEF StartOfTermination, serviceVars
<1>4. ASSUME Orderly' PROVE InOrder'
  <2>1. InOrder /\ ~closing'
    BY <1>1, <1>4 DEF Orderly, serviceVars
  <2>2. NobodyEnters' /\ NoPanic' /\ Kept'
    BY <1>1, <2>1 DEF InOrder, NobodyEnters, NoPanic, Kept, serviceVars
  <2>3. Drained'
    BY <1>1, <1>2, <2>1 DEF InOrder, Drained, serviceVars, Committed, Ladder
  <2> QED
    BY <2>2, <2>3 DEF InOrder
<1> QED
  BY <1>3, <1>4

(* A step of HandleTerminate.  Only Drain comes past the polling, and an      *)
(* exact counter of zero leaves no call to disturb.                          *)
LEMMA TerminateStep ==
  ASSUME IInv, TypeOK', NEW t \in Terminators, HandleTerminate(t)
  PROVE  IInv'
<1> USE DEF IInv, TypeOK
<1>1. UNCHANGED <<pc, counterVars, closing, inactive>>
  BY DEF HandleTerminate, Drain, IsOpen, Close, Detach, ClearProvider, callVars
<1>2. PICK to \in Past : tpc' = [tpc EXCEPT ![t] = to] /\ tpc[t] # "idle"
  BY DEF HandleTerminate, Drain, IsOpen, Close, Detach, ClearProvider, TGoto, Past
<1>3. CounterExact' /\ StartOfTermination'
  BY <1>1, <1>2 DEF CounterExact, StartOfTermination, Terminators, counterVars
<1>4. ASSUME Orderly' PROVE InOrder'
  <2>1. InOrder /\ ~lost
    BY <1>1, <1>4 DEF Orderly, counterVars
  <2>2. NobodyEnters' /\ NoPanic'
    BY <1>1, <2>1 DEF InOrder, NobodyEnters, NoPanic
  <2>3. Kept'
    BY <1>2 DEF Kept
  <2>4. Drained'
    <3>1. CASE Drain(t)
      <4>1. Cardinality(CountedCallers) = 0
        BY <2>1, <3>1 DEF Drain, CounterExact, CountedCallers
      <4>2. CountedCallers = {}
        BY <4>1, CountedFinite, FS_EmptySet
      <4> QED
        BY <1>1, <4>2 DEF Drained, CountedCallers, Counted
    <3>2. CASE ~Drain(t)
      <4>1. tpc[t] \in Past
        BY <3>2 DEF HandleTerminate, IsOpen, Close, Detach, ClearProvider, TGoto, Past
      <4> QED
        BY <1>1, <1>2, <2>1, <4>1 DEF InOrder, Drained, Terminators
    <3> QED
      BY <3>1, <3>2
  <2> QED
    BY <2>2, <2>3, <2>4 DEF InOrder
<1> QED
  BY <1>3, <1>4

(* A step of IOKit, or one of clientClose outside HandleTerminate.            *)
LEMMA ServiceStep ==
  ASSUME IInv, TypeOK',
         TerminateNub \/ TerminateClient \/ Message \/ ClientClose \/ LoadProvider
  PROVE  IInv'
<1> USE DEF IInv, TypeOK
<1>1. UNCHANGED <<pc, fOutstandingCommands, lost, fProvider, opened, attached>>
  BY DEF TerminateNub, TerminateClient, Message, ClientClose, LoadProvider, callVars,
     counterVars
<1>2. CounterExact' /\ (Orderly' => Orderly)
  BY <1>1 DEF CounterExact, Orderly, TerminateNub, TerminateClient, Message, ClientClose,
     LoadProvider, counterVars
<1>3. CASE TerminateNub \/ TerminateClient
  BY <1>1, <1>2, <1>3 DEF TerminateNub, TerminateClient, StartOfTermination, InOrder,
     NobodyEnters, Kept, Drained, NoPanic
<1>4. CASE Message
  BY <1>1, <1>2, <1>4 DEF Message, TGoto, StartOfTermination, InOrder, NobodyEnters, Kept,
     Drained, NoPanic, Past, Terminators
<1>5. CASE ClientClose
  <2>1. PICK to \in {"load", "done"} :
          /\ tpc["clientClose"] = "idle" /\ tpc' = [tpc EXCEPT !["clientClose"] = to]
          /\ to = "done" => ~fProvider
    BY <1>5 DEF ClientClose, TGoto
  <2>2. closing' = TRUE /\ inactive' = inactive
    BY <1>5 DEF ClientClose
  <2>3. StartOfTermination'
    BY <2>1, <2>2 DEF StartOfTermination, Terminators
  <2>4. ASSUME Orderly' PROVE InOrder'
    <3>1. InOrder /\ \A c \in Callers : pc[c] \notin Entering
      BY <1>2, <1>5, <2>4 DEF ClientClose, Orderly
    <3>2. NobodyEnters' /\ NoPanic' /\ Kept'
      BY <1>1, <2>1, <3>1 DEF InOrder, NobodyEnters, NoPanic, Kept, Past, Terminators
    <3>3. Drained'
      <4>1. CASE to = "load"
        BY <1>1, <2>1, <2>2, <3>1, <4>1 DEF InOrder, Drained, Past, Terminators
      <4>2. CASE to = "done"
        <5>1. tpc["message"] \in Past
          BY <2>1, <3>1, <4>2 DEF InOrder, Kept, Past, Terminators
        <5>2. inactive /\ \A c \in Callers : pc[c] \notin Committed
          BY <3>1, <5>1 DEF StartOfTermination, InOrder, Drained, Past, Terminators
        <5> QED
          BY <1>1, <2>2, <5>2 DEF Drained
      <4> QED
        BY <2>1, <4>1, <4>2
    <3> QED
      BY <3>2, <3>3 DEF InOrder
  <2> QED
    BY <1>2, <2>3, <2>4
<1>6. CASE LoadProvider
  <2>1. PICK to \in {"drain", "panic"} :
          tpc["clientClose"] = "load" /\ tpc' = [tpc EXCEPT !["clientClose"] = to]
    BY <1>6 DEF LoadProvider, TGoto
  <2>2. UNCHANGED <<closing, inactive>>
    BY <1>6 DEF LoadProvider
  <2> QED
    BY <1>1, <1>2, <2>1, <2>2 DEF StartOfTermination, InOrder, NobodyEnters, Kept, Drained,
       NoPanic, Past, Terminators
<1> QED
  BY <1>3, <1>4, <1>5, <1>6

(* Every step of a call past its isInactive test is a private one.           *)
LEMMA CommittedStep ==
  ASSUME IInv, TypeOK', NEW c \in Callers, CallStep(c), pc[c] \in Committed
  PROVE  IInv'
<1> USE DEF Goto
<1>1. UNCHANGED <<counterVars, serviceVars>>
  BY DEF CallStep, IncLoad, IncStore, CheckInactive, RetainProvider, AllocateCommand,
     PrepareBuffer, SendSMARTCommand, Forward, DriverRejects, DriverCompletes, WaitForCommand,
     ReleaseResources, ReleaseProvider, DecLoad, DecStore, LoadCounter, StoreCounter,
     Committed, Ladder
<1>2. \E to \in Committed \cup {"decLoad", "panic"} :
        pc' = [pc EXCEPT ![c] = to] /\ (to = "panic" => ~fProvider)
  <2> USE DEF Committed, Ladder, AfterSend
  <2>1. CASE RetainProvider(c) \/ AllocateCommand(c) \/ PrepareBuffer(c)
    BY <2>1 DEF RetainProvider, AllocateCommand, PrepareBuffer
  <2>2. CASE SendSMARTCommand(c) \/ Forward(c)
    BY <2>2 DEF SendSMARTCommand, Forward
  <2>3. CASE DriverRejects(c) \/ DriverCompletes(c) \/ WaitForCommand(c)
    BY <2>3 DEF DriverRejects, DriverCompletes, WaitForCommand
  <2>4. CASE ReleaseResources(c) \/ ReleaseProvider(c)
    BY <2>4 DEF ReleaseResources, ReleaseProvider
  <2>5. CASE IncLoad(c) \/ IncStore(c) \/ CheckInactive(c) \/ DecLoad(c) \/ DecStore(c)
    BY <2>5 DEF IncLoad, IncStore, CheckInactive, DecLoad, DecStore, LoadCounter, StoreCounter
  <2> QED
    BY <2>1, <2>2, <2>3, <2>4, <2>5 DEF CallStep
<1> QED
  BY <1>1, <1>2, PrivateStep

(* Every step of every thread keeps the invariant.                           *)
LEMMA InvariantKept ==
  ASSUME IInv, TypeOK', [Next]_vars
  PROVE  IInv'
<1>1. ASSUME NEW c \in Callers, Call(c) PROVE IInv'
  BY <1>1, CallKeeps
<1>2. ASSUME NEW c \in Callers, CallStep(c) PROVE IInv'
  <2>1. CASE pc[c] \in Committed
    BY <1>2, <2>1, CommittedStep
  <2>2. CASE IncLoad(c) \/ IncStore(c) \/ DecLoad(c) \/ DecStore(c)
    BY <2>2, CounterStep
  <2>3. CASE CheckInactive(c)
    BY <2>3, CheckInactiveStep
  <2>4. pc[c] \in Committed \/ CheckInactive(c)
          \/ IncLoad(c) \/ IncStore(c) \/ DecLoad(c) \/ DecStore(c)
    BY <1>2 DEF CallStep, Goto, RetainProvider, AllocateCommand, PrepareBuffer,
       SendSMARTCommand, Forward, DriverRejects, DriverCompletes, WaitForCommand,
       ReleaseResources, ReleaseProvider, Committed
  <2> QED
    BY <2>1, <2>2, <2>3, <2>4
<1>3. ASSUME NEW t \in Terminators, HandleTerminate(t) PROVE IInv'
  BY <1>3, TerminateStep
<1>4. CASE UNCHANGED vars
  BY <1>4 DEF IInv, vars, callVars, counterVars, serviceVars, CounterExact, Orderly, InOrder,
     NobodyEnters, StartOfTermination, Drained, Kept, NoPanic
<1> QED
  BY <1>1, <1>2, <1>3, <1>4, ServiceStep DEF Next

(* The invariant holds when start() of the user client has succeeded.        *)
LEMMA InvariantInitially == Init => IInv
<1> SUFFICES ASSUME Init PROVE IInv
  OBVIOUS
<1>1. TypeOK
  BY TypeInitially
<1>2. CounterExact
  <2>1. {c \in Callers : pc[c] \in Counted} = {}
    BY DEF Init, Counted, Committed, Ladder
  <2> QED
    BY <2>1, FS_EmptySet DEF Init, CounterExact
<1>3. StartOfTermination /\ NobodyEnters /\ NoPanic
  BY DEF Init, StartOfTermination, NobodyEnters, NoPanic, Terminators
<1>4. Kept /\ Drained
  BY DEF Init, Kept, Drained, Terminators, Past
<1> QED
  BY <1>1, <1>2, <1>3, <1>4 DEF IInv, InOrder

(* The invariant holds in every behaviour of the user client, those in which  *)
(* updates of the counter overlap and the task closes late included.         *)
THEOREM InvariantCorrect == Spec => []IInv
<1>1. Init => IInv
  BY InvariantInitially
<1>2. IInv /\ TypeOK' /\ [Next]_vars => IInv'
  BY InvariantKept
<1>3. IInv => TypeOK
  BY DEF IInv
<1> QED
  BY <1>1, <1>2, <1>3, TypeCorrect, PTL DEF Spec

(* No thread that tears the client down takes the nub from under a call past  *)
(* its isInactive test, however many calls there are and however many of them *)
(* are in progress when it starts, up to the first lost update or late call.  *)
THEOREM ConnectionKept == Spec => []CallKeepsConnection
<1>1. IInv => CallKeepsConnection
  BY CommittedConnected DEF CallKeepsConnection, KeepsConnection, IInv, InOrder, NoPanic
<1> QED
  BY <1>1, InvariantCorrect, PTL

(* fOutstandingCommands is the number of calls in progress, for any number of *)
(* callers below 2^32 and in every interleaving of their ++ and --, until a   *)
(* store first overwrites another thread's.                                  *)
THEOREM CountCorrect == Spec => []CounterExact
<1>1. IInv => CounterExact
  BY DEF IInv
<1> QED
  BY <1>1, InvariantCorrect, PTL

(* A task with a single thread, as the command line tools are, never gets     *)
(* there: every store finds the counter as its load left it, whatever IOKit   *)
(* does meanwhile, so that its count is exact for good.                      *)
THEOREM SingleThreadLosesNothing ==
  ASSUME \A c, d \in Callers : c = d
  PROVE  Spec => []~lost
<1> DEFINE Fresh == \A c \in Callers : pc[c] \in {"incStore", "decStore"} =>
                                         register[c] = fOutstandingCommands
           Inv == ~lost /\ Fresh
<1>1. Init => Inv
  BY DEF Init
<1>2. Inv /\ TypeOK /\ [Next]_vars => Inv'
  <2> SUFFICES ASSUME Inv, TypeOK, [Next]_vars PROVE Inv'
    OBVIOUS
  <2> USE DEF TypeOK, Goto
  <2>1. ASSUME NEW c \in Callers, Call(c) PROVE Inv'
    BY <2>1 DEF Call
  <2>2. ASSUME NEW c \in Callers, IncLoad(c) \/ DecLoad(c) PROVE Inv'
    BY <2>2 DEF IncLoad, DecLoad, LoadCounter, counterVars
  <2>3. ASSUME NEW c \in Callers, IncStore(c) \/ DecStore(c) PROVE Inv'
    <3>1. pc[c] \in {"incStore", "decStore"} /\ pc'[c] \notin {"incStore", "decStore"}
      BY <2>3 DEF IncStore, DecStore, StoreCounter
    <3>2. ~lost'
      BY <2>3, <3>1 DEF IncStore, DecStore, StoreCounter
    <3>3. Fresh'
      BY <3>1
    <3> QED
      BY <3>2, <3>3
  <2>4. ASSUME NEW c \in Callers, CallStep(c),
               ~(IncLoad(c) \/ DecLoad(c) \/ IncStore(c) \/ DecStore(c))
        PROVE  Inv'
    <3>1. UNCHANGED <<register, fOutstandingCommands, lost>>
      BY <2>4 DEF CallStep, CheckInactive, RetainProvider, AllocateCommand, PrepareBuffer,
         SendSMARTCommand, Forward, DriverRejects, DriverCompletes, WaitForCommand,
         ReleaseResources, ReleaseProvider, counterVars
    <3>2. pc'[c] \notin {"incStore", "decStore"}
      BY <2>4 DEF CallStep, CheckInactive, RetainProvider, AllocateCommand, PrepareBuffer,
         SendSMARTCommand, Forward, DriverRejects, DriverCompletes, WaitForCommand,
         ReleaseResources, ReleaseProvider, AfterSend
    <3> QED
      BY <3>1, <3>2
  <2>5. CASE UNCHANGED <<callVars, fOutstandingCommands, lost>>
    BY <2>5 DEF callVars
  <2>6. \/ \E c \in Callers : Call(c) \/ CallStep(c)
        \/ UNCHANGED <<callVars, fOutstandingCommands, lost>>
    BY DEF Next, vars, counterVars, TerminateNub, TerminateClient, Message, ClientClose,
       LoadProvider, HandleTerminate, Drain, IsOpen, Close, Detach, ClearProvider
  <2> QED
    BY <2>1, <2>2, <2>3, <2>4, <2>5, <2>6
<1> QED
  BY <1>1, <1>2, TypeCorrect, PTL DEF Spec
-------------------------------------------------------------------------------
(* What a call holds at each label of its method, orderly or not: a panic     *)
(* ends it, and nothing else another thread does reaches what it holds.       *)
Sending == {"send", "forward", "driver", "wait"}

Owns(c, r) ==
  \/ r = "provider" /\ pc[c] \in Committed \ {"retainProvider"}
  \/ r = "self" /\ pc[c] \in {"forward", "driver"}
  \/ r = "command" /\ pc[c] \in Sending \cup Ladder \cup {"prepareBuffer"}
  \/ r \in {"buffer", "prepared"} /\ pc[c] = "completeBuffer"
  \/ r \in {"buffer", "prepared"} /\ pc[c] \in Sending /\ hasBuffer[c]
  \/ r = "buffer" /\ pc[c] = "releaseBuffer"

HoldsOwned(c) ==
  /\ pc[c] # "panic" => \A r \in Resources : held[c][r] = IF Owns(c, r) THEN 1 ELSE 0
  /\ pc[c] = "prepareBuffer" => hasBuffer[c]

RInv == TypeOK /\ \A c \in Callers : HoldsOwned(c)

(* Taking and giving back raise and lower one caller's counts by one.         *)
LEMMA AddCounts ==
  ASSUME held \in [Callers -> [Resources -> Int]], NEW c \in Callers, NEW rs, NEW r \in Resources
  PROVE  /\ Take(c, rs) => held'[c][r] = IF r \in rs THEN held[c][r] + 1 ELSE held[c][r]
         /\ Give(c, rs) => held'[c][r] = IF r \in rs THEN held[c][r] - 1 ELSE held[c][r]
BY DEF Take, Give, Add

(* A step of one call leaves the others with what they hold.                  *)
LEMMA OthersHold ==
  ASSUME TypeOK, NEW c \in Callers, Call(c) \/ CallStep(c), NEW d \in Callers, d # c
  PROVE  pc'[d] = pc[d] /\ hasBuffer'[d] = hasBuffer[d] /\ held'[d] = held[d]
<1> USE DEF TypeOK, Goto, Take, Give, Add, ForgetBuffer
<1>1. CASE Call(c)
  BY <1>1 DEF Call
<1>2. CASE IncLoad(c) \/ IncStore(c) \/ DecLoad(c) \/ DecStore(c) \/ CheckInactive(c)
  BY <1>2 DEF IncLoad, IncStore, DecLoad, DecStore, LoadCounter, StoreCounter, CheckInactive
<1>3. CASE RetainProvider(c) \/ AllocateCommand(c) \/ PrepareBuffer(c)
  BY <1>3 DEF RetainProvider, AllocateCommand, PrepareBuffer
<1>4. CASE SendSMARTCommand(c) \/ Forward(c)
  BY <1>4 DEF SendSMARTCommand, Forward
<1>5. CASE DriverRejects(c) \/ DriverCompletes(c) \/ WaitForCommand(c)
  BY <1>5 DEF DriverRejects, DriverCompletes, WaitForCommand
<1>6. CASE ReleaseResources(c) \/ ReleaseProvider(c)
  BY <1>6 DEF ReleaseResources, ReleaseProvider
<1> QED
  BY <1>1, <1>2, <1>3, <1>4, <1>5, <1>6 DEF CallStep

(* A call moves along its method holding at every label what that label owns. *)
LEMMA CallHolds ==
  ASSUME RInv, NEW c \in Callers, Call(c) \/ CallStep(c)
  PROVE  HoldsOwned(c)'
<1>1. TypeOK /\ HoldsOwned(c)
  BY DEF RInv
<1> USE DEF Goto
<1>2. /\ \A rs : \A r \in Resources :
             Take(c, rs) => held'[c][r] = IF r \in rs THEN held[c][r] + 1 ELSE held[c][r]
      /\ \A rs : \A r \in Resources :
             Give(c, rs) => held'[c][r] = IF r \in rs THEN held[c][r] - 1 ELSE held[c][r]
  BY <1>1, AddCounts DEF TypeOK
<1>3. CASE Call(c) \/ IncLoad(c) \/ IncStore(c) \/ DecLoad(c) \/ DecStore(c) \/ CheckInactive(c)
  <2> DEFINE outside == {"idle", "incLoad", "incStore", "checkInactive", "retainProvider",
                         "decLoad", "decStore"}
  <2>1. pc[c] \in outside /\ pc'[c] \in outside /\ held' = held
    BY <1>1, <1>3 DEF Call, IncLoad, IncStore, DecLoad, DecStore, LoadCounter, StoreCounter,
       CheckInactive, TypeOK
  <2>2. \A r \in Resources : ~Owns(c, r) /\ ~Owns(c, r)'
    BY <2>1 DEF Owns, Committed, Ladder, Sending
  <2>3. pc[c] # "panic" /\ pc'[c] # "prepareBuffer"
    BY <2>1
  <2> QED
    BY <1>1, <2>1, <2>2, <2>3 DEF HoldsOwned
<1>4. CASE RetainProvider(c) \/ ReleaseProvider(c)
  <2>1. /\ hasBuffer' = hasBuffer
        /\ \/ pc'[c] = "panic"
           \/ pc[c] = "retainProvider" /\ pc'[c] = "allocate" /\ Take(c, {"provider"})
           \/ pc[c] = "releaseProvider" /\ pc'[c] = "decLoad" /\ Give(c, {"provider"})
    BY <1>1, <1>4 DEF RetainProvider, ReleaseProvider, TypeOK
  <2> QED
    BY <1>1, <1>2, <2>1 DEF HoldsOwned, Owns, Committed, Ladder, Sending
<1>5. CASE AllocateCommand(c)
  <2>1. /\ pc[c] = "allocate"
        /\ \/ /\ pc'[c] = IF hasBuffer[c] THEN "prepareBuffer" ELSE "send"
              /\ Take(c, {"command"}) /\ hasBuffer' = hasBuffer
           \/ pc'[c] = "releaseProvider" /\ held' = held
    BY <1>1, <1>5 DEF AllocateCommand, TypeOK
  <2> QED
    BY <1>1, <1>2, <2>1 DEF HoldsOwned, Owns, Committed, Ladder, Sending
<1>6. CASE PrepareBuffer(c)
  <2>1. /\ pc[c] = "prepareBuffer" /\ hasBuffer' = hasBuffer
        /\ \/ pc'[c] = "send" /\ Take(c, {"buffer", "prepared"})
           \/ pc'[c] = "releaseBuffer" /\ Take(c, {"buffer"})
           \/ pc'[c] = "releaseCommand" /\ held' = held
    BY <1>1, <1>6 DEF PrepareBuffer, TypeOK
  <2> QED
    BY <1>1, <1>2, <2>1 DEF HoldsOwned, Owns, Committed, Ladder, Sending
<1>7. CASE SendSMARTCommand(c)
  <2>1. /\ pc[c] = "send" /\ pc'[c] = "forward" /\ hasBuffer' = hasBuffer
        /\ Take(c, {"self"})
    BY <1>1, <1>7 DEF SendSMARTCommand, TypeOK
  <2> QED
    BY <1>1, <1>2, <2>1 DEF HoldsOwned, Owns, Committed, Ladder, Sending
<1>8. CASE Forward(c) \/ DriverRejects(c) \/ DriverCompletes(c)
  <2>1. /\ pc[c] \in {"forward", "driver"} /\ hasBuffer' = hasBuffer
        /\ \/ pc'[c] = "panic"
           \/ pc'[c] \in {AfterSend(c), "wait"} /\ Give(c, {"self"})
           \/ pc'[c] = "driver" /\ held' = held
    BY <1>1, <1>8 DEF Forward, DriverRejects, DriverCompletes, TypeOK, AfterSend
  <2> QED
    BY <1>1, <1>2, <2>1 DEF HoldsOwned, Owns, Committed, Ladder, Sending, AfterSend
<1>9. CASE WaitForCommand(c)
  <2>1. pc[c] = "wait" /\ pc'[c] = AfterSend(c) /\ hasBuffer' = hasBuffer /\ held' = held
    BY <1>1, <1>9 DEF WaitForCommand, TypeOK, AfterSend
  <2> QED
    BY <1>1, <2>1 DEF HoldsOwned, Owns, Committed, Ladder, Sending, AfterSend
<1>10. CASE ReleaseResources(c)
  <2>1. /\ pc[c] \in Ladder /\ pc'[c] = "releaseProvider"
        /\ Give(c, Below(pc[c]))
    BY <1>1, <1>10 DEF ReleaseResources, TypeOK
  <2>2. \A r \in Resources : r \in Below(pc[c]) <=> Owns(c, r) /\ r # "provider"
    <3>1. CASE pc[c] = "completeBuffer"
      BY <3>1 DEF Below, Owns, Committed, Ladder, Sending, Resources
    <3>2. CASE pc[c] = "releaseBuffer"
      BY <3>2 DEF Below, Owns, Committed, Ladder, Sending, Resources
    <3>3. CASE pc[c] = "releaseCommand"
      BY <3>3 DEF Below, Owns, Committed, Ladder, Sending, Resources
    <3> QED
      BY <2>1, <3>1, <3>2, <3>3 DEF Ladder
  <2>3. \A r \in Resources : held'[c][r] = IF r = "provider" THEN 1 ELSE 0
    BY <1>1, <1>2, <2>1, <2>2 DEF HoldsOwned, Owns, Committed, Ladder
  <2> QED
    BY <2>1, <2>3 DEF HoldsOwned, Owns, Committed, Ladder, Sending
<1> QED
  BY <1>3, <1>4, <1>5, <1>6, <1>7, <1>8, <1>9, <1>10 DEF CallStep

(* Orderly or not, however the calls and the terminations interleave, does a call *)
(* leave anything retained behind, release anything twice, or let the driver   *)
(* work on what it no longer holds.                                          *)
THEOREM ReferencesCorrect == Spec => []ReferencesBalanced
<1>1. Init => RInv
  BY TypeInitially DEF Init, RInv, HoldsOwned, Owns, Nothing, Committed, Ladder, Sending
<1>2. RInv /\ TypeOK' /\ [Next]_vars => RInv'
  <2> SUFFICES ASSUME RInv, TypeOK', [Next]_vars, NEW d \in Callers PROVE HoldsOwned(d)'
    BY DEF RInv
  <2>1. ASSUME NEW c \in Callers, Call(c) \/ CallStep(c) PROVE HoldsOwned(d)'
    <3>1. CASE d = c
      BY <2>1, <3>1, CallHolds
    <3>2. CASE d # c
      <4>1. pc'[d] = pc[d] /\ hasBuffer'[d] = hasBuffer[d] /\ held'[d] = held[d]
        BY <2>1, <3>2, OthersHold DEF RInv
      <4> QED
        BY <4>1 DEF RInv, HoldsOwned, Owns
    <3> QED
      BY <3>1, <3>2
  <2>2. CASE UNCHANGED callVars
    BY <2>2 DEF RInv, HoldsOwned, Owns, callVars
  <2>3. (\E c \in Callers : Call(c) \/ CallStep(c)) \/ UNCHANGED callVars
    BY DEF Next, vars, TerminateNub, TerminateClient, Message, ClientClose, LoadProvider,
       HandleTerminate, Drain, IsOpen, Close, Detach, ClearProvider
  <2> QED
    BY <2>1, <2>2, <2>3
<1>3. RInv => ReferencesBalanced
  <2> SUFFICES ASSUME RInv, NEW c \in Callers
               PROVE /\ pc[c] \in {"idle", "incLoad", "incStore"} => held[c] = Nothing
                     /\ pc[c] = "driver" =>
                          held[c] = [r \in Resources |-> IF r \in Needed(c) THEN 1 ELSE 0]
    BY DEF ReferencesBalanced
  <2>1. held[c] \in [Resources -> Int] /\ HoldsOwned(c)
    BY DEF RInv, TypeOK
  <2>2. ASSUME pc[c] \in {"idle", "incLoad", "incStore"} PROVE held[c] = Nothing
    BY <2>1, <2>2 DEF HoldsOwned, Owns, Nothing, Committed, Ladder, Sending, Resources
  <2>3. ASSUME pc[c] = "driver", NEW r \in Resources PROVE Owns(c, r) <=> r \in Needed(c)
    BY <2>1, <2>3 DEF Owns, Needed, Committed, Ladder, Sending, Resources
  <2> QED
    BY <2>1, <2>2, <2>3 DEF HoldsOwned
<1> QED
  BY <1>1, <1>2, <1>3, TypeCorrect, PTL DEF Spec
===============================================================================
