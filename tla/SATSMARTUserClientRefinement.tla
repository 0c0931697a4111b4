---------------------- MODULE SATSMARTUserClientRefinement ----------------------
(***************************************************************************)
(* SATSMARTUserClient implements SMARTConnection, for any number of callers    *)
(* and in every behaviour: up to the first lost update or late call every step *)
(* of a call or a termination is a step of the connection it stands for, or    *)
(* none; from there on the promise is void.                                  *)
(***************************************************************************)
EXTENDS SATSMARTUserClientProofs

\* The answer the task would get of call c if it looked now.
AnswerOf(c) == IF pc[c] = "wait" THEN StatusOf(result[c]) ELSE status[c]

phaseBar == [c \in Callers |-> Phase(c)]
answerBar == [c \in Callers |-> AnswerOf(c)]

(* A step of one call is seen by nobody who asks for another.                 *)
LEMMA OthersAnswered ==
  ASSUME TypeOK, NEW c \in Callers, Call(c) \/ CallStep(c), NEW d \in Callers, d # c
  PROVE  pc'[d] = pc[d] /\ result'[d] = result[d] /\ status'[d] = status[d]
<1> USE DEF TypeOK, Goto, SetStatus
<1>1. CASE Call(c)
  BY <1>1 DEF Call
<1>2. CASE IncLoad(c) \/ IncStore(c) \/ DecLoad(c) \/ DecStore(c) \/ CheckInactive(c)
  BY <1>2 DEF IncLoad, IncStore, DecLoad, DecStore, LoadCounter, StoreCounter, CheckInactive
<1>3. CASE RetainProvider(c) \/ AllocateCommand(c) \/ PrepareBuffer(c)
  BY <1>3 DEF RetainProvider, AllocateCommand, PrepareBuffer
<1>4. CASE SendSMARTCommand(c) \/ Forward(c)
  BY <1>4 DEF SendSMARTCommand, Forward
<1>5. CASE DriverRejects(c) \/ DriverCompletes(c) \/ WaitForCommand(c)
  BY <1>5 DEF DriverRejects, DriverCompletes, WaitForCommand
<1>6. CASE ReleaseResources(c) \/ ReleaseProvider(c)
  BY <1>6 DEF ReleaseResources, ReleaseProvider
<1> QED
  BY <1>1, <1>2, <1>3, <1>4, <1>5, <1>6 DEF CallStep

(* So the mapped state changes at the caller only.                            *)
LEMMA MapsAtCaller ==
  ASSUME TypeOK, NEW c \in Callers, Call(c) \/ CallStep(c)
  PROVE  /\ phaseBar' = [phaseBar EXCEPT ![c] = Phase(c)']
         /\ answerBar' = [answerBar EXCEPT ![c] = AnswerOf(c)']
<1>1. \A d \in Callers : d # c => Phase(d)' = Phase(d) /\ AnswerOf(d)' = AnswerOf(d)
  BY OthersAnswered DEF Phase, AnswerOf
<1> QED
  BY <1>1 DEF phaseBar, answerBar

(* What a step of a call is to the task: nothing; a request; a refusal; the way *)
(* to the driver, which is open then; its answer; or the return.              *)
StepMaps(c) ==
  /\ opened' = opened
  /\ \/ Phase(c)' = Phase(c) /\ AnswerOf(c)' = AnswerOf(c)
     \/ Phase(c) = "idle" /\ Phase(c)' = "requested" /\ AnswerOf(c)' = NoStatus
     \/ Phase(c) = "requested" /\ Phase(c)' = "answered" /\ AnswerOf(c)' \in Refusals
     \/ opened /\ Phase(c) = "requested" /\ Phase(c)' = "running" /\ AnswerOf(c)' = AnswerOf(c)
     \/ Phase(c) = "running" /\ Phase(c)' = "answered" /\ AnswerOf(c)' \in Outcomes
     \/ Phase(c) = "answered" /\ Phase(c)' = "idle" /\ AnswerOf(c)' = NoStatus

LEMMA CallMaps ==
  ASSUME IInv, Orderly, NEW c \in Callers, Call(c) \/ CallStep(c)
  PROVE  StepMaps(c)
<1>1. TypeOK /\ (pc[c] \in Committed => fProvider /\ opened)
  BY CommittedConnected DEF IInv
<1> USE DEF Goto, SetStatus, StepMaps, TypeOK
<1>2. opened' = opened
  BY DEF CallStep, Call, IncLoad, IncStore, DecLoad, DecStore, LoadCounter, StoreCounter,
     CheckInactive, RetainProvider, AllocateCommand, PrepareBuffer, SendSMARTCommand, Forward,
     DriverRejects, DriverCompletes, WaitForCommand, ReleaseResources, ReleaseProvider,
     serviceVars
<1>3. CASE Call(c)
  <2>1. pc[c] = "idle" /\ pc'[c] = "incLoad" /\ status'[c] = NoStatus
    BY <1>1, <1>3 DEF Call
  <2> QED
    BY <1>2, <2>1 DEF Phase, AnswerOf
<1>4. CASE IncLoad(c) \/ IncStore(c) \/ DecLoad(c) \/ DecStore(c)
  <2>1. \/ pc[c] = "decStore" /\ pc'[c] = "idle" /\ status'[c] = NoStatus
        \/ /\ status'[c] = status[c]
           /\ \/ pc[c] = "incLoad" /\ pc'[c] = "incStore"
              \/ pc[c] = "incStore" /\ pc'[c] = "checkInactive"
              \/ pc[c] = "decLoad" /\ pc'[c] = "decStore"
    BY <1>1, <1>4 DEF IncLoad, IncStore, DecLoad, DecStore, LoadCounter, StoreCounter
  <2> QED
    BY <1>2, <2>1 DEF Phase, AnswerOf
<1>5. CASE CheckInactive(c) \/ RetainProvider(c) \/ AllocateCommand(c) \/ PrepareBuffer(c)
  <2> DEFINE before == {"checkInactive", "retainProvider", "allocate", "prepareBuffer", "send"}
             after == {"decLoad", "releaseProvider", "releaseBuffer", "releaseCommand"}
  <2>1. /\ pc[c] \in before
        /\ \/ pc'[c] \in before /\ status'[c] = status[c]
           \/ pc'[c] \in after /\ status'[c] \in Refusals
    <3>1. CASE CheckInactive(c) \/ RetainProvider(c)
      BY <1>1, <3>1 DEF CheckInactive, RetainProvider, Refusals, Committed
    <3>2. CASE AllocateCommand(c) \/ PrepareBuffer(c)
      BY <1>1, <3>2 DEF AllocateCommand, PrepareBuffer, Refusals
    <3> QED
      BY <1>5, <3>1, <3>2
  <2> QED
    BY <1>2, <2>1 DEF Phase, AnswerOf
<1>6. CASE SendSMARTCommand(c)
  <2>1. pc[c] = "send" /\ pc'[c] = "forward" /\ status'[c] = status[c]
    BY <1>1, <1>6 DEF SendSMARTCommand
  <2> QED
    BY <1>2, <2>1 DEF Phase, AnswerOf
<1>7. CASE Forward(c)
  <2>1. /\ pc[c] = "forward" /\ opened
        /\ \/ pc'[c] = "driver" /\ status'[c] = status[c]
           \/ pc'[c] = AfterSend(c) /\ status'[c] \in Refusals
    BY <1>1, <1>7 DEF Forward, Refusals, Committed, AfterSend
  <2> QED
    BY <1>2, <2>1 DEF Phase, AnswerOf, AfterSend
<1>8. CASE DriverRejects(c)
  <2>1. pc[c] = "driver" /\ pc'[c] = AfterSend(c) /\ status'[c] \in Outcomes
    BY <1>1, <1>8 DEF DriverRejects, Outcomes, AfterSend
  <2> QED
    BY <1>2, <2>1 DEF Phase, AnswerOf, AfterSend
<1>9. CASE DriverCompletes(c)
  <2>1. pc[c] = "driver" /\ pc'[c] = "wait" /\ StatusOf(result'[c]) \in Outcomes
    BY <1>1, <1>9 DEF DriverCompletes, StatusOf, Outcomes
  <2> QED
    BY <1>2, <2>1 DEF Phase, AnswerOf
<1>10. CASE WaitForCommand(c)
  <2>1. pc[c] = "wait" /\ pc'[c] = AfterSend(c) /\ status'[c] = StatusOf(result[c])
    BY <1>1, <1>10 DEF WaitForCommand, AfterSend
  <2> QED
    BY <1>2, <2>1 DEF Phase, AnswerOf, AfterSend
<1>11. CASE ReleaseResources(c) \/ ReleaseProvider(c)
  <2>1. /\ pc[c] \in Ladder \cup {"releaseProvider"}
        /\ pc'[c] \in {"releaseProvider", "decLoad"}
        /\ status'[c] = status[c]
    BY <1>1, <1>11 DEF ReleaseResources, ReleaseProvider, Committed
  <2> QED
    BY <1>2, <2>1 DEF Phase, AnswerOf, Ladder
<1> QED
  BY <1>3, <1>4, <1>5, <1>6, <1>7, <1>8, <1>9, <1>10, <1>11 DEF CallStep

(* The steps of the calls are steps of the connection.                        *)
LEMMA CallImplements ==
  ASSUME IInv, Orderly, Orderly', NEW c \in Callers, Call(c) \/ CallStep(c)
  PROVE  Connection!Next \/ UNCHANGED Connection!vars
<1>1. StepMaps(c)
  BY CallMaps
<1>2. /\ phaseBar' = [phaseBar EXCEPT ![c] = Phase(c)']
      /\ answerBar' = [answerBar EXCEPT ![c] = AnswerOf(c)']
  BY MapsAtCaller DEF IInv
<1>3. phaseBar[c] = Phase(c) /\ answerBar[c] = AnswerOf(c)
  BY DEF phaseBar, answerBar
<1> USE DEF StepMaps, Connection!Advance, Connection!Answer
<1>4. CASE Phase(c)' = Phase(c) /\ AnswerOf(c)' = AnswerOf(c)
  <2>1. phaseBar' = phaseBar /\ answerBar' = answerBar
    BY <1>2, <1>3, <1>4 DEF phaseBar, answerBar
  <2> QED
    BY <1>1, <2>1 DEF Connection!vars, phaseBar, answerBar, AnswerOf
<1>5. CASE Phase(c) = "idle" /\ Phase(c)' = "requested" /\ AnswerOf(c)' = NoStatus
  <2>1. Connection!Request(c)
    BY <1>1, <1>2, <1>3, <1>5 DEF Connection!Request, phaseBar, answerBar, AnswerOf
  <2> QED
    BY <2>1 DEF Connection!Next
<1>6. CASE Phase(c) = "requested" /\ Phase(c)' = "answered" /\ AnswerOf(c)' \in Refusals
  <2>1. Connection!Refuse(c)
    BY <1>1, <1>2, <1>3, <1>6 DEF Connection!Refuse, phaseBar, answerBar, AnswerOf
  <2> QED
    BY <2>1 DEF Connection!Next
<1>7. CASE /\ opened /\ Phase(c) = "requested"
           /\ Phase(c)' = "running" /\ AnswerOf(c)' = AnswerOf(c)
  <2>1. answerBar' = answerBar
    BY <1>2, <1>3, <1>7 DEF answerBar
  <2>2. Connection!Submit(c)
    BY <1>1, <1>2, <1>3, <1>7, <2>1 DEF Connection!Submit, phaseBar, answerBar, AnswerOf
  <2> QED
    BY <2>2 DEF Connection!Next
<1>8. CASE Phase(c) = "running" /\ Phase(c)' = "answered" /\ AnswerOf(c)' \in Outcomes
  <2>1. Connection!Complete(c)
    BY <1>1, <1>2, <1>3, <1>8 DEF Connection!Complete, phaseBar, answerBar, AnswerOf
  <2> QED
    BY <2>1 DEF Connection!Next
<1>9. CASE Phase(c) = "answered" /\ Phase(c)' = "idle" /\ AnswerOf(c)' = NoStatus
  <2>1. Connection!Return(c)
    BY <1>1, <1>2, <1>3, <1>9 DEF Connection!Return, phaseBar, answerBar, AnswerOf
  <2> QED
    BY <2>1 DEF Connection!Next
<1> QED
  BY <1>1, <1>4, <1>5, <1>6, <1>7, <1>8, <1>9

(* Of the steps of a termination only the close is one of the connection, and   *)
(* it finds no call at the driver.                                           *)
LEMMA ServiceImplements ==
  ASSUME IInv, Orderly, Orderly', UNCHANGED callVars,
         \/ TerminateNub \/ TerminateClient \/ Message \/ ClientClose \/ LoadProvider
         \/ \E t \in Terminators : HandleTerminate(t)
  PROVE  Connection!Next \/ UNCHANGED Connection!vars
<1>1. phaseBar' = phaseBar /\ answerBar' = answerBar
  BY DEF callVars, phaseBar, answerBar, Phase, AnswerOf
<1>2. CASE opened' = opened
  BY <1>1, <1>2 DEF Connection!vars, phaseBar, answerBar, AnswerOf
<1>3. CASE opened' # opened
  <2>1. PICK t \in Terminators : Close(t)
    BY <1>3 DEF TerminateNub, TerminateClient, Message, ClientClose, LoadProvider,
       HandleTerminate, Drain, IsOpen, Detach, ClearProvider
  <2>2. tpc[t] \in Past /\ opened' = FALSE /\ opened
    BY <1>3, <2>1 DEF Close, TGoto, Past, IInv, TypeOK
  <2>3. \A c \in Callers : Phase(c) # "running"
    BY <2>2 DEF IInv, InOrder, Drained, Phase, Committed
  <2>4. Connection!Close
    BY <1>1, <2>2, <2>3 DEF Connection!Close, phaseBar, answerBar, AnswerOf
  <2> QED
    BY <2>4 DEF Connection!Next
<1> QED
  BY <1>2, <1>3

(* Neither exception is ever taken back.                                      *)
LEMMA OrderlyBefore ==
  ASSUME TypeOK, Next, Orderly'
  PROVE  Orderly
<1> USE DEF Orderly, TypeOK, counterVars
<1>1. ASSUME NEW c \in Callers, Call(c) PROVE Orderly
  BY <1>1 DEF Call
<1>2. ASSUME NEW c \in Callers, CallStep(c) PROVE Orderly
  <2>1. CASE IncLoad(c) \/ DecLoad(c) \/ IncStore(c) \/ DecStore(c)
    BY <2>1 DEF IncLoad, DecLoad, LoadCounter, IncStore, DecStore, StoreCounter
  <2>2. CASE ~(IncLoad(c) \/ DecLoad(c) \/ IncStore(c) \/ DecStore(c))
    BY <1>2, <2>2 DEF CallStep, CheckInactive, RetainProvider, AllocateCommand,
       PrepareBuffer, SendSMARTCommand, Forward, DriverRejects, DriverCompletes,
       WaitForCommand, ReleaseResources, ReleaseProvider
  <2> QED
    BY <2>1, <2>2
<1>3. CASE TerminateNub \/ TerminateClient \/ Message \/ ClientClose \/ LoadProvider
  BY <1>3 DEF TerminateNub, TerminateClient, Message, ClientClose, LoadProvider
<1>4. ASSUME NEW t \in Terminators, HandleTerminate(t) PROVE Orderly
  BY <1>4 DEF HandleTerminate, Drain, IsOpen, Close, Detach, ClearProvider
<1> QED
  BY <1>1, <1>2, <1>3, <1>4 DEF Next

(* What the methods of the user client and HandleTerminate do, in whatever    *)
(* order their steps come, is what an open connection promises its task:      *)
(* one trip to the driver at most, none after the close, and an answer that   *)
(* comes from that trip or is a refusal; until a lost update or a late call.  *)
THEOREM Refinement == Spec => ImplementsConnection
<1>1. Init => Connection!Init
  <2> SUFFICES ASSUME Init PROVE Connection!Init
    OBVIOUS
  <2>1. \A c \in Callers : Phase(c) = "idle" /\ AnswerOf(c) = NoStatus
    BY DEF Init, Phase, AnswerOf
  <2> QED
    BY <2>1 DEF Init, Orderly, Connection!Init, AnswerOf
<1>2. IInv /\ [Next]_vars => [Connection!Next \/ Connection!Void]_(Connection!vars)
  <2> SUFFICES ASSUME IInv, [Next]_vars, Orderly'
               PROVE  Connection!Next \/ UNCHANGED Connection!vars
    BY DEF Connection!Void
  <2>1. CASE Next
    <3>1. Orderly
      BY <2>1, OrderlyBefore DEF IInv
    <3>2. ASSUME NEW c \in Callers, Call(c) \/ CallStep(c)
          PROVE  Connection!Next \/ UNCHANGED Connection!vars
      BY <3>1, <3>2, CallImplements
    <3>3. CASE \/ TerminateNub \/ TerminateClient \/ Message \/ ClientClose \/ LoadProvider
               \/ \E t \in Terminators : HandleTerminate(t)
      <4>1. UNCHANGED callVars
        BY <3>3 DEF TerminateNub, TerminateClient, Message, ClientClose, LoadProvider,
           HandleTerminate, Drain, IsOpen, Close, Detach, ClearProvider
      <4> QED
        BY <3>1, <3>3, <4>1, ServiceImplements
    <3> QED
      BY <2>1, <3>2, <3>3 DEF Next
  <2>2. CASE UNCHANGED vars
    <3>1. \A c \in Callers : Phase(c)' = Phase(c) /\ AnswerOf(c)' = AnswerOf(c)
      BY <2>2 DEF vars, callVars, Phase, AnswerOf
    <3> QED
      BY <2>2, <3>1 DEF Connection!vars, vars, counterVars, serviceVars, Orderly, AnswerOf
  <2> QED
    BY <2>1, <2>2
<1> QED
  BY <1>1, <1>2, InvariantCorrect, PTL DEF Spec, ImplementsConnection, Connection!Spec
=================================================================================
