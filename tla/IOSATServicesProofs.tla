-------------------------- MODULE IOSATServicesProofs --------------------------
(***************************************************************************)
(* What IOSATServices guarantees for any finite set of clients and any limit: *)
(* the references of every user client that initWithTask has taken are exact   *)
(* through every error label, close and termination, and the nub does not go   *)
(* before its clients.                                                       *)
(*                                                                          *)
(* Nothing here needs fairness.  The invariants are proved of Init and        *)
(* [][Next]_vars, so that a program that drives these actions, as the tools   *)
(* of SATSMARTClient do, may cite them.                                      *)
(***************************************************************************)
EXTENDS IOSATServices, FiniteSetTheorems, TLAPS

(* The references of c are exact; c is in the set exactly when it is connected   *)
(* and attached; a client that start has not come to open with is attached as    *)
(* long as the nub is active; and whoever has lost fProvider has lost the         *)
(* references of the registry and of the set with it, so that a closed client is  *)
(* freed at once.                                                            *)
ClientExact(c) ==
  /\ phase[c] # "panic" =>
       references[c] = Held(c) + (IF phase[c] \in {"none", "freed"} THEN 0 ELSE 1)
  /\ phase[c] # "closed"
  /\ attached[c] => phase[c] \in {"attached", "starting", "failed", "connected"}
  /\ c \in fClients <=> phase[c] = "connected" /\ attached[c]
  /\ nub = "active" /\ phase[c] \in {"attached", "starting"} => attached[c]
  /\ phase[c] \in {"starting", "failed", "connected"} /\ ~fProvider[c] => ~attached[c]

(* The set of a nub that has gone is empty, and nobody else has it open.       *)
NubClosed ==
  /\ nub # "stranded"
  /\ nub = "detached" => fClients = {} /\ ~storage

IInv == TypeOK /\ NubClosed /\ \A c \in Clients : ClientExact(c)

Unplugging == Terminate \/ StorageOpen \/ StorageClose \/ Detach
-------------------------------------------------------------------------------
(* A set of clients loses one or stays as it is.                              *)
LEMMA SmallerSet ==
  ASSUME TypeOK, NEW c
  PROVE  fClients \ {c} \subseteq Clients /\ Cardinality(fClients \ {c}) <= Limit + 1
<1>1. fClients \ {c} \subseteq fClients /\ IsFiniteSet(fClients)
  BY ClientsAssumption, FS_Subset DEF TypeOK
<1>2. /\ Cardinality(fClients \ {c}) <= Cardinality(fClients)
      /\ Cardinality(fClients \ {c}) \in Nat /\ Cardinality(fClients) \in Nat
  BY <1>1, FS_Subset, FS_CardinalityType
<1> QED
  BY <1>1, <1>2, ClientsAssumption DEF TypeOK

(* handleOpen lets one in beyond the limit and no more.                       *)
LEMMA LargerSet ==
  ASSUME TypeOK, NEW c \in Clients, Cardinality(fClients) <= Limit
  PROVE  fClients \cup {c} \subseteq Clients /\ Cardinality(fClients \cup {c}) <= Limit + 1
<1>1. IsFiniteSet(fClients)
  BY ClientsAssumption, FS_Subset DEF TypeOK
<1>2. /\ Cardinality(fClients) \in Nat
      /\ \/ Cardinality(fClients \cup {c}) = Cardinality(fClients)
         \/ Cardinality(fClients \cup {c}) = Cardinality(fClients) + 1
  BY <1>1, FS_CardinalityType, FS_AddElement
<1> QED
  BY <1>2, ClientsAssumption DEF TypeOK

(* A nub that nobody has met.                                                *)
LEMMA Initially == Init => IInv
<1> SUFFICES ASSUME Init PROVE IInv
  OBVIOUS
<1>1. Cardinality({}) = 0
  BY FS_EmptySet, Zenon
<1>2. TypeOK
  <2>1. fClients \subseteq Clients /\ Cardinality(fClients) = 0
    BY <1>1 DEF Init
  <2>2. Cardinality(fClients) <= Limit + 1
    BY <2>1, ClientsAssumption
  <2>3. /\ phase \in [Clients -> {"none"}] /\ references \in [Clients -> {0}]
        /\ fProvider \in [Clients -> BOOLEAN] /\ attached \in [Clients -> BOOLEAN]
        /\ told \in [Clients -> BOOLEAN]
    BY DEF Init
  <2>4. nub \in {"active"} /\ storage \in BOOLEAN
    BY DEF Init
  <2> QED
    BY <2>1, <2>2, <2>3, <2>4 DEF TypeOK
<1>3. NubClosed /\ \A c \in Clients : ClientExact(c)
  BY DEF Init, NubClosed, ClientExact, Held
<1> QED
  BY <1>2, <1>3 DEF IInv

(* A step of one client leaves the others as they were.                       *)
LEMMA Others ==
  ASSUME IInv, NEW c \in Clients,
         Opens(c) \/ ClientStep(c) \/ ClientClose(c),
         NEW d \in Clients, d # c
  PROVE  /\ references'[d] = references[d] /\ phase'[d] = phase[d]
         /\ attached'[d] = attached[d] /\ fProvider'[d] = fProvider[d]
         /\ d \in fClients' <=> d \in fClients
<1> USE DEF IInv, TypeOK, Set
<1>1. CASE Opens(c)
  BY <1>1 DEF Opens, newUserClient
<1>2. CASE AttachClient(c)
  BY <1>2 DEF AttachClient, Drop
<1>3. CASE Start(c)
  BY <1>3 DEF Start
<1>4. CASE handleOpen(c)
  BY <1>4 DEF handleOpen
<1>5. CASE OpenNull(c)
  BY <1>5 DEF OpenNull
<1>6. CASE DetachClient(c)
  BY <1>6 DEF DetachClient, Drop
<1>7. CASE Message(c)
  BY <1>7 DEF Message, HandleTerminate, Drop
<1>8. CASE ClientClose(c)
  BY <1>8 DEF ClientClose, HandleTerminate, Drop
<1>9. CASE ReleaseFreed(c)
  BY <1>9 DEF ReleaseFreed
<1> QED
  BY <1>1, <1>2, <1>3, <1>4, <1>5, <1>6, <1>7, <1>8, <1>9 DEF ClientStep

(* The client that steps.                                                    *)
LEMMA OwnStep ==
  ASSUME IInv, NEW c \in Clients,
         Opens(c) \/ ClientStep(c) \/ ClientClose(c)
  PROVE  /\ ClientExact(c)'
         /\ phase'[c] \in {"none", "allocated", "freed", "attached", "starting", "failed", "connected",
                           "panic"}
         /\ references'[c] \in 0 .. 3
<1> USE DEF IInv, TypeOK, Set, ClientExact, Held
<1>1. CASE Opens(c)
  BY <1>1 DEF Opens, newUserClient
<1>2. CASE AttachClient(c)
  BY <1>2 DEF AttachClient, Drop
<1>3. CASE Start(c)
  BY <1>3 DEF Start
<1>4. CASE handleOpen(c)
  BY <1>4 DEF handleOpen
<1>5. CASE OpenNull(c)
  BY <1>5 DEF OpenNull
<1>6. CASE DetachClient(c)
  BY <1>6 DEF DetachClient, Drop
<1>7. CASE Message(c)
  BY <1>7 DEF Message, HandleTerminate, Drop
<1>8. CASE ClientClose(c)
  BY <1>8 DEF ClientClose, HandleTerminate, Drop
<1>9. CASE ReleaseFreed(c)
  BY <1>9 DEF ReleaseFreed
<1> QED
  BY <1>1, <1>2, <1>3, <1>4, <1>5, <1>6, <1>7, <1>8, <1>9 DEF ClientStep

(* The types follow from what the step does to the client and to the set.     *)
LEMMA TypeStep == IInv /\ Next => TypeOK'
<1> SUFFICES ASSUME IInv, Next PROVE TypeOK'
  OBVIOUS
<1> USE DEF IInv, TypeOK, Set
<1>1. ASSUME NEW c \in Clients, Opens(c) \/ ClientStep(c) \/ ClientClose(c)
      PROVE  TypeOK'
  <2>1. /\ phase'[c] \in {"none", "allocated", "freed", "attached", "starting", "failed", "connected",
                          "panic"}
        /\ references'[c] \in 0 .. 3
    BY <1>1, OwnStep
  <2>2. fClients \ {c} \subseteq Clients /\ Cardinality(fClients \ {c}) <= Limit + 1
    BY SmallerSet
  <2>3. CASE Opens(c)
    BY <2>3 DEF Opens, newUserClient
  <2>4. CASE AttachClient(c)
    BY <2>1, <2>4 DEF AttachClient, Drop
  <2>5. CASE Start(c)
    BY <2>5 DEF Start
  <2>6. CASE handleOpen(c)
    BY <2>1, <2>6, LargerSet DEF handleOpen
  <2>7. CASE OpenNull(c)
    BY <2>7 DEF OpenNull
  <2>8. CASE DetachClient(c)
    BY <2>1, <2>8 DEF DetachClient, Drop
  <2>9. CASE Message(c)
    BY <2>1, <2>2, <2>9 DEF Message, HandleTerminate, Drop
  <2>10. CASE ClientClose(c)
    BY <2>1, <2>2, <2>10 DEF ClientClose, HandleTerminate, Drop
  <2>11. CASE ReleaseFreed(c)
    BY <2>11 DEF ReleaseFreed
  <2> QED
    BY <1>1, <2>3, <2>4, <2>5, <2>6, <2>7, <2>8, <2>9, <2>10, <2>11 DEF ClientStep
<1>2. CASE Unplugging
  BY <1>2 DEF Unplugging, Terminate, StorageOpen, StorageClose, Detach, clientVars
<1> QED
  BY <1>1, <1>2 DEF Next, Unplugging

(* A gone nub takes no client, and only an empty one goes.                    *)
LEMMA ClosedStep == IInv /\ Next => NubClosed'
<1> SUFFICES ASSUME IInv, Next PROVE NubClosed'
  OBVIOUS
<1> USE DEF IInv, TypeOK, NubClosed
<1>1. ASSUME NEW c \in Clients, Opens(c) \/ ClientStep(c) \/ ClientClose(c)
      PROVE  NubClosed'
  <2>1. nub' = nub /\ storage' = storage
    BY <1>1 DEF Opens, newUserClient, ClientStep, ReleaseFreed, AttachClient, Start, handleOpen, OpenNull,
                DetachClient, Message, ClientClose
  <2>2. nub = "detached" => fClients' \subseteq fClients
    BY <1>1 DEF Opens, newUserClient, ClientStep, ReleaseFreed, AttachClient, Start, handleOpen, OpenNull,
                DetachClient, Message, ClientClose, HandleTerminate
  <2> QED
    BY <2>1, <2>2
<1>2. CASE Unplugging
  BY <1>2 DEF Unplugging, Terminate, StorageOpen, StorageClose, Detach, handleIsOpen, clientVars
<1> QED
  BY <1>1, <1>2 DEF Next, Unplugging

LEMMA Step == IInv /\ [Next]_vars => IInv'
<1>1. ASSUME IInv, Next PROVE IInv'
  <2>1. ASSUME NEW d \in Clients PROVE ClientExact(d)'
    <3>1. ASSUME NEW c \in Clients, Opens(c) \/ ClientStep(c) \/ ClientClose(c)
          PROVE  ClientExact(d)'
      <4>1. CASE c = d
        BY <1>1, <3>1, <4>1, OwnStep
      <4>2. CASE c # d
        <5>1. nub' = nub
          BY <3>1 DEF Opens, newUserClient, ClientStep, ReleaseFreed, AttachClient, Start, handleOpen,
                      OpenNull, DetachClient, Message, ClientClose
        <5> QED
          BY <1>1, <3>1, <4>2, <5>1, Others DEF IInv, ClientExact, Held
      <4> QED
        BY <4>1, <4>2
    <3>2. CASE Unplugging
      BY <1>1, <3>2 DEF Unplugging, Terminate, StorageOpen, StorageClose, Detach, clientVars,
                        IInv, ClientExact, Held
    <3> QED
      BY <1>1, <3>1, <3>2 DEF Next, Unplugging
  <2> QED
    BY <1>1, <2>1, TypeStep, ClosedStep DEF IInv
<1>2. ASSUME IInv, UNCHANGED vars PROVE IInv'
  BY <1>2 DEF vars, clientVars, IInv, TypeOK, NubClosed, ClientExact, Held
<1> QED
  BY <1>1, <1>2

(* What the invariant says of the references,                                 *)
LEMMA IInvExact == IInv => ReferencesExact
<1> SUFFICES ASSUME IInv, NEW c \in Clients, phase[c] # "panic"
             PROVE  /\ references[c] = Held(c)
                          + (IF phase[c] \in {"none", "freed", "closed"} THEN 0 ELSE 1)
                    /\ references[c] = 0 <=> phase[c] \in {"none", "freed"}
  BY DEF ReferencesExact
<1> QED
  BY DEF IInv, ClientExact, Held

(* and of the end of the nub.                                                *)
LEMMA IInvOutlives == IInv => NubOutlivesClients
BY DEF IInv, TypeOK, NubClosed, ClientExact, NubOutlivesClients

(* Whatever drives these actions, from a nub that nobody has met.              *)
LEMMA Invariant == Init /\ [][Next]_vars => []IInv
<1> QED
  BY Initially, Step, PTL
-------------------------------------------------------------------------------
(* The types of the nub, its set of clients and every connection hold, and the  *)
(* set is never larger than one above the limit of handleOpen.                *)
THEOREM ServicesTypeCorrect == Spec => []TypeOK
<1>1. IInv => TypeOK
  BY DEF IInv
<1> QED
  BY <1>1, Invariant, PTL DEF Spec

(* Nothing of a user client that initWithTask has taken is freed in use or left   *)
(* behind, whichever of the labels DetachClient and ReleaseClient, close and      *)
(* termination message come in which order, for any number of processes; and the  *)
(* only one without a reference is the one that initWithTask has refused, which    *)
(* nothing else has got hold of.                                             *)
THEOREM ServicesReferencesExact == Spec => []ReferencesExact
<1> QED
  BY IInvExact, Invariant, PTL DEF Spec

(* The nub is detached only when nobody has it open, a client of a process that  *)
(* has gone is not in its set, detach never refuses, and a client still attached  *)
(* to a nub that is gone is one newUserClient has yet to give up.              *)
THEOREM NubGoesLast == Spec => []NubOutlivesClients
<1> QED
  BY IInvOutlives, Invariant, PTL DEF Spec
-------------------------------------------------------------------------------
(* The nub for those who open it.                                            *)
lifeBar == [c \in Clients |-> Life(c)]

LEMMA OpenIsSet == TypeOK => Nub!Open = fClients
BY DEF TypeOK, Nub!Open, Life

(* A step of one client is seen of that client only.                           *)
LEMMA MapsAtClient ==
  ASSUME IInv, NEW c \in Clients, Opens(c) \/ ClientStep(c) \/ ClientClose(c)
  PROVE  lifeBar' = [lifeBar EXCEPT ![c] = Life(c)']
<1>1. \A d \in Clients : d # c => Life(d)' = Life(d)
  BY Others DEF Life
<1> QED
  BY <1>1 DEF lifeBar

(* What such a step is for it: nothing, the making, the admission to a nub with     *)
(* room whose device is there, the end, or the release.                        *)
LifeMaps(c) ==
  /\ UNCHANGED <<nub, storage>>
  /\ \/ Life(c)' = Life(c)
     \/ Life(c) = "none" /\ Life(c)' = "made" /\ nub \in {"active", "inactive"}
     \/ /\ Life(c) = "made" /\ Life(c)' = "open"
        /\ nub = "active" /\ Cardinality(fClients) <= Limit
     \/ Life(c) \in {"made", "open"} /\ Life(c)' = "over"
     \/ Life(c) \in {"made", "open", "over"} /\ Life(c)' = "none"

LEMMA ClientMaps ==
  ASSUME IInv, NEW c \in Clients, Opens(c) \/ ClientStep(c) \/ ClientClose(c)
  PROVE  LifeMaps(c)
<1> USE DEF IInv, TypeOK, Set, ClientExact, Held, LifeMaps, Life
<1>1. CASE Opens(c)
  BY <1>1 DEF Opens, newUserClient
<1>2. CASE AttachClient(c)
  BY <1>2 DEF AttachClient, Drop
<1>3. CASE Start(c)
  BY <1>3 DEF Start
<1>4. CASE handleOpen(c)
  BY <1>4 DEF handleOpen
<1>5. CASE OpenNull(c)
  BY <1>5 DEF OpenNull
<1>6. CASE DetachClient(c)
  BY <1>6 DEF DetachClient, Drop
<1>7. CASE Message(c)
  BY <1>7 DEF Message, HandleTerminate, Drop
<1>8. CASE ClientClose(c)
  BY <1>8 DEF ClientClose, HandleTerminate, Drop
<1>9. CASE ReleaseFreed(c)
  BY <1>9 DEF ReleaseFreed
<1> QED
  BY <1>1, <1>2, <1>3, <1>4, <1>5, <1>6, <1>7, <1>8, <1>9 DEF ClientStep

LEMMA ClientImplements ==
  ASSUME IInv, NEW c \in Clients, Opens(c) \/ ClientStep(c) \/ ClientClose(c)
  PROVE  Nub!Next \/ UNCHANGED Nub!vars
<1>1. /\ lifeBar' = [lifeBar EXCEPT ![c] = Life(c)']
      /\ lifeBar[c] = Life(c)
      /\ LifeMaps(c)
  BY MapsAtClient, ClientMaps DEF lifeBar
<1>2. Device' = Device /\ storage' = storage
  BY <1>1 DEF LifeMaps, Device
<1>3. CASE Life(c)' = Life(c)
  <2>1. lifeBar' = lifeBar
    BY <1>1, <1>3 DEF lifeBar
  <2> QED
    BY <1>2, <2>1 DEF Nub!vars, lifeBar
<1>4. CASE Life(c) = "none" /\ Life(c)' = "made" /\ nub \in {"active", "inactive"}
  <2>1. Device # "detached"
    BY <1>4 DEF Device
  <2>2. Nub!Make(c)
    BY <1>1, <1>2, <1>4, <2>1 DEF Nub!Make, Nub!Lives, lifeBar
  <2> QED
    BY <2>2 DEF Nub!Next
<1>5. CASE /\ Life(c) = "made" /\ Life(c)' = "open"
           /\ nub = "active" /\ Cardinality(fClients) <= Limit
  <2>1. Device = "present"
    BY <1>5 DEF Device
  <2>2. Cardinality(Nub!Open) < Limit + 1
    <3>1. IsFiniteSet(fClients) /\ Cardinality(fClients) \in Nat
      BY ClientsAssumption, FS_Subset, FS_CardinalityType DEF IInv, TypeOK
    <3> QED
      BY <1>5, <3>1, OpenIsSet, ClientsAssumption DEF IInv
  <2>3. Nub!Cardinality(Nub!Open) = Cardinality(Nub!Open)
    BY Zenon DEF Nub!Cardinality, Cardinality
  <2>4. Nub!Admit(c)
    BY <1>1, <1>2, <1>5, <2>1, <2>2, <2>3 DEF Nub!Admit, Nub!Lives, lifeBar
  <2> QED
    BY <2>4 DEF Nub!Next
<1>6. CASE Life(c) \in {"made", "open"} /\ Life(c)' = "over"
  <2>1. Nub!End(c)
    BY <1>1, <1>2, <1>6 DEF Nub!End, Nub!Lives, lifeBar
  <2> QED
    BY <2>1 DEF Nub!Next
<1>7. CASE Life(c) \in {"made", "open", "over"} /\ Life(c)' = "none"
  <2>1. Nub!Free(c)
    BY <1>1, <1>2, <1>7 DEF Nub!Free, Nub!Lives, lifeBar
  <2> QED
    BY <2>1 DEF Nub!Next
<1> QED
  BY <1>1, <1>3, <1>4, <1>5, <1>6, <1>7 DEF LifeMaps

(* The unplugging and the storage stack are seen by all as they are.            *)
LEMMA UnpluggingImplements ==
  ASSUME IInv, Unplugging
  PROVE  Nub!Next
<1>1. phase' = phase /\ fClients' = fClients
  BY DEF Unplugging, Terminate, StorageOpen, StorageClose, Detach, clientVars
<1>2. lifeBar' = lifeBar
  BY <1>1 DEF lifeBar, Life
<1>3. CASE Terminate
  BY <1>2, <1>3 DEF Terminate, Nub!Next, Nub!Unplug, Device, lifeBar
<1>4. CASE StorageOpen
  BY <1>2, <1>4 DEF StorageOpen, Nub!Next, Nub!Mount, Device, lifeBar
<1>5. CASE StorageClose
  BY <1>2, <1>5 DEF StorageClose, Nub!Next, Nub!Unmount, Device, lifeBar
<1>6. CASE Detach
  <2>1. Nub!Open = {}
    BY <1>6, OpenIsSet DEF IInv, Detach, handleIsOpen
  <2>2. Nub!Detach
    BY <1>2, <1>6, <2>1 DEF Detach, handleIsOpen, Nub!Detach, Device, lifeBar
  <2> QED
    BY <2>2 DEF Nub!Next
<1> QED
  BY <1>3, <1>4, <1>5, <1>6 DEF Unplugging

(* Whatever drives the nub, as in Invariant.                                   *)
LEMMA Implements == Init /\ [][Next]_vars => ImplementsNub
<1>1. Init => Nub!Init
  <2> SUFFICES ASSUME Init PROVE Nub!Init
    OBVIOUS
  <2>1. \A c \in Clients : Life(c) = "none"
    BY DEF Init, Life
  <2> QED
    BY <2>1 DEF Init, Nub!Init, Device
<1>2. IInv /\ [Next]_vars => [Nub!Next]_(Nub!vars)
  <2> SUFFICES ASSUME IInv, [Next]_vars
               PROVE  Nub!Next \/ UNCHANGED Nub!vars
    OBVIOUS
  <2>1. CASE Next
    BY <2>1, ClientImplements, UnpluggingImplements DEF Next, Unplugging
  <2>2. CASE UNCHANGED vars
    <3>1. nub' = nub /\ storage' = storage /\ lifeBar' = lifeBar
      BY <2>2 DEF vars, clientVars, lifeBar, Life
    <3> QED
      BY <3>1 DEF Nub!vars, Device, lifeBar
  <2> QED
    BY <2>1, <2>2
<1> QED
  BY <1>1, <1>2, Invariant, PTL DEF ImplementsNub, Nub!Spec

(* For any finite set of clients and any limit, those who open the nub see OpenedNub. *)
THEOREM ServicesRefinement == Spec => ImplementsNub
<1> QED
  BY Implements, PTL DEF Spec
===============================================================================
