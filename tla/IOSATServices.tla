----------------------------- MODULE IOSATServices -----------------------------
(***************************************************************************)
(* The nub a driver publishes, and the making and unmaking of the user       *)
(* clients on it: newUserClient runs on the thread of each process that      *)
(* opens a connection, while other processes open and close theirs, the      *)
(* storage stack opens the same nub through the superclass, and the device   *)
(* is unplugged.                                                            *)
(*                                                                          *)
(* The calls of a connected client are in SATSMARTUserClient; its            *)
(* HandleTerminate is one step here.  The nub's attach has given it the      *)
(* class of its user clients, which is one, so that the cast of newUserClient  *)
(* does not fail.  A process that opens it through the library asks for the    *)
(* one type of connection initWithTask accepts; another may ask for any.       *)
(***************************************************************************)
EXTENDS Integers, FiniteSets

CONSTANTS
  Clients,   \* the connections that may exist at a time
  Limit      \* 100 in handleOpen

ASSUME ClientsAssumption == IsFiniteSet(Clients) /\ Limit \in Nat

VARIABLES
  nub,          \* active, inactive, then detached from the driver, or
                \* stranded: detach refused, and IOKit will not ask again
  storage,      \* the storage stack has the nub open
  fClients,     \* the user clients that have it open
  phase,        \* per client: how far newUserClient or its connection is; one
                \* that initWithTask refused is "freed" while newUserClient
                \* still has it, and a closed client that is still retained
                \* would stay "closed"
  references,   \* per client: its retains less its releases
  fProvider,    \* per client: fProvider is not NULL
  attached,     \* per client: it is attached to the nub
  told          \* per client: its termination message has been delivered

clientVars == <<phase, references, fProvider, attached, told>>
vars == <<nub, storage, fClients, clientVars>>

Init ==
  /\ nub = "active"
  /\ storage = FALSE
  /\ fClients = {}
  /\ phase = [c \in Clients |-> "none"]
  /\ references = [c \in Clients |-> 0]
  /\ fProvider = [c \in Clients |-> FALSE]
  /\ attached = [c \in Clients |-> FALSE]
  /\ told = [c \in Clients |-> FALSE]
-------------------------------------------------------------------------------
\* kIOATASMARTLibConnection, and any other type.
ConnectionTypes == {"library", "other"}

Set(f, c, v) == [f EXCEPT ![c] = v]
Held(c) == (IF c \in fClients THEN 1 ELSE 0) + (IF attached[c] THEN 1 ELSE 0)

(* Client c goes on to phase p having dropped n references; the last one        *)
(* frees it.                                                                 *)
Drop(c, n, p) ==
  /\ references' = Set(references, c, references[c] - n)
  /\ phase' = Set(phase, c, IF references[c] = n THEN "none" ELSE p)

\* Mutant: handleIsOpen asks the superclass only.
handleIsOpenStorage == storage
\* Whether anybody has the nub open.
handleIsOpen == fClients # {} \/ storage

(* IOServiceOpen reaches newUserClient, which allocates the client; if          *)
(* initWithTask does not take the type it releases it and goes to the label    *)
(* ReleaseClient.                                                            *)
newUserClient(c, type) ==
  /\ phase[c] = "none"
  /\ nub \in {"active", "inactive"}
  /\ IF type = "library"
     THEN phase' = Set(phase, c, "allocated") /\ references' = Set(references, c, 1)
     ELSE phase' = Set(phase, c, "freed") /\ references' = Set(references, c, 0)
  /\ fProvider' = Set(fProvider, c, FALSE)
  /\ told' = Set(told, c, FALSE)
  /\ UNCHANGED <<nub, storage, fClients, attached>>

(* The label ReleaseClient of the client that was freed: a release through a    *)
(* dangling pointer, which the kernel may or may not survive.                *)
ReleaseFreed(c) ==
  /\ phase[c] = "freed"
  /\ phase' \in {Set(phase, c, "none"), Set(phase, c, "panic")}
  /\ UNCHANGED <<nub, storage, fClients, references, fProvider, attached, told>>

(* client->attach: an inactive nub takes no more clients. *)
AttachClient(c) ==
  /\ phase[c] = "allocated"
  /\ IF nub = "active"
     THEN /\ phase' = Set(phase, c, "attached")
          /\ references' = Set(references, c, references[c] + 1)
          /\ attached' = Set(attached, c, TRUE)
     ELSE Drop(c, 1, "none") /\ UNCHANGED attached
  /\ UNCHANGED <<nub, storage, fClients, fProvider, told>>

(* start of the client, until it opens the nub.  It may fail before that: the *)
(* superclass refuses, or there is no command gate or no work loop.          *)
Start(c) ==
  /\ phase[c] = "attached"
  /\ fProvider' = Set(fProvider, c, TRUE)
  /\ phase' \in {Set(phase, c, "starting"), Set(phase, c, "failed")}
  /\ UNCHANGED <<nub, storage, fClients, references, attached, told>>

\* Mutant: whoever asks is let in.
handleOpenAny(c) ==
  /\ phase[c] = "starting"
  /\ fProvider[c]
  /\ fClients' = fClients \cup {c}
  /\ references' = Set(references, c, references[c] + 1)
  /\ phase' = Set(phase, c, "connected")
  /\ UNCHANGED <<nub, storage, fProvider, attached, told>>

(* fProvider->open: IOService turns an inactive nub away, handleOpen a client  *)
(* too many, and the set of clients retains the one it takes.                *)
handleOpen(c) ==
  /\ phase[c] = "starting"
  /\ fProvider[c]
  /\ IF nub = "active" /\ Cardinality(fClients) <= Limit
     THEN /\ fClients' = fClients \cup {c}
          /\ references' = Set(references, c, references[c] + 1)
          /\ phase' = Set(phase, c, "connected")
     ELSE phase' = Set(phase, c, "failed") /\ UNCHANGED <<fClients, references>>
  /\ UNCHANGED <<nub, storage, fProvider, attached, told>>

\* The same through a pointer HandleTerminate has cleared.
OpenNull(c) ==
  /\ phase[c] = "starting"
  /\ ~fProvider[c]
  /\ phase' = Set(phase, c, "panic")
  /\ UNCHANGED <<nub, storage, fClients, references, fProvider, attached, told>>

\* Mutant: start has released the client that it refuses.
DetachClientTwice(c) ==
  /\ phase[c] = "failed"
  /\ attached' = Set(attached, c, FALSE)
  /\ Drop(c, IF attached[c] THEN 3 ELSE 2, "failed")
  /\ UNCHANGED <<nub, storage, fClients, fProvider, told>>

(* The labels DetachClient and ReleaseClient of newUserClient: the nub drops    *)
(* the client if it is attached to it still.                                 *)
DetachClient(c) ==
  /\ phase[c] = "failed"
  /\ attached' = Set(attached, c, FALSE)
  /\ Drop(c, IF attached[c] THEN 2 ELSE 1, "failed")
  /\ UNCHANGED <<nub, storage, fClients, fProvider, told>>

\* Mutant: the close lacks the mask of the user clients, so that the superclass
\* gets it.
HandleTerminateKeeps(c, n, p) ==
  /\ fClients' = fClients
  /\ attached' = Set(attached, c, FALSE)
  /\ fProvider' = Set(fProvider, c, FALSE)
  /\ Drop(c, n + (IF attached[c] THEN 1 ELSE 0), p)

(* HandleTerminate: close (handleClose, which takes the client out of the set) *)
(* if the nub is open for this client, detach, forget the nub.  The caller    *)
(* drops n references more.                                                  *)
HandleTerminate(c, n, p) ==
  /\ fClients' = fClients \ {c}
  /\ attached' = Set(attached, c, FALSE)
  /\ fProvider' = Set(fProvider, c, FALSE)
  /\ Drop(c, n + Held(c), p)

(* The process closes its connection, or dies. *)
ClientClose(c) ==
  /\ phase[c] = "connected"
  /\ IF fProvider[c]
     THEN HandleTerminate(c, 1, "closed")
     ELSE Drop(c, 1, "closed") /\ UNCHANGED <<fClients, fProvider, attached>>
  /\ UNCHANGED <<nub, storage, told>>

(* The device goes away: IOKit makes the nub inactive, and tells each client   *)
(* that is attached, however far it is.                                      *)
Terminate ==
  /\ nub = "active"
  /\ nub' = "inactive"
  /\ UNCHANGED <<storage, fClients, clientVars>>

Message(c) ==
  /\ nub = "inactive" /\ attached[c] /\ ~told[c]
  /\ told' = Set(told, c, TRUE)
  /\ HandleTerminate(c, 0, phase[c])
  /\ UNCHANGED <<nub, storage>>

(* The storage stack opens and closes the nub without the mask of the user      *)
(* clients: the superclass keeps that account.                               *)
StorageOpen ==
  /\ nub = "active" /\ ~storage
  /\ storage' = TRUE
  /\ UNCHANGED <<nub, fClients, clientVars>>

StorageClose ==
  /\ storage
  /\ storage' = FALSE
  /\ UNCHANGED <<nub, fClients, clientVars>>

(* IOKit finalizes a terminated nub that handleIsOpen says nobody has open:    *)
(* detach, which refuses while there are clients in the set.                 *)
Detach ==
  /\ nub = "inactive"
  /\ ~handleIsOpen
  /\ nub' = IF fClients = {} THEN "detached" ELSE "stranded"
  /\ UNCHANGED <<storage, fClients, clientVars>>

ClientStep(c) ==
  \/ ReleaseFreed(c) \/ AttachClient(c) \/ Start(c) \/ handleOpen(c) \/ OpenNull(c)
  \/ DetachClient(c) \/ Message(c)

Opens(c) == \E type \in ConnectionTypes : newUserClient(c, type)

\* A panic stops the kernel.
Running == \A c \in Clients : phase[c] # "panic"

Next ==
  /\ Running
  /\ \/ \E c \in Clients : Opens(c) \/ ClientStep(c) \/ ClientClose(c)
     \/ Terminate \/ StorageOpen \/ StorageClose \/ Detach

(* newUserClient runs to its end, IOKit delivers its messages and finalizes, and *)
(* the storage stack, terminated with the nub, closes it.  No process has to    *)
(* close its connection.                                                     *)
Fairness ==
  /\ \A c \in Clients : WF_vars(Running /\ ClientStep(c))
  /\ WF_vars(Running /\ nub = "inactive" /\ StorageClose)
  /\ WF_vars(Running /\ Detach)

Spec == Init /\ [][Next]_vars /\ Fairness
-------------------------------------------------------------------------------
(* At most one client over the limit of handleOpen has the nub open: it counts  *)
(* the others.                                                               *)
TypeOK ==
  /\ nub \in {"active", "inactive", "detached", "stranded"}
  /\ storage \in BOOLEAN
  /\ fClients \subseteq Clients /\ Cardinality(fClients) <= Limit + 1
  /\ phase \in [Clients -> {"none", "allocated", "freed", "attached", "starting", "failed",
                            "connected", "closed", "panic"}]
  /\ references \in [Clients -> 0 .. 3]
  /\ fProvider \in [Clients -> BOOLEAN]
  /\ attached \in [Clients -> BOOLEAN]
  /\ told \in [Clients -> BOOLEAN]

(* A client is retained once by whoever makes it or uses it, once by the        *)
(* registry and once by the nub's set, and the labels DetachClient and           *)
(* ReleaseClient, the close and the termination message drop these in whichever  *)
(* order they come: it is not freed in use, and nothing of it stays behind.      *)
(* The exception is the client that initWithTask refuses: newUserClient has      *)
(* given up its reference and goes on with the pointer (MakerHoldsClient), which  *)
(* may be the end of it all.                                                 *)
ReferencesExact ==
  \A c \in Clients : phase[c] # "panic" =>
    /\ references[c] = Held(c) + (IF phase[c] \in {"none", "freed", "closed"} THEN 0 ELSE 1)
    /\ references[c] = 0 <=> phase[c] \in {"none", "freed"}

(* newUserClient has a reference to the client as long as it has the client: "This *)
(* reference is consumed by the IOServiceOpen call".                          *)
MakerHoldsClient == \A c \in Clients : phase[c] # "none" => references[c] > 0

(* The nub goes only when no client is in its set and the storage stack has closed  *)
(* it: the "Detaching and still have client count" of detach is never logged.     *)
(* A client may still be attached to it then, but only one that newUserClient is  *)
(* at, and the set takes it no more; whoever is in the set has a connection, so    *)
(* that none whose process has gone is left there.                            *)
NubOutlivesClients ==
  /\ nub # "stranded"
  /\ nub = "detached" => fClients = {} /\ ~storage
  /\ nub = "detached" =>
       \A c \in Clients : attached[c] => phase[c] \in {"attached", "starting", "failed"}
  /\ \A c \in fClients : phase[c] = "connected" /\ attached[c]

(* Once the device is unplugged the nub detaches from its driver, whoever was    *)
(* opening a connection, and although no process closes its own.             *)
NubDetaches == nub = "inactive" ~> (nub = "detached" \/ ~Running)

(* A client that start has found an interface for ("Yes, we found an object to   *)
(* use as our interface") has it when it opens it.                           *)
StartHasProvider == \A c \in Clients : phase[c] = "starting" => fProvider[c]
-------------------------------------------------------------------------------
(* The nub for those who open it.  A client is counted as open while it is in the  *)
(* set, however far its connection is; one that the termination took out waits   *)
(* for its process to close.                                                 *)
Life(c) ==
  IF c \in fClients THEN "open" ELSE
  CASE phase[c] = "none" -> "none"
    [] phase[c] \in {"allocated", "freed", "attached", "starting"} -> "made"
    [] OTHER -> "over"

Device ==
  CASE nub = "active" -> "present"
    [] nub = "inactive" -> "unplugged"
    [] OTHER -> nub

Nub == INSTANCE OpenedNub WITH
  Most <- Limit + 1,
  device <- Device,
  mounted <- storage,
  life <- [c \in Clients |-> Life(c)]

(* newUserClient, handleOpen, the close and the termination implement OpenedNub: a *)
(* client has the nub open once at most, never of an unplugged device, at most one *)
(* over the limit of them, and the nub goes after the last.                     *)
ImplementsNub == Nub!Spec
===============================================================================
