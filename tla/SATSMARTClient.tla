----------------------------- MODULE SATSMARTClient -----------------------------
(***************************************************************************)
(* The plug-in library in the processes that use the nub, over the user        *)
(* clients of IOSATServices: an object of SATSMARTClient, the references the   *)
(* program holds to it, the connection it has opened, and the ways of the two  *)
(* tools of the repository through them.  A process visits the nub with one    *)
(* object and has, under its own name, one connection of IOSATServices.  The   *)
(* other connections are those of any programs.                              *)
(*                                                                          *)
(* A tool has one thread.  Its SMART calls change neither the object nor the   *)
(* connection and only succeed or fail.  It may be killed at any step; the     *)
(* kernel then closes what it had open.                                      *)
(***************************************************************************)
EXTENDS IOSATServices

CONSTANT Processes   \* those that run the tools

ASSUME ProcessesAssumption == Processes \subseteq Clients

VARIABLES
  at,           \* per process: what it does next
  tool,         \* per process: which tool it is, ATASMARTSample or smart_status
  fRefCount,    \* per process: of its object; 0 when there is none
  fConnection,  \* per process: the object has a connection
  usedFreed     \* per process: it has called through an object it had freed

processVars == <<at, tool, fRefCount, fConnection, usedFreed>>
allVars == <<vars, processVars>>

Tools == {"sample", "status"}
Steps == {"none", "create", "probe", "open", "opening", "query", "releasePlugIn", "giveUp", "calls",
          "enable", "read", "releaseInterface", "stop", "returnStatus", "returned", "dead"}

ClientInit ==
  /\ Init
  /\ at = [c \in Processes |-> "none"]
  /\ tool = [c \in Processes |-> "sample"]
  /\ fRefCount = [c \in Processes |-> 0]
  /\ fConnection = [c \in Processes |-> FALSE]
  /\ usedFreed = [c \in Processes |-> FALSE]
-------------------------------------------------------------------------------
Go(c, steps) == at' \in {Set(at, c, s) : s \in steps}

\* A call through the object, which should still be there.
Touch(c) == usedFreed' = Set(usedFreed, c, usedFreed[c] \/ fRefCount[c] = 0)

(* Release: the last reference deletes the object, and with it the name of its   *)
(* connection, which stays open.  A count of 0 wraps to 2^32 - 1 and is never    *)
(* seen here.                                                                *)
Release(c) ==
  /\ Touch(c)
  /\ fRefCount[c] > 0
  /\ fRefCount' = Set(fRefCount, c, fRefCount[c] - 1)
  /\ fConnection' = Set(fConnection, c, fConnection[c] /\ fRefCount[c] > 1)

(* The factory makes an object with one reference, or there is no plug-in.       *)
Create(c) ==
  /\ at[c] = "create"
  /\ \/ Go(c, {"probe"}) /\ fRefCount' = Set(fRefCount, c, 1)
     \/ Go(c, {"returned"}) /\ UNCHANGED fRefCount
  /\ UNCHANGED <<vars, tool, fConnection, usedFreed>>

(* Probe finds the properties of the nub, or not: IOKit then releases the object. *)
Probe(c) ==
  /\ at[c] = "probe"
  /\ \/ Go(c, {"open"}) /\ Touch(c) /\ UNCHANGED <<fRefCount, fConnection>>
     \/ Go(c, {"returned"}) /\ Release(c)
  /\ UNCHANGED <<vars, tool>>

(* Start: IOServiceOpen goes through newUserClient in the kernel, *)
StartOpens(c) ==
  /\ at[c] = "open"
  /\ newUserClient(c, "library")
  /\ Go(c, {"opening"})
  /\ UNCHANGED <<tool, fRefCount, fConnection, usedFreed>>

(* and comes back with a connection, *)
StartOpened(c) ==
  /\ at[c] = "opening" /\ phase[c] = "connected"
  /\ fConnection' = Set(fConnection, c, TRUE)
  /\ Go(c, {"query"})
  /\ UNCHANGED <<vars, tool, fRefCount, usedFreed>>

(* or with none, because the nub has gone or did not take the client: IOKit       *)
(* gives up the plug-in that does not start.                                  *)
StartFails(c) ==
  /\ \/ at[c] = "open" /\ nub \notin {"active", "inactive"}
     \/ at[c] = "opening" /\ phase[c] = "none"
  /\ Release(c)
  /\ Go(c, {"returned"})
  /\ UNCHANGED <<vars, tool>>

\* Where the tools go on with the interface,
WithInterface(c) == Go(c, {IF tool[c] = "sample" THEN "calls" ELSE "releasePlugIn"})
\* and without: to ReleasePlugIn, and past the Release to ErrorExit.
WithoutInterface(c) == Go(c, {IF tool[c] = "sample" THEN "stop" ELSE "giveUp"})

\* Mutant: the pointer is handed out without AddRef.
QueryInterfaceUncounted(c) ==
  /\ at[c] = "query"
  /\ Touch(c)
  /\ WithInterface(c) \/ WithoutInterface(c)
  /\ UNCHANGED <<vars, tool, fRefCount, fConnection>>

\* Mutant: the interface matches twice, as IUnknown and as itself.
QueryInterfaceTwice(c) ==
  /\ at[c] = "query"
  /\ Touch(c)
  /\ \/ WithInterface(c) /\ fRefCount' = Set(fRefCount, c, fRefCount[c] + 2)
     \/ WithoutInterface(c) /\ UNCHANGED fRefCount
  /\ UNCHANGED <<vars, tool, fConnection>>

(* QueryInterface for the SMART methods: one more pointer to the same object.     *)
(* smart_status gives up the first one then, ATASMARTSample keeps both.  An id    *)
(* that is not known is refused, which the tools allow for, though this one is.   *)
QueryInterface(c) ==
  /\ at[c] = "query"
  /\ Touch(c)
  /\ \/ WithInterface(c) /\ fRefCount' = Set(fRefCount, c, fRefCount[c] + 1)
     \/ WithoutInterface(c) /\ UNCHANGED fRefCount
  /\ UNCHANGED <<vars, tool, fConnection>>

(* The SMART calls of ATASMARTSample: from the first that fails, and from the     *)
(* last, it goes to ReleaseInterface.                                         *)
SampleCalls(c) ==
  /\ at[c] = "calls"
  /\ Touch(c)
  /\ Go(c, {"releaseInterface"})
  /\ UNCHANGED <<vars, tool, fRefCount, fConnection>>

(* smart_status enables the operations.  If that fails it leaves without a       *)
(* Release.                                                                  *)
StatusEnables(c) ==
  /\ at[c] = "enable"
  /\ Touch(c)
  /\ Go(c, {"read", "returned"})
  /\ UNCHANGED <<vars, tool, fRefCount, fConnection>>

\* It reads the data, and looks at the outcome after the Release.
StatusReads(c) ==
  /\ at[c] = "read"
  /\ Touch(c)
  /\ Go(c, {"releaseInterface"})
  /\ UNCHANGED <<vars, tool, fRefCount, fConnection>>

(* If the data were read it asks for the status, through the pointer it has      *)
(* released.  What comes of that is anybody's guess; it may be killed by it      *)
(* (Exit).                                                                   *)
StatusReturnsStatus(c) ==
  /\ at[c] = "returnStatus"
  /\ Touch(c)
  /\ Go(c, {"returned"})
  /\ UNCHANGED <<vars, tool, fRefCount, fConnection>>

ReleaseInterface(c) ==
  /\ at[c] = "releaseInterface"
  /\ Release(c)
  /\ Go(c, IF tool[c] = "sample" THEN {"stop"} ELSE {"returned", "returnStatus"})
  /\ UNCHANGED <<vars, tool>>

\* Mutant: the port is forgotten and not closed.
StopForgets(c) ==
  /\ at[c] = "stop"
  /\ Touch(c)
  /\ fConnection' = Set(fConnection, c, FALSE)
  /\ Go(c, {"releasePlugIn"})
  /\ UNCHANGED <<vars, tool, fRefCount>>

\* Mutant: fConnection keeps the port that is closed.
StopKeepsPort(c) ==
  /\ at[c] = "stop"
  /\ Touch(c)
  /\ IF fConnection[c] THEN ClientClose(c) ELSE UNCHANGED vars
  /\ Go(c, {"releasePlugIn"})
  /\ UNCHANGED <<tool, fRefCount, fConnection>>

(* IODestroyPlugInInterface: Stop closes the connection, *)
Stop(c) ==
  /\ at[c] = "stop"
  /\ Touch(c)
  /\ IF fConnection[c] THEN ClientClose(c) ELSE UNCHANGED vars
  /\ fConnection' = Set(fConnection, c, FALSE)
  /\ Go(c, {"releasePlugIn"})
  /\ UNCHANGED <<tool, fRefCount>>

(* and the first pointer is released; smart_status does only this, and goes on    *)
(* with the other if it has it.                                              *)
ReleasePlugIn(c) ==
  /\ at[c] \in {"releasePlugIn", "giveUp"}
  /\ Release(c)
  /\ Go(c, {IF tool[c] = "sample" \/ at[c] = "giveUp" THEN "returned" ELSE "enable"})
  /\ UNCHANGED <<vars, tool>>

(* A process starts a tool; the one before it under this name has left nothing    *)
(* but its name.                                                             *)
Launch(c) ==
  /\ at[c] = "none"
  /\ tool' \in {Set(tool, c, t) : t \in Tools}
  /\ usedFreed' = Set(usedFreed, c, FALSE)
  /\ Go(c, {"create"})
  /\ UNCHANGED <<vars, fRefCount, fConnection>>

(* It returns from main, or is killed, also in the middle of IOServiceOpen: its    *)
(* memory is gone.                                                           *)
Exit(c) ==
  /\ at[c] \notin {"none", "dead"}
  /\ fRefCount' = Set(fRefCount, c, 0)
  /\ fConnection' = Set(fConnection, c, FALSE)
  /\ Go(c, {"dead"})
  /\ UNCHANGED <<vars, tool, usedFreed>>

(* The kernel lets a newUserClient in progress come to its end, closes the         *)
(* connection, and forgets the process.                                       *)
Reap(c) ==
  /\ at[c] = "dead"
  /\ IF phase[c] = "none"
     THEN Go(c, {"none"}) /\ UNCHANGED vars
     ELSE ClientClose(c) /\ UNCHANGED at
  /\ UNCHANGED <<tool, fRefCount, fConnection, usedFreed>>

ToolStep(c) ==
  \/ Create(c) \/ Probe(c) \/ StartOpens(c) \/ StartOpened(c) \/ StartFails(c) \/ QueryInterface(c)
  \/ SampleCalls(c) \/ StatusEnables(c) \/ StatusReads(c) \/ StatusReturnsStatus(c)
  \/ ReleaseInterface(c) \/ Stop(c) \/ ReleasePlugIn(c)

Kernel(A) == A /\ UNCHANGED processVars

ClientNext ==
  /\ Running
  /\ \/ \E c \in Processes : Launch(c) \/ ToolStep(c) \/ Exit(c) \/ Reap(c)
     \/ \E c \in Clients \ Processes : Kernel(Opens(c)) \/ Kernel(ClientClose(c))
     \/ \E c \in Clients : Kernel(ClientStep(c))
     \/ Kernel(Terminate) \/ Kernel(StorageOpen) \/ Kernel(StorageClose) \/ Kernel(Detach)

(* As in IOSATServices, and the kernel reaps the processes that are dead.  No       *)
(* process has to go on: it may be stopped for ever with the connection open.   *)
ClientFairness ==
  /\ \A c \in Clients : WF_allVars(Running /\ Kernel(ClientStep(c)))
  /\ \A c \in Processes : WF_allVars(Running /\ Reap(c))
  /\ WF_allVars(Running /\ nub = "inactive" /\ Kernel(StorageClose))
  /\ WF_allVars(Running /\ Kernel(Detach))

ClientSpec == ClientInit /\ [][ClientNext]_allVars /\ ClientFairness
-------------------------------------------------------------------------------
(* The object has at most the two references of its two interfaces. *)
ClientTypeOK ==
  /\ at \in [Processes -> Steps]
  /\ tool \in [Processes -> Tools]
  /\ fRefCount \in [Processes -> 0 .. 2]
  /\ fConnection \in [Processes -> BOOLEAN]
  /\ usedFreed \in [Processes -> BOOLEAN]

(* The name in fConnection is that of a connection that is open, whatever befell   *)
(* the nub meanwhile; and an open connection of a process that lives is in its     *)
(* object, unless smart_status has deleted the object with the connection open:    *)
(* Release without Stop (smart_status.c 360, 373).                            *)
ConnectionOwned ==
  \A c \in Processes :
    /\ fConnection[c] => phase[c] = "connected"
    /\ phase[c] = "connected" /\ at[c] \notin {"opening", "dead"} =>
         fConnection[c] \/ (tool[c] = "status" /\ fRefCount[c] = 0)

(* The ladder of ATASMARTSample never calls through an object it has freed, *)
SampleObjectLives == \A c \in Processes : tool[c] = "sample" => ~usedFreed[c]

(* and whichever step of it failed, nothing is left when it returns: no object,    *)
(* no connection, no user client in the kernel.                              *)
SampleLeavesNothing ==
  \A c \in Processes :
    tool[c] = "sample" /\ at[c] = "returned" =>
      fRefCount[c] = 0 /\ ~fConnection[c] /\ phase[c] = "none" /\ c \notin fClients

(* A process that is gone, killed in whatever step, one inside IOServiceOpen or     *)
(* with a leaked connection included, does not keep a user client in the kernel. *)
ProcessGone == \A c \in Processes : at[c] = "dead" ~> (at[c] = "none" \/ ~Running)

(* Release frees the object "when the refcount is zero": nobody calls through it    *)
(* afterwards.                                                               *)
NoUseAfterFree == \A c \in Processes : ~usedFreed[c]
===============================================================================
