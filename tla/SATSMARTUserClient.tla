-------------------------- MODULE SATSMARTUserClient --------------------------
(***************************************************************************)
(* One SATSMARTUserClient, from the end of a successful start(): the        *)
(* threads of the owning task that are inside one of its nine methods, and  *)
(* the two threads that can tear it down, IOKit's termination thread        *)
(* (message) and the one that closes the connection (clientClose).          *)
(*                                                                          *)
(* The nine methods have one body: count the call in, look at isInactive,   *)
(* retain the nub, allocate a command, map a buffer if the method has one,  *)
(* send, wait, and undo all of it through a ladder of labels.  A call is    *)
(* one walk of that body; its steps are the points where another thread can *)
(* see or change what it uses.  What the command holds and what the driver  *)
(* does with it is in SATCommandPath.                                       *)
(***************************************************************************)
EXTENDS Integers, FiniteSets

CONSTANTS
  Callers,         \* threads of the owning task that may be in a method
  CounterMod       \* fOutstandingCommands is a UInt32: 2^32 in the code

ASSUME CallersAssumption == IsFiniteSet(Callers)
ASSUME CounterAssumption == CounterMod \in Nat /\ Cardinality(Callers) < CounterMod

VARIABLES
  pc,                    \* per caller: where it is in the method
  hasBuffer,             \* per caller: whether the method maps a data buffer
  register,              \* per caller: the value its ++ or -- has loaded
  held,                  \* per caller: its retains less its releases
  isDone,                \* per caller: SATSMARTRefCon.isDone
  result,                \* per caller: the result field of its command
  status,                \* per caller: the IOReturn of its last call
  fOutstandingCommands,
  fProvider,             \* TRUE while the pointer to the nub is not NULL
  opened,                \* the nub's fClients holds this client
  attached,              \* this client is attached to the nub
  nubInactive,           \* isInactive() of the nub
  inactive,              \* isInactive() of this client
  closing,               \* the task has closed the connection
  tpc,                   \* where message and clientClose are
  lost,                  \* history: an update of the counter overwrote another
  late                   \* history: the connection was closed over a call that
                         \* was not yet counted in

callVars == <<pc, hasBuffer, register, held, isDone, result, status>>
serviceVars == <<fProvider, opened, attached, nubInactive, inactive, closing, tpc>>
counterVars == <<fOutstandingCommands, lost, late>>
vars == <<callVars, counterVars, serviceVars>>

(* The code guards neither the counter nor the close: nothing keeps the ++ and *)
(* -- of two threads apart, nor a task from closing while another thread of    *)
(* it comes in.  Both are in every behaviour below; what is promised as long   *)
(* as neither has happened is said of the behaviours up to there.            *)
Orderly == ~lost /\ ~late

(* What a call takes and must give back: a retain of the nub, a retain of    *)
(* the user client itself, the command, the buffer, the buffer's prepare().  *)
Resources == {"provider", "self", "command", "buffer", "prepared"}
Nothing == [r \in Resources |-> 0]

Outcomes == {"kIOReturnSuccess", "kIOReturnTimeout", "kIOReturnIOError", "kIOReturnError"}
Refusals == {"kIOReturnNoDevice", "kIOReturnNoResources", "kIOReturnNotAttached"}
NoStatus == "none"

Terminators == {"message", "clientClose"}

(* Labels of the ladder the methods leave through. *)
Ladder == {"completeBuffer", "releaseBuffer", "releaseCommand"}
\* Between the isInactive test and the release of the nub: fProvider is in use.
Committed == {"retainProvider", "allocate", "prepareBuffer", "send", "forward", "driver",
              "wait", "releaseProvider"} \cup Ladder
\* Between the ++ and the -- of fOutstandingCommands.
Counted == Committed \cup {"checkInactive", "decLoad", "decStore", "panic"}
\* In a method, and on its way to the ++.
Entering == {"incLoad", "incStore"}
CallerPC == Counted \cup Entering \cup {"idle"}

Init ==
  /\ pc = [c \in Callers |-> "idle"]
  /\ hasBuffer = [c \in Callers |-> FALSE]
  /\ register = [c \in Callers |-> 0]
  /\ held = [c \in Callers |-> Nothing]
  /\ isDone = [c \in Callers |-> FALSE]
  /\ result = [c \in Callers |-> "kATANoErr"]
  /\ status = [c \in Callers |-> NoStatus]
  /\ fOutstandingCommands = 0
  /\ fProvider = TRUE
  /\ opened = TRUE
  /\ attached = TRUE
  /\ nubInactive = FALSE
  /\ inactive = FALSE
  /\ closing = FALSE
  /\ tpc = [t \in Terminators |-> "idle"]
  /\ lost = FALSE
  /\ late = FALSE
-------------------------------------------------------------------------------
Goto(c, from, to) ==
  /\ pc[c] = from
  /\ pc' = [pc EXCEPT ![c] = to]

Add(c, rs, n) ==
  held' = [held EXCEPT ![c] = [r \in Resources |-> IF r \in rs THEN @[r] + n ELSE @[r]]]
Take(c, rs) == Add(c, rs, 1)
Give(c, rs) == Add(c, rs, -1)

SetStatus(c, s) == status' = [status EXCEPT ![c] = s]

\* The method does not come back to its buffer.
ForgetBuffer(c) == hasBuffer' = [hasBuffer EXCEPT ![c] = FALSE]

(* getTargetAndMethodForIndex finds the method unless the client is inactive. *)
Call(c) ==
  /\ ~inactive
  /\ Goto(c, "idle", "incLoad")
  /\ \E b \in BOOLEAN : hasBuffer' = [hasBuffer EXCEPT ![c] = b]
  /\ SetStatus(c, NoStatus)
  /\ late' = (late \/ closing)
  /\ UNCHANGED <<register, held, isDone, result, fOutstandingCommands, lost, serviceVars>>

(* fOutstandingCommands++ and -- are a load and a store of a plain UInt32. In *)
(* this module a local that is not read again goes back to its first value.  *)
LoadCounter(c, from, to) ==
  /\ Goto(c, from, to)
  /\ register' = [register EXCEPT ![c] = fOutstandingCommands]
  /\ UNCHANGED <<hasBuffer, held, isDone, result, status, counterVars, serviceVars>>

StoreCounter(c, from, to, n) ==
  /\ Goto(c, from, to)
  /\ fOutstandingCommands' = (register[c] + n) % CounterMod
  /\ register' = [register EXCEPT ![c] = 0]
  /\ lost' = (lost \/ register[c] # fOutstandingCommands)
  /\ UNCHANGED <<held, isDone, result, late, serviceVars>>

IncLoad(c) == LoadCounter(c, "incLoad", "incStore")
IncStore(c) == StoreCounter(c, "incStore", "checkInactive", 1) /\ UNCHANGED <<hasBuffer, status>>

\* Mutant: goto ErrorExit leaves above the --.
CheckInactiveKeepsCount(c) ==
  /\ IF inactive
     THEN Goto(c, "checkInactive", "idle") /\ SetStatus(c, NoStatus) /\ ForgetBuffer(c)
     ELSE Goto(c, "checkInactive", "retainProvider") /\ UNCHANGED <<hasBuffer, status>>
  /\ UNCHANGED <<register, held, isDone, result, counterVars, serviceVars>>

\* Mutant: a method that does not look at isInactive.
CheckInactiveSkipped(c) ==
  /\ Goto(c, "checkInactive", "retainProvider")
  /\ UNCHANGED <<hasBuffer, register, held, isDone, result, status, counterVars,
                 serviceVars>>

CheckInactive(c) ==
  /\ IF inactive
     THEN /\ Goto(c, "checkInactive", "decLoad")
          /\ SetStatus(c, "kIOReturnNoDevice")
          /\ ForgetBuffer(c)
     ELSE /\ Goto(c, "checkInactive", "retainProvider")
          /\ UNCHANGED <<hasBuffer, status>>
  /\ UNCHANGED <<register, held, isDone, result, counterVars, serviceVars>>

(* A use of fProvider while it is NULL takes the kernel down. *)
RetainProvider(c) ==
  /\ IF fProvider
     THEN Goto(c, "retainProvider", "allocate") /\ Take(c, {"provider"})
     ELSE Goto(c, "retainProvider", "panic") /\ UNCHANGED held
  /\ UNCHANGED <<hasBuffer, register, isDone, result, status, counterVars, serviceVars>>

\* Mutant: no command, goto ErrorExit rather than ReleaseProvider.
AllocateCommandLeaks(c) ==
  /\ \/ /\ Goto(c, "allocate", IF hasBuffer[c] THEN "prepareBuffer" ELSE "send")
        /\ Take(c, {"command"})
        /\ result' = [result EXCEPT ![c] = "kATANoErr"]
        /\ UNCHANGED <<hasBuffer, status>>
     \/ /\ Goto(c, "allocate", "decLoad")
        /\ SetStatus(c, "kIOReturnNoResources")
        /\ ForgetBuffer(c)
        /\ UNCHANGED <<held, result>>
  /\ UNCHANGED <<register, isDone, counterVars, serviceVars>>

(* allocateCmd32 zeroes the command: its result starts as kATANoErr. *)
AllocateCommand(c) ==
  /\ \/ /\ Goto(c, "allocate", IF hasBuffer[c] THEN "prepareBuffer" ELSE "send")
        /\ Take(c, {"command"})
        /\ result' = [result EXCEPT ![c] = "kATANoErr"]
        /\ UNCHANGED <<hasBuffer, status>>
     \/ /\ Goto(c, "allocate", "releaseProvider")
        /\ SetStatus(c, "kIOReturnNoResources")
        /\ ForgetBuffer(c)
        /\ UNCHANGED <<held, result>>
  /\ UNCHANGED <<register, isDone, counterVars, serviceVars>>

(* withAddress may return NULL, and prepare() of the buffer may fail.  (The   *)
(* status, kIOReturnVMError in one method and whatever prepare returns in    *)
(* all, is not told apart.)                                                  *)
PrepareBuffer(c) ==
  /\ \/ /\ Goto(c, "prepareBuffer", "send")
        /\ Take(c, {"buffer", "prepared"})
        /\ UNCHANGED status
     \/ /\ Goto(c, "prepareBuffer", "releaseBuffer")
        /\ Take(c, {"buffer"})
        /\ SetStatus(c, "kIOReturnNoResources")
     \/ /\ Goto(c, "prepareBuffer", "releaseCommand")
        /\ SetStatus(c, "kIOReturnNoResources")
        /\ UNCHANGED held
  /\ UNCHANGED <<hasBuffer, register, isDone, result, counterVars, serviceVars>>

(* Where a method goes on after SendSMARTCommand. *)
AfterSend(c) == IF hasBuffer[c] THEN "completeBuffer" ELSE "releaseCommand"

(* SendSMARTCommand up to its call of the nub. *)
SendSMARTCommand(c) ==
  /\ Goto(c, "send", "forward")
  /\ isDone' = [isDone EXCEPT ![c] = FALSE]
  /\ Take(c, {"self"})
  /\ UNCHANGED <<hasBuffer, register, result, status, counterVars, serviceVars>>

(* IOSATServices::sendSMARTCommand: a terminated nub refuses, else the driver has it. *)
Forward(c) ==
  /\ \/ /\ ~fProvider
        /\ Goto(c, "forward", "panic")
        /\ UNCHANGED <<held, status>>
     \/ /\ fProvider /\ nubInactive
        /\ Goto(c, "forward", AfterSend(c))
        /\ SetStatus(c, "kIOReturnNotAttached")
        /\ Give(c, {"self"})
     \/ /\ fProvider /\ ~nubInactive
        /\ Goto(c, "forward", "driver")
        /\ UNCHANGED <<held, status>>
  /\ UNCHANGED <<hasBuffer, register, isDone, result, counterVars, serviceVars>>

(* The driver returns an error and has not called back. *)
DriverRejects(c) ==
  /\ Goto(c, "driver", AfterSend(c))
  /\ SetStatus(c, "kIOReturnError")
  /\ Give(c, {"self"})
  /\ UNCHANGED <<hasBuffer, register, isDone, result, counterVars, serviceVars>>

\* Mutant: a command that failed is called back as well.
DriverCompletesFailed(c) ==
  /\ Goto(c, "driver", "wait")
  /\ \E r \in {"kATANoErr", "kATATimeoutErr", "kATAErrUnknownType"} :
       result' = [result EXCEPT ![c] = r]
  /\ isDone' = [isDone EXCEPT ![c] = TRUE]
  /\ Give(c, {"self"})
  /\ UNCHANGED <<hasBuffer, register, status, counterVars, serviceVars>>

\* Mutant: the callback forgets isDone.
DriverCompletesUnseen(c) ==
  /\ Goto(c, "driver", "wait")
  /\ \E r \in {"kATANoErr", "kATATimeoutErr"} : result' = [result EXCEPT ![c] = r]
  /\ Give(c, {"self"})
  /\ UNCHANGED <<hasBuffer, register, isDone, status, counterVars, serviceVars>>

(* The driver sets the result and runs the callback, on this very thread:    *)
(* sCommandCallback, CommandCallback.                                        *)
DriverCompletes(c) ==
  /\ Goto(c, "driver", "wait")
  /\ \E r \in {"kATANoErr", "kATATimeoutErr"} : result' = [result EXCEPT ![c] = r]
  /\ isDone' = [isDone EXCEPT ![c] = TRUE]
  /\ Give(c, {"self"})
  /\ UNCHANGED <<hasBuffer, register, status, counterVars, serviceVars>>

StatusOf(r) ==
  CASE r = "kATANoErr" -> "kIOReturnSuccess"
    [] r = "kATATimeoutErr" -> "kIOReturnTimeout"
    [] OTHER -> "kIOReturnIOError"

\* Mutant: the result of the command is not looked at.
WaitForCommandOnly(c) ==
  /\ isDone[c]
  /\ Goto(c, "wait", AfterSend(c))
  /\ UNCHANGED <<hasBuffer, register, held, isDone, result, status, counterVars,
                 serviceVars>>

(* GatedWaitForCommand sleeps until isDone; then the result is translated. *)
WaitForCommand(c) ==
  /\ isDone[c]
  /\ Goto(c, "wait", AfterSend(c))
  /\ SetStatus(c, StatusOf(result[c]))
  /\ UNCHANGED <<hasBuffer, register, held, isDone, result, counterVars, serviceVars>>

(* buffer->complete() and the labels ReleaseBuffer and ReleaseCommand: each   *)
(* falls through to those below it.  All of it is private to the call.       *)
Below(label) ==
  CASE label = "completeBuffer" -> {"prepared", "buffer", "command"}
    [] label = "releaseBuffer" -> {"buffer", "command"}
    [] label = "releaseCommand" -> {"command"}

ReleaseResources(c) ==
  /\ pc[c] \in Ladder
  /\ Goto(c, pc[c], "releaseProvider")
  /\ Give(c, Below(pc[c]))
  /\ result' = [result EXCEPT ![c] = "kATANoErr"]
  /\ isDone' = [isDone EXCEPT ![c] = FALSE]
  /\ ForgetBuffer(c)
  /\ UNCHANGED <<register, status, counterVars, serviceVars>>

ReleaseProvider(c) ==
  /\ IF fProvider
     THEN Goto(c, "releaseProvider", "decLoad") /\ Give(c, {"provider"})
     ELSE Goto(c, "releaseProvider", "panic") /\ UNCHANGED held
  /\ UNCHANGED <<hasBuffer, register, isDone, result, status, counterVars, serviceVars>>

DecLoad(c) == LoadCounter(c, "decLoad", "decStore")
DecStore(c) ==
  /\ StoreCounter(c, "decStore", "idle", -1)
  /\ SetStatus(c, NoStatus)
  /\ UNCHANGED hasBuffer

CallStep(c) ==
  \/ IncLoad(c) \/ IncStore(c) \/ CheckInactive(c) \/ RetainProvider(c)
  \/ AllocateCommand(c) \/ PrepareBuffer(c) \/ SendSMARTCommand(c) \/ Forward(c)
  \/ DriverRejects(c) \/ DriverCompletes(c) \/ WaitForCommand(c)
  \/ ReleaseResources(c) \/ ReleaseProvider(c) \/ DecLoad(c) \/ DecStore(c)
-------------------------------------------------------------------------------
(* IOKit terminates the nub: it first makes the nub and then its clients     *)
(* inactive, and only after that tells the clients.                          *)
TerminateNub ==
  /\ ~nubInactive
  /\ nubInactive' = TRUE
  /\ UNCHANGED <<callVars, counterVars, fProvider, opened, attached, inactive,
                 closing, tpc>>

TerminateClient ==
  /\ nubInactive /\ attached /\ ~inactive
  /\ inactive' = TRUE
  /\ UNCHANGED <<callVars, counterVars, fProvider, opened, attached, nubInactive,
                 closing, tpc>>

TGoto(t, from, to) ==
  /\ tpc[t] = from
  /\ tpc' = [tpc EXCEPT ![t] = to]

(* message(kIOMessageServiceIsTerminated). *)
Message ==
  /\ inactive /\ attached
  /\ TGoto("message", "idle", "drain")
  /\ UNCHANGED <<callVars, counterVars, fProvider, opened, attached, nubInactive,
                 inactive, closing>>

(* clientClose: IOServiceClose, or the death of the task, calls in progress or *)
(* not.  It looks at fProvider and loads it again for HandleTerminate: a build *)
(* may keep the first value, or read what message has written since.          *)
ClientClose ==
  /\ closing' = TRUE
  /\ TGoto("clientClose", "idle", IF fProvider THEN "load" ELSE "done")
  /\ late' = (late \/ \E c \in Callers : pc[c] \in Entering)
  /\ UNCHANGED <<callVars, fOutstandingCommands, lost, fProvider, opened, attached,
                 nubInactive, inactive>>

LoadProvider ==
  /\ \/ TGoto("clientClose", "load", "drain")
     \/ ~fProvider /\ TGoto("clientClose", "load", "panic")
  /\ UNCHANGED <<callVars, counterVars, fProvider, opened, attached, nubInactive,
                 inactive, closing>>

(* HandleTerminate polls until no command is outstanding... *)
Drain(t) ==
  /\ fOutstandingCommands = 0
  /\ TGoto(t, "drain", "isOpen")
  /\ UNCHANGED <<callVars, counterVars, fProvider, opened, attached, nubInactive,
                 inactive, closing>>

IsOpen(t) ==
  /\ TGoto(t, "isOpen", IF opened THEN "close" ELSE "detach")
  /\ UNCHANGED <<callVars, counterVars, fProvider, opened, attached, nubInactive,
                 inactive, closing>>

Close(t) ==
  /\ TGoto(t, "close", "detach")
  /\ opened' = FALSE
  /\ UNCHANGED <<callVars, counterVars, fProvider, attached, nubInactive,
                 inactive, closing>>

Detach(t) ==
  /\ TGoto(t, "detach", "clear")
  /\ attached' = FALSE
  /\ UNCHANGED <<callVars, counterVars, fProvider, opened, nubInactive,
                 inactive, closing>>

(* ... and ends by forgetting the nub. *)
ClearProvider(t) ==
  /\ TGoto(t, "clear", "done")
  /\ fProvider' = FALSE
  /\ UNCHANGED <<callVars, counterVars, opened, attached, nubInactive,
                 inactive, closing>>

HandleTerminate(t) == Drain(t) \/ IsOpen(t) \/ Close(t) \/ Detach(t) \/ ClearProvider(t)
-------------------------------------------------------------------------------
Next ==
  \/ \E c \in Callers : Call(c) \/ CallStep(c)
  \/ TerminateNub \/ TerminateClient \/ Message \/ ClientClose \/ LoadProvider
  \/ \E t \in Terminators : HandleTerminate(t)

(* A thread inside the kernel runs on; SendCommand has a timeout, so that the  *)
(* driver always returns; IOKit carries a termination through and delivers its *)
(* message; HandleTerminate polls for ever.  Nothing makes a task call, close, *)
(* or a device go away.                                                      *)
Fairness ==
  /\ \A c \in Callers : WF_vars(CallStep(c))
  /\ \A t \in Terminators : WF_vars(HandleTerminate(t))
  /\ WF_vars(LoadProvider) /\ WF_vars(TerminateClient) /\ WF_vars(Message)

Spec == Init /\ [][Next]_vars
FairSpec == Spec /\ Fairness
-------------------------------------------------------------------------------
(* The type of every variable above; the two terminating threads and the      *)
(* callers never leave the labels of the code.                               *)
TypeOK ==
  /\ pc \in [Callers -> CallerPC]
  /\ hasBuffer \in [Callers -> BOOLEAN]
  /\ register \in [Callers -> 0 .. CounterMod - 1]
  /\ held \in [Callers -> [Resources -> Int]]
  /\ isDone \in [Callers -> BOOLEAN]
  /\ result \in [Callers -> {"kATANoErr", "kATATimeoutErr"}]
  /\ status \in [Callers -> Outcomes \cup Refusals \cup {NoStatus}]
  /\ fOutstandingCommands \in 0 .. CounterMod - 1
  /\ fProvider \in BOOLEAN /\ opened \in BOOLEAN /\ attached \in BOOLEAN
  /\ nubInactive \in BOOLEAN /\ inactive \in BOOLEAN /\ closing \in BOOLEAN
  /\ tpc \in [Terminators -> {"idle", "load", "drain", "isOpen", "close", "detach",
                              "clear", "done", "panic"}]
  /\ lost \in BOOLEAN /\ late \in BOOLEAN

(* A call that has passed the isInactive test keeps the nub under its feet    *)
(* until it has released it.                                                 *)
KeepsConnection(c) ==
  /\ pc[c] # "panic"
  /\ pc[c] \in Committed => fProvider /\ opened /\ attached

(* HandleTerminate neither closes, detaches nor clears fProvider under a call, *)
(* whichever of the two threads runs it and however many calls are in the     *)
(* nine methods when it starts, and so no call goes through a NULL fProvider: *)
(* until an update of the counter is lost, or the task lets a call in around  *)
(* its own close.                                                            *)
CallKeepsConnection == Orderly => \A c \in Callers : KeepsConnection(c)

(* The second exception is needed: an exact counter is not enough, and message *)
(* and clientClose both call HandleTerminate as if it were.                  *)
CountKeepsConnection == ~lost => \A c \in Callers : KeepsConnection(c)

(* fOutstandingCommands, which the nine methods raise and lower one by one on *)
(* nine ways out, is the number of calls between the two, a call that went    *)
(* down in a panic among them, in whatever order the ways out are taken: what *)
(* HandleTerminate polls is what it means to wait for, up to the first store  *)
(* over another thread's update.                                             *)
CounterExact ==
  ~lost => fOutstandingCommands = Cardinality({c \in Callers : pc[c] \in Counted})

(* What a call must hold while the driver works on its command. *)
Needed(c) == {"provider", "self", "command"}
               \cup IF hasBuffer[c] THEN {"buffer", "prepared"} ELSE {}

(* The ladder of labels undoes exactly what was done, from wherever a call    *)
(* falls into it: no retain survives the call, none is released twice, and    *)
(* the driver never works on a command, buffer, nub or client already let go. *)
ReferencesBalanced ==
  \A c \in Callers :
    /\ pc[c] \in {"idle", "incLoad", "incStore"} => held[c] = Nothing
    /\ pc[c] = "driver" => held[c] = [r \in Resources |-> IF r \in Needed(c) THEN 1 ELSE 0]

(* The promise to the owning task. While a call waits, its answer is already  *)
(* in the command.                                                           *)
Phase(c) ==
  CASE pc[c] = "idle" -> "idle"
    [] pc[c] = "driver" -> "running"
    [] pc[c] \in {"incLoad", "incStore", "checkInactive", "retainProvider", "allocate",
                  "prepareBuffer", "send", "forward"} -> "requested"
    [] OTHER -> "answered"

Connection == INSTANCE SMARTConnection WITH
  NoAnswer <- NoStatus,
  phase <- [c \in Callers |-> Phase(c)],
  answer <- [c \in Callers |-> IF pc[c] = "wait" THEN StatusOf(result[c]) ELSE status[c]],
  open <- opened,
  void <- ~Orderly

(* The methods and HandleTerminate implement SMARTConnection: a request       *)
(* reaches the driver at most once and never after the close, and the status  *)
(* the caller gets is the one its own trip to the driver, or the refusal that *)
(* kept it from there, produced; all of it until the promise becomes void by  *)
(* a lost update or a call around the close.                                 *)
ImplementsConnection == Connection!Spec

(* Every call returns, unless the kernel goes down under it: neither          *)
(* GatedWaitForCommand nor a lost wake-up holds it for ever.                 *)
CallReturns == \A c \in Callers : pc[c] # "idle" ~> pc[c] \in {"idle", "panic"}

(* When the device goes away HandleTerminate gets past its polling loop and   *)
(* lets go of the nub, so that the driver below can unload, even of a task    *)
(* that closes late; unless an update of the counter is lost.                *)
TerminationCompletes == nubInactive ~> (~fProvider \/ lost)

(* The same said of every termination, as HandleTerminate's poll takes it to  *)
(* be: it counts on fOutstandingCommands coming down to zero.                *)
DeviceIsLetGo == nubInactive ~> ~fProvider
================================================================================
