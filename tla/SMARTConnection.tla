---------------------------- MODULE SMARTConnection ----------------------------
(***************************************************************************)
(* What an open connection to the S.M.A.R.T. user client promises to the    *)
(* task that owns it, with no thread, counter or reference count in sight:  *)
(* each request is either handed to the driver once and answered with the   *)
(* outcome of that, or refused without having reached the driver; and a     *)
(* connection that has been closed hands over nothing more, nor closes      *)
(* under a request.  SATSMARTUserClient implements this specification.      *)
(***************************************************************************)
CONSTANTS
  Callers,    \* threads of the task that may have a request in progress
  Outcomes,   \* what the driver can answer to a request handed to it
  Refusals,   \* why a request may be refused before it reaches the driver
  NoAnswer    \* a caller that has not been answered yet

VARIABLES
  phase,      \* per caller: no request, requested, at the driver, answered
  answer,     \* per caller: the status its last request got, once it is answered
  open,       \* FALSE once the connection has been closed
  void        \* TRUE once the task has let its own threads run into each other

vars == <<phase, answer, open, void>>

Init ==
  /\ phase = [c \in Callers |-> "idle"]
  /\ answer = [c \in Callers |-> NoAnswer]
  /\ open = TRUE
  /\ void = FALSE

(* A request moves through its phases in order. *)
Advance(c, from, to) ==
  /\ phase[c] = from
  /\ phase' = [phase EXCEPT ![c] = to]

Answer(c, statuses) == \E s \in statuses : answer' = [answer EXCEPT ![c] = s]

Request(c) ==
  /\ Advance(c, "idle", "requested")
  /\ Answer(c, {NoAnswer})
  /\ UNCHANGED <<open, void>>

Refuse(c) ==
  /\ Advance(c, "requested", "answered")
  /\ Answer(c, Refusals)
  /\ UNCHANGED <<open, void>>

(* Only an open connection reaches the driver. *)
Submit(c) ==
  /\ open
  /\ Advance(c, "requested", "running")
  /\ UNCHANGED <<answer, open, void>>

Complete(c) ==
  /\ Advance(c, "running", "answered")
  /\ Answer(c, Outcomes)
  /\ UNCHANGED <<open, void>>

Return(c) ==
  /\ Advance(c, "answered", "idle")
  /\ Answer(c, {NoAnswer})
  /\ UNCHANGED <<open, void>>

(* The connection closes only when none of its requests is at the driver. *)
Close ==
  /\ open
  /\ \A c \in Callers : phase[c] # "running"
  /\ open' = FALSE
  /\ UNCHANGED <<phase, answer, void>>

Next ==
  \/ \E c \in Callers : Request(c) \/ Refuse(c) \/ Submit(c) \/ Complete(c) \/ Return(c)
  \/ Close

(* A promise that has become void stays so, and binds nobody any more. *)
Void == void'

Spec == Init /\ [][Next \/ Void]_vars
================================================================================
