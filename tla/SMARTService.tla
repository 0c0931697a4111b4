----------------------------- MODULE SMARTService -----------------------------
(***************************************************************************)
(* What those who send a request to the disk may count on, with no register,  *)
(* layout, transfer or enclosure in sight: the disk does of a request what it  *)
(* means, once, or nothing; a refused request has not reached it; an           *)
(* application's request never reaches a disk whose driver promises no SMART;   *)
(* and a success says that it was done.  SATCommandPath implements this         *)
(* specification.                                                            *)
(***************************************************************************)
CONSTANTS
  Applications,   \* the requests of applications
  Drivers,        \* those the driver makes itself
  Meaning,        \* for each request, what a disk does that obeys it
  Waived,         \* the requests whose success promises nothing
  Nothing         \* what a disk has done that has obeyed no request

VARIABLES
  strict,         \* a refusal by the disk is not to be taken for a success
  serving,        \* the driver promises SMART
  switches,       \* what requests can turn on and off in the disk
  phase,          \* "idle" or "pending"
  asked,          \* the last request
  done,           \* what the disk has done of it
  answer,         \* what came of it
  delivered       \* the application has data of the disk in its hands

vars == <<strict, serving, switches, phase, asked, done, answer, delivered>>

Init ==
  /\ strict \in BOOLEAN
  /\ serving \in BOOLEAN
  /\ switches \in [enabled : BOOLEAN, autosave : BOOLEAN]
  /\ phase = "idle"
  /\ asked = Nothing
  /\ done = Nothing
  /\ answer = "none"
  /\ delivered = FALSE

(* A request is refused, fails for want of resources, or is on its way. *)
Ask(r) ==
  /\ phase = "idle"
  /\ asked' = r
  /\ done' = Nothing
  /\ delivered' = FALSE
  /\ \/ phase' = "pending" /\ answer' = "none"
     \/ phase' = "idle" /\ answer' \in {"refused", "failed"}
  /\ UNCHANGED <<strict, serving, switches>>

Switched(o) ==
  [enabled |-> IF o.method = "operations" THEN o.argument = 1 ELSE switches.enabled,
   autosave |-> IF o.method = "autosave" THEN o.argument = 1 ELSE switches.autosave]

(* The disk obeys; nothing has been done of the request before. *)
Do ==
  /\ phase = "pending"
  /\ done = Nothing
  /\ asked \in Applications => serving
  /\ done' = Meaning[asked]
  /\ switches' = Switched(done')
  /\ UNCHANGED <<strict, serving, phase, asked, answer, delivered>>

(* A failure leaves open whether the request was done. *)
Answer ==
  /\ phase = "pending"
  /\ phase' = "idle"
  /\ answer' \in {"success", "failed", "refused"}
  /\ answer' = "refused" => done = Nothing
  /\ answer' = "success" /\ strict /\ asked \notin Waived => done = Meaning[asked]
  /\ asked \in Applications /\ ~serving => answer' = "refused"
  /\ delivered' \in BOOLEAN
  /\ delivered' => answer' = "success" /\ asked \in Applications /\ asked.method = "readData"
  /\ UNCHANGED <<strict, serving, switches, asked, done>>

Next ==
  \/ \E r \in Applications \cup Drivers : Ask(r)
  \/ Do
  \/ Answer

Spec == Init /\ [][Next]_vars
===============================================================================
