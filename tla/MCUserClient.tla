---------------------------- MODULE MCUserClient ----------------------------
(***************************************************************************)
(* Instances of SATSMARTUserClient for TLC: two threads of the task and the  *)
(* smallest counter that holds them both.                                   *)
(***************************************************************************)
EXTENDS SATSMARTUserClient

\* Where the run that checks the promises stops: past a lost update only
\* ReferencesBalanced still says something, and its theorem covers it there.
NothingLost == ~lost
=============================================================================
