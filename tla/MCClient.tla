------------------------------- MODULE MCClient -------------------------------
(* Instances of SATSMARTClient for TLC: processes that run the tools on one     *)
(* nub, with a limit that refuses the last of them.                          *)
EXTENDS SATSMARTClient
===============================================================================
