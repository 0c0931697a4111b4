------------------------------ MODULE MCServices ------------------------------
(* Instances of IOSATServices for TLC: three connections at most, with a limit *)
(* that refuses the third.                                                   *)
EXTENDS IOSATServices
===============================================================================
