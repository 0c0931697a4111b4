---------------------------- MODULE MCCommandPath -----------------------------
(***************************************************************************)
(* An instance of SATCommandPath for TLC: a log and an address past a byte;    *)
(* buffers below, at and above a sector, of the 16 sectors allowed, of one     *)
(* more, and of 256, whose count is zero in a byte.                           *)
(* The data of READ DATA are two bytes and their checksum, with sums that reach  *)
(* and pass both ends of a signed byte.                                      *)
(***************************************************************************)
EXTENDS SATCommandPath

MCLogAddresses == {6, 256}
MCLogSizes == {100, 512, 513, 8192, 8704, 131072}
MCSamples == [1 .. 3 -> {0, 1, 127, 128, 255}]
===============================================================================
