------------------------------- MODULE MCDriver -------------------------------
(***************************************************************************)
(* Instances of IOSATDriver for TLC.                                        *)
(*                                                                          *)
(* Every setting there is has an entry, under a USB id of its own; further    *)
(* entries disagree about one USB id, fit on a FireWire bus or by the SCSI     *)
(* strings only, or on two buses.  They are walked forwards and backwards, with *)
(* UNKNOWN first, last and in the middle.                                    *)
(*                                                                          *)
(* Enclosures understand nothing, one set of commands, or two of those the    *)
(* automatic detection tries.  Nobody asks the disk behind an enclosure that   *)
(* understands nothing.  All their behaviours are tried where the entry leaves  *)
(* the mode to the detection; with other entries, whose mode a process can set   *)
(* just as well, the disk is a good one.                                     *)
(***************************************************************************)
EXTENDS IOSATDriver, FiniteSetsExt, SequencesExt

Settings == [mode : ModeNames, permissive : BOOLEAN, delay : BOOLEAN]

MCIdentifiers ==
  {[usb |-> s, mode |-> s.mode, permissive |-> s.permissive, delay |-> s.delay] : s \in Settings}
    \cup {[usb |-> [id |-> "twin"], mode |-> "sat16"], [usb |-> [id |-> "twin"], mode |-> "sat12"],
          [scsi |-> "strings", mode |-> "jmicron"],
          [usb |-> [id |-> "bridge"], fw |-> "firewire", mode |-> "sunplus", permissive |-> FALSE]}
MCUnknown == [mode |-> "none", permissive |-> TRUE, delay |-> TRUE]
MCPersonality == [mode |-> "none", permissive |-> TRUE, delay |-> TRUE]

MCOrders ==
  LET forwards == FoldSet(LAMBDA e, s : Append(s, e), <<>>, MCIdentifiers)
      n == Len(forwards)
  IN  {InsertAt(s, i, MCUnknown) : s \in {forwards, Reverse(forwards)}, i \in {1, n \div 2, n + 1}}

\* The ids that no entry fits, or more than one, or one by another bus.
OddIds == {<<>>, [usb |-> [id |-> "other"]], [usb |-> [id |-> "other"], scsi |-> "strings"],
           [usb |-> [id |-> "twin"]], [fw |-> "firewire"],
           [fw |-> "firewire", scsi |-> "strings"]}
MCIds == OddIds \cup {[usb |-> s] : s \in Settings}

Detected(ids) == ids \notin OddIds /\ ids.usb.mode = "auto"

MCEnclosures ==
  {e \in EnclosureKinds :
     /\ e.modes \in {{}, {"sat12"}, {"jmicron"}, {"sunplus"}, {"sat16", "jmicron"}}
     /\ e.modes = {} => e.identify = "zeros" /\ e.smart = "fail"
     /\ ~Detected(e.ids) =>
          e.modes # {} /\ e.rejects = "check" /\ e.identify = "data" /\ e.smart = "good"}
===============================================================================
