------------------------------- MODULE OpenedNub -------------------------------
(***************************************************************************)
(* A nub as those see it who open it, with no reference count, registry entry  *)
(* or error label in sight: a client is let in once in its life at most, while  *)
(* the device is there and the nub is not full; its life is over when its       *)
(* making fails, it closes or the device goes; and the nub goes after the last   *)
(* who had it open.  IOSATServices implements this specification.              *)
(***************************************************************************)
EXTENDS Integers, FiniteSets

CONSTANTS
  Clients,    \* the user clients there may be at a time
  Most        \* how many of them may have the nub open

VARIABLES
  device,     \* "present", "unplugged", or "detached": the nub is done with
  mounted,    \* the storage stack has the nub open
  life        \* per client: there is none, it is being made, has the nub open,
              \* or waits for its release

vars == <<device, mounted, life>>

Init ==
  /\ device = "present"
  /\ mounted = FALSE
  /\ life = [c \in Clients |-> "none"]

Open == {c \in Clients : life[c] = "open"}

Lives(c, from, to) == life[c] \in from /\ life' = [life EXCEPT ![c] = to]

Make(c) ==
  /\ device # "detached"
  /\ Lives(c, {"none"}, "made")
  /\ UNCHANGED <<device, mounted>>

Admit(c) ==
  /\ device = "present"
  /\ Cardinality(Open) < Most
  /\ Lives(c, {"made"}, "open")
  /\ UNCHANGED <<device, mounted>>

End(c) ==
  /\ Lives(c, {"made", "open"}, "over")
  /\ UNCHANGED <<device, mounted>>

(* A client is released; one that still had the nub open closes it. *)
Free(c) ==
  /\ Lives(c, {"made", "open", "over"}, "none")
  /\ UNCHANGED <<device, mounted>>

Mount ==
  /\ device = "present"
  /\ ~mounted
  /\ mounted' = TRUE
  /\ UNCHANGED <<device, life>>

Unmount ==
  /\ mounted
  /\ mounted' = FALSE
  /\ UNCHANGED <<device, life>>

Unplug ==
  /\ device = "present"
  /\ device' = "unplugged"
  /\ UNCHANGED <<mounted, life>>

Detach ==
  /\ device = "unplugged"
  /\ ~mounted
  /\ Open = {}
  /\ device' = "detached"
  /\ UNCHANGED <<mounted, life>>

Next ==
  \/ \E c \in Clients : Make(c) \/ Admit(c) \/ End(c) \/ Free(c)
  \/ Mount \/ Unmount \/ Unplug \/ Detach

Spec == Init /\ [][Next]_vars
===============================================================================
