----------------------------- MODULE MCDoorLock -----------------------------
(* Instances of DoorLock for TLC.  A second is three ticks and a publish   *)
(* blocks for at most one, so that messages arrive at every phase of a     *)
(* beat; the countdown starts at 4 in place of 10.                         *)
EXTENDS DoorLock
=============================================================================
