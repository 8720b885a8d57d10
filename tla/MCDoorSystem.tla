---------------------------- MODULE MCDoorSystem ----------------------------
(* Instances of DoorSystem for TLC.  One character is enough to tell an    *)
(* empty, the right and a wrong password apart.  A run bounds the keys that*)
(* are pressed by a choice of keys for each press; when they are pressed,  *)
(* and what else happens in between, is left open.                         *)
EXTENDS DoorSystem

OneChar == {"0"}
Zero == <<"0">>

(* At the door, away from the menu: right and wrong passwords, one or two  *)
(* attempts at opening it.                                                 *)
AtTheDoor == <<{"0"}, {"0", "#"}, {"0", "#"}, {"0"}, {"#"}>>

(* Into the menu. *)
InTheMenu == <<{"ENTER"}, {"ENTER", "DOWN"}, {"ENTER"}, {"UP", "DOWN"}, {"ENTER"}, {"UP", "DOWN", "0", "RETURN"}>>

(* Set password, the old one is typed once or twice, then new ones. *)
SetPassword == <<{"ENTER"}, {"DOWN"}, {"ENTER"}, {"0"}, {"#"}, {"ENTER", "0", "#"}>>
                 \o [i \in 1..6 |-> {"0", "#"}]
=============================================================================
