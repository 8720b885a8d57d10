------------------------------ MODULE MCInput ------------------------------
(* Two keys of one row and one of another; the time limits keep their order *)
(* and are closer to each other.                                           *)
EXTENDS Input

MCPad == <<"1", "4", "2">>
MCRow == [k \in {"1", "2", "4"} |-> IF k = "4" THEN 2 ELSE 1]
=============================================================================
