------------------------------ MODULE MCKvApp ------------------------------
(* KvApp for TLC: three sectors and two of them in the sector table.  A    *)
(* sector takes two whole nodes; with those that a cut left unfinished     *)
(* there can be four.  A default has the zero byte at its end that makes   *)
(* fdb_kv_get take it for binary data, written ~ here.                     *)
EXTENDS KvApp, TLC

CONSTANTS A, B       \* two passwords to change to

MCKeys == {Avail, Pasw}
MCDefaults == << <<Avail, "0~">>, <<Pasw, "0000~">> >>
MCNotText == {"0~", "0000~"}
MCValues == MCNotText \cup {One, Zeros, A, B}
MCSymmetry == Permutations({A, B})
=============================================================================
