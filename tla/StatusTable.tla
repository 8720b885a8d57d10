---------------------------- MODULE StatusTable ----------------------------
(* How a status is kept on flash (fdb_utils.c), where a bit can be cleared *)
(* and only an erase sets it again.  A table is the set of its bits that   *)
(* are cleared, the first bit of its first byte being 0; a status clears   *)
(* the bits of those before it.                                            *)
EXTENDS Naturals

(* The table for a status, of which only the byte it ends in is cleared:   *)
(* enough for up to seven statuses besides the first.                      *)
_fdb_set_status(index) ==
    IF index = 0 THEN {} ELSE {8 * ((index - 1) \div 8) + b : b \in 0 .. (index % 8) - 1}

(* The last bit cleared tells the status. *)
_fdb_get_status(table, num) ==
    LET cleared == {b \in 0 .. num - 2 : b \in table}
    IN  IF cleared = {} THEN 0 ELSE 1 + CHOOSE b \in cleared : \A c \in cleared : c <= b

(* What flash holds once bits are programmed over it. *)
Programmed(flash, bits) == flash \cup bits

(* The first status is that of erased flash, nothing is written for it.    *)
_fdb_write_status(flash, index) == Programmed(flash, _fdb_set_status(index))
=============================================================================
