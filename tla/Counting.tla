------------------------------ MODULE Counting ------------------------------
(* How many messages of a kind there are. *)
EXTENDS Sequences, FiniteSets

(* How many elements of a sequence are in S. *)
Count(seq, S) == Cardinality({i \in DOMAIN seq : seq[i] \in S})
=============================================================================
