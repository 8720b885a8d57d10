------------------------------ MODULE MCInvoke ------------------------------
(* Instances of Invoke for TLC.  Ticks are scaled: 100 ms waits take one   *)
(* tick, the delays of 1000 and 2000 ms take two and four, and the order   *)
(* of all limits is that of the code.                                      *)
EXTENDS Invoke

TwoDelays == {2, 4}
=============================================================================
