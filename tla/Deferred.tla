------------------------------ MODULE Deferred ------------------------------
(***************************************************************************)
(* What invoke() and the timer half of system_service promise about the    *)
(* identity of delayed calls, leaving time out: an accepted call runs at   *)
(* most once, and nothing runs that was not accepted.  It does not promise *)
(* that a call runs at all; the code does not keep that (see Invoke).      *)
(***************************************************************************)
CONSTANT Calls

VARIABLES
    pending,                 \* accepted, not run
    finished                 \* run

deferredVars == <<pending, finished>>

DeferredInit ==
    /\ pending = {}
    /\ finished = {}

Accept(c) ==
    /\ c \notin pending \cup finished
    /\ pending' = pending \cup {c}
    /\ UNCHANGED finished

RunCall(c) ==
    /\ c \in pending
    /\ pending' = pending \ {c}
    /\ finished' = finished \cup {c}

DeferredNext == \E c \in Calls : Accept(c) \/ RunCall(c)

DeferredSpec == DeferredInit /\ [][DeferredNext]_deferredVars
=============================================================================
