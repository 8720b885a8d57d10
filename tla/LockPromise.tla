---------------------------- MODULE LockPromise ----------------------------
(***************************************************************************)
(* What the door promises to the rest of the system, without queues and    *)
(* without time: a grant opens it with RelockSecs seconds on the clock,    *)
(* each beat takes one second off, and the beat that reaches zero locks    *)
(* it.  DoorLock (timed, with the display publishes) and DoorSystem (all   *)
(* tasks together) are both shown to implement this.                       *)
(***************************************************************************)
EXTENDS Naturals

CONSTANT RelockSecs          \* countdown_cnt=10, main.c:53

VARIABLES
    open,                    \* the lock is open: green led on, red led off
    left                     \* seconds on the countdown, 0 when locked

lockVars == <<open, left>>

LockInit ==
    /\ open = FALSE
    /\ left = 0

(* A valid result opens the door, or starts the countdown again. *)
Grant ==
    /\ open' = TRUE
    /\ left' = RelockSecs

(* A second passes and the door stays open. *)
CountDown ==
    /\ open
    /\ left > 1
    /\ left' = left - 1
    /\ UNCHANGED open

(* The last second passes: the door locks. *)
Relock ==
    /\ open
    /\ left = 1
    /\ open' = FALSE
    /\ left' = 0

LockNext == Grant \/ CountDown \/ Relock

LockSpec == LockInit /\ [][LockNext]_lockVars
=============================================================================
