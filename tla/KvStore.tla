------------------------------- MODULE KvStore -------------------------------
(***************************************************************************)
(* What the key-value store promises: a map from keys to values that one   *)
(* program writes and a power cut leaves as it was, but for the pair being *)
(* written.  When the power is back that pair has its old value or its new *)
(* one, or it is gone; and once it was gone, the values it might have had  *)
(* can come back at any later time, when the store is opened or sectors    *)
(* are collected: the promise never stops counting on them.                *)
(*                                                                         *)
(* A pair that nobody was writing is lost in two cases, and each takes more*)
(* than one cut: the opening that repairs the store after a cut is cut     *)
(* short itself (~Settled), or a set is cut short in a store that has lost *)
(* something before (~Whole).                                              *)
(***************************************************************************)
CONSTANTS Keys, Values, None

VARIABLES on,      \* the database is open
          shown,   \* while it is open, what a reader finds
          may,     \* while it is closed, what a reader may find for each key next
          ghosts   \* for each key, the values that were lost and may come back

Nothing == [k \in Keys |-> None]
Exactly(map) == [k \in Keys |-> {map[k]}]
OrGhost(k, vals) == vals \cup ghosts[k]
\* vals join the ghosts of a key that has some already, or that is now lost.
Haunted(k, vals, lost) == IF lost \/ ghosts[k] # {} THEN OrGhost(k, vals) ELSE {}

\* The power went between two operations, so that one value is left of each key.
Settled == \A k \in Keys : \E v \in may[k] : may[k] = {v}
\* Nothing was ever lost.
Whole == \A k \in Keys : ghosts[k] = {}
\* A cut leaves the pairs in map alone, or else any of them may be gone.
Spared(map, alone) == IF alone THEN map ELSE [k \in Keys |-> map[k] \cup {None}]

StoreInit == /\ on = FALSE
             /\ shown = Nothing
             /\ may = [k \in Keys |-> Values \cup {None}]
             /\ ghosts = [k \in Keys |-> {}]

Open == /\ ~on
        /\ on' = TRUE
        /\ \A k \in Keys : shown'[k] \in OrGhost(k, may[k])
        /\ may' = Exactly(Nothing)
        /\ ghosts' = [k \in Keys |-> Haunted(k, may[k], shown'[k] = None)]

CutOpen == /\ ~on
           /\ may' = Spared(may, Settled)
           /\ UNCHANGED <<on, shown, ghosts>>

Put(k, v) == /\ on
             /\ shown'[k] \in OrGhost(k, {v})
             /\ \A j \in Keys \ {k} : shown'[j] \in OrGhost(j, {shown[j]})
             /\ ghosts' = [ghosts EXCEPT ![k] = Haunted(k, {v}, FALSE)]
             /\ UNCHANGED <<on, may>>

Cut == /\ on
       /\ on' = FALSE
       /\ shown' = Nothing
       /\ may' = Exactly(shown)
       /\ UNCHANGED ghosts

CutPut(k, v) == /\ on
                /\ on' = FALSE
                /\ shown' = Nothing
                /\ may' = [Spared(Exactly(shown), Whole) EXCEPT ![k] = {shown[k], v, None}]
                /\ UNCHANGED ghosts

StoreNext == \/ Open \/ CutOpen \/ Cut
             \/ \E k \in Keys, v \in Values \cup {None} : Put(k, v) \/ CutPut(k, v)

StoreSpec == StoreInit /\ [][StoreNext]_<<on, shown, may, ghosts>>
=============================================================================
