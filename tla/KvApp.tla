-------------------------------- MODULE KvApp --------------------------------
(***************************************************************************)
(* The program over its key-value store: app_main opens it, marks it as    *)
(* working and writes the default password if there is none;               *)
(* system_service then changes the password when asked.  The power can go  *)
(* at any write to flash, during recovery too.                             *)
(***************************************************************************)
EXTENDS KvDb

CONSTANTS Values, None,
          Passwords,   \* what the user may choose, as text
          MaxCuts      \* power cuts considered

Avail == "fdb_avalible"
Pasw == "doorlock_pasw"
One == "1"
Zeros == "0000"

ASSUME KvAppAssumption ==
  /\ {Avail, Pasw} \subseteq Keys
  /\ Passwords \cup {One, Zeros} \subseteq Values
  /\ Defaults \in Seq(Keys \X Values)
  /\ MaxCuts \in Nat /\ LoadRounds \in Nat

VARIABLES pc,      \* off, or how far app_main has come: avail, pasw, run
          db,      \* the database object, with the flash below it
          cuts,
          shown,   \* while on, what a reader finds
          may,     \* while off, what each key may hold when the power is back
          ghosts   \* for each key, values that were lost and may come back

vars == <<pc, db, cuts, shown, may, ghosts>>

(***************************************************************************)
(* What a reader of the open store finds.                                  *)
(***************************************************************************)
Find(d, key) == ValueOf(find_kv(d, key))
Reads(d) == [k \in Keys |-> Find(d, k)]
Exactly(map) == [k \in Keys |-> {map[k]}]
Nothing == [k \in Keys |-> None]
Settled == \A k \in Keys : \E v \in may[k] : may[k] = {v}
Whole == \A k \in Keys : ghosts[k] = {}
Spared(map, alone) == IF alone THEN map ELSE [k \in Keys |-> map[k] \cup {None}]
Haunted(k, vals, lost) == IF lost \/ ghosts[k] # {} THEN ghosts[k] \cup vals ELSE {}

Rest(d) == [d EXCEPT !.trace = <<>>]
PoweredOff(flash) == Opened(flash)

Init == /\ pc = "off"
        /\ db = PoweredOff([s \in Sec |-> Erased])
        /\ cuts = 0
        /\ shown = Nothing
        /\ may = [k \in Keys |-> Values \cup {None}]
        /\ ghosts = [k \in Keys |-> {}]

\* The operation that gives d runs to its end ...
Completes(d) == /\ db' = Rest(d)
                /\ shown' = Reads(d)
                /\ cuts' = cuts
\* ... or the power goes after one of its writes, and only the flash is left.
CutDuring(d) == /\ cuts < MaxCuts
                /\ \E n \in 1 .. Len(d.trace) : db' = PoweredOff(d.trace[n])
                /\ cuts' = cuts + 1
                /\ pc' = "off"
                /\ shown' = Nothing

\* fdb_init of app_main, which comes back when no collection is asked for.
Opens(d) == ~d.gcReq /\ Completes(d)
PowerOn == /\ pc = "off"
           /\ Opens(fdb_kvdb_init(db.flash))
           /\ pc' = "avail"
           /\ may' = Exactly(Nothing)
           /\ ghosts' = [k \in Keys |-> Haunted(k, may[k], shown'[k] = None)]

PowerOnCut == /\ pc = "off"
              /\ CutDuring(fdb_kvdb_init(db.flash))
              /\ may' = Spared(may, Settled)
              /\ UNCHANGED ghosts

\* d is what one call of fdb_kv_set leaves, unless it is cut short.
Sets(key, val, d, next) == \/ /\ Completes(d)
                              /\ pc' = next
                              /\ ghosts' = [ghosts EXCEPT ![key] = Haunted(key, {val}, FALSE)]
                              /\ UNCHANGED may
                           \/ /\ CutDuring(d)
                              /\ may' = [Spared(Exactly(shown), Whole) EXCEPT ![key] = {shown[key], val, None}]
                              /\ UNCHANGED ghosts

\* A pair is looked up, and set if there is no text under its name.
SetsUnless(str, key, val, next) == IF str.val = "none"
                                   THEN Sets(key, val, set_kv(str.db, key, val), next)
                                   ELSE /\ Completes(str.db)
                                        /\ pc' = next
                                        /\ UNCHANGED <<may, ghosts>>

\* The store is tried out with a pair of its own.
TestStore == /\ pc = "avail"
             /\ SetsUnless(fdb_kv_get(db, Avail), Avail, One, "pasw")

DefaultPassword == /\ pc = "pasw"
                   /\ SetsUnless(fdb_kv_get(db, Pasw), Pasw, Zeros, "run")

\* system_service on a verified change of the password.
ChangePassword(new) == /\ pc = "run"
                       /\ Sets(Pasw, new, set_kv(db, Pasw, new), "run")

Unplugged == /\ pc # "off"
             /\ cuts < MaxCuts
             /\ cuts' = cuts + 1
             /\ pc' = "off"
             /\ db' = PoweredOff(db.flash)
             /\ shown' = Nothing
             /\ may' = Exactly(shown)
             /\ UNCHANGED ghosts

Next == \/ PowerOn \/ PowerOnCut \/ TestStore \/ DefaultPassword \/ Unplugged
        \/ \E new \in Passwords : ChangePassword(new)

Spec == Init /\ [][Next]_vars

-----------------------------------------------------------------------------
(* A node is never written past the end of its sector, by a set, a         *)
(* collection or a recovery, and every field has its type.                 *)
TypeOK ==
    /\ pc \in {"off", "avail", "pasw", "run"}
    /\ cuts \in 0 .. MaxCuts
    /\ db.oldest \in Sec
    /\ \A k \in Keys : db.kvCache[k] \in (Sec \X (Nat \ {0})) \cup {Nowhere}
    /\ \A s \in Sec :
         LET sector == db.flash[s] IN
         /\ sector.store \in UNUSED .. FULL /\ sector.dirty \in UNUSED .. GC
         /\ \A i \in 1 .. Len(sector.nodes) : sector.nodes[i].st \in UNUSED .. ERR_HDR
         /\ Remain(sector) >= 0

(* The sector table says what is on flash, or that it does not know:       *)
(* alloc_kv takes from it the place of the next node (fdb_kvdb.c:909).     *)
InfoOf(s) == [NoInfo EXCEPT !.at = s, !.ok = TRUE,
                            !.store = db.flash[s].store, !.dirty = db.flash[s].dirty,
                            !.empty = Len(db.flash[s].nodes) + 1, !.remain = Remain(db.flash[s])]
CachesAgree ==
    pc # "off" => \A s \in Sec :
        Cached(db, s) => db.secCache[s] \in {InfoOf(s), [InfoOf(s) EXCEPT !.empty = FAILED, !.remain = 0]}

(* Between two calls a sector is empty: a collection begun by the next one *)
(* has where to move the live nodes (FDB_GC_EMPTY_SEC_THRESHOLD).          *)
CollectorHasRoom == pc # "off" => \E s \in Sec : db.flash[s] = Formatted

(* No set leaves a collection asked for: the next one would take the last  *)
(* empty sector for its node, and not leave it to the collector.  (Openings*)
(* are the ones that come back, and those ask for none.)                   *)
CollectsWhenAsked == pc # "off" => ~db.gcReq

(* What is found through the cache of addresses, whose hits look only at   *)
(* the name, is a pair that is stored.                                     *)
FindsStored ==
    pc # "off" =>
        LET stored == {<<pair.key, pair.val>> : pair \in Range(fdb_kv_iterate(db))}
        IN  \A k \in Keys : shown[k] # None => <<k, shown[k]>> \in stored

(* KvDb keeps what KvStore promises, whatever write the power goes at: the *)
(* pair being set is old, new or lost.  The other one is untouched, unless *)
(* the opening after a cut is cut short too, or a set is cut short in a    *)
(* store that lost a value before; and a value once lost may come back.    *)
Store == INSTANCE KvStore WITH on <- pc # "off"
KeepsStore == Store!StoreSpec

(* "recovery the old KV" (fdb_kvdb.c:1605): wherever the power goes while  *)
(* the password is changed, the next power-on finds a password.            *)
PasswordKept ==
    pc = "run" => \A new \in Passwords :
        LET d == set_kv(db, Pasw, new)
        IN  \A n \in 1 .. Len(d.trace) : Find(fdb_kvdb_init(d.trace[n]), Pasw) # None
=============================================================================
