------------------------------ MODULE KvProofs ------------------------------
(***************************************************************************)
(* What the key-value store keeps for any number of sectors and pairs, any *)
(* sizes, and any order of sets, collections, power cuts and openings.     *)
(* FlashProofs has what each operation on nodes and sectors keeps; here    *)
(* are the calls built from them: setting a pair, the default pairs, the   *)
(* opening with its checks and recovery, and the program that makes these  *)
(* calls.  The induction is over StoreInv.                                 *)
(***************************************************************************)
EXTENDS FlashProofs

-----------------------------------------------------------------------------
(* A store between two calls: sound, with an empty sector for the next     *)
(* collection, and none asked for.                                         *)
Steady(d0) == Sound(d0, NSec) /\ Empty(d0) /\ ~d0.gcReq

(* A store stays steady while no sector changes its length. *)
LEMMA SteadyQuiet ==
    ASSUME NEW d0, Steady(d0), NEW d, Sound(d, NSec), Quiet(d0, d)
    PROVE  Steady(d)
  BY QuietEmpty DEF Steady

(* An empty sector stays empty while no sector changes its length. *)
LEMMA CalmEmpty ==
    ASSUME NEW d0, NEW d, Calm(d0.flash, d.flash), Empty(d0)
    PROVE  Empty(d)
  BY DEF Calm, CalmAt, Empty

(* alloc_kv on a steady store: room leaves it steady, no room leaves it sound. *)
LEMMA AllocSteady ==
    ASSUME NEW d0, Steady(d0), NEW size \in Nat, NEW r, r = alloc_kv(d0, size)
    PROVE  /\ r \in Walks /\ Sound(r.db, NSec) /\ Empty(r.db)
           /\ r.at # Nowhere => Steady(r.db) /\ Room(r.db, NSec, r.at, r.info, size)
<1>1. Sound(d0, NSec) /\ Mode(d0, NSec)
  BY DEF Steady, Mode
<1>2. /\ r \in Walks /\ Sound(r.db, NSec) /\ Calm(d0.flash, r.db.flash)
      /\ r.at # Nowhere => Room(r.db, NSec, r.at, r.info, size) /\ Quiet(d0, r.db)
  BY <1>1, AllocSound
<1>3. Empty(r.db)
  BY <1>2, CalmEmpty DEF Steady
<1>4. r.at # Nowhere => Steady(r.db)
  BY <1>2, SteadyQuiet
<1> QED BY <1>2, <1>3, <1>4

\* What new_kv gives.
RoomOrNot(r, size) == Steady(r.db) /\ (r.at # Nowhere => Room(r.db, NSec, r.at, r.info, size))

(* new_kv: with a collection if need be the store is steady again, and room is room. *)
LEMMA NewRoom ==
    ASSUME NEW d0, Steady(d0), NEW size \in Nat, NEW r, r = new_kv(d0, size)
    PROVE  RoomOrNot(r, size)
<1> DEFINE u == alloc_kv(d0, size)
           e == CollectFor(u.db, size)
           v == alloc_kv(e, size)
<1>1. /\ u \in Walks /\ Sound(u.db, NSec) /\ Empty(u.db)
      /\ u.at # Nowhere => Steady(u.db) /\ Room(u.db, NSec, u.at, u.info, size)
  BY AllocSteady
<1>2. r = OrCollect(u, size)
  BY DEF new_kv
<1> HIDE DEF u
<1>3. CASE u.at # Nowhere
  <2>1. r = u
    BY <1>2, <1>3 DEF OrCollect
  <2> QED BY <1>1, <1>3, <2>1 DEF RoomOrNot
<1>4. CASE u.at = Nowhere /\ ~u.db.gcReq
  <2>1. r = u
    BY <1>2, <1>4 DEF OrCollect
  <2> QED BY <1>1, <1>4, <2>1 DEF RoomOrNot, Steady
<1>5. CASE u.at = Nowhere /\ u.db.gcReq
  <2>1. r = AskedAgain(v)
    BY <1>2, <1>5 DEF OrCollect, CollectFor
  <2>2. Steady(e)
    BY <1>1, <1>5, CollectSound DEF MayCollect, Steady
  <2> HIDE DEF e
  <2>3. /\ v \in Walks /\ Sound(v.db, NSec) /\ Empty(v.db)
        /\ v.at # Nowhere => Steady(v.db) /\ Room(v.db, NSec, v.at, v.info, size)
    BY <2>2, AllocSteady
  <2> HIDE DEF v
  <2>4. CASE v.at # Nowhere
    <3>1. r = v
      BY <2>1, <2>4 DEF AskedAgain
    <3> QED BY <2>3, <2>4, <3>1 DEF RoomOrNot
  <2>5. CASE v.at = Nowhere
    <3> DEFINE d == Collected(v.db)
    <3>1. r = [v EXCEPT !.db.gcReq = FALSE]
      BY <2>1, <2>5 DEF AskedAgain
    <3>2. r = WithDb(v, d)
      BY <2>3, <3>1 DEF WithDb, Collected, Walks
    <3>3. Sound(d, NSec) /\ d.flash = v.db.flash /\ ~d.gcReq
      BY <2>3, CollectedSound DEF Sound
    <3> HIDE DEF d
    <3>4. d \in Stores
      BY <3>3, SoundFields DEF Sound
    <3>5. r.db = d /\ Alike(v, r)
      BY <2>3, <3>2, <3>4, WalkDb
    <3> QED BY <2>3, <2>5, <3>3, <3>5 DEF RoomOrNot, Steady, Empty, Alike
  <2> QED BY <2>4, <2>5
<1> QED BY <1>3, <1>4, <1>5

-----------------------------------------------------------------------------
(* A pair is set. *)
LEMMA CreateSteady ==
    ASSUME NEW d0, Steady(d0), NEW at, NEW info, Room(d0, NSec, at, info, KvLen),
           NEW key \in Names, NEW val \in Values \cup {"none"},
           NEW room, room.at = at, room.info = info, NEW d, d = create_kv_blob(d0, room, key, val)
    PROVE  Steady(d) /\ Grows(d0, d)
<1>1. Sound(d0, NSec) /\ ~d0.gcReq
  BY DEF Steady
<1>2. d = CreateIn(InUse(d0, info), at, key, val)
  BY DEF create_kv_blob, InUse
<1>3. Sound(d, NSec) /\ Grows(d0, d) /\ Kept(d0, d) /\ Left(d, NSec, at[1])
  BY <1>1, <1>2, CreateSound
<1>4. Empty(d)
  BY <1>3, Sizes DEF Left, Empty
<1> QED BY <1>1, <1>3, <1>4 DEF Steady, Kept

(* A pair is made, and the one of the same name deleted: the store stays steady. *)
LEMMA ReplaceSteady ==
    ASSUME NEW room, Steady(room.db), Room(room.db, NSec, room.at, room.info, KvLen), NEW key \in Keys,
           NEW val \in Values, NEW d, d = Replace(find_kv(room.db, key), room, key, val)
    PROVE  Steady(d)
<1> DEFINE old == find_kv(room.db, key)
           p == Prepared(old)
           e == create_kv_blob(p, room, key, val)
           f == DeleteOld(e, old)
<1>1. d = CollectIfAsked(f)
  BY DEF Replace
<1>2. Sound(old.db, NSec) /\ Quiet(room.db, old.db) /\ Found(old.db, old.at)
  BY FindSound DEF Steady
<1> HIDE DEF old
<1>3. Steady(old.db) /\ Room(old.db, NSec, room.at, room.info, KvLen)
  BY <1>2, SteadyQuiet, RoomQuiet DEF Steady
<1>4. Steady(p) /\ Room(p, NSec, room.at, room.info, KvLen) /\ Found(p, old.at)
  <2>1. CASE old.at = Nowhere
    <3>1. p = old.db
      BY <2>1 DEF Prepared
    <3> QED BY <1>2, <1>3, <3>1
  <2>2. CASE old.at # Nowhere
    <3>1. p = Prepares(old.db, old.at)
      BY <2>2 DEF Prepared, Prepares
    <3>2. Placed(old.db, old.at)
      BY <1>2, <2>2 DEF Found
    <3>3. Sound(p, NSec) /\ Quiet(old.db, p) /\ Placed(p, old.at)
      BY <1>2, <3>1, <3>2, PreparesSound
    <3> QED BY <1>2, <1>3, <3>3, SteadyQuiet, RoomQuiet DEF Found
  <2> QED BY <2>1, <2>2
<1> HIDE DEF p
<1>5. Steady(e) /\ Grows(p, e)
  <2>1. key \in Names /\ val \in Values \cup {"none"}
    BY DEF Names
  <2> QED BY <1>4, <2>1, CreateSteady
<1> HIDE DEF e
<1>6. Steady(f)
  <2>1. CASE old.at = Nowhere
    BY <1>5, <2>1 DEF DeleteOld
  <2>2. CASE old.at # Nowhere
    <3>1. f = Finishes(e, old.at)
      BY <2>2 DEF DeleteOld, Finishes
    <3>2. Placed(p, old.at)
      BY <1>4, <2>2 DEF Found
    <3>3. Placed(e, old.at)
      BY <1>4, <1>5, <3>2, GrowsPlaced DEF Steady
    <3>4. Sound(f, NSec) /\ Quiet(e, f)
      BY <1>5, <3>1, <3>3, FinishesSound DEF Steady
    <3> QED BY <1>5, <3>4, SteadyQuiet
  <2> QED BY <2>1, <2>2
<1> QED BY <1>1, <1>6 DEF CollectIfAsked, Steady

(* set_kv, which deletes, replaces or finds no room, leaves the store steady. *)
LEMMA SetSteady ==
    ASSUME NEW d0, Steady(d0), NEW key \in Keys, NEW val \in Values, NEW d, d = set_kv(d0, key, val)
    PROVE  Steady(d)
<1> DEFINE room == new_kv(d0, KvLen)
<1>1. KvLen \in Nat
  BY Sizes
<1>2. RoomOrNot(room, KvLen)
  BY <1>1, NewRoom
<1>3. d = ReplaceIn(room, key, val)
  BY DEF set_kv
<1> HIDE DEF room
<1>4. CASE room.at = Nowhere
  BY <1>2, <1>3, <1>4 DEF ReplaceIn, RoomOrNot
<1>5. CASE room.at # Nowhere
  <2>1. d = Replace(find_kv(room.db, key), room, key, val)
    BY <1>3, <1>5 DEF ReplaceIn
  <2> QED BY <1>2, <1>5, <2>1, ReplaceSteady DEF RoomOrNot
<1> QED BY <1>4, <1>5

-----------------------------------------------------------------------------
(* Every sector is formatted, and the defaults are written. *)
Formatting == INSTANCE ListProofs WITH Step <- format_sector

(* What each sector formatted keeps holds when all are. *)
LEMMA FormattingWalk ==
    ASSUME NEW base, NEW A, base \in A[0],
           \A n \in 1 .. NSec : \A a \in A[n - 1] : format_sector(a, n - 1) \in A[n]
    PROVE  FoldLeft(format_sector, base, [s \in 1 .. NSec |-> s - 1]) \in A[NSec]
<1> DEFINE seq == [s \in 1 .. NSec |-> s - 1]
<1>1. seq \in Seq(Int) /\ Len(seq) = NSec /\ \A n \in 1 .. NSec : seq[n] = n - 1
  BY NSecIs
<1> HIDE DEF seq
<1>2. \A n \in 1 .. Len(seq) : \A a \in A[n - 1] : format_sector(a, seq[n]) \in A[n]
  BY <1>1
<1>3. FoldLeft(format_sector, base, seq) = Formatting!FoldLeft(format_sector, base, seq)
  BY Zenon DEF FoldLeft, MapThenFoldSet, Max, Formatting!FoldLeft, Formatting!MapThenFoldSet, Formatting!Max
<1>4. Formatting!FoldLeft(format_sector, base, seq) \in A[Len(seq)]
  BY <1>1, <1>2, Formatting!Kept, Zenon
<1> QED BY <1>1, <1>3, <1>4 DEF seq

WithKvCache(d0, cache) == [d0 EXCEPT !.kvCache = cache]

(* The addresses that are remembered are read by no condition of soundness. *)
LEMMA KvCacheSound ==
    ASSUME NEW d0, NEW c, NEW r, SoundBut(d0, c, r), NEW cache \in [Keys -> Addresses],
           NEW d, d = WithKvCache(d0, cache)
    PROVE  SoundBut(d, c, r) /\ Tabled(d0, d) /\ d.secCache = d0.secCache
<1>1. d0 \in Stores
  BY SoundFields
<1>2. /\ d \in Stores /\ d.flash = d0.flash /\ d.trace = d0.trace /\ d.secCache = d0.secCache
      /\ d.oldest = d0.oldest /\ d.gcReq = d0.gcReq /\ d.recov = d0.recov
  BY <1>1 DEF Stores, WithKvCache
<1> QED BY <1>2 DEF SoundBut, Cached, Tabled, Kept

Forgotten == [k \in Keys |-> Nowhere]
(* No address is remembered. *)
LEMMA ForgottenType == Forgotten \in [Keys -> Addresses]
  BY DEF Forgotten, Addresses

\* The first n sectors were formatted.
FormattedTo(d0, n) == {a \in Stores : /\ Sound(a, NSec) /\ a.gcReq = d0.gcReq
                                      /\ \A s \in Sec : s < n => a.flash[s] = Formatted}

(* Formatting every sector leaves every sector empty. *)
LEMMA FormatAllSound ==
    ASSUME NEW d0, Sound(d0, NSec), NEW d, d = FormatAll(d0)
    PROVE  Sound(d, NSec) /\ d.gcReq = d0.gcReq /\ \A s \in Sec : d.flash[s] = Formatted
<1> DEFINE base == WithKvCache(d0, Forgotten)
           A == [n \in 0 .. NSec |-> FormattedTo(d0, n)]
<1>1. NSec \in Nat /\ Sec = 0 .. NSec - 1
  BY Sizes
<1>2. base \in A[0]
  <2>1. Sound(base, NSec) /\ base.gcReq = d0.gcReq
    BY ForgottenType, KvCacheSound DEF Sound, Tabled, Kept
  <2>2. base \in Stores
    BY <2>1, SoundFields DEF Sound
  <2> HIDE DEF base
  <2>3. base \in FormattedTo(d0, 0)
    BY <1>1, <2>1, <2>2 DEF FormattedTo
  <2> QED BY <1>1, <2>3
<1>3. ASSUME NEW n \in 1 .. NSec, NEW a \in A[n - 1] PROVE format_sector(a, n - 1) \in A[n]
  <2> DEFINE s == n - 1
             e == format_sector(a, s)
  <2>0. n - 1 \in 0 .. NSec /\ n \in 0 .. NSec /\ s \in Sec
    BY <1>1
  <2>1. a \in FormattedTo(d0, n - 1)
    BY <1>3, <2>0
  <2> HIDE DEF A
  <2>2. SoundBut(a, NSec, s) /\ a.gcReq = d0.gcReq /\ \A t \in Sec : t < n - 1 => a.flash[t] = Formatted
    BY <2>0, <2>1, SoundWeakens DEF FormattedTo
  <2>3. Sound(e, NSec) /\ Kept(a, e) /\ e.flash[s] = Formatted /\ \A t \in Sec \ {s} : e.flash[t] = a.flash[t]
    BY <2>0, <2>2, FormatSound
  <2>4. \A t \in Sec : t < n => e.flash[t] = Formatted
    BY <1>1, <2>2, <2>3
  <2>5. e \in Stores
    BY <2>3, SoundFields DEF Sound
  <2> HIDE DEF e
  <2>6. e \in FormattedTo(d0, n)
    BY <2>2, <2>3, <2>4, <2>5 DEF FormattedTo, Kept
  <2> QED BY <2>0, <2>6 DEF A, e
<1>4. d \in A[NSec]
  <2>1. d = FoldLeft(format_sector, base, [s \in 1 .. NSec |-> s - 1])
    BY DEF FormatAll, WithKvCache, Forgotten
  <2> HIDE DEF A, base
  <2> QED BY <1>2, <1>3, <2>1, FormattingWalk, Zenon
<1>5. d \in FormattedTo(d0, NSec)
  BY <1>1, <1>4
<1> QED BY <1>1, <1>5 DEF FormattedTo

Defaulting == INSTANCE ListProofs WITH Step <- CreateDefault

(* What each default pair set keeps holds when all are. *)
LEMMA DefaultingWalk ==
    ASSUME NEW base, NEW A, base \in A, \A a \in A : \A kv \in Keys \X Values : CreateDefault(a, kv) \in A
    PROVE  FoldLeft(CreateDefault, base, Defaults) \in A
<1>1. Defaults \in Seq(Keys \X Values)
  BY KvAppAssumption
<1>2. FoldLeft(CreateDefault, base, Defaults) = Defaulting!FoldLeft(CreateDefault, base, Defaults)
  BY Zenon DEF FoldLeft, MapThenFoldSet, Max, Defaulting!FoldLeft, Defaulting!MapThenFoldSet, Defaulting!Max
<1>3. Defaulting!FoldLeft(CreateDefault, base, Defaults) \in A
  BY <1>1, Defaulting!KeptIn, Zenon
<1> QED BY <1>2, <1>3

Stopped(a) == [a EXCEPT !.stop = TRUE]

(* A walk is stopped. *)
LEMMA WalkStopped ==
    ASSUME NEW a \in Walks, NEW b, b = Stopped(a)
    PROVE  b \in Walks /\ b.db = a.db
  BY DEF Walks, Stopped

(* fdb_kv_set_default leaves the store steady. *)
LEMMA DefaultSteady ==
    ASSUME NEW d0, Sound(d0, NSec), ~d0.gcReq, NEW d, d = fdb_kv_set_default(d0)
    PROVE  Steady(d)
<1> DEFINE f == FormatAll(d0)
           base == NoFind(f)
           A == {a \in Walks : Steady(a.db)}
           r == FoldLeft(CreateDefault, base, Defaults)
<1>1. d = WithOldest(r.db, 0)
  BY DEF fdb_kv_set_default, WithOldest
<1>2. Sound(f, NSec) /\ ~f.gcReq /\ \A s \in Sec : f.flash[s] = Formatted
  BY FormatAllSound
<1> HIDE DEF f
<1>3. Steady(f) /\ f \in Stores
  BY <1>2, Sizes, SoundFields DEF Steady, Empty, Sound
<1>4. base \in A
  BY <1>3, WalkStarts
<1> HIDE DEF base
<1>5. ASSUME NEW a \in A, NEW kv \in Keys \X Values PROVE CreateDefault(a, kv) \in A
  <2> DEFINE room == new_kv(a.db, KvLen)
             e == create_kv_blob(room.db, room, kv[1], kv[2])
             w == CreateDefault(a, kv)
  <2>1. a \in Walks /\ Steady(a.db) /\ KvLen \in Nat
    BY <1>5, Sizes
  <2>2. RoomOrNot(room, KvLen)
    BY <2>1, NewRoom
  <2>3. w = IF a.stop THEN a ELSE PutDefault(room, kv)
    BY DEF CreateDefault
  <2> HIDE DEF room, w
  <2>4. CASE a.stop
    BY <1>5, <2>3, <2>4 DEF w
  <2>5. CASE ~a.stop /\ room.at = Nowhere
    <3>1. w = Stopped(NoFind(room.db))
      BY <2>3, <2>5 DEF PutDefault, Stopped
    <3>2. Steady(room.db) /\ room.db \in Stores
      BY <2>2, SoundFields DEF RoomOrNot, Steady, Sound
    <3>3. NoFind(room.db) \in Walks /\ NoFind(room.db).db = room.db
      BY <3>2, WalkStarts
    <3>4. w \in Walks /\ w.db = room.db
      BY <3>1, <3>3, WalkStopped
    <3> QED BY <3>2, <3>4 DEF w
  <2>6. CASE ~a.stop /\ room.at # Nowhere
    <3>1. w = NoFind(e)
      BY <2>3, <2>6 DEF PutDefault
    <3>2. kv[1] \in Names /\ kv[2] \in Values \cup {"none"}
      BY DEF Names
    <3>3. Steady(e)
      BY <2>2, <2>6, <3>2, CreateSteady DEF RoomOrNot
    <3> HIDE DEF e
    <3>4. e \in Stores
      BY <3>3, SoundFields DEF Steady, Sound
    <3>5. w \in Walks /\ w.db = e
      BY <3>1, <3>4, WalkStarts
    <3> QED BY <3>3, <3>5 DEF w
  <2> QED BY <2>4, <2>5, <2>6
<1>6. r \in A
  <2> HIDE DEF A
  <2> QED BY <1>4, <1>5, DefaultingWalk, Zenon
<1> HIDE DEF r
<1>7. 0 \in Sec /\ Sound(r.db, NSec)
  BY <1>6, Sizes DEF Steady
<1>8. Sound(d, NSec) /\ d.flash = r.db.flash /\ d.gcReq = r.db.gcReq
  BY <1>1, <1>7, OldestSound
<1> QED BY <1>6, <1>8 DEF Steady, Empty

-----------------------------------------------------------------------------
(* The oldest sector is looked for with the table of a zeroed object: every *)
(* step is at sector 0.                                                    *)
OldestStep(a, n) == IF a.stop \/ a.sec = NSec THEN a
                  ELSE VisitSector(a, HeadOf(a.db, a.sec), n, UNUSED, FALSE, check_oldest_addr_cb)
Oldest == INSTANCE ListProofs WITH Step <- OldestStep

(* What each sector looked at keeps holds at the end. *)
LEMMA OldestWalk ==
    ASSUME NEW acc, NEW A, WithSec(acc, acc.db.oldest) \in A,
           \A n \in 1 .. NSec + 1 : \A a \in A : OldestStep(a, n) \in A
    PROVE  sector_iterator(acc, UNUSED, FALSE, check_oldest_addr_cb) \in A
<1>1. sector_iterator(acc, UNUSED, FALSE, check_oldest_addr_cb)
          = Oldest!FoldLeft(OldestStep, WithSec(acc, acc.db.oldest), [n \in 1 .. NSec + 1 |-> n])
  BY Zenon DEF sector_iterator, HeadOf, OldestStep, WithSec, FoldLeft, MapThenFoldSet, Max, Oldest!FoldLeft,
               Oldest!MapThenFoldSet, Oldest!Max
<1>2. Oldest!FoldLeft(OldestStep, WithSec(acc, acc.db.oldest), [n \in 1 .. NSec + 1 |-> n]) \in A
  BY OneMore, Oldest!AlwaysCounting, Zenon
<1> QED BY <1>1, <1>2, Zenon

WalksAtZero(d0) == [db : {d0}, stop : BOOLEAN, i : Nat, sec : {0, NSec}, at : Addresses, key : Names,
                    info : Infos, size : Nat, empties : Nat, usings : Nat, last : Nat, oldest : {0},
                    failed : Nat, pairs : Seq(Nodes)]
ZeroInfo == [NoInfo EXCEPT !.at = 0, !.span = 0]
OldestNext(a, sec) == [a EXCEPT !.last = UNUSED, !.sec = sec]

(* Sector 0 is in the zeroed table ... *)
LEMMA ZeroKnown ==
    ASSUME NEW f, NEW d0, d0 = Opened(f)
    PROVE  HeadOf(d0, 0) = [db |-> d0, info |-> ZeroInfo]
<1>1. 0 \in Sec
  BY Sizes
<1>2. d0.secCache[0] = ZeroInfo
  BY <1>1 DEF Opened, ZeroTable, ZeroInfo
<1>3. ZeroInfo.at = 0
  BY DEF ZeroInfo, NoInfo
<1>4. Cached(d0, 0)
  BY <1>2, <1>3 DEF Cached
<1>5. Known(d0, 0, FALSE)
  BY <1>4 DEF Known
<1> QED BY <1>2, <1>5, Zenon DEF HeadOf, read_sector_info

(* ... so that each step of the search stays at it ... *)
LEMMA OldestSame ==
    ASSUME NEW f, NEW d0, d0 = Opened(f), NEW a, a \in WalksAtZero(d0), NEW n \in 1 .. NSec + 1
    PROVE  OldestStep(a, n) \in WalksAtZero(d0)
<1> DEFINE head == HeadOf(a.db, a.sec)
           b == [a EXCEPT !.db = head.db]
           w == check_oldest_addr_cb(b, head.info)
           sec == get_next_sector_addr(head.info, n)
           e == AtNextSector(w, head.info, n)
<1>1. CASE a.stop \/ a.sec = NSec
  BY <1>1 DEF OldestStep
<1>2. CASE ~a.stop /\ a.sec # NSec
  <2>1. a.sec = 0 /\ a.db = d0
    BY <1>2 DEF WalksAtZero
  <2>2. head = [db |-> d0, info |-> ZeroInfo]
    BY <2>1, ZeroKnown
  <2>3. head.db = d0 /\ head.info = ZeroInfo
    BY <2>2
  <2>4. ZeroInfo.store = UNUSED /\ ZeroInfo.at = 0 /\ ZeroInfo.span = 0
    BY DEF ZeroInfo, NoInfo
  <2>5. OldestStep(a, n) = e
    BY <1>2, Zenon DEF OldestStep, VisitSector, CallOn
  <2> HIDE DEF head
  <2>6. b = a
    BY <2>1, <2>3 DEF WalksAtZero
  <2>7. UNUSED \notin {USING, FULL} /\ UNUSED \in Nat
    BY DEF UNUSED, USING, FULL
  <2>8. w = [a EXCEPT !.oldest = a.oldest, !.last = UNUSED]
    <3>1. w = check_oldest_addr_cb(a, ZeroInfo)
      BY <2>3, <2>6
    <3> QED BY <2>4, <2>7, <3>1 DEF check_oldest_addr_cb
  <2>9. sec \in {0, NSec}
    BY <2>3, <2>4, Sizes DEF get_next_sector_addr
  <2>10. e = OldestNext(a, sec)
    <3>1. e = [w EXCEPT !.sec = sec]
      BY DEF AtNextSector
    <3> HIDE DEF w, sec, e
    <3> QED BY <2>8, <3>1 DEF OldestNext, WalksAtZero
  <2> HIDE DEF sec, e
  <2>11. e \in WalksAtZero(d0)
    BY <2>7, <2>9, <2>10 DEF OldestNext, WalksAtZero
  <2> QED BY <2>5, <2>11
<1> QED BY <1>1, <1>2

\* The object before it is initialised.
Zeroed(f) == [flash : {f}, trace : {<<>>}, secCache : {ZeroTable}, kvCache : [Keys -> Addresses],
              oldest : {0}, gcReq : BOOLEAN, recov : BOOLEAN, lastDel : BOOLEAN]

(* ... and keeps the fields of a zeroed object ... *)
LEMMA OpenedIs ==
    ASSUME NEW f, NEW d0, d0 = Opened(f)
    PROVE  d0 \in Zeroed(f) /\ ~d0.gcReq
<1>1. [k \in Keys |-> Nowhere] \in [Keys -> Addresses]
  BY DEF Addresses
<1>2. d0 \in Zeroed(f)
  BY <1>1 DEF Opened, Zeroed
<1>3. ~d0.gcReq
  BY DEF Opened
<1> QED BY <1>2, <1>3

(* ... and the oldest sector is 0. *)
LEMMA OldestIsZero ==
    ASSUME NEW f, NEW d0, d0 = Opened(f)
    PROVE  FindOldest(d0) = d0
<1> DEFINE A == WalksAtZero(d0)
           acc == NoFind(d0)
           r == sector_iterator(acc, UNUSED, FALSE, check_oldest_addr_cb)
           b == WithSec(acc, 0)
<1>1. acc.db.oldest = 0
  BY DEF NoFind, Opened
<1>2. b \in A
  <2>1. acc = [db |-> d0, stop |-> FALSE, i |-> 0, sec |-> NSec, at |-> Nowhere, key |-> "none",
               info |-> NoInfo, size |-> 0, empties |-> 0, usings |-> 0, last |-> 0, oldest |-> 0,
               failed |-> 0, pairs |-> <<>>]
    BY DEF NoFind, FAILED
  <2>2. NoInfo \in Infos /\ Nowhere \in Addresses /\ <<>> \in Seq(Nodes) /\ "none" \in Names
    BY NoInfoType DEF Addresses, Names
  <2> HIDE DEF acc
  <2>3. acc \in A
    BY <2>1, <2>2 DEF WalksAtZero
  <2> QED BY <2>3 DEF WalksAtZero, WithSec
<1>3. \A n \in 1 .. NSec + 1 : \A a \in A : OldestStep(a, n) \in A
  BY OldestSame
<1>4. r \in A
  <2>1. WithSec(acc, acc.db.oldest) \in A
    BY <1>1, <1>2
  <2> HIDE DEF A, acc
  <2> QED BY <1>3, <2>1, OldestWalk, Zenon
<1>5. FindOldest(d0) = [r.db EXCEPT !.oldest = r.oldest]
  BY DEF FindOldest, StartingAt
<1> HIDE DEF r
<1>6. r.db = d0 /\ r.oldest = 0
  BY <1>4 DEF WalksAtZero
<1>7. d0 \in Zeroed(f)
  BY OpenedIs
<1> QED BY <1>5, <1>6, <1>7 DEF Zeroed

BlankTable == [s \in Sec |-> NoInfo]
WithTables(d0, table, cache) == [d0 EXCEPT !.secCache = table, !.kvCache = cache]
WithRecov(d0, b) == [d0 EXCEPT !.recov = b]
Loading(f) == WithRecov(WithTables(FindOldest(Opened(f)), BlankTable, Forgotten), TRUE)

(* An object with blank tables over well-formed flash is sound. *)
LEMMA LoadingSound ==
    ASSUME NEW f, Fine(f), NEW d0, d0 = Loading(f)
    PROVE  Sound(d0, NSec) /\ ~d0.gcReq /\ d0.flash = f
<1> DEFINE z == Opened(f)
<1>1. 0 \in Sec /\ NSec \notin Sec
  BY Sizes
<1>2. BlankTable \in [Sec -> Infos] /\ \A s \in Sec : BlankTable[s].at = NSec
  BY NoInfoType DEF BlankTable
<1>3. Forgotten \in [Keys -> Addresses] /\ <<>> \in Seq(Flashes) /\ f \in Flashes
  BY ForgottenType DEF Fine
<1>4. z \in Zeroed(f) /\ ~z.gcReq /\ FindOldest(z) = z
  BY OpenedIs, OldestIsZero
<1>5. d0 = [[z EXCEPT !.secCache = BlankTable, !.kvCache = Forgotten] EXCEPT !.recov = TRUE]
  BY <1>4 DEF Loading, WithTables, WithRecov
<1> HIDE DEF z
<1>6. d0 \in Stores
  <2> DEFINE y == [z EXCEPT !.secCache = BlankTable, !.kvCache = Forgotten]
  <2>1. y \in Stores
    BY <1>1, <1>2, <1>3, <1>4 DEF Zeroed, Stores
  <2>2. d0 = [y EXCEPT !.recov = TRUE]
    BY <1>5
  <2> HIDE DEF y
  <2> QED BY <2>1, <2>2 DEF Stores
<1>7. d0.flash = f /\ d0.trace = <<>> /\ d0.secCache = BlankTable
  BY <1>4, <1>5 DEF Zeroed
<1>8. ~d0.gcReq
  BY <1>4, <1>5 DEF Zeroed
<1> QED BY <1>1, <1>2, <1>6, <1>7, <1>8 DEF Sound, SoundBut, Cached

-----------------------------------------------------------------------------
(* Broken headers are formatted. *)
HdrCheckStep(a, n) == IF a.stop \/ a.sec = NSec THEN a
                  ELSE VisitSector(a, HeadOf(a.db, a.sec), n, UNUSED, FALSE, check_sec_hdr_cb)
HdrCheck == INSTANCE ListProofs WITH Step <- HdrCheckStep

(* What each header checked keeps, step by step, holds at the end. *)
LEMMA HdrCheckWalk ==
    ASSUME NEW acc, NEW A, WithSec(acc, acc.db.oldest) \in A[0],
           \A n \in 1 .. NSec + 1 : \A a \in A[n - 1] : HdrCheckStep(a, n) \in A[n]
    PROVE  sector_iterator(acc, UNUSED, FALSE, check_sec_hdr_cb) \in A[NSec + 1]
<1>1. sector_iterator(acc, UNUSED, FALSE, check_sec_hdr_cb)
          = HdrCheck!FoldLeft(HdrCheckStep, WithSec(acc, acc.db.oldest), [n \in 1 .. NSec + 1 |-> n])
  BY Zenon DEF sector_iterator, HeadOf, HdrCheckStep, WithSec, FoldLeft, MapThenFoldSet, Max, HdrCheck!FoldLeft,
               HdrCheck!MapThenFoldSet, HdrCheck!Max
<1>2. HdrCheck!FoldLeft(HdrCheckStep, WithSec(acc, acc.db.oldest), [n \in 1 .. NSec + 1 |-> n]) \in A[NSec + 1]
  BY OneMore, HdrCheck!KeptCounting, Zenon
<1> QED BY <1>1, <1>2, Zenon

HdrFailed(a, d) == [a EXCEPT !.db = d, !.failed = @ + 1]

(* A walk that has formatted a sector with a bad header. *)
LEMMA WalkHdrFailed ==
    ASSUME NEW a \in Walks, NEW d \in Stores, NEW b, b = HdrFailed(a, d)
    PROVE  b \in Walks /\ b.db = d /\ (~a.stop => ~b.stop)
<1> DEFINE k == a.failed + 1
<1>1. k \in Nat /\ b = [a EXCEPT !.db = d, !.failed = k]
  BY DEF Walks, HdrFailed
<1> HIDE DEF k
<1>2. b \in Walks /\ b.db = d
  BY <1>1 DEF Walks
<1>3. ~a.stop => ~b.stop
  BY <1>1 DEF Walks
<1> QED BY <1>2, <1>3

\* What a collection could start from.
Collectable(d) == Empty(d) \/ \E t \in Sec : d.flash[t].dirty = GC
HdrTo(d0, o, n) == {a \in Walks : /\ Around(a, o, n) /\ Sound(a.db, NSec) /\ ~a.stop /\ a.db.gcReq = d0.gcReq
                                  /\ Collectable(a.db) \/ \E t \in Sec : Dist(o, t) >= n /\ a.db.flash[t] = Erased}
HdrsOf(acc) == sector_iterator(acc, UNUSED, FALSE, check_sec_hdr_cb)

(* Checking the headers formats the erased sectors: one is empty or marked for collection. *)
LEMMA HdrsSound ==
    ASSUME NEW d0, Sound(d0, NSec), NEW acc, acc = NoFind(d0), NEW r, r = HdrsOf(acc)
    PROVE  r \in Walks /\ Sound(r.db, NSec) /\ r.db.gcReq = d0.gcReq /\ Collectable(r.db)
<1> DEFINE o == acc.db.oldest
           A == [n \in 0 .. NSec + 1 |-> HdrTo(d0, o, n)]
<1>0. acc \in Walks /\ acc.db = d0 /\ ~acc.stop
  <2>1. d0 \in Stores
    BY SoundFields DEF Sound
  <2>2. acc \in Walks /\ acc.db = d0 /\ acc.stop = FALSE
    BY <2>1, WalkStarts
  <2> QED BY <2>2
<1>1. o \in Sec /\ NSec \in Nat
  BY <1>0, SoundFields, Sizes DEF Sound
<1>2. WithSec(acc, acc.db.oldest) \in A[0]
  <2> DEFINE b == WithSec(acc, o)
  <2>1. Around(b, o, 0) /\ b.db = acc.db /\ Alike(acc, b)
    BY <1>0, <1>1, RingBegins
  <2>2. \A t \in Sec : Dist(o, t) >= 0
    BY <1>1, DistIs
  <2> HIDE DEF b
  <2>3. Collectable(d0) \/ \E t \in Sec : Dist(o, t) >= 0 /\ d0.flash[t] = Erased
    <3>1. PICK t \in Sec : Spare(d0.flash[t])
      BY DEF Sound, SoundBut, Fine
    <3> QED BY <2>2, <3>1 DEF Spare, Collectable, Empty
  <2>4. b \in HdrTo(d0, o, 0)
    BY <1>0, <2>1, <2>3 DEF HdrTo, Alike, Around
  <2> QED BY <1>1, <2>4 DEF b
<1>3. ASSUME NEW n \in 1 .. NSec + 1, NEW a \in A[n - 1] PROVE HdrCheckStep(a, n) \in A[n]
  <2>0. n - 1 \in 0 .. NSec + 1 /\ n \in 0 .. NSec + 1
    BY <1>1
  <2>1. a \in HdrTo(d0, o, n - 1)
    BY <1>3, <2>0
  <2> HIDE DEF A, o
  <2>2. a \in Walks /\ Around(a, o, n - 1) /\ Sound(a.db, NSec) /\ ~a.stop /\ a.db.gcReq = d0.gcReq
        /\ (Collectable(a.db) \/ \E t \in Sec : Dist(o, t) >= n - 1 /\ a.db.flash[t] = Erased)
    BY <2>1 DEF HdrTo
  <2>3. CASE a.stop \/ a.sec = NSec
    <3>1. HdrCheckStep(a, n) = a
      BY <2>3 DEF HdrCheckStep
    <3>2. Around(a, o, n) /\ (~a.stop => n - 1 >= NSec)
      BY <1>1, <2>2, <2>3, RingOver
    <3>3. \A t \in Sec : Dist(o, t) \in 0 .. NSec - 1
      BY <1>1, DistIs
    <3>4. Collectable(a.db)
      BY <1>1, <2>0, <2>2, <3>2, <3>3
    <3>5. a \in HdrTo(d0, o, n)
      BY <2>2, <3>2, <3>4 DEF HdrTo
    <3> QED BY <2>0, <3>1, <3>5 DEF A
  <2>4. CASE ~a.stop /\ a.sec # NSec
    <3> DEFINE s == a.sec
               head == HeadOf(a.db, s)
               b == WithDb(a, head.db)
               w == check_sec_hdr_cb(b, head.info)
               e == AtNextSector(w, head.info, n)
    <3>1. s \in Sec /\ n \in 1 .. NSec /\ Dist(o, s) = n - 1
      BY <1>1, <2>2, <2>4, RingAt
    <3>2. HdrCheckStep(a, n) = e
      BY <2>4 DEF HdrCheckStep, VisitSector, CallOn, WithDb
    <3>3. /\ b \in Walks /\ b.db = head.db /\ Alike(a, b) /\ Sound(b.db, NSec) /\ Tabled(a.db, b.db)
          /\ Tells(head.info, s, b.db.flash[s], NSec) /\ head.info \in Infos /\ head.info.at = s
      <4>1. a \in Walks /\ Sound(a.db, NSec)
        BY <2>2
      <4>2. s \in Sec
        BY <3>1
      <4>3. head = HeadOf(a.db, s) /\ b = WithDb(a, head.db)
        OBVIOUS
      <4> HIDE DEF s, head, b
      <4> QED BY <4>1, <4>2, <4>3, HeadRead
    <3>4. ~b.stop /\ b.db.gcReq = d0.gcReq
          /\ (Collectable(b.db) \/ \E t \in Sec : Dist(o, t) >= n - 1 /\ b.db.flash[t] = Erased)
      BY <2>2, <3>3 DEF Tabled, Kept, Alike, Collectable, Empty
    <3>5. b.db.flash[s] \in Sectors /\ Shape(b.db.flash[s])
      BY <3>1, <3>3, SoundFields DEF Sound
    <3> HIDE DEF b, head, s
    <3>6. w \in Walks /\ Sound(w.db, NSec) /\ ~w.stop /\ w.db.gcReq = d0.gcReq
          /\ (Collectable(w.db) \/ \E t \in Sec : Dist(o, t) >= n /\ w.db.flash[t] = Erased)
      <4>1. CASE head.info.ok
        <5>1. w = b
          BY <4>1 DEF check_sec_hdr_cb
        <5>2. b.db.flash[s] # Erased
          BY <3>3, <3>5, <4>1, ShapeFacts DEF Tells
        <5>3. ASSUME NEW t \in Sec, Dist(o, t) >= n - 1, b.db.flash[t] = Erased PROVE Dist(o, t) >= n
          <6>1. t # s
            BY <5>2, <5>3
          <6>2. Dist(o, t) # n - 1 /\ Dist(o, t) \in 0 .. NSec - 1
            BY <1>1, <3>1, <6>1, DistIs
          <6> QED BY <1>1, <5>3, <6>2
        <5> HIDE DEF w
        <5> QED BY <3>3, <3>4, <5>1, <5>3
      <4>2. CASE ~head.info.ok
        <5> DEFINE d == format_sector(b.db, s)
        <5>1. w = HdrFailed(b, d)
          BY <3>3, <4>2 DEF check_sec_hdr_cb, HdrFailed
        <5>2. SoundBut(b.db, NSec, s)
          BY <3>1, <3>3, SoundWeakens
        <5>3. Sound(d, NSec) /\ Kept(b.db, d) /\ d.flash[s] = Formatted
          BY <3>1, <5>2, FormatSound
        <5> HIDE DEF d, w
        <5>4. d \in Stores
          BY <5>3, SoundFields DEF Sound
        <5>5. w \in Walks /\ w.db = d /\ ~w.stop
          BY <3>3, <3>4, <5>1, <5>4, WalkHdrFailed
        <5> QED BY <3>1, <3>4, <5>3, <5>5 DEF Kept, Collectable, Empty
      <4> QED BY <4>1, <4>2
    <3> HIDE DEF w
    <3>7. Around(e, o, n) /\ e.db = w.db /\ Alike(w, e)
      BY <1>1, <3>1, <3>3, <3>6, RingNext
    <3> HIDE DEF e
    <3>8. e \in HdrTo(d0, o, n)
      BY <3>6, <3>7 DEF HdrTo, Alike, Around
    <3> QED BY <2>0, <3>2, <3>8 DEF A
  <2> QED BY <2>3, <2>4
<1>4. r \in A[NSec + 1]
  <2> HIDE DEF A
  <2> QED BY <1>2, <1>3, HdrCheckWalk, Zenon DEF HdrsOf
<1>5. r \in HdrTo(d0, o, NSec + 1)
  BY <1>1, <1>4
<1>6. \A t \in Sec : Dist(o, t) \in 0 .. NSec - 1
  BY <1>1, DistIs
<1> HIDE DEF o
<1>7. Collectable(r.db)
  BY <1>1, <1>5, <1>6 DEF HdrTo
<1> QED BY <1>5, <1>7 DEF HdrTo

(* With every header bad all sectors are formatted; one is empty or marked all the same. *)
LEMMA HeadersSound ==
    ASSUME NEW d0, Sound(d0, NSec), ~d0.gcReq, NEW d, d = CheckHeaders(d0)
    PROVE  Sound(d, NSec) /\ ~d.gcReq /\ Collectable(d)
<1> DEFINE acc == NoFind(d0)
           r == HdrsOf(acc)
<1>1. r \in Walks /\ Sound(r.db, NSec) /\ r.db.gcReq = d0.gcReq /\ Collectable(r.db)
  BY HdrsSound
<1>2. d = IfAllFailed(r)
  BY DEF CheckHeaders, HdrsOf
<1> HIDE DEF r
<1>3. CASE r.failed = NSec
  <2>1. d = fdb_kv_set_default(r.db)
    BY <1>2, <1>3 DEF IfAllFailed
  <2>2. Steady(d)
    BY <1>1, <2>1, DefaultSteady
  <2> QED BY <2>2 DEF Steady, Collectable
<1>4. CASE r.failed # NSec
  <2>1. d = r.db
    BY <1>2, <1>4 DEF IfAllFailed
  <2> QED BY <1>1, <2>1
<1> QED BY <1>3, <1>4

-----------------------------------------------------------------------------
(* Sectors whose collection was cut short are collected. *)
RegainStep(a, n) == IF a.stop \/ a.sec = NSec THEN a
                  ELSE VisitSector(a, HeadOf(a.db, a.sec), n, UNUSED, FALSE, check_and_recovery_gc_cb)
Regain == INSTANCE ListProofs WITH Step <- RegainStep

(* What each sector kept through its check holds at the end. *)
LEMMA RegainWalk ==
    ASSUME NEW acc, NEW A, WithSec(acc, acc.db.oldest) \in A[0],
           \A n \in 1 .. NSec + 1 : \A a \in A[n - 1] : RegainStep(a, n) \in A[n]
    PROVE  sector_iterator(acc, UNUSED, FALSE, check_and_recovery_gc_cb) \in A[NSec + 1]
<1>1. sector_iterator(acc, UNUSED, FALSE, check_and_recovery_gc_cb)
          = Regain!FoldLeft(RegainStep, WithSec(acc, acc.db.oldest), [n \in 1 .. NSec + 1 |-> n])
  BY Zenon DEF sector_iterator, HeadOf, RegainStep, WithSec, FoldLeft, MapThenFoldSet, Max, Regain!FoldLeft,
               Regain!MapThenFoldSet, Regain!Max
<1>2. Regain!FoldLeft(RegainStep, WithSec(acc, acc.db.oldest), [n \in 1 .. NSec + 1 |-> n]) \in A[NSec + 1]
  BY OneMore, Regain!KeptCounting, Zenon
<1> QED BY <1>1, <1>2, Zenon

(* gc_collect with a sector to format leaves the store steady. *)
LEMMA GcCollectSound ==
    ASSUME NEW d0, Sound(d0, NSec), MayCollect(d0), NEW d, d = gc_collect(d0)
    PROVE  Steady(d)
<1>1. NSec * SecSize \in Nat
  BY Sizes
<1>2. d = CollectFor(d0, NSec * SecSize)
  BY DEF gc_collect, CollectFor
<1> QED BY <1>1, <1>2, CollectSound DEF Steady

\* The sectors up to n were checked for a collection cut short.
RegainTo(o, n) == {a \in Walks : /\ Around(a, o, n) /\ Sound(a.db, NSec) /\ ~a.stop /\ ~a.db.gcReq
                                 /\ Empty(a.db) \/ \E t \in Sec : Dist(o, t) >= n /\ a.db.flash[t].dirty = GC}
RegainedOf(acc) == sector_iterator(acc, UNUSED, FALSE, check_and_recovery_gc_cb)

(* A collection that was cut short is finished: the store is steady. *)
LEMMA RegainSound ==
    ASSUME NEW d0, Sound(d0, NSec), ~d0.gcReq, Collectable(d0), NEW d, d = RecoverGc(d0)
    PROVE  Steady(d)
<1> DEFINE acc == NoFind(d0)
           o == acc.db.oldest
           r == RegainedOf(acc)
           A == [n \in 0 .. NSec + 1 |-> RegainTo(o, n)]
<1>0. acc \in Walks /\ acc.db = d0 /\ ~acc.stop
  <2>1. d0 \in Stores
    BY SoundFields DEF Sound
  <2>2. acc \in Walks /\ acc.db = d0 /\ acc.stop = FALSE
    BY <2>1, WalkStarts
  <2> QED BY <2>2
<1>1. o \in Sec /\ NSec \in Nat
  BY <1>0, SoundFields, Sizes DEF Sound
<1>2. WithSec(acc, acc.db.oldest) \in A[0]
  <2> DEFINE b == WithSec(acc, o)
  <2> HIDE DEF acc
  <2>1. Around(b, o, 0) /\ b.db = acc.db /\ Alike(acc, b)
    BY <1>0, <1>1, RingBegins
  <2>2. \A t \in Sec : Dist(o, t) >= 0
    BY <1>1, DistIs
  <2> HIDE DEF b
  <2>3. b \in RegainTo(o, 0)
    BY <1>0, <2>1, <2>2 DEF RegainTo, Alike, Around, Collectable
  <2> QED BY <1>1, <2>3 DEF b
<1> HIDE DEF acc
<1>3. ASSUME NEW n \in 1 .. NSec + 1, NEW a \in A[n - 1] PROVE RegainStep(a, n) \in A[n]
  <2>0. n - 1 \in 0 .. NSec + 1 /\ n \in 0 .. NSec + 1
    BY <1>1
  <2>1. a \in RegainTo(o, n - 1)
    BY <1>3, <2>0
  <2> HIDE DEF A, o
  <2>2. a \in Walks /\ Around(a, o, n - 1) /\ Sound(a.db, NSec) /\ ~a.stop /\ ~a.db.gcReq
        /\ (Empty(a.db) \/ \E t \in Sec : Dist(o, t) >= n - 1 /\ a.db.flash[t].dirty = GC)
    BY <2>1 DEF RegainTo
  <2>3. CASE a.stop \/ a.sec = NSec
    <3>1. RegainStep(a, n) = a
      BY <2>3 DEF RegainStep
    <3>2. Around(a, o, n) /\ (~a.stop => n - 1 >= NSec)
      BY <1>1, <2>2, <2>3, RingOver
    <3>3. \A t \in Sec : Dist(o, t) \in 0 .. NSec - 1
      BY <1>1, DistIs
    <3>4. Empty(a.db)
      BY <1>1, <2>0, <2>2, <3>2, <3>3
    <3>5. a \in RegainTo(o, n)
      BY <2>2, <3>2, <3>4 DEF RegainTo
    <3> QED BY <2>0, <3>1, <3>5 DEF A
  <2>4. CASE ~a.stop /\ a.sec # NSec
    <3> DEFINE s == a.sec
               head == HeadOf(a.db, s)
               b == WithDb(a, head.db)
               w == check_and_recovery_gc_cb(b, head.info)
               e == AtNextSector(w, head.info, n)
    <3>1. s \in Sec /\ n \in 1 .. NSec /\ Dist(o, s) = n - 1
      BY <1>1, <2>2, <2>4, RingAt
    <3>2. RegainStep(a, n) = e
      BY <2>4 DEF RegainStep, VisitSector, CallOn, WithDb
    <3>3. /\ b \in Walks /\ b.db = head.db /\ Alike(a, b) /\ Sound(b.db, NSec) /\ Tabled(a.db, b.db)
          /\ Tells(head.info, s, b.db.flash[s], NSec) /\ head.info \in Infos /\ head.info.at = s
      <4>1. a \in Walks /\ Sound(a.db, NSec)
        BY <2>2
      <4>2. s \in Sec
        BY <3>1
      <4>3. head = HeadOf(a.db, s) /\ b = WithDb(a, head.db)
        OBVIOUS
      <4> HIDE DEF s, head, b
      <4> QED BY <4>1, <4>2, <4>3, HeadRead
    <3>4. ~b.stop /\ ~b.db.gcReq
          /\ (Empty(b.db) \/ \E t \in Sec : Dist(o, t) >= n - 1 /\ b.db.flash[t].dirty = GC)
      BY <2>2, <3>3 DEF Tabled, Kept, Alike, Empty
    <3>5. b.db.flash[s] \in Sectors /\ Shape(b.db.flash[s])
      BY <3>1, <3>3, SoundFields DEF Sound
    <3> HIDE DEF b, head, s
    <3>6. w \in Walks /\ Sound(w.db, NSec) /\ ~w.stop /\ ~w.db.gcReq
          /\ (Empty(w.db) \/ \E t \in Sec : Dist(o, t) >= n /\ w.db.flash[t].dirty = GC)
      <4>1. CASE ~(head.info.ok /\ head.info.dirty = GC)
        <5>1. w = b
          BY <4>1 DEF check_and_recovery_gc_cb
        <5>2. b.db.flash[s].dirty # GC
          <6>1. SUFFICES ASSUME b.db.flash[s].dirty = GC PROVE FALSE
            OBVIOUS
          <6>2. b.db.flash[s].ok
            BY <3>5, <6>1, ShapeFacts
          <6>3. head.info.ok /\ head.info.dirty = GC
            BY <3>1, <3>3, <6>1, <6>2, Sizes DEF Tells
          <6> QED BY <4>1, <6>3
        <5>3. ASSUME NEW t \in Sec, Dist(o, t) >= n - 1, b.db.flash[t].dirty = GC PROVE Dist(o, t) >= n
          <6>1. t # s
            BY <5>2, <5>3
          <6>2. Dist(o, t) # n - 1 /\ Dist(o, t) \in 0 .. NSec - 1
            BY <1>1, <3>1, <6>1, DistIs
          <6> QED BY <1>1, <5>3, <6>2
        <5> HIDE DEF w
        <5> QED BY <3>3, <3>4, <5>1, <5>3
      <4>2. CASE head.info.ok /\ head.info.dirty = GC
        <5> DEFINE g == Asking(b.db)
                   d2 == gc_collect(g)
        <5>1. w = WithDb(b, d2)
          BY <4>2 DEF check_and_recovery_gc_cb, WithDb, Asking
        <5>2. Sound(g, NSec) /\ g.flash = b.db.flash /\ g.gcReq
          BY <3>3, AskingSound DEF Sound
        <5>3. MayCollect(g)
          BY <3>4, <5>2 DEF MayCollect, Empty
        <5> HIDE DEF g
        <5>4. Steady(d2)
          BY <5>2, <5>3, GcCollectSound
        <5> HIDE DEF d2, w
        <5>5. d2 \in Stores
          BY <5>4, SoundFields DEF Steady, Sound
        <5>6. w \in Walks /\ w.db = d2 /\ Alike(b, w)
          BY <3>3, <5>1, <5>5, WalkDb
        <5> QED BY <3>4, <5>4, <5>6 DEF Steady, Alike
      <4> QED BY <4>1, <4>2
    <3> HIDE DEF w
    <3>7. Around(e, o, n) /\ e.db = w.db /\ Alike(w, e)
      BY <1>1, <3>1, <3>3, <3>6, RingNext
    <3> HIDE DEF e
    <3>8. e \in RegainTo(o, n)
      BY <3>6, <3>7 DEF RegainTo, Alike, Around
    <3> QED BY <2>0, <3>2, <3>8 DEF A
  <2> QED BY <2>3, <2>4
<1>4. r \in A[NSec + 1]
  <2> HIDE DEF A
  <2> QED BY <1>2, <1>3, RegainWalk, Zenon DEF RegainedOf
<1>5. r \in RegainTo(o, NSec + 1)
  BY <1>1, <1>4
<1>6. \A t \in Sec : Dist(o, t) \in 0 .. NSec - 1
  BY <1>1, DistIs
<1>7. d = r.db
  BY DEF RecoverGc, RegainedOf, acc
<1> HIDE DEF o, r
<1>8. Empty(r.db)
  BY <1>1, <1>5, <1>6 DEF RegainTo
<1> QED BY <1>5, <1>7, <1>8 DEF RegainTo, Steady

-----------------------------------------------------------------------------
(* Nodes that a power cut left half-way are moved or given up. *)
RescueStep(a, head) == IF a.stop \/ a.i = FAILED THEN a ELSE VisitKv(a, head, <<head.at, a.i>>, check_and_recovery_kv_cb)
Rescue == INSTANCE ListProofs WITH Step <- RescueStep

(* What each node checked keeps holds at the end of the sector ... *)
LEMMA RescueWalk ==
    ASSUME NEW acc, NEW info, NEW A, WithI(acc, 1) \in A,
           \A a \in A : RescueStep(a, info) \in A
    PROVE  EachKv(acc, info, check_and_recovery_kv_cb) \in A
<1>1. EachKv(acc, info, check_and_recovery_kv_cb)
          = Rescue!FoldLeft(RescueStep, WithI(acc, 1), [n \in 1 .. SecSize |-> info])
  BY Zenon DEF EachKv, RescueStep, WithI, FoldLeft, MapThenFoldSet, Max, Rescue!FoldLeft,
               Rescue!MapThenFoldSet, Rescue!Max
<1>2. Rescue!FoldLeft(RescueStep, WithI(acc, 1), [n \in 1 .. SecSize |-> info]) \in A
  BY SecSizeIs, Rescue!AlwaysTimes, Zenon
<1> QED BY <1>1, <1>2, Zenon

\* All sectors are checked for nodes left half-way.
SalvageStep(a, n) == IF a.stop \/ a.sec = NSec THEN a
                  ELSE VisitNodes(a, HeadOf(a.db, a.sec), n, check_and_recovery_kv_cb)
Salvage == INSTANCE ListProofs WITH Step <- SalvageStep

(* ... and what each sector keeps holds at the end. *)
LEMMA SalvageWalk ==
    ASSUME NEW acc, NEW A, WithSec(acc, acc.db.oldest) \in A,
           \A n \in 1 .. NSec : \A a \in A : SalvageStep(a, n) \in A
    PROVE  kv_iterator(acc, check_and_recovery_kv_cb) \in A
<1>1. kv_iterator(acc, check_and_recovery_kv_cb)
          = Salvage!FoldLeft(SalvageStep, WithSec(acc, acc.db.oldest), [n \in 1 .. NSec |-> n])
  BY Zenon DEF kv_iterator, HeadOf, SalvageStep, WithSec, FoldLeft, MapThenFoldSet, Max, Salvage!FoldLeft,
               Salvage!MapThenFoldSet, Salvage!Max
<1>2. Salvage!FoldLeft(SalvageStep, WithSec(acc, acc.db.oldest), [n \in 1 .. NSec |-> n]) \in A
  BY NSecIs, Salvage!AlwaysCounting, Zenon
<1> QED BY <1>1, <1>2, Zenon

\* A walk that recovers nodes: no collection is asked for unless it stops.
Saving == {a \in Walks : Sound(a.db, NSec) /\ Empty(a.db) /\ (~a.stop => ~a.db.gcReq)}
Unless(a, d, stop) == [a EXCEPT !.db = d, !.stop = stop]

(* A walk goes on unless it is stopped. *)
LEMMA WalkUnless ==
    ASSUME NEW a \in Walks, NEW d \in Stores, NEW stop \in BOOLEAN, NEW b, b = Unless(a, d, stop)
    PROVE  b \in Walks /\ b.db = d /\ (~b.stop => ~stop)
<1>1. b \in Walks /\ b.db = d
  BY DEF Walks, Unless
<1>2. ~b.stop => ~stop
  BY DEF Walks, Unless
<1> QED BY <1>1, <1>2

(* A node is moved, given up or remembered: the store stays sound with an empty sector. *)
LEMMA RescueNode ==
    ASSUME NEW a, a \in Saving, ~a.stop, NEW s \in Sec, NEW p, Placed(a.db, p), p[1] = s,
           NEW w, w = check_and_recovery_kv_cb(a, p)
    PROVE  w \in Saving /\ w.db.flash[s].store = USING
<1> DEFINE node == Node(a.db, p)
           moves == CrcOk(node) /\ node.st = PRE_DELETE
           breaks == node.st = PRE_WRITE
<1>1. a \in Walks /\ Sound(a.db, NSec) /\ Empty(a.db) /\ ~a.db.gcReq
  BY DEF Saving
<1>2. p \in Addresses /\ a.db.flash[s].store = USING
  BY <1>1, PlacedNode
<1>3. CASE moves
  <2> DEFINE m == move_kv(a.db, p)
             stop == ~m.ok
  <2>1. w = Unless(a, m.db, stop)
    <3>1. CrcOk(node) /\ node.st = PRE_DELETE
      BY <1>3
    <3>2. node.st # PRE_WRITE /\ ~Live(node)
      BY <1>3 DEF Live, WRITE, PRE_WRITE, PRE_DELETE
    <3> QED BY <3>1, <3>2, Zenon DEF check_and_recovery_kv_cb, StopUnlessMoved, Unless
  <2>2. Mode(a.db, NSec)
    BY <1>1 DEF Mode
  <2>3. Stays(a.db, m.db, NSec) /\ (m.ok => Mode(m.db, NSec))
    BY <1>1, <1>3, <2>2, MoveSound
  <2>4. stop \in BOOLEAN
    OBVIOUS
  <2>5. ~stop => ~m.db.gcReq
    BY <2>3, Sizes DEF Mode
  <2> HIDE DEF m, stop
  <2>6. Sound(m.db, NSec) /\ Empty(m.db) /\ m.db.flash[s].store = USING
    BY <1>2, <2>3 DEF Stays, Grows
  <2>7. m.db \in Stores
    BY <2>6, SoundFields DEF Sound
  <2>8. w \in Walks /\ w.db = m.db /\ (~w.stop => ~stop)
    BY <1>1, <2>1, <2>4, <2>7, WalkUnless
  <2> QED BY <2>5, <2>6, <2>8 DEF Saving
<1>4. CASE ~moves /\ breaks
  <2> DEFINE d == WriteKvStatus(a.db, p, ERR_HDR)
  <2>1. w = Unless(a, d, TRUE)
    <3>1. ~(CrcOk(node) /\ node.st = PRE_DELETE)
      BY <1>4
    <3>2. ~Live(node)
      BY <1>4 DEF Live, WRITE, PRE_WRITE
    <3> QED BY <1>4, <3>1, <3>2, Zenon DEF check_and_recovery_kv_cb, Unless
  <2>2. ERR_HDR \in 0 .. 5
    BY DEF ERR_HDR
  <2>3. Sound(d, NSec) /\ Quiet(a.db, d)
    BY <1>1, <2>2, StatusSound
  <2> HIDE DEF d
  <2>4. Empty(d) /\ ~d.gcReq /\ d.flash[s].store = USING
    BY <1>1, <1>2, <2>3, QuietEmpty DEF Quiet, Calm, CalmAt
  <2>5. d \in Stores
    BY <2>3, SoundFields DEF Sound
  <2>6. w \in Walks /\ w.db = d
    BY <1>1, <2>1, <2>5 DEF Walks, Unless
  <2> QED BY <2>3, <2>4, <2>6 DEF Saving
<1>5. CASE ~moves /\ ~breaks /\ Live(node)
  <2> DEFINE d == update_kv_cache(a.db, node.key, p)
  <2>1. w = WithDb(a, d)
    <3>1. ~(CrcOk(node) /\ node.st = PRE_DELETE)
      BY <1>5
    <3>2. node.st # PRE_WRITE
      BY <1>5
    <3> QED BY <1>5, <3>1, <3>2, Zenon DEF check_and_recovery_kv_cb, WithDb
  <2>2. Sound(d, NSec) /\ Tabled(a.db, d)
    BY <1>1, <1>2, AddressSound DEF Sound
  <2> HIDE DEF d
  <2>3. d \in Stores
    BY <2>2, SoundFields DEF Sound
  <2>4. w \in Walks /\ w.db = d
    BY <1>1, <2>1, <2>3, WalkDb
  <2> QED BY <1>1, <1>2, <2>2, <2>4 DEF Saving, Tabled, Kept, Empty
<1>6. CASE ~moves /\ ~breaks /\ ~Live(node)
  <2>1. w = a
    <3>1. ~(CrcOk(node) /\ node.st = PRE_DELETE)
      BY <1>6
    <3>2. node.st # PRE_WRITE
      BY <1>6
    <3> QED BY <1>6, <3>1, <3>2, Zenon DEF check_and_recovery_kv_cb
  <2> QED BY <1>2, <2>1
<1> QED BY <1>3, <1>4, <1>5, <1>6

(* So it does with every node of a sector ... *)
LEMMA RescueSound ==
    ASSUME NEW acc, acc \in Saving, NEW s \in Sec, acc.db.flash[s].store = USING,
           NEW info, info.at = s, NEW e, e = EachKv(acc, info, check_and_recovery_kv_cb)
    PROVE  e \in Saving
<1> DEFINE A == {a \in Saving : InSector(a, s, NSec)}
<1>1. WithI(acc, 1) \in A
  <2> DEFINE b == WithI(acc, 1)
  <2>1. InSector(b, s, NSec) /\ b.db = acc.db /\ Alike(acc, b)
    BY WalkBegins DEF Saving
  <2> HIDE DEF b
  <2> QED BY <2>1 DEF Saving, InSector, Alike, b
<1>2. ASSUME NEW a \in A PROVE RescueStep(a, info) \in A
  <2>1. a \in Walks /\ InSector(a, s, NSec) /\ a \in Saving
    BY <1>2 DEF Saving
  <2> HIDE DEF A
  <2>2. CASE a.stop \/ a.i = FAILED
    BY <1>2, <2>2 DEF RescueStep
  <2>3. CASE ~a.stop /\ a.i # FAILED
    <3> DEFINE p == <<s, a.i>>
               b == WithDb(a, read_kv(a.db, p))
               w == check_and_recovery_kv_cb(b, p)
               f == AtNextKv(w, info, p)
    <3>1. RescueStep(a, info) = f
      BY <2>3 DEF RescueStep, VisitKv, WithDb
    <3>2. b \in Walks /\ Sound(b.db, NSec) /\ Quiet(a.db, b.db) /\ b.db.flash[s].store = USING
          /\ Placed(b.db, p) /\ Alike(a, b)
      BY <2>1, <2>3, ReadWalk
    <3>3. a.i \in Nat
      BY <2>1 DEF Walks
    <3> HIDE DEF b
    <3>4. b \in Saving /\ ~b.stop
      BY <2>1, <2>3, <3>2, QuietEmpty DEF Saving, Alike
    <3>5. w \in Saving /\ w.db.flash[s].store = USING
      <4>1. p[1] = s
        OBVIOUS
      <4> QED BY <3>2, <3>4, <4>1, RescueNode
    <3> HIDE DEF w
    <3>6. InSector(f, s, NSec) /\ f.db = w.db /\ Alike(w, f)
      BY <3>3, <3>5, NextWalk DEF Saving
    <3> HIDE DEF f
    <3>7. f \in A
      BY <3>5, <3>6 DEF A, Saving, InSector, Alike
    <3> QED BY <3>1, <3>7
  <2> QED BY <2>2, <2>3
<1>3. e \in A
  <2> HIDE DEF A
  <2> QED BY <1>1, <1>2, RescueWalk
<1> QED BY <1>3

(* ... and with every sector. *)
LEMMA SalvageSound ==
    ASSUME NEW d0, Steady(d0), NEW d, d = RecoverKvs(d0)
    PROVE  Sound(d, NSec) /\ Empty(d)
<1> DEFINE acc == NoFind(d0)
           e == kv_iterator(acc, check_and_recovery_kv_cb)
           A == Saving
<1>0. acc \in Saving /\ acc.db = d0 /\ acc \in Walks
  <2>1. d0 \in Stores
    BY SoundFields DEF Steady, Sound
  <2>2. acc \in Walks /\ acc.db = d0
    BY <2>1, WalkStarts
  <2> HIDE DEF acc
  <2> QED BY <2>2 DEF Saving, Steady
<1> HIDE DEF acc
<1>1. WithSec(acc, acc.db.oldest) \in A
  <2> DEFINE o == acc.db.oldest
             b == WithSec(acc, o)
  <2>1. acc \in Walks /\ o \in Sec
    BY <1>0, SoundFields DEF Saving, Sound
  <2> HIDE DEF o
  <2>2. b.db = acc.db /\ Alike(acc, b) /\ b \in Walks
    BY <2>1, RingBegins DEF Around
  <2> HIDE DEF b
  <2>3. b \in A
    BY <1>0, <2>2 DEF Saving, Alike
  <2> QED BY <2>3 DEF b, o
<1>2. ASSUME NEW n \in 1 .. NSec, NEW a \in A PROVE SalvageStep(a, n) \in A
  <2>1. a \in Walks /\ Sound(a.db, NSec) /\ Empty(a.db) /\ (~a.stop => ~a.db.gcReq) /\ a.sec \in 0 .. NSec
    BY <1>2 DEF Saving, Walks
  <2> HIDE DEF A
  <2>2. CASE a.stop \/ a.sec = NSec
    BY <1>2, <2>2 DEF SalvageStep
  <2>3. CASE ~a.stop /\ a.sec # NSec
    <3> DEFINE s == a.sec
               head == HeadOf(a.db, s)
               b == WithDb(a, head.db)
               use == head.info.ok /\ head.info.store \in {USING, FULL}
               w == IF use THEN EachKv(b, head.info, check_and_recovery_kv_cb) ELSE b
               f == AtNextSector(w, head.info, n)
    <3>1. s \in Sec
      BY <2>1, <2>3, Sizes
    <3>2. SalvageStep(a, n) = f
      BY <2>3 DEF SalvageStep, VisitNodes, WithDb
    <3>3. /\ b \in Walks /\ b.db = head.db /\ Alike(a, b) /\ Sound(b.db, NSec) /\ Tabled(a.db, b.db)
          /\ Tells(head.info, s, b.db.flash[s], NSec) /\ head.info \in Infos /\ head.info.at = s
      <4>1. a \in Walks /\ Sound(a.db, NSec)
        BY <2>1
      <4>2. head = HeadOf(a.db, s) /\ b = WithDb(a, head.db)
        OBVIOUS
      <4> HIDE DEF head, b, s
      <4> QED BY <3>1, <4>1, <4>2, HeadRead
    <3> HIDE DEF b, head, s
    <3>4. b \in Saving
      BY <2>1, <3>3 DEF Saving, Tabled, Kept, Alike, Empty
    <3>5. use => b.db.flash[s].store = USING
      <4>1. b.db.flash[s] \in Sectors /\ Shape(b.db.flash[s])
        BY <3>1, <3>3, SoundFields DEF Sound
      <4> QED BY <3>3, <4>1, ShapeFacts DEF Tells
    <3> HIDE DEF use
    <3>6. w \in Saving
      <4>1. CASE use
        <5>1. w = EachKv(b, head.info, check_and_recovery_kv_cb)
          BY <4>1
        <5> HIDE DEF w
        <5> QED BY <3>1, <3>3, <3>4, <3>5, <4>1, <5>1, RescueSound
      <4>2. CASE ~use
        BY <3>4, <4>2
      <4> QED BY <4>1, <4>2
    <3> HIDE DEF w
    <3>7. f \in Walks /\ f.db = w.db /\ Alike(w, f)
      BY <3>1, <3>3, <3>6, SectorNext DEF Saving
    <3> HIDE DEF f
    <3>8. f \in A
      BY <3>6, <3>7 DEF A, Saving, Alike
    <3> QED BY <3>2, <3>8
  <2> QED BY <2>2, <2>3
<1>3. e \in A
  <2> HIDE DEF A
  <2> QED BY <1>1, <1>2, SalvageWalk
<1>4. d = e.db
  BY DEF RecoverKvs, acc
<1> HIDE DEF e
<1> QED BY <1>3, <1>4 DEF Saving

-----------------------------------------------------------------------------
(* The database is opened. *)
Retrying == INSTANCE ListProofs WITH Step <- AgainIfAsked

(* What each round of the opening keeps holds after all of them. *)
LEMMA RetryingWalk ==
    ASSUME NEW base, NEW A, base \in A, \A n \in 1 .. LoadRounds : \A a \in A : AgainIfAsked(a, n) \in A
    PROVE  FoldLeft(AgainIfAsked, base, [n \in 1 .. LoadRounds |-> n]) \in A
<1> DEFINE seq == [n \in 1 .. LoadRounds |-> n]
<1>1. LoadRounds \in Nat
  BY KvAppAssumption
<1>2. FoldLeft(AgainIfAsked, base, seq) = Retrying!FoldLeft(AgainIfAsked, base, seq)
  BY Zenon DEF FoldLeft, MapThenFoldSet, Max, Retrying!FoldLeft, Retrying!MapThenFoldSet, Retrying!Max
<1>3. Retrying!FoldLeft(AgainIfAsked, base, seq) \in A
  BY <1>1, Retrying!AlwaysCounting, Zenon
<1> QED BY <1>2, <1>3

(* The flag of a recovery is read by no condition of soundness. *)
LEMMA RecovSound ==
    ASSUME NEW d0, NEW c, Sound(d0, c), NEW b \in BOOLEAN, NEW d, d = WithRecov(d0, b)
    PROVE  Sound(d, c) /\ d.flash = d0.flash /\ d.gcReq = d0.gcReq
<1>1. d0 \in Stores
  BY SoundFields DEF Sound
<1>2. d \in Stores /\ d.flash = d0.flash /\ d.gcReq = d0.gcReq /\ d.trace = d0.trace /\ d.secCache = d0.secCache
  BY <1>1, SMTT(30) DEF Stores, WithRecov
<1> QED BY <1>2 DEF Sound, SoundBut, Cached

(* fdb_kvdb_init of any well-formed flash: a sound store with an empty sector. *)
LEMMA OpensSound ==
    ASSUME NEW f, Fine(f), NEW d, d = fdb_kvdb_init(f)
    PROVE  Sound(d, NSec) /\ Empty(d)
<1> DEFINE start == Loading(f)
           checked == CheckHeaders(start)
           regained == RecoverGc(checked)
           base == RecoverKvs(regained)
           A == {a \in Stores : Sound(a, NSec) /\ Empty(a)}
           r == FoldLeft(AgainIfAsked, base, [n \in 1 .. LoadRounds |-> n])
           off == FALSE
<1>1. d = WithRecov(r, off)
  BY DEF fdb_kvdb_init, _fdb_kv_load, Loading, WithTables, WithRecov, BlankTable, Forgotten
<1>2. Sound(start, NSec) /\ ~start.gcReq
  BY LoadingSound
<1> HIDE DEF start
<1>3. Sound(checked, NSec) /\ ~checked.gcReq /\ Collectable(checked)
  BY <1>2, HeadersSound
<1> HIDE DEF checked
<1>4. Steady(regained)
  BY <1>3, RegainSound
<1> HIDE DEF regained
<1>5. Sound(base, NSec) /\ Empty(base)
  BY <1>4, SalvageSound
<1> HIDE DEF base
<1>6. base \in A
  BY <1>5, SoundFields DEF Sound
<1>7. ASSUME NEW n \in 1 .. LoadRounds, NEW a \in A PROVE AgainIfAsked(a, n) \in A
  <2> DEFINE g == gc_collect(a)
             e == RecoverKvs(g)
  <2>1. CASE a.gcReq
    <3>1. AgainIfAsked(a, n) = e
      BY <2>1 DEF AgainIfAsked
    <3>2. Steady(g)
      BY <1>7, <2>1, GcCollectSound DEF MayCollect
    <3> HIDE DEF g
    <3>3. Sound(e, NSec) /\ Empty(e)
      BY <3>2, SalvageSound
    <3> HIDE DEF e
    <3> QED BY <3>1, <3>3, SoundFields DEF Sound
  <2>2. CASE ~a.gcReq
    BY <1>7, <2>2 DEF AgainIfAsked
  <2> QED BY <2>1, <2>2
<1>8. r \in A
  <2> HIDE DEF A
  <2> QED BY <1>6, <1>7, RetryingWalk, Zenon
<1> HIDE DEF r
<1>9. Sound(r, NSec) /\ Empty(r) /\ off \in BOOLEAN
  BY <1>8
<1> HIDE DEF off
<1>10. Sound(d, NSec) /\ d.flash = r.flash
  BY <1>1, <1>9, RecovSound
<1> QED BY <1>9, <1>10 DEF Empty

-----------------------------------------------------------------------------
(***************************************************************************)
(* The inductive invariant.  While the power is off the flash is one that  *)
(* a power cut can leave: each sector erased, formatted or in use, and one *)
(* of them spare, that is erased, formatted or being collected.  While it  *)
(* is on, the table of sectors says what is on flash and the next          *)
(* collection has an empty sector.                                         *)
(***************************************************************************)
StoreInv ==
    /\ pc \in {"off", "avail", "pasw", "run"}
    /\ cuts \in 0 .. MaxCuts
    /\ pc = "off" => \E f : Fine(f) /\ db = PoweredOff(f)
    /\ pc # "off" => Steady(db)

(* Between two calls the history of writes is forgotten. *)
LEMMA RestSteady ==
    ASSUME NEW d, Steady(d), NEW e, e = Rest(d)
    PROVE  Steady(e)
<1>1. d \in Stores
  BY SoundFields DEF Steady, Sound
<1>2. <<>> \in Seq(Flashes)
  OBVIOUS
<1>3. e \in Stores /\ e.flash = d.flash /\ e.gcReq = d.gcReq /\ e.trace = <<>> /\ e.secCache = d.secCache
  BY <1>1, <1>2 DEF Stores, Rest
<1> QED BY <1>3 DEF Steady, Sound, SoundBut, Cached, Empty

(* A call that ends ... *)
LEMMA CompletesInv ==
    ASSUME NEW d, Steady(d), Completes(d), cuts \in 0 .. MaxCuts, pc' \in {"avail", "pasw", "run"}
    PROVE  StoreInv'
<1>1. Steady(db')
  BY RestSteady DEF Completes
<1> QED BY <1>1 DEF StoreInv, Completes

(* ... or is cut after one of its writes ... *)
LEMMA CutInv ==
    ASSUME NEW d, Sound(d, NSec), CutDuring(d), cuts \in 0 .. MaxCuts
    PROVE  StoreInv'
<1>1. PICK n \in 1 .. Len(d.trace) : db' = PoweredOff(d.trace[n])
  BY DEF CutDuring
<1>2. Fine(d.trace[n])
  BY DEF Sound, SoundBut
<1>3. cuts' \in 0 .. MaxCuts /\ pc' = "off"
  BY KvAppAssumption DEF CutDuring
<1> QED BY <1>1, <1>2, <1>3 DEF StoreInv

(* ... as a set may do either ... *)
LEMMA SetsInv ==
    ASSUME NEW key, NEW val, NEW d, Steady(d), NEW next \in {"pasw", "run"}, Sets(key, val, d, next),
           cuts \in 0 .. MaxCuts
    PROVE  StoreInv'
<1>1. (Completes(d) /\ pc' = next) \/ CutDuring(d)
  BY Zenon DEF Sets
<1>2. CASE Completes(d) /\ pc' = next
  BY <1>2, CompletesInv
<1>3. CASE CutDuring(d)
  BY <1>3, CutInv DEF Steady
<1> QED BY <1>1, <1>2, <1>3

\* A pair is read.
LEMMA GetSteady ==
    ASSUME NEW d, Steady(d), NEW key \in Keys, NEW r, r = fdb_kv_get(d, key)
    PROVE  Steady(r.db)
<1> DEFINE found == find_kv(d, key)
<1>1. Sound(found.db, NSec) /\ Quiet(d, found.db)
  BY FindSound DEF Steady
<1>2. r.db = found.db
  BY DEF fdb_kv_get, GetText
<1> HIDE DEF found
<1> QED BY <1>1, <1>2, SteadyQuiet

(* ... that is made when there is no text yet. *)
LEMMA SetsUnlessInv ==
    ASSUME NEW key \in Keys, NEW val \in Values, NEW str, Steady(str.db), NEW next \in {"pasw", "run"},
           SetsUnless(str, key, val, next), cuts \in 0 .. MaxCuts
    PROVE  StoreInv'
<1>1. CASE str.val = "none"
  <2> DEFINE d == set_kv(str.db, key, val)
  <2>1. Steady(d)
    BY SetSteady
  <2>2. Sets(key, val, d, next)
    BY <1>1 DEF SetsUnless
  <2> HIDE DEF d
  <2> QED BY <2>1, <2>2, SetsInv
<1>2. CASE str.val # "none"
  <2>1. Completes(str.db) /\ pc' = next
    BY <1>2 DEF SetsUnless
  <2> QED BY <2>1, CompletesInv
<1> QED BY <1>1, <1>2

\* What the program's own pairs and passwords are.
LEMMA ProgramPairs == /\ Avail \in Keys /\ Pasw \in Keys /\ One \in Values /\ Zeros \in Values
                      /\ Passwords \subseteq Values
  BY KvAppAssumption

\* The empty flash is fine.
LEMMA ErasedFine ==
    ASSUME NEW f, f = [s \in Sec |-> Erased]
    PROVE  Fine(f)
<1>1. Erased \in Sectors /\ Shape(Erased) /\ Spare(Erased) /\ 0 \in Sec
  BY BlankSectors, Sizes
<1> QED BY <1>1 DEF Fine, Flashes

(* The erased chip of a new device. *)
LEMMA InitInv == Init => StoreInv
<1> SUFFICES ASSUME Init PROVE StoreInv
  OBVIOUS
<1>1. Fine([s \in Sec |-> Erased])
  BY ErasedFine
<1>2. 0 \in 0 .. MaxCuts
  BY KvAppAssumption
<1> QED BY <1>1, <1>2 DEF Init, StoreInv

(* Every call, opening and cut of the power. *)
LEMMA NextInv == StoreInv /\ [Next]_vars => StoreInv'
<1> SUFFICES ASSUME StoreInv, [Next]_vars PROVE StoreInv'
  OBVIOUS
<1>1. cuts \in 0 .. MaxCuts /\ (pc # "off" => Steady(db))
  BY DEF StoreInv
<1>2. ASSUME pc = "off" PROVE Fine(db.flash)
  <2>1. PICK f : Fine(f) /\ db = PoweredOff(f)
    BY <1>2 DEF StoreInv
  <2>2. db.flash = f
    BY <2>1 DEF PoweredOff, Opened
  <2> QED BY <2>1, <2>2
<1>3. CASE PowerOn
  <2> DEFINE d == fdb_kvdb_init(db.flash)
  <2>1. Sound(d, NSec) /\ Empty(d)
    BY <1>2, <1>3, OpensSound DEF PowerOn
  <2>2. ~d.gcReq /\ Completes(d) /\ pc' = "avail"
    BY <1>3 DEF PowerOn, Opens
  <2> HIDE DEF d
  <2>3. Steady(d)
    BY <2>1, <2>2 DEF Steady
  <2> QED BY <1>1, <2>2, <2>3, CompletesInv
<1>4. CASE PowerOnCut
  <2> DEFINE d == fdb_kvdb_init(db.flash)
  <2>1. Sound(d, NSec)
    BY <1>2, <1>4, OpensSound DEF PowerOnCut
  <2>2. CutDuring(d)
    BY <1>4 DEF PowerOnCut
  <2> HIDE DEF d
  <2> QED BY <1>1, <2>1, <2>2, CutInv
<1>5. CASE TestStore
  <2> DEFINE str == fdb_kv_get(db, Avail)
  <2>1. Steady(str.db)
    BY <1>1, <1>5, ProgramPairs, GetSteady DEF TestStore
  <2>2. SetsUnless(str, Avail, One, "pasw")
    BY <1>5 DEF TestStore
  <2> HIDE DEF str
  <2> QED BY <1>1, <2>1, <2>2, ProgramPairs, SetsUnlessInv
<1>6. CASE DefaultPassword
  <2> DEFINE str == fdb_kv_get(db, Pasw)
  <2>1. Steady(str.db)
    BY <1>1, <1>6, ProgramPairs, GetSteady DEF DefaultPassword
  <2>2. SetsUnless(str, Pasw, Zeros, "run")
    BY <1>6 DEF DefaultPassword
  <2> HIDE DEF str
  <2> QED BY <1>1, <2>1, <2>2, ProgramPairs, SetsUnlessInv
<1>7. CASE Unplugged
  <2>1. Fine(db.flash)
    BY <1>1, <1>7 DEF Unplugged, Steady, Sound, SoundBut
  <2>2. cuts' \in 0 .. MaxCuts /\ pc' = "off" /\ db' = PoweredOff(db.flash)
    BY <1>1, <1>7, KvAppAssumption DEF Unplugged
  <2> QED BY <2>1, <2>2 DEF StoreInv
<1>8. ASSUME NEW new \in Passwords, ChangePassword(new) PROVE StoreInv'
  <2> DEFINE d == set_kv(db, Pasw, new)
  <2>1. new \in Values
    BY ProgramPairs
  <2>2. Steady(d)
    BY <1>1, <1>8, <2>1, ProgramPairs, SetSteady DEF ChangePassword
  <2>3. Sets(Pasw, new, d, "run")
    BY <1>8 DEF ChangePassword
  <2> HIDE DEF d
  <2> QED BY <1>1, <2>2, <2>3, SetsInv
<1>9. CASE UNCHANGED vars
  BY <1>9 DEF StoreInv, vars
<1> QED BY <1>3, <1>4, <1>5, <1>6, <1>7, <1>8, <1>9 DEF Next

(* So StoreInv always holds. *)
LEMMA StoreInvHolds == Spec => []StoreInv
  BY InitInv, NextInv, PTL DEF Spec

\* A sector of a fine flash.
LEMMA SectorTypes ==
    ASSUME NEW f, Fine(f), NEW s \in Sec
    PROVE  /\ f[s].store \in UNUSED .. FULL /\ f[s].dirty \in UNUSED .. GC
           /\ \A i \in 1 .. Len(f[s].nodes) : f[s].nodes[i].st \in UNUSED .. ERR_HDR
           /\ Remain(f[s]) >= 0
<1>1. f[s] \in Sectors /\ Shape(f[s])
  BY DEF Fine, Flashes
<1>2. Remain(f[s]) \in Nat
  <2>1. CASE f[s] = Erased
    BY <2>1, RemainNone, BlankSectors
  <2>2. CASE f[s] # Erased
    BY <1>1, <2>2, ShapeFacts
  <2> QED BY <2>1, <2>2
<1>3. \A i \in 1 .. Len(f[s].nodes) : f[s].nodes[i].st \in 0 .. 5
  <2>1. f[s].nodes \in Seq(Nodes)
    BY <1>1 DEF Sectors
  <2>2. \A i \in 1 .. Len(f[s].nodes) : f[s].nodes[i] \in Nodes
    BY <2>1
  <2> QED BY <2>2 DEF Nodes
<1>4. f[s].store \in 0 .. 3 /\ f[s].dirty \in 0 .. 3
  BY <1>1 DEF Sectors
<1> QED BY <1>2, <1>3, <1>4 DEF UNUSED, FULL, GC, ERR_HDR

(* TypeOK: no set, collection, recovery or cut of the power, in whatever   *)
(* order, writes a node past the end of its sector.                        *)
THEOREM StoreTyped == Spec => []TypeOK
<1>1. StoreInv => TypeOK
  <2> SUFFICES ASSUME StoreInv PROVE TypeOK
    OBVIOUS
  <2>1. Fine(db.flash) /\ db.oldest \in Sec /\ \A k \in Keys : db.kvCache[k] \in Addresses
    <3>1. CASE pc = "off"
      <4>1. PICK f : Fine(f) /\ db = PoweredOff(f)
        BY <3>1 DEF StoreInv
      <4>2. db.flash = f /\ db.oldest = 0 /\ db.kvCache = [k \in Keys |-> Nowhere]
        BY <4>1 DEF PoweredOff, Opened
      <4> QED BY <4>1, <4>2, Sizes DEF Addresses
    <3>2. CASE pc # "off"
      <4>1. Sound(db, NSec)
        BY <3>2 DEF StoreInv, Steady
      <4> QED BY <4>1, SoundFields DEF Sound
    <3> QED BY <3>1, <3>2
  <2>2. pc \in {"off", "avail", "pasw", "run"} /\ cuts \in 0 .. MaxCuts
    BY DEF StoreInv
  <2> QED BY <2>1, <2>2, SectorTypes DEF TypeOK, Addresses
<1> QED BY <1>1, StoreInvHolds, PTL

\* What the table tells of a sector, as a record: with room measured, and not.
InfoFor(s, x) == [NoInfo EXCEPT !.at = s, !.ok = TRUE, !.store = x.store, !.dirty = x.dirty,
                                !.empty = Len(x.nodes) + 1, !.remain = Remain(x)]
Unmeasured(y) == [y EXCEPT !.empty = FAILED, !.remain = 0]

(* An entry that is true of the flash is one of these two. *)
LEMMA TellsIs ==
    ASSUME NEW info, NEW s \in Sec, NEW x, Tells(info, s, x, NSec), info.ok
    PROVE  info \in {InfoFor(s, x), Unmeasured(InfoFor(s, x))}
<1> DEFINE y == InfoFor(s, x)
           z == Unmeasured(y)
           store == x.store
           dirty == x.dirty
           empty == Len(x.nodes) + 1
           remain == Remain(x)
           yes == TRUE
           r == [ok |-> yes, store |-> store, dirty |-> dirty, at |-> s, empty |-> empty, remain |-> remain,
                 span |-> 1]
<1>1. info \in Infos /\ info.at = s /\ info.store = store /\ info.dirty = dirty
      /\ ((info.empty = FAILED /\ info.remain = 0) \/ (info.empty = empty /\ info.remain = remain))
  BY Sizes DEF Tells
<1>2. info.ok = yes
  BY <1>1, Zenon DEF Infos
<1>3. y = [NoInfo EXCEPT !.at = s, !.ok = yes, !.store = store, !.dirty = dirty, !.empty = empty, !.remain = remain]
  BY DEF InfoFor
<1> HIDE DEF yes, store, dirty, empty, remain, y
<1>4. y = r
  BY <1>3 DEF NoInfo
<1>5. z = [ok |-> yes, store |-> store, dirty |-> dirty, at |-> s, empty |-> FAILED, remain |-> 0, span |-> 1]
  <2>1. z = [r EXCEPT !.empty = FAILED, !.remain = 0]
    BY <1>4, Zenon DEF Unmeasured
  <2>2. [r EXCEPT !.empty = FAILED, !.remain = 0]
           = [ok |-> yes, store |-> store, dirty |-> dirty, at |-> s, empty |-> FAILED, remain |-> 0, span |-> 1]
    <3> DEFINE q == [ok |-> yes, store |-> store, dirty |-> dirty, at |-> s, empty |-> FAILED, remain |-> remain,
                     span |-> 1]
    <3>1. [r EXCEPT !.empty = FAILED] = q
      OBVIOUS
    <3>2. [q EXCEPT !.remain = 0]
             = [ok |-> yes, store |-> store, dirty |-> dirty, at |-> s, empty |-> FAILED, remain |-> 0, span |-> 1]
      OBVIOUS
    <3>3. [r EXCEPT !.empty = FAILED, !.remain = 0] = [[r EXCEPT !.empty = FAILED] EXCEPT !.remain = 0]
      BY Zenon
    <3>4. [[r EXCEPT !.empty = FAILED] EXCEPT !.remain = 0] = [q EXCEPT !.remain = 0]
      BY <3>1, Zenon
    <3> QED BY <3>2, <3>3, <3>4, Zenon
  <2> QED BY <2>1, <2>2, Zenon
<1> HIDE DEF z
<1>6. info = [ok |-> info.ok, store |-> info.store, dirty |-> info.dirty, at |-> info.at, empty |-> info.empty,
              remain |-> info.remain, span |-> info.span]
  BY <1>1 DEF Infos
<1>7. info.span = 1
  BY <1>1 DEF Infos
<1>8. CASE info.empty = FAILED /\ info.remain = 0
  <2>1. info = z
    BY <1>1, <1>2, <1>5, <1>6, <1>7, <1>8, Zenon
  <2> QED BY <2>1 DEF z, y
<1>9. CASE info.empty = empty /\ info.remain = remain
  <2>1. info = y
    BY <1>1, <1>2, <1>4, <1>6, <1>7, <1>9, Zenon
  <2> QED BY <2>1 DEF y
<1> QED BY <1>1, <1>8, <1>9

(* CachesAgree: the table of sectors says what is on flash, whatever was   *)
(* set, collected, recovered or cut short before.                          *)
THEOREM CachesTell == Spec => []CachesAgree
<1>1. StoreInv => CachesAgree
  <2> SUFFICES ASSUME StoreInv, pc # "off", NEW s \in Sec, Cached(db, s)
               PROVE  db.secCache[s] \in {InfoOf(s), [InfoOf(s) EXCEPT !.empty = FAILED, !.remain = 0]}
    BY Zenon DEF CachesAgree
  <2>1. db.secCache[s].ok /\ Tells(db.secCache[s], s, db.flash[s], NSec)
    BY Sizes DEF StoreInv, Steady, Sound, SoundBut
  <2>2. db.secCache[s] \in {InfoFor(s, db.flash[s]), Unmeasured(InfoFor(s, db.flash[s]))}
    BY <2>1, TellsIs
  <2>3. InfoOf(s) = InfoFor(s, db.flash[s])
    BY Zenon DEF InfoOf, InfoFor
  <2>4. [InfoOf(s) EXCEPT !.empty = FAILED, !.remain = 0] = Unmeasured(InfoFor(s, db.flash[s]))
    BY <2>3, Zenon DEF Unmeasured
  <2> QED BY <2>2, <2>3, <2>4, Zenon
<1> QED BY <1>1, StoreInvHolds, PTL

(* CollectorHasRoom: between two calls a sector is empty, for any number   *)
(* of sectors, sizes and pairs.                                            *)
THEOREM CollectorHasSector == Spec => []CollectorHasRoom
<1>1. StoreInv => CollectorHasRoom
  BY DEF StoreInv, Steady, Empty, CollectorHasRoom
<1> QED BY <1>1, StoreInvHolds, PTL

(* CollectsWhenAsked: no set leaves a collection to the next call.         *)
THEOREM NothingLeftAsked == Spec => []CollectsWhenAsked
<1>1. StoreInv => CollectsWhenAsked
  BY DEF StoreInv, Steady, CollectsWhenAsked
<1> QED BY <1>1, StoreInvHolds, PTL
=============================================================================
