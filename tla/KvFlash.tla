------------------------------- MODULE KvFlash -------------------------------
(***************************************************************************)
(* What the key-value store keeps on flash and in its caches, and the      *)
(* functions of fdb_kvdb.c that read and write one sector or one node.     *)
(* Every operator maps a database record to the record the C function      *)
(* leaves behind; each write to flash is also appended to db.trace, which  *)
(* is where a power cut can stop the program.                              *)
(*                                                                         *)
(* A sector is a sequence of nodes; an address is <<sector, index>>.       *)
(* Lengths are in units of a node header.  Of a node's bytes only how far  *)
(* they were written matters: w = 0 the status, 1 the magic word, 2 the    *)
(* length, 3 everything, and then the checksum matches.                    *)
(***************************************************************************)
EXTENDS Naturals, Sequences, FiniteSets, SequencesExt, StatusTable

CONSTANTS Keys,          \* names of the pairs
          NSec,          \* SECTOR_NUM
          SecSize,       \* db_sec_size
          SecHdr,        \* SECTOR_HDR_DATA_SIZE
          KvHdr,         \* KV_HDR_DATA_SIZE
          KvLen,         \* length of a whole node
          Threshold,     \* FDB_SEC_REMAIN_THRESHOLD
          SecCacheSize   \* FDB_SECTOR_CACHE_TABLE_SIZE

ASSUME KvSizes ==
  /\ {NSec, SecSize, SecHdr, KvHdr, KvLen, Threshold, SecCacheSize} \subseteq Nat
  /\ NSec >= 2
  /\ 0 < KvHdr /\ KvHdr < KvLen
  /\ SecHdr + KvLen + Threshold < SecSize

Sec == 0 .. NSec - 1

\* fdb_kv_status_t, fdb_sector_store_status_t and fdb_sector_dirty_status_t
UNUSED == 0
PRE_WRITE == 1
WRITE == 2
PRE_DELETE == 3
DELETED == 4
ERR_HDR == 5
EMPTY == 1
USING == 2
FULL == 3
CLEAN == 1
DIRTY == 2
GC == 3
FAILED == 0      \* FAILED_ADDR, for a node index
Nowhere == <<NSec, FAILED>>

Erased == [ok |-> FALSE, store |-> UNUSED, dirty |-> UNUSED, nodes |-> <<>>]
Formatted == [ok |-> TRUE, store |-> EMPTY, dirty |-> CLEAN, nodes |-> <<>>]
NoInfo == [ok |-> FALSE, store |-> UNUSED, dirty |-> UNUSED, at |-> NSec,
           empty |-> FAILED, remain |-> 0, span |-> 1]

CrcOk(node) == node.w = 3
Visible(node) == node.w >= 1
LenOf(node) == IF node.w >= 2 THEN KvLen ELSE KvHdr
Node(db, a) == db.flash[a[1]].nodes[a[2]]
Live(node) == node.st = WRITE /\ CrcOk(node)

\* A bit can only be cleared, so a status written over a later one is lost.
Later(old, new) == _fdb_get_status(_fdb_write_status(_fdb_set_status(old), new), ERR_HDR + 1)

Written(db, s, sector) ==
  LET f == [db.flash EXCEPT ![s] = sector]
  IN  [db EXCEPT !.flash = f, !.trace = Append(@, f)]

WriteKvStatus(db, a, st) ==
  Written(db, a[1], [db.flash[a[1]] EXCEPT !.nodes[a[2]].st = Later(@, st)])

WriteStore(db, s, st) == Written(db, s, [db.flash[s] EXCEPT !.store = Later(@, st)])
WriteDirty(db, s, st) == Written(db, s, [db.flash[s] EXCEPT !.dirty = Later(@, st)])

\* The room left by the nodes found.  A node without a magic word that is not
\* the first is not found; the byte of its status is less than a unit.
Lengths(nodes) == [i \in 1 .. Len(nodes) |-> IF i = 1 \/ Visible(nodes[i]) THEN LenOf(nodes[i]) ELSE 0]
Less(left, len) == left - len
Remain(sector) == FoldLeft(Less, SecSize - SecHdr, Lengths(sector.nodes))

(***************************************************************************)
(* The caches                                                              *)
(***************************************************************************)
Cached(db, s) == db.secCache[s].at = s

\* No entry is ever given up for another: a full table takes no more sectors.
update_sector_cache(db, info) ==
  LET used == {s \in Sec : Cached(db, s)}
  IN  CASE Cached(db, info.at) ->
             [db EXCEPT !.secCache[info.at] = IF info.ok THEN info ELSE NoInfo]
        [] ~Cached(db, info.at) /\ info.ok /\ Cardinality(used) < SecCacheSize ->
             [db EXCEPT !.secCache[info.at] = info]
        [] OTHER -> db

(* Mutant: the room left stays what it was. *)
update_sector_empty_addr_cache_only(db, s, next) ==
  IF Cached(db, s) THEN [db EXCEPT !.secCache[s].empty = next] ELSE db

(* Mutant: it is not told of the new node. *)
update_sector_empty_addr_cache_not(db, s, next) == db

update_sector_empty_addr_cache(db, s, next) ==
  IF Cached(db, s)
  THEN [db EXCEPT !.secCache[s].remain = Remain(db.flash[s]), !.secCache[s].empty = next]
  ELSE db

update_sector_status_store_cache(db, s, st) ==
  IF Cached(db, s) THEN [db EXCEPT !.secCache[s].store = st] ELSE db

update_kv_cache(db, key, a) == [db EXCEPT !.kvCache[key] = a]

\* A hit is decided by the name found at the address, not by the node's status.
KvHit(db, key) ==
  LET a == db.kvCache[key]
  IN  /\ a # Nowhere
      /\ a[2] <= Len(db.flash[a[1]].nodes)
      /\ Node(db, a).w = 3
      /\ Node(db, a).key = key

(***************************************************************************)
(* Nodes                                                                   *)
(***************************************************************************)
\* read_kv marks a node without a length as broken: a first node may be there
\* only in that it is looked for.
read_kv(db, a) ==
  LET nodes == db.flash[a[1]].nodes
      broken == [st |-> ERR_HDR, w |-> 0, key |-> "none", val |-> "none"]
  IN  CASE a[2] > Len(nodes) ->
             Written(db, a[1], [db.flash[a[1]] EXCEPT !.nodes = Append(@, broken)])
        [] a[2] <= Len(nodes) /\ nodes[a[2]].w < 2 /\ nodes[a[2]].st # ERR_HDR ->
             WriteKvStatus(db, a, ERR_HDR)
        [] OTHER -> db

\* The node after a, by its magic word; none where the cache says the rest is
\* empty, and none in a sector taken for empty.
get_next_kv_addr(db, info, a) ==
  LET nodes == db.flash[a[1]].nodes
      after == {i \in a[2] + 1 .. Len(nodes) : Visible(nodes[i])}
  IN  IF \/ info.store = EMPTY
         \/ after = {}
         \/ CrcOk(nodes[a[2]]) /\ Cached(db, a[1]) /\ db.secCache[a[1]].empty = a[2] + 1
      THEN FAILED ELSE CHOOSE i \in after : \A j \in after : i <= j

\* What a traversal carries: the database, whether to stop, the node and the
\* sector it is at, and what its callback looks for or has collected.
NoFind(db) == [db |-> db, stop |-> FALSE, i |-> FAILED, sec |-> NSec, at |-> Nowhere, key |-> "none",
               info |-> NoInfo, size |-> 0, empties |-> 0, usings |-> 0, last |-> 0, oldest |-> 0,
               failed |-> 0, pairs |-> <<>>]

\* do { read_kv; callback } while (there is a next one): the loop of every
\* traversal of a sector, bounded by the nodes a sector can hold.
AtNextKv(acc, info, a) == [acc EXCEPT !.i = get_next_kv_addr(acc.db, info, a)]
VisitKv(acc, info, a, Callback(_, _)) ==
  AtNextKv(Callback([acc EXCEPT !.db = read_kv(@, a)], a), info, a)
EachKv(acc, info, Callback(_, _)) ==
  FoldLeft(LAMBDA a, head : IF a.stop \/ a.i = FAILED THEN a
                            ELSE VisitKv(a, head, <<head.at, a.i>>, Callback),
           [acc EXCEPT !.i = 1], [n \in 1 .. SecSize |-> info])

(***************************************************************************)
(* Sectors                                                                 *)
(***************************************************************************)
\* What the header of a sector tells, and what its nodes tell besides.
Header(db, s) == [NoInfo EXCEPT !.at = s, !.ok = TRUE,
                                !.store = db.flash[s].store, !.dirty = db.flash[s].dirty]
Measured(db, s) ==
  LET flash == db.flash[s]
  IN  [Header(db, s) EXCEPT !.empty = IF flash.store = USING THEN Len(flash.nodes) + 1 ELSE 1,
                            !.remain = CASE flash.store = EMPTY -> SecSize - SecHdr
                                         [] flash.store = USING -> Remain(flash)
                                         [] OTHER -> 0]

\* From the table if it knows enough, else from flash, and then the table is
\* told.  With traversal the nodes of a sector in use are read through.
Known(db, s, traversal) == Cached(db, s) /\ (traversal => db.secCache[s].empty # FAILED)
Told(db, info) == [db |-> update_sector_cache(db, info), info |-> info]
ToldMeasured(db, s) == Told(db, Measured(db, s))
ReadOnly(acc, a) == acc
ReadThrough(db, s) ==
  IF db.flash[s].store # USING THEN db ELSE EachKv(NoFind(db), Header(db, s), ReadOnly).db

read_sector_info(db, s, traversal) ==
  CASE Known(db, s, traversal) -> [db |-> db, info |-> db.secCache[s]]
    [] ~Known(db, s, traversal) /\ ~db.flash[s].ok -> [db |-> db, info |-> [NoInfo EXCEPT !.at = s]]
    [] ~Known(db, s, traversal) /\ db.flash[s].ok /\ ~traversal -> Told(db, Header(db, s))
    [] OTHER -> ToldMeasured(ReadThrough(db, s), s)

\* The sector after this one in the ring, or FAILED after the last: traversed
\* counts the sectors visited, info.span those a combined sector takes.
get_next_sector_addr(info, traversed) ==
  IF traversed + info.span > NSec THEN NSec
  ELSE IF info.at + info.span < NSec THEN info.at + info.span ELSE 0
AtNextSector(acc, info, n) == [acc EXCEPT !.sec = get_next_sector_addr(info, n)]

\* The callback sees the sectors of one status (UNUSED for all of them), their
\* nodes read through first when traversal is set, from the oldest on.
CallOn(acc, full, n, Callback(_, _)) ==
  AtNextSector(Callback([acc EXCEPT !.db = full.db], full.info), full.info, n)
VisitSector(acc, head, n, status, traversal, Callback(_, _)) ==
  IF status \in {UNUSED, head.info.store}
  THEN CallOn(acc, IF traversal THEN read_sector_info(head.db, acc.sec, TRUE) ELSE head, n, Callback)
  ELSE AtNextSector([acc EXCEPT !.db = head.db], head.info, n)
sector_iterator(acc, status, traversal, Callback(_, _)) ==
  FoldLeft(LAMBDA a, n : IF a.stop \/ a.sec = NSec THEN a
                         ELSE VisitSector(a, read_sector_info(a.db, a.sec, FALSE), n, status, traversal, Callback),
           [acc EXCEPT !.sec = acc.db.oldest], [n \in 1 .. NSec + 1 |-> n])

\* Every node of the sectors in use, from the oldest sector on.
VisitNodes(acc, head, n, Callback(_, _)) ==
  AtNextSector(IF head.info.ok /\ head.info.store \in {USING, FULL}
               THEN EachKv([acc EXCEPT !.db = head.db], head.info, Callback)
               ELSE [acc EXCEPT !.db = head.db], head.info, n)
kv_iterator(acc, Callback(_, _)) ==
  FoldLeft(LAMBDA a, n : IF a.stop \/ a.sec = NSec THEN a
                         ELSE VisitNodes(a, read_sector_info(a.db, a.sec, FALSE), n, Callback),
           [acc EXCEPT !.sec = acc.db.oldest], [n \in 1 .. NSec |-> n])

\* Erase and write the header: between the two the sector is not recognised.
format_sector(db, s) ==
  update_sector_cache(Written(Written(db, s, Erased), s, Formatted), [NoInfo EXCEPT !.at = s])
=============================================================================
