-------------------------------- MODULE KvDb --------------------------------
(***************************************************************************)
(* The operations of the key-value store (fdb_kvdb.c): finding, setting    *)
(* and deleting a pair, making room by collecting sectors, and the check   *)
(* and recovery of a database when it is opened.  All of them run to their *)
(* end unless the power is cut.                                            *)
(***************************************************************************)
EXTENDS KvFlash

CONSTANTS Defaults,    \* the pairs of default_kv_table, as <<key, value>>, in order
          LoadRounds   \* retries of an opening that are considered

find_kv_cb(acc, a) == IF Live(Node(acc.db, a)) /\ Node(acc.db, a).key = acc.key
                      THEN [acc EXCEPT !.stop = TRUE, !.at = a] ELSE acc
find_kv_no_cache(db, key) == kv_iterator([NoFind(db) EXCEPT !.key = key], find_kv_cb)

Noted(found) == IF found.at = Nowhere THEN found
                ELSE [found EXCEPT !.db = update_kv_cache(@, found.key, found.at)]
find_kv(db, key) ==
  IF KvHit(db, key) THEN [NoFind(read_kv(db, db.kvCache[key])) EXCEPT !.at = db.kvCache[key]]
  ELSE Noted(find_kv_no_cache(db, key))

\* fdb_kv_get: the value, or "none" where it returns NULL.  A stored value that
\* is not printable text, as the table's defaults are with their final zero
\* byte, or that is empty, is there and reads as NULL all the same.
CONSTANT NotText
ValueOf(found) == IF found.at = Nowhere THEN "none" ELSE Node(found.db, found.at).val
TextOf(val) == IF val \in NotText THEN "none" ELSE val
GetText(found) == [db |-> found.db, val |-> TextOf(ValueOf(found))]
fdb_kv_get(db, key) == GetText(find_kv(db, key))

(***************************************************************************)
(* Room for a node                                                         *)
(***************************************************************************)
\* A dirty sector takes new nodes until a collection is asked for.
Fits(info, size, gcReq) ==
  /\ info.ok /\ info.remain > size + Threshold
  /\ info.dirty = CLEAN \/ (info.dirty = DIRTY /\ ~gcReq)

(* Mutant: it is given out like any other. *)
MayTakeLast(empties, gcReq) == empties > 0 \/ gcReq

\* The last empty sector is the collector's.
MayTakeEmpty(empties, gcReq) == empties > 1 \/ gcReq

sector_statistics_cb(acc, info) ==
  [acc EXCEPT !.empties = IF info.ok /\ info.store = EMPTY THEN @ + 1 ELSE @,
              !.usings = IF info.ok /\ info.store = USING THEN @ + 1 ELSE @]
alloc_kv_cb(acc, info) ==
  IF Fits(info, acc.size, acc.db.gcReq)
  THEN [acc EXCEPT !.stop = TRUE, !.info = info, !.at = <<info.at, info.empty>>] ELSE acc

FromUsing(acc) == IF acc.usings > 0 THEN sector_iterator(acc, USING, TRUE, alloc_kv_cb) ELSE acc
FromEmpty(acc) ==
  CASE acc.at # Nowhere \/ acc.empties = 0 -> acc
    [] acc.at = Nowhere /\ acc.empties > 0 /\ MayTakeEmpty(acc.empties, acc.db.gcReq) ->
         sector_iterator(acc, EMPTY, TRUE, alloc_kv_cb)
    [] OTHER -> [acc EXCEPT !.db.gcReq = TRUE]
alloc_kv(db, size) ==
  FromEmpty(FromUsing(sector_iterator([NoFind(db) EXCEPT !.size = size],
                                      UNUSED, FALSE, sector_statistics_cb)))

(***************************************************************************)
(* Deleting and moving a node                                              *)
(***************************************************************************)
\* In two steps around the writing of a new value (prepare, then complete), or
\* in one.  The cached address is dropped only by a completion without a
\* preparation before it: otherwise it is already that of the new node.
Flagged(db, a, complete) ==
  [(IF complete /\ ~db.lastDel THEN update_kv_cache(db, Node(db, a).key, Nowhere) ELSE db)
     EXCEPT !.lastDel = ~complete]
NotedDirty(db, s) == IF Cached(db, s) THEN [db EXCEPT !.secCache[s].dirty = DIRTY] ELSE db
Dirtied(db, s) == IF db.flash[s].dirty # CLEAN THEN db ELSE NotedDirty(WriteDirty(db, s, DIRTY), s)
del_kv(db, a, complete) ==
  Dirtied(Flagged(WriteKvStatus(db, a, IF complete THEN DELETED ELSE PRE_DELETE), a, complete), a[1])

\* A sector is taken into use, or closed when what would be left of it is less
\* than the threshold.
update_sec_status(db, info, size) ==
  LET full == info.store = USING /\ info.remain < Threshold + size
      st == IF full THEN FULL ELSE USING
  IN  IF info.store = EMPTY \/ full
      THEN [db |-> update_sector_status_store_cache(WriteStore(db, info.at, st), info.at, st), full |-> full]
      ELSE [db |-> db, full |-> FALSE]

Appended(db, s, node) == Written(db, s, [db.flash[s] EXCEPT !.nodes = Append(@, node)])
Grown(db, a, w) == Written(db, a[1], [db.flash[a[1]] EXCEPT !.nodes[a[2]].w = w])

\* Status, magic word and header; a cut inside the header leaves its first
\* part.  The checksum does not hold before the value is there.
write_kv_hdr(db, a, key, val) ==
  Grown(Grown(Appended(db, a[1], [st |-> PRE_WRITE, w |-> 0, key |-> key, val |-> val]), a, 1), a, 2)

\* Made when room was found: not once more when an earlier attempt got as far
\* as the copy.
Copied(db, kv, to) == WriteKvStatus(Grown(write_kv_hdr(db, to, kv.key, kv.val), to, 3), to, WRITE)
CopyNoted(db, kv, to) ==
  update_kv_cache(update_sector_empty_addr_cache(db, to[1], to[2] + 1), kv.key, to)
CopyTo(db, kv, room) ==
  CopyNoted(Copied(update_sec_status(db, room.info, LenOf(kv)).db, kv, room.at), kv, room.at)
UnlessThere(there, kv, room) == IF there.at # Nowhere THEN there.db ELSE CopyTo(there.db, kv, room)
MovedTo(room, kv, a) ==
  IF room.at = Nowhere THEN [db |-> room.db, ok |-> FALSE]
  ELSE [db |-> del_kv(UnlessThere(IF room.db.recov /\ kv.st = PRE_DELETE
                                  THEN find_kv_no_cache(room.db, kv.key) ELSE NoFind(room.db),
                                  kv, room), a, TRUE),
        ok |-> TRUE]
MoveNode(db, kv, a) == MovedTo(alloc_kv(IF kv.st = WRITE THEN del_kv(db, a, FALSE) ELSE db, LenOf(kv)), kv, a)
move_kv(db, a) == MoveNode(db, Node(db, a), a)

(***************************************************************************)
(* Collecting sectors                                                      *)
(***************************************************************************)
\* Live nodes are moved out, the sector is erased whether or not they could
\* be, and the ring then begins at the next one.  Collecting stops when the
\* sector collected before this one has the room asked for.
MoveLive(acc, a) ==
  IF CrcOk(Node(acc.db, a)) /\ Node(acc.db, a).st \in {WRITE, PRE_DELETE}
  THEN [acc EXCEPT !.db = move_kv(@, a).db] ELSE acc
Emptied(db, info) == EachKv(NoFind(WriteDirty(db, info.at, GC)), info, MoveLive).db
FormattedNext(db, info) == [format_sector(db, info.at) EXCEPT !.oldest = get_next_sector_addr(info, 0)]
AfterGc(acc, info, last) == [acc EXCEPT !.db = last.db, !.last = info.at,
                                        !.stop = last.info.ok /\ last.info.remain > acc.size]
do_gc(acc, info) ==
  IF info.ok /\ info.dirty \in {DIRTY, GC}
  THEN AfterGc(acc, info, read_sector_info(FormattedNext(Emptied(acc.db, info), info), acc.last, TRUE))
  ELSE acc

(* Mutant: the request stays. *)
CollectedAgain(db) == db

Collected(db) == [db EXCEPT !.gcReq = FALSE]

gc_check_cb(acc, info) == IF info.ok THEN [acc EXCEPT !.empties = @ + 1, !.last = info.at] ELSE acc
Sweep(acc) == IF acc.empties <= 1 THEN sector_iterator(acc, UNUSED, FALSE, do_gc) ELSE acc
gc_collect_by_free_size(db, free) ==
  Collected(Sweep(sector_iterator([NoFind(db) EXCEPT !.size = free], EMPTY, FALSE, gc_check_cb)).db)

gc_collect(db) == gc_collect_by_free_size(db, NSec * SecSize)

\* Room for a node, once more after collecting when the first try asked for it.
AskedAgain(room) == IF room.at # Nowhere THEN room ELSE [room EXCEPT !.db.gcReq = FALSE]
OrCollect(room, size) ==
  IF room.at # Nowhere \/ ~room.db.gcReq THEN room
  ELSE AskedAgain(alloc_kv(gc_collect_by_free_size(room.db, size), size))
new_kv(db, size) == OrCollect(alloc_kv(db, size), size)

(* Mutant: the cache keeps the address of the old node. *)
NewAddressNot(db, key, a) == db

NewAddress(db, key, a) == update_kv_cache(db, key, a)

Sized(db, full, to) == IF full THEN db ELSE update_sector_empty_addr_cache(db, to[1], to[2] + 1)
Finished(db, key, to) == WriteKvStatus(Grown(NewAddress(db, key, to), to, 3), to, WRITE)
CreateIn(using, to, key, val) ==
  [Finished(Sized(write_kv_hdr(using.db, to, key, val), using.full, to), key, to)
     EXCEPT !.gcReq = @ \/ using.full]
create_kv_blob(db, room, key, val) ==
  CreateIn(update_sec_status(db, room.info, KvLen), room.at, key, val)

(***************************************************************************)
(* What the program calls                                                  *)
(***************************************************************************)
(* Mutant: the old node is not marked first. *)
PreparedNot(old) == old.db

Prepared(old) == IF old.at # Nowhere THEN del_kv(old.db, old.at, FALSE) ELSE old.db

\* fdb_kv_set.  Room is made sure of first, then the old node is marked, the
\* new one written and the old one deleted.
CollectIfAsked(db) == IF db.gcReq THEN gc_collect_by_free_size(db, KvLen) ELSE db
DeleteOld(db, old) == IF old.at # Nowhere THEN del_kv(db, old.at, TRUE) ELSE db
Replace(old, room, key, val) ==
  CollectIfAsked(DeleteOld(create_kv_blob(Prepared(old), room, key, val), old))
ReplaceIn(room, key, val) ==
  IF room.at = Nowhere THEN room.db ELSE Replace(find_kv(room.db, key), room, key, val)
set_kv(db, key, val) == ReplaceIn(new_kv(db, KvLen), key, val)

\* Format everything and write the default pairs, up to one there is no room for.
FormatAll(db) == FoldLeft(format_sector, [db EXCEPT !.kvCache = [k \in Keys |-> Nowhere]],
                          [s \in 1 .. NSec |-> s - 1])
PutDefault(room, kv) ==
  IF room.at = Nowhere THEN [NoFind(room.db) EXCEPT !.stop = TRUE]
  ELSE NoFind(create_kv_blob(room.db, room, kv[1], kv[2]))
CreateDefault(acc, kv) == IF acc.stop THEN acc ELSE PutDefault(new_kv(acc.db, KvLen), kv)
fdb_kv_set_default(db) ==
  [FoldLeft(CreateDefault, NoFind(FormatAll(db)), Defaults).db EXCEPT !.oldest = 0]

(***************************************************************************)
(* Opening the database                                                    *)
(***************************************************************************)
\* The sector after an empty one is the oldest.
check_oldest_addr_cb(acc, info) ==
  [acc EXCEPT !.oldest = IF acc.last = EMPTY /\ info.store \in {USING, FULL} THEN info.at ELSE @,
              !.last = info.store]
StartingAt(found) == [found.db EXCEPT !.oldest = found.oldest]
FindOldest(db) ==
  StartingAt(sector_iterator(NoFind(db), UNUSED, FALSE, check_oldest_addr_cb))

\* Each broken header is formatted; if all were broken, the defaults are written.
check_sec_hdr_cb(acc, info) ==
  IF info.ok THEN acc ELSE [acc EXCEPT !.db = format_sector(@, info.at), !.failed = @ + 1]
IfAllFailed(done) == IF done.failed = NSec THEN fdb_kv_set_default(done.db) ELSE done.db
CheckHeaders(db) ==
  IfAllFailed(sector_iterator(NoFind(db), UNUSED, FALSE, check_sec_hdr_cb))

\* A sector that was being collected is collected again, with all dirty ones.
check_and_recovery_gc_cb(acc, info) ==
  IF info.ok /\ info.dirty = GC
  THEN [acc EXCEPT !.db = gc_collect([@ EXCEPT !.gcReq = TRUE])] ELSE acc
RecoverGc(db) == sector_iterator(NoFind(db), UNUSED, FALSE, check_and_recovery_gc_cb).db

\* A node marked for deletion is copied back unless
\* its successor is there; the first unfinished node ends the scan.
StopUnlessMoved(acc, move) == [acc EXCEPT !.db = move.db, !.stop = ~move.ok]
check_and_recovery_kv_cb(acc, a) ==
  LET node == Node(acc.db, a)
  IN  CASE CrcOk(node) /\ node.st = PRE_DELETE -> StopUnlessMoved(acc, move_kv(acc.db, a))
        [] node.st = PRE_WRITE -> [acc EXCEPT !.db = WriteKvStatus(@, a, ERR_HDR), !.stop = TRUE]
        [] Live(node) -> [acc EXCEPT !.db = update_kv_cache(@, node.key, a)]
        [] OTHER -> acc
RecoverKvs(db) == kv_iterator(NoFind(db), check_and_recovery_kv_cb).db

\* The scan is made again after a collection, without a limit in the code.
\* LoadRounds bounds it: gcReq left set says that the opening goes on.
AgainIfAsked(db, n) == IF db.gcReq THEN RecoverKvs(gc_collect(db)) ELSE db
_fdb_kv_load(db) ==
  [FoldLeft(AgainIfAsked, RecoverKvs(RecoverGc(CheckHeaders([db EXCEPT !.recov = TRUE]))),
            [n \in 1 .. LoadRounds |-> n]) EXCEPT !.recov = FALSE]

\* The object is zeroed memory when it is opened: its sector table, searched
\* for the oldest sector before it is initialised, holds a sector 0 that is
\* combined with no other and has no status.
ZeroTable == [s \in Sec |-> IF s = 0 THEN [NoInfo EXCEPT !.at = 0, !.span = 0] ELSE NoInfo]
Opened(flash) ==
  [flash |-> flash, trace |-> <<>>, secCache |-> ZeroTable, kvCache |-> [k \in Keys |-> Nowhere],
   oldest |-> 0, gcReq |-> FALSE, recov |-> FALSE, lastDel |-> FALSE]

fdb_kvdb_init(flash) ==
  _fdb_kv_load([FindOldest(Opened(flash)) EXCEPT !.secCache = [s \in Sec |-> NoInfo],
                                                 !.kvCache = [k \in Keys |-> Nowhere]])

\* fdb_kv_iterate to its end: the pairs of the sectors in use.
CollectPair(acc, a) ==
  IF Live(Node(acc.db, a)) THEN [acc EXCEPT !.pairs = Append(@, Node(acc.db, a))] ELSE acc
fdb_kv_iterate(db) == kv_iterator(NoFind(db), CollectPair).pairs
=============================================================================
