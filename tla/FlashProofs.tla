---------------------------- MODULE FlashProofs ----------------------------
(***************************************************************************)
(* The flash below the databases: each database keeps to its own partition *)
(* of the chip, erasing one sector erases that sector, and a status is     *)
(* read back as it was written, for up to seven statuses after the first,  *)
(* while a write that is cut never takes a status back.                    *)
(*                                                                         *)
(* Above it, what the operations of the key-value store keep: its types    *)
(* and the soundness of a store, reading nodes and sectors, finding a pair *)
(* and room for one, deleting, writing and moving a node, and the          *)
(* collector.  The iterators are folds: ListProofs says what a walk keeps  *)
(* when each of its steps does.                                            *)
(***************************************************************************)
EXTENDS KvApp, Storage, WellFoundedInduction, TLAPS

kvdb == fdb_init[1]
tsdb == fdb_init[2]
PartLen == FALSH_KV_SIZE
BlockLen == FLASH_ERASE_MIN_SIZE

(* The sizes of the partitions and of their blocks. *)
LEMMA PartSizes ==
    /\ PartLen \in Nat /\ BlockLen \in Nat /\ BlockLen > 0 /\ ChipLen = PartLen
    /\ FALSH_KV_SIZE = PartLen /\ FLASH_ERASE_MIN_SIZE = BlockLen
    /\ PartLen % BlockLen = 0 /\ BlockLen % BlockLen = 0 /\ PartLen \div BlockLen >= 2
    /\ ((BlockLen - 1) \div BlockLen + 1) * BlockLen = BlockLen
  BY SMT DEF PartLen, BlockLen, FALSH_KV_SIZE, FLASH_ERASE_MIN_SIZE, ChipLen

(* The partition table, entry by entry. *)
LEMMA PartTable ==
    /\ FAL_PART_TABLE[1] = [name |-> "fdb_kv", flash_name |-> "norflash0", offset |-> 0, len |-> PartLen]
    /\ FAL_PART_TABLE[2] = [name |-> "fdb_ts", flash_name |-> "norflash0", offset |-> PartLen, len |-> PartLen]
    /\ DOMAIN FAL_PART_TABLE = {1, 2}
  BY SMT DEF FAL_PART_TABLE, PartLen, FALSH_KV_SIZE

(* The chip is found. *)
LEMMA Device ==
    /\ fal_flash_device_find("norflash0") # NULL
    /\ fal_flash_device_find("norflash0").blk_size = BlockLen
  BY SMT DEF fal_flash_device_find, nor_flash0, NULL, BlockLen, FLASH_ERASE_MIN_SIZE

(* What fdb_init makes of the partition table. *)
LEMMA InitOpens ==
    /\ kvdb = [result |-> FDB_NO_ERR, part |-> FAL_PART_TABLE[1], sec_size |-> BlockLen, max_size |-> PartLen]
    /\ tsdb = [result |-> FDB_NO_ERR, part |-> FAL_PART_TABLE[2], sec_size |-> BlockLen, max_size |-> PartLen]
<1>1. fal_partition_find("fdb_kv") = FAL_PART_TABLE[1] /\ fal_partition_find("fdb_ts") = FAL_PART_TABLE[2]
  BY SMT, PartTable DEF fal_partition_find
<1>2. FAL_PART_TABLE[1] # NULL /\ FAL_PART_TABLE[2] # NULL
  BY SMT, PartTable DEF NULL
<1>3. ASSUME NEW path, NEW i \in {1, 2}, fal_partition_find(path) = FAL_PART_TABLE[i]
      PROVE  _fdb_init_ex(path, 0) = [result |-> FDB_NO_ERR, part |-> FAL_PART_TABLE[i],
                                      sec_size |-> BlockLen, max_size |-> PartLen]
  <2>1. FAL_PART_TABLE[i].flash_name = "norflash0" /\ FAL_PART_TABLE[i].len = PartLen
    BY SMT, PartTable
  <2>2. FAL_PART_TABLE[i] # NULL
    BY SMT, <1>2
  <2> QED BY SMT, <1>3, <2>1, <2>2, PartSizes, Device DEF _fdb_init_ex
<1> QED BY SMT, <1>1, <1>3 DEF kvdb, tsdb, fdb_init

(* The two databases' ways through fal_partition.c. *)
LEMMA Through ==
    ASSUME Word \in Nat, Word > PartLen + PartLen, NEW addr \in 0 .. PartLen, NEW size \in 0 .. PartLen,
           NEW i \in {1, 2}
    PROVE  LET part == FAL_PART_TABLE[i]
           IN  /\ OutOfBound(part, addr, size) <=> addr + size > PartLen
               /\ flash_device_find_by_part(part) # NULL
<1>1. (addr + size) % Word = addr + size
  BY SMT, PartSizes
<1>2. FAL_PART_TABLE[i].len = PartLen /\ FAL_PART_TABLE[i].flash_name = "norflash0"
  BY SMT, PartTable
<1> QED BY SMT, <1>1, <1>2, Device DEF OutOfBound, flash_device_find_by_part

At(part, addr, size) ==
    IF addr + size > PartLen THEN Error ELSE [part |-> part, from |-> addr, size |-> size]

(* What a database asks for is read and written at that place of its own   *)
(* partition, or refused where the partition ends (fal_partition.c:412).   *)
THEOREM StaysInPartition ==
    ASSUME Word \in Nat, Word > PartLen + PartLen, NEW addr \in 0 .. PartLen, NEW size \in 0 .. PartLen
    PROVE  /\ size > 0 => _fdb_flash_read(kvdb, addr, size) = At("fdb_kv", addr, size)
           /\ size > 0 => _fdb_flash_write(kvdb, addr, size) = At("fdb_kv", addr, size)
           /\ _fdb_flash_read(tsdb, addr, size) = At("fdb_ts", addr, size)
           /\ _fdb_flash_write(tsdb, addr, size) = At("fdb_ts", addr, size)
<1>1. ASSUME addr + size <= PartLen
      PROVE  /\ size > 0 => read(addr, size) = [part |-> "fdb_kv", from |-> addr, size |-> size]
             /\ size > 0 => write(addr, size) = [part |-> "fdb_kv", from |-> addr, size |-> size]
             /\ read(PartLen + addr, size) = [part |-> "fdb_ts", from |-> addr, size |-> size]
             /\ write(PartLen + addr, size) = [part |-> "fdb_ts", from |-> addr, size |-> size]
  <2>1. size > 0 => addr < PartLen
    BY SMT, <1>1, PartSizes
  <2>2. ~ (PartLen + addr < PartLen) /\ PartLen + addr - PartLen = addr
    BY SMT, PartSizes
  <2> QED BY SMT, <1>1, <2>1, <2>2, PartSizes DEF read, write, OnChip
<1>2. 0 + addr = addr
  BY SMT, PartSizes
<1>3. kvdb.part = FAL_PART_TABLE[1] /\ tsdb.part = FAL_PART_TABLE[2]
  BY SMT, InitOpens
<1>4. FAL_PART_TABLE[1].offset = 0 /\ FAL_PART_TABLE[2].offset = PartLen
  BY SMT, PartTable
<1>5. \A i \in {1, 2} : /\ OutOfBound(FAL_PART_TABLE[i], addr, size) <=> addr + size > PartLen
                        /\ flash_device_find_by_part(FAL_PART_TABLE[i]) # NULL
  BY SMT, Through
<1>6. /\ _fdb_flash_read(kvdb, addr, size) = IF addr + size > PartLen THEN Error ELSE read(addr, size)
      /\ _fdb_flash_read(tsdb, addr, size) = IF addr + size > PartLen THEN Error ELSE read(PartLen + addr, size)
  BY SMT, <1>2, <1>3, <1>4, <1>5 DEF _fdb_flash_read, fal_partition_read
<1>7. /\ _fdb_flash_write(kvdb, addr, size) = IF addr + size > PartLen THEN Error ELSE write(addr, size)
      /\ _fdb_flash_write(tsdb, addr, size) = IF addr + size > PartLen THEN Error ELSE write(PartLen + addr, size)
  BY SMT, <1>2, <1>3, <1>4, <1>5 DEF _fdb_flash_write, fal_partition_write
<1> QED BY SMT, <1>1, <1>6, <1>7, PartSizes DEF At

(* Formatting a sector erases its bytes and no others of the chip, for     *)
(* each sector of both databases (fdb_kvdb.c:776, fdb_tsdb.c:317).         *)
THEOREM ErasesOneSector ==
    ASSUME Word \in Nat, Word > PartLen + PartLen,
           NEW addr \in 0 .. PartLen, addr + BlockLen <= PartLen, addr % BlockLen = 0
    PROVE  /\ _fdb_flash_erase(kvdb, addr, BlockLen) = [part |-> "fdb_kv", from |-> addr, size |-> BlockLen]
           /\ _fdb_flash_erase(tsdb, addr, BlockLen) = [part |-> "fdb_ts", from |-> addr, size |-> BlockLen]
<1>1. /\ ErasedOnChip("fdb_kv", addr, BlockLen) = [part |-> "fdb_kv", from |-> addr, size |-> BlockLen]
      /\ ErasedOnChip("fdb_ts", addr, BlockLen) = [part |-> "fdb_ts", from |-> addr, size |-> BlockLen]
  BY SMT, PartSizes DEF ErasedOnChip, OnChip
<1>2. addr < PartLen /\ ~(PartLen + addr < PartLen) /\ PartLen + addr - PartLen = addr /\ 0 + addr = addr
  BY SMT, PartSizes
<1>3. erase(addr, BlockLen) = [part |-> "fdb_kv", from |-> addr, size |-> BlockLen]
  BY SMT, <1>1, <1>2, PartSizes DEF erase
<1>4. erase(PartLen + addr, BlockLen) = [part |-> "fdb_ts", from |-> addr, size |-> BlockLen]
  BY SMT, <1>1, <1>2, PartSizes DEF erase
<1>5. kvdb.part = FAL_PART_TABLE[1] /\ tsdb.part = FAL_PART_TABLE[2]
  BY SMT, InitOpens
<1>6. FAL_PART_TABLE[1].offset = 0 /\ FAL_PART_TABLE[2].offset = PartLen
  BY SMT, PartTable
<1>7. BlockLen \in 0 .. PartLen /\ ~(addr + BlockLen > PartLen)
  BY SMT, PartSizes
<1>8. \A i \in {1, 2} : /\ ~OutOfBound(FAL_PART_TABLE[i], addr, BlockLen)
                        /\ flash_device_find_by_part(FAL_PART_TABLE[i]) # NULL
  BY SMT, <1>7, Through
<1>9. /\ _fdb_flash_erase(kvdb, addr, BlockLen) = erase(addr, BlockLen)
      /\ _fdb_flash_erase(tsdb, addr, BlockLen) = erase(PartLen + addr, BlockLen)
  BY SMT, <1>2, <1>5, <1>6, <1>8 DEF _fdb_flash_erase, fal_partition_erase
<1> QED BY SMT, <1>3, <1>4, <1>9
-----------------------------------------------------------------------------
(* A table is the bits below its status. *)
LEMMA TableIsPrefix ==
    ASSUME NEW i \in 0 .. 7
    PROVE  _fdb_set_status(i) = 0 .. i - 1
<1>1. CASE i = 0
  BY <1>1 DEF _fdb_set_status
<1>2. CASE i # 0
  <2>1. (i - 1) \div 8 = 0 /\ i % 8 = i
    BY <1>2
  <2>2. {8 * 0 + b : b \in 0 .. i - 1} = 0 .. i - 1
    OBVIOUS
  <2> QED BY <1>2, <2>1, <2>2 DEF _fdb_set_status
<1> QED BY <1>1, <1>2

(* A set of numbers below a limit has a highest one. *)
LEMMA HighestBit ==
    ASSUME NEW limit \in Nat, NEW S, S \subseteq 0 .. limit, S # {}
    PROVE  \E b \in S : \A c \in S : c <= b
<1> DEFINE Mirror == {m \in 0 .. limit : limit - m \in S}
<1>1. Mirror \subseteq Nat
  OBVIOUS
<1>2. Mirror # {}
  <2>1. PICK b \in S : TRUE
    OBVIOUS
  <2>2. limit - b \in Mirror
    BY <2>1
  <2> QED BY <2>2
<1>3. PICK low \in Mirror : \A m \in Mirror : ~ (<<m, low>> \in OpToRel(<, Nat))
  <2> HIDE DEF Mirror
  <2> QED BY <1>1, <1>2, WFMin, NatLessThanWellFounded
<1>4. limit - low \in S /\ low \in 0 .. limit
  OBVIOUS
<1>5. ASSUME NEW c \in S PROVE c <= limit - low
  <2>1. c \in 0 .. limit /\ limit - c \in Mirror
    OBVIOUS
  <2>2. ~ (<<limit - c, low>> \in OpToRel(<, Nat))
    BY <1>3, <2>1
  <2>3. ~ (limit - c < low)
    BY <1>1, <2>1, <2>2 DEF OpToRel
  <2> QED BY <1>4, <2>1, <2>3
<1> QED BY <1>4, <1>5

(* Flash that holds at least the bits below m, and none from n on, reads   *)
(* as a status from m to n.                                                *)
LEMMA ReadsBetween ==
    ASSUME NEW num \in Nat, NEW m \in 0 .. num - 1, NEW n \in 0 .. num - 1, NEW table,
           0 .. m - 1 \subseteq table, table \subseteq 0 .. n - 1
    PROVE  _fdb_get_status(table, num) \in m .. n
<1> DEFINE cleared == {b \in 0 .. num - 2 : b \in table}
<1>1. cleared = table
  <2>1. 0 .. n - 1 \subseteq 0 .. num - 2
    BY SMT
  <2> QED BY <2>1
<1>2. CASE cleared = {}
  <2>1. m = 0
    BY <1>1, <1>2
  <2> QED BY <1>2, <2>1 DEF _fdb_get_status
<1>3. CASE cleared # {}
  <2> DEFINE last == CHOOSE b \in cleared : \A c \in cleared : c <= b
  <2>1. n \in Nat /\ cleared \subseteq 0 .. n - 1
    BY <1>1
  <2>2. n - 1 \in Nat
    BY <1>3, <2>1
  <2>3. \E b \in cleared : \A c \in cleared : c <= b
    <3> HIDE DEF cleared
    <3> QED BY <1>3, <2>1, <2>2, HighestBit
  <2>4. last \in cleared /\ \A c \in cleared : c <= last
    <3> HIDE DEF cleared
    <3> QED BY <2>3
  <2>5. last + 1 \in m .. n
    <3>1. m = 0 \/ m - 1 \in cleared
      BY <1>1
    <3> QED BY <2>1, <2>4, <3>1
  <2>6. _fdb_get_status(table, num) = 1 + last
    BY <1>3, Zenon DEF _fdb_get_status
  <2> HIDE DEF last
  <2> QED BY <2>1, <2>4, <2>5, <2>6
<1> QED BY <1>2, <1>3

(* The status that is written is the one that is read, as FDB_KV_STATUS_NUM*)
(* and the sector statuses need it (fdb_utils.c:91, 126).                  *)
THEOREM StatusReadBack ==
    ASSUME NEW num \in 1 .. 8, NEW i \in 0 .. num - 1
    PROVE  _fdb_get_status(_fdb_set_status(i), num) = i
<1> num \in Nat /\ i \in 0 .. 7
  OBVIOUS
<1>1. _fdb_set_status(i) = 0 .. i - 1
  BY TableIsPrefix
<1>2. _fdb_get_status(0 .. i - 1, num) \in i .. i
  BY ReadsBetween
<1> QED BY <1>1, <1>2

(* A status written over another gives the later of the two, whatever the  *)
(* order: no status is ever taken back without an erase.                   *)
THEOREM LaterStatusStays ==
    ASSUME NEW num \in 1 .. 8, NEW old \in 0 .. num - 1, NEW new \in 0 .. num - 1
    PROVE  _fdb_get_status(_fdb_write_status(_fdb_set_status(old), new), num)
              = IF new > old THEN new ELSE old
<1> DEFINE later == IF new > old THEN new ELSE old
<1> num \in Nat /\ old \in 0 .. 7 /\ new \in 0 .. 7
  OBVIOUS
<1>1. _fdb_write_status(_fdb_set_status(old), new) = 0 .. later - 1
  BY TableIsPrefix DEF _fdb_write_status, Programmed
<1>2. _fdb_get_status(0 .. later - 1, num) \in later .. later
  BY ReadsBetween
<1> QED BY <1>1, <1>2

(* When the power goes while the byte of a status is programmed, with any  *)
(* part of its bits cleared, a status between the old and the new is read. *)
THEOREM TornStatusBetween ==
    ASSUME NEW num \in 1 .. 8, NEW old \in 0 .. num - 1, NEW new \in old .. num - 1,
           NEW torn \in SUBSET _fdb_set_status(new)
    PROVE  _fdb_get_status(Programmed(_fdb_set_status(old), torn), num) \in old .. new
<1> num \in Nat /\ old \in 0 .. 7 /\ new \in 0 .. 7
  OBVIOUS
<1>1. _fdb_set_status(old) = 0 .. old - 1 /\ _fdb_set_status(new) = 0 .. new - 1
  BY TableIsPrefix
<1>2. 0 .. old - 1 \subseteq Programmed(_fdb_set_status(old), torn)
  BY <1>1 DEF Programmed
<1>3. Programmed(_fdb_set_status(old), torn) \subseteq 0 .. new - 1
  BY <1>1 DEF Programmed
<1> QED BY <1>2, <1>3, ReadsBetween, SMTT(30)

-----------------------------------------------------------------------------
\* The later of two statuses of a sector or of a node.
LEMMA LaterIs ==
    ASSUME NEW old \in 0 .. 5, NEW new \in 0 .. 5
    PROVE  Later(old, new) = IF new > old THEN new ELSE old
<1> DEFINE num == ERR_HDR + 1
<1>1. num \in 1 .. 8 /\ num - 1 = 5
  BY DEF ERR_HDR
<1>2. Later(old, new) = _fdb_get_status(_fdb_write_status(_fdb_set_status(old), new), num)
  BY DEF Later
<1> HIDE DEF num
<1> QED BY <1>1, <1>2, LaterStatusStays

-----------------------------------------------------------------------------
(***************************************************************************)
(* The key-value store: types, and what its operations keep.               *)
(*                                                                         *)
(* A sound store has well-formed sectors, now and after each of its        *)
(* writes, and its table of sectors tells of them what is on flash.        *)
(* Each operation below keeps it so, one lemma for each, up to the         *)
(* collector; KvProofs has the calls of the program and the opening.       *)
(***************************************************************************)
Names == Keys \cup {"none"}
Nodes == [st : 0 .. 5, w : 0 .. 3, key : Names, val : Values \cup {"none"}]
Sectors == [ok : BOOLEAN, store : 0 .. 3, dirty : 0 .. 3, nodes : Seq(Nodes)]
Flashes == [Sec -> Sectors]
Infos == [ok : BOOLEAN, store : 0 .. 3, dirty : 0 .. 3, at : 0 .. NSec, empty : Nat, remain : Nat, span : {1}]
Addresses == (Sec \X (Nat \ {0})) \cup {Nowhere}
Stores == [flash : Flashes, trace : Seq(Flashes), secCache : [Sec -> Infos],
           kvCache : [Keys -> Addresses], oldest : Sec,
           gcReq : BOOLEAN, recov : BOOLEAN, lastDel : BOOLEAN]
\* What an iterator carries: the store, where it is and what it has found.
Walks == [db : Stores, stop : BOOLEAN, i : Nat, sec : 0 .. NSec, at : Addresses, key : Names,
          info : Infos, size : Nat, empties : Nat, usings : Nat, last : Nat, oldest : Sec,
          failed : Nat, pairs : Seq(Nodes)]

\* A sector is erased, formatted, or in use with its nodes inside of it.
Shape(x) == \/ x = Erased
            \/ x = Formatted
            \/ x.ok /\ x.store = USING /\ x.dirty \in {CLEAN, DIRTY, GC} /\ Remain(x) \in Nat
\* A sector that a recovery can make an empty one of.
Spare(x) == x = Erased \/ x = Formatted \/ x.dirty = GC
\* What a power cut, at any write, leaves on flash.
Fine(f) == /\ f \in Flashes
           /\ \A s \in Sec : Shape(f[s])
           /\ \E s \in Sec : Spare(f[s])

\* info is what the table says of sector s, x what it holds.  Of the sector c
\* that is being collected the table may still say that it is only dirty.
Tells(info, s, x, c) ==
    /\ info \in Infos /\ info.at = s /\ info.ok = x.ok /\ info.store = x.store
    /\ IF s = c THEN info.dirty # CLEAN ELSE info.dirty = x.dirty
    /\ \/ info.empty = FAILED /\ info.remain = 0
       \/ /\ info.empty = Len(x.nodes) + 1 /\ info.remain = Remain(x)
          /\ x = Formatted \/ (x.ok /\ x.nodes # <<>>)

\* c is the sector that is being collected, or NSec; of r the table may be wrong.
SoundBut(d0, c, r) ==
    /\ d0 \in Stores
    /\ Fine(d0.flash)
    /\ \A n \in 1 .. Len(d0.trace) : Fine(d0.trace[n])
    /\ \A s \in Sec \ {r} : Cached(d0, s) => d0.secCache[s].ok /\ Tells(d0.secCache[s], s, d0.flash[s], c)
    /\ c \in Sec => d0.flash[c].dirty = GC
Sound(d0, c) == SoundBut(d0, c, NSec)

-----------------------------------------------------------------------------
Fold == INSTANCE ListProofs WITH Step <- Less

(* What the assumption on the sizes says of the sectors. *)
LEMMA Sizes ==
    /\ NSec \in Nat /\ SecSize \in Nat /\ SecHdr \in Nat /\ KvHdr \in Nat /\ KvLen \in Nat
    /\ Threshold \in Nat /\ SecCacheSize \in Nat /\ NSec >= 2 /\ 0 < KvHdr /\ KvHdr < KvLen
    /\ SecHdr + KvLen + Threshold < SecSize
    /\ Sec = 0 .. NSec - 1 /\ NSec \notin Sec /\ 0 \in Sec /\ 1 \in Sec
  BY KvSizes DEF Sec

(* The lengths of the nodes of a sector, one for each. *)
LEMMA LengthsType ==
    ASSUME NEW nodes \in Seq(Nodes)
    PROVE  Lengths(nodes) \in Seq(Nat) /\ Len(Lengths(nodes)) = Len(nodes)
<1>1. \A i \in 1 .. Len(nodes) : LenOf(nodes[i]) \in Nat
  BY Sizes DEF LenOf
<1> QED BY <1>1 DEF Lengths

(* A sector without nodes has all the room behind its header. *)
LEMMA RemainNone ==
    ASSUME NEW x, x.nodes = <<>>
    PROVE  Remain(x) = SecSize - SecHdr
<1>1. Lengths(x.nodes) = <<>>
  BY DEF Lengths
<1> DEFINE base == SecSize - SecHdr
<1> HIDE DEF base
<1>2. FoldLeft(Less, base, <<>>) = base
  BY Fold!FoldedNone DEF FoldLeft, MapThenFoldSet, Max, Fold!FoldLeft, Fold!MapThenFoldSet, Fold!Max
<1>3. Remain(x) = FoldLeft(Less, base, <<>>)
  BY <1>1 DEF Remain, base, FoldLeft, MapThenFoldSet
<1> QED BY <1>2, <1>3 DEF base, FoldLeft, MapThenFoldSet

\* Two nodes that take the same room.
SameLength(node, other) == (Visible(node) <=> Visible(other)) /\ LenOf(node) = LenOf(other)

(* The room left depends on the lengths of the nodes alone. *)
LEMMA RemainSame ==
    ASSUME NEW x, NEW y, x.nodes \in Seq(Nodes), y.nodes \in Seq(Nodes), Len(x.nodes) = Len(y.nodes),
           \A i \in 1 .. Len(x.nodes) : SameLength(x.nodes[i], y.nodes[i])
    PROVE  Remain(x) = Remain(y)
<1>1. Lengths(x.nodes) = Lengths(y.nodes)
  BY DEF Lengths, SameLength
<1> QED BY <1>1 DEF Remain, FoldLeft, MapThenFoldSet

\* How much the node takes that follows others.
Takes(nodes, node) == IF nodes = <<>> \/ Visible(node) THEN LenOf(node) ELSE 0

(* A node at the end takes its length from the room left. *)
LEMMA RemainAppend ==
    ASSUME NEW x, NEW y, NEW node \in Nodes, y.nodes \in Seq(Nodes), x.nodes = Append(y.nodes, node)
    PROVE  Remain(x) = Remain(y) - Takes(y.nodes, node)
<1> DEFINE base == SecSize - SecHdr
           q == Lengths(y.nodes)
           len == Takes(y.nodes, node)
<1>1. q \in Seq(Nat) /\ len \in Nat
  BY LengthsType, Sizes DEF Takes, LenOf
<1>2. Lengths(x.nodes) = Append(q, len)
  <2>1. x.nodes \in Seq(Nodes) /\ Len(x.nodes) = Len(y.nodes) + 1 /\ x.nodes[Len(y.nodes) + 1] = node
        /\ \A i \in 1 .. Len(y.nodes) : x.nodes[i] = y.nodes[i]
    OBVIOUS
  <2>2. y.nodes = <<>> <=> Len(y.nodes) + 1 = 1
    OBVIOUS
  <2>3. Lengths(x.nodes) \in Seq(Nat) /\ Len(Lengths(x.nodes)) = Len(y.nodes) + 1
    BY <2>1, LengthsType
  <2>4. Lengths(x.nodes)[Len(y.nodes) + 1] = len
    BY <2>1, <2>2 DEF Lengths, Takes
  <2>5. \A i \in 1 .. Len(y.nodes) : Lengths(x.nodes)[i] = q[i]
    BY <2>1 DEF Lengths
  <2>6. Len(q) = Len(y.nodes)
    BY LengthsType
  <2> HIDE DEF q, len
  <2> QED BY <1>1, <2>3, <2>4, <2>5, <2>6
<1> HIDE DEF base, q, len
<1> DEFINE more == Append(q, len)
<1> HIDE DEF more
<1>3. FoldLeft(Less, base, more) = Less(FoldLeft(Less, base, q), len)
  <2>1. more = Append(q, len)
    BY DEF more
  <2>2. Fold!FoldLeft(Less, base, more) = Less(Fold!FoldLeft(Less, base, q), len)
    BY <1>1, <2>1, Fold!FoldedAppend, ZenonT(30)
  <2> QED BY <2>2 DEF FoldLeft, MapThenFoldSet, Max, Fold!FoldLeft, Fold!MapThenFoldSet, Fold!Max
<1>4. Less(FoldLeft(Less, base, q), len) = FoldLeft(Less, base, q) - len
  BY DEF Less, FoldLeft, MapThenFoldSet
<1>5. Remain(x) = FoldLeft(Less, base, more)
  BY <1>2 DEF Remain, base, more, FoldLeft, MapThenFoldSet
<1>6. Remain(y) = FoldLeft(Less, base, q)
  BY DEF Remain, base, q, FoldLeft, MapThenFoldSet
<1> QED BY <1>3, <1>4, <1>5, <1>6 DEF len, FoldLeft, MapThenFoldSet
-----------------------------------------------------------------------------
(* Fields of the database that an operation leaves alone. *)
Kept(d0, d) == d.oldest = d0.oldest /\ d.gcReq = d0.gcReq /\ d.recov = d0.recov

(* The types of the fields of a sound store. *)
LEMMA SoundFields ==
    ASSUME NEW d0, NEW c, NEW r, SoundBut(d0, c, r)
    PROVE  /\ d0 \in Stores /\ d0.flash \in Flashes /\ d0.trace \in Seq(Flashes)
           /\ d0.secCache \in [Sec -> Infos] /\ d0.kvCache \in [Keys -> Addresses]
           /\ d0.oldest \in Sec /\ d0.gcReq \in BOOLEAN /\ d0.recov \in BOOLEAN /\ d0.lastDel \in BOOLEAN
           /\ \A s \in Sec : d0.flash[s] \in Sectors /\ Shape(d0.flash[s]) /\ d0.secCache[s] \in Infos
           /\ Fine(d0.flash)
  BY DEF SoundBut, Stores, Fine, Flashes

(* A sector is written: flash and its history change, and no other field. *)
LEMMA WrittenFields ==
    ASSUME NEW d0 \in Stores, NEW s \in Sec, NEW x \in Sectors, NEW d, d = Written(d0, s, x)
    PROVE  /\ d \in Stores
           /\ d.flash \in Flashes /\ d.flash[s] = x
           /\ (\A t \in Sec \ {s} : d.flash[t] = d0.flash[t])
           /\ d.trace = Append(d0.trace, d.flash)
           /\ d.secCache = d0.secCache /\ d.kvCache = d0.kvCache /\ Kept(d0, d)
           /\ d.lastDel = d0.lastDel
<1> DEFINE f == [d0.flash EXCEPT ![s] = x]
<1>1. d0.flash \in Flashes /\ d0.trace \in Seq(Flashes)
  BY DEF Stores
<1>2. f \in Flashes /\ f[s] = x /\ \A t \in Sec \ {s} : f[t] = d0.flash[t]
  BY <1>1 DEF Flashes
<1> HIDE DEF f
<1>3. Append(d0.trace, f) \in Seq(Flashes)
  BY <1>1, <1>2
<1>4. d = [d0 EXCEPT !.flash = f, !.trace = Append(d0.trace, f)]
  BY DEF Written, f, Stores
<1>5. d \in Stores /\ d.flash = f /\ d.trace = Append(d0.trace, f) /\ d.secCache = d0.secCache
      /\ d.kvCache = d0.kvCache /\ d.oldest = d0.oldest /\ d.gcReq = d0.gcReq /\ d.recov = d0.recov
      /\ d.lastDel = d0.lastDel
  BY <1>2, <1>3, <1>4 DEF Stores
<1> QED BY <1>2, <1>5 DEF f, Kept

(* A sector is written over.  The table may be wrong about sector r only.  *)
LEMMA WrittenSound ==
    ASSUME NEW d0, NEW c, NEW r, SoundBut(d0, c, r), NEW s \in Sec, NEW x \in Sectors, Shape(x),
           Spare(x) \/ \E t \in Sec \ {s} : Spare(d0.flash[t]),
           s # r /\ Cached(d0, s) => Tells(d0.secCache[s], s, x, c),
           s = c => x.dirty = GC, NEW d, d = Written(d0, s, x)
    PROVE  SoundBut(d, c, r)
<1>0. d0 \in Stores /\ Fine(d0.flash) /\ d0.trace \in Seq(Flashes)
  BY SoundFields
<1>1. /\ d \in Stores /\ d.flash \in Flashes
      /\ d.flash[s] = x /\ (\A t \in Sec \ {s} : d.flash[t] = d0.flash[t])
      /\ d.trace = Append(d0.trace, d.flash) /\ d.secCache = d0.secCache
  BY <1>0, WrittenFields
<1>2. Fine(d.flash)
  <2>1. \A t \in Sec : Shape(d.flash[t])
    BY <1>0, <1>1 DEF Fine
  <2>2. \E t \in Sec : Spare(d.flash[t])
    BY <1>1
  <2> QED BY <1>1, <2>1, <2>2 DEF Fine
<1>3. \A n \in 1 .. Len(d.trace) : Fine(d.trace[n])
  <2>1. ASSUME NEW n \in 1 .. Len(d.trace) PROVE Fine(d.trace[n])
    <3>1. n \in 1 .. Len(d0.trace) \/ d.trace[n] = d.flash
      BY <1>0, <1>1
    <3>2. n \in 1 .. Len(d0.trace) => d.trace[n] = d0.trace[n]
      BY <1>0, <1>1
    <3> QED BY <1>2, <3>1, <3>2 DEF SoundBut
  <2> QED BY <2>1
<1>4. ASSUME NEW t \in Sec \ {r}, Cached(d, t)
      PROVE  d.secCache[t].ok /\ Tells(d.secCache[t], t, d.flash[t], c)
  <2>1. Cached(d0, t)
    BY <1>1, <1>4 DEF Cached
  <2>2. d0.secCache[t].ok /\ Tells(d0.secCache[t], t, d0.flash[t], c)
    BY <2>1 DEF SoundBut
  <2>3. CASE t = s
    BY <1>1, <2>1, <2>2, <2>3
  <2>4. CASE t # s
    BY <1>1, <2>2, <2>4
  <2> QED BY <2>3, <2>4
<1>5. c \in Sec => d.flash[c].dirty = GC
  BY <1>1 DEF SoundBut
<1> QED BY <1>1, <1>2, <1>3, <1>4, <1>5 DEF SoundBut

-----------------------------------------------------------------------------
(* The shapes a sector can have. *)
LEMMA ShapeFacts ==
    ASSUME NEW x \in Sectors, Shape(x)
    PROVE  /\ x.ok <=> x # Erased
           /\ x.store = EMPTY <=> x = Formatted
           /\ x.store = USING <=> x # Erased /\ x # Formatted
           /\ x.store = UNUSED <=> x = Erased
           /\ x.store # FULL
           /\ x.nodes # <<>> => x.store = USING
           /\ x.dirty = GC => x.store = USING
           /\ x.store = USING => x.ok /\ x.dirty \in {CLEAN, DIRTY, GC} /\ Remain(x) \in Nat
           /\ x.ok => Remain(x) \in Nat
<1>1. Formatted.nodes = <<>>
  BY DEF Formatted, Erased
<1>2. Remain(Formatted) \in Nat
  BY <1>1, RemainNone, Sizes
<1>3. x = Erased => ~x.ok /\ x.store = UNUSED /\ x.nodes = <<>> /\ x.dirty = UNUSED
  BY DEF Erased
<1>4. x = Formatted => x.ok /\ x.store = EMPTY /\ x.nodes = <<>> /\ x.dirty = CLEAN
  BY DEF Formatted, Erased
<1> QED BY <1>2, <1>3, <1>4 DEF Shape, UNUSED, EMPTY, USING, FULL, CLEAN, DIRTY, GC

(* An erased and a formatted sector are well-formed, empty and spare. *)
LEMMA BlankSectors ==
    /\ Erased \in Sectors /\ Formatted \in Sectors /\ Shape(Erased) /\ Shape(Formatted)
    /\ Spare(Erased) /\ Spare(Formatted) /\ Formatted.nodes = <<>> /\ Erased.nodes = <<>>
    /\ ~Erased.ok /\ Formatted.ok /\ Formatted.store = EMPTY /\ Formatted.dirty = CLEAN
    /\ Erased.store = UNUSED /\ Erased.dirty = UNUSED
    /\ Remain(Formatted) = SecSize - SecHdr /\ SecSize - SecHdr \in Nat
<1>1. Formatted.nodes = <<>>
  BY DEF Formatted, Erased
<1>2. Remain(Formatted) = SecSize - SecHdr
  BY <1>1, RemainNone
<1>3. SecSize - SecHdr \in Nat
  BY Sizes
<1>4. <<>> \in Seq(Nodes)
  OBVIOUS
<1>5. Erased \in Sectors /\ ~Erased.ok /\ Erased.store = UNUSED /\ Erased.dirty = UNUSED /\ Erased.nodes = <<>>
  BY <1>4 DEF Erased, Sectors, UNUSED
<1>6. Formatted \in Sectors /\ Formatted.ok /\ Formatted.store = EMPTY /\ Formatted.dirty = CLEAN
  <2>1. Formatted = [ok |-> TRUE, store |-> 1, dirty |-> 1, nodes |-> <<>>]
    BY DEF Formatted, EMPTY, CLEAN
  <2>2. Formatted.ok
    BY <2>1
  <2>3. Formatted.store = EMPTY /\ Formatted.dirty = CLEAN
    BY <2>1 DEF EMPTY, CLEAN
  <2>4. Formatted \in Sectors
    BY <1>4, <2>1 DEF Sectors
  <2> QED BY <2>2, <2>3, <2>4
<1> QED BY <1>1, <1>2, <1>3, <1>5, <1>6 DEF Shape, Spare

(* The entry of an unknown sector, field by field ... *)
LEMMA NoInfoType ==
    /\ NoInfo \in Infos /\ ~NoInfo.ok /\ NoInfo.at = NSec
    /\ NoInfo.store = UNUSED /\ NoInfo.dirty = UNUSED /\ NoInfo.empty = FAILED /\ NoInfo.remain = 0
  BY Sizes DEF NoInfo, Infos, UNUSED, FAILED

(* ... and the one read_sector_info makes for sector s. *)
LEMMA NoInfoAt ==
    ASSUME NEW s \in Sec, NEW info, info = [NoInfo EXCEPT !.at = s]
    PROVE  /\ info \in Infos /\ ~info.ok /\ info.at = s
           /\ info.store = UNUSED /\ info.dirty = UNUSED /\ info.empty = FAILED /\ info.remain = 0
<1>1. info = [ok |-> FALSE, store |-> 0, dirty |-> 0, at |-> s, empty |-> 0, remain |-> 0, span |-> 1]
  BY DEF NoInfo, UNUSED, FAILED
<1>2. info \in Infos
  <2>1. s \in 0 .. NSec
    BY Sizes
  <2>2. [ok |-> FALSE, store |-> 0, dirty |-> 0, at |-> s, empty |-> 0, remain |-> 0, span |-> 1] \in Infos
    BY <2>1 DEF Infos
  <2> QED BY <1>1, <2>2
<1>3. ~info.ok
  BY <1>1
<1>4. info.at = s /\ info.store = UNUSED /\ info.dirty = UNUSED /\ info.empty = FAILED /\ info.remain = 0
  BY <1>1 DEF UNUSED, FAILED
<1> QED BY <1>2, <1>3, <1>4

(* An entry of the sector table changes. *)
Recached(d0, s, info) == [d0 EXCEPT !.secCache[s] = info]

(* An entry of the table is replaced: no other field changes. *)
LEMMA TableFields ==
    ASSUME NEW d0 \in Stores, NEW s \in Sec, NEW info \in Infos,
           NEW d, d = Recached(d0, s, info)
    PROVE  /\ d \in Stores /\ d.flash = d0.flash /\ d.trace = d0.trace /\ d.kvCache = d0.kvCache
           /\ Kept(d0, d) /\ d.secCache[s] = info
           /\ (\A t \in Sec \ {s} : d.secCache[t] = d0.secCache[t])
<1> DEFINE table == [d0.secCache EXCEPT ![s] = info]
<1>1. d0.secCache \in [Sec -> Infos]
  BY DEF Stores
<1>2. table \in [Sec -> Infos] /\ table[s] = info /\ \A t \in Sec \ {s} : table[t] = d0.secCache[t]
  BY <1>1
<1>3. d = [d0 EXCEPT !.secCache = table]
  BY DEF Stores, Recached
<1> HIDE DEF table
<1>4. d \in Stores /\ d.flash = d0.flash /\ d.trace = d0.trace /\ d.kvCache = d0.kvCache
      /\ d.secCache = table
  BY <1>2, <1>3 DEF Stores
<1>5. Kept(d0, d)
  BY <1>2, <1>3 DEF Stores, Kept
<1> QED BY <1>2, <1>4, <1>5

(* Only the tables of the database differ. *)
Tabled(d0, d) == d.flash = d0.flash /\ d.trace = d0.trace /\ Kept(d0, d)

(* A store stays sound when an entry that is true of the flash is made. *)
LEMMA TableSound ==
    ASSUME NEW d0, NEW c, NEW r, SoundBut(d0, c, r), NEW s \in Sec, r \in {s, NSec},
           NEW info \in Infos, info.at = s => info.ok /\ Tells(info, s, d0.flash[s], c),
           NEW d, d = Recached(d0, s, info)
    PROVE  Sound(d, c) /\ Tabled(d0, d)
<1>1. d0 \in Stores
  BY SoundFields
<1>2. /\ d \in Stores /\ d.flash = d0.flash /\ d.trace = d0.trace /\ Kept(d0, d) /\ d.secCache[s] = info
      /\ (\A t \in Sec \ {s} : d.secCache[t] = d0.secCache[t])
  BY <1>1, TableFields
<1>3. ASSUME NEW t \in Sec, Cached(d, t)
      PROVE  d.secCache[t].ok /\ Tells(d.secCache[t], t, d.flash[t], c)
  <2>1. CASE t = s
    BY <1>2, <1>3, <2>1 DEF Cached
  <2>2. CASE t # s
    BY <1>2, <1>3, <2>2, Sizes DEF Cached, SoundBut
  <2> QED BY <2>1, <2>2
<1> QED BY <1>2, <1>3 DEF SoundBut, Sound, Tabled

(* update_sector_cache, told the truth, keeps the store sound ... *)
LEMMA TableTold ==
    ASSUME NEW d0, NEW c, Sound(d0, c), NEW s \in Sec, NEW info, info.ok, Tells(info, s, d0.flash[s], c),
           NEW d, d = update_sector_cache(d0, info)
    PROVE  Sound(d, c) /\ Tabled(d0, d)
<1>1. info \in Infos /\ info.at = s
  BY DEF Tells
<1>2. d = d0 \/ d = Recached(d0, s, info)
  BY <1>1 DEF update_sector_cache, Recached
<1>3. CASE d = d0
  BY <1>3 DEF Tabled, Kept
<1>4. CASE d = Recached(d0, s, info)
  BY <1>1, <1>4, TableSound DEF Sound
<1> QED BY <1>2, <1>3, <1>4

(* ... and told nothing of a sector, mends an entry that was wrong. *)
LEMMA TableForgets ==
    ASSUME NEW d0, NEW c, NEW s \in Sec, SoundBut(d0, c, s), NEW info, info = [NoInfo EXCEPT !.at = s],
           NEW d, d = update_sector_cache(d0, info)
    PROVE  Sound(d, c) /\ Tabled(d0, d)
<1>1. info.at = s /\ ~info.ok
  BY NoInfoAt
<1>2. CASE Cached(d0, s)
  <2>1. d = Recached(d0, s, NoInfo)
    BY <1>1, <1>2 DEF update_sector_cache, Recached
  <2>2. NoInfo \in Infos /\ NoInfo.at # s
    BY NoInfoType, Sizes
  <2> QED BY <2>1, <2>2, TableSound
<1>3. CASE ~Cached(d0, s)
  <2>1. d = d0
    BY <1>1, <1>3 DEF update_sector_cache
  <2> QED BY <1>3, <2>1, Sizes DEF Sound, SoundBut, Tabled, Kept
<1> QED BY <1>2, <1>3

-----------------------------------------------------------------------------
(* What reading and marking nodes does to the flash: no sector loses a node or *)
(* changes what it is used for.                                            *)
CalmAt(x, y) == /\ y.store = x.store /\ Len(x.nodes) <= Len(y.nodes)
                /\ x.nodes # <<>> => Len(y.nodes) = Len(x.nodes) /\ Remain(y) = Remain(x)
                /\ x = Formatted => y = Formatted
Calm(f, g) == \A s \in Sec : CalmAt(f[s], g[s])
Quiet(d0, d) == Calm(d0.flash, d.flash) /\ Kept(d0, d)

(* A change of the tables alone changes no sector. *)
LEMMA QuietSame ==
    ASSUME NEW d0, NEW d, Tabled(d0, d), NEW c, Sound(d0, c)
    PROVE  Quiet(d0, d)
<1>1. \A s \in Sec : d0.flash[s].nodes \in Seq(Nodes)
  BY SoundFields DEF Sound, Sectors
<1>2. \A s \in Sec : Len(d0.flash[s].nodes) <= Len(d0.flash[s].nodes)
  BY <1>1
<1> QED BY <1>2 DEF Quiet, Calm, CalmAt, Tabled

(* Two changes that leave the sectors as long as they are, one after the other. *)
LEMMA QuietTrans ==
    ASSUME NEW d0, NEW d, NEW e, Quiet(d0, d), Quiet(d, e),
           NEW c, Sound(d0, c), Sound(d, c), Sound(e, c)
    PROVE  Quiet(d0, e)
<1>1. \A s \in Sec : /\ Len(d0.flash[s].nodes) \in Nat /\ Len(d.flash[s].nodes) \in Nat
                     /\ Len(e.flash[s].nodes) \in Nat
                     /\ d0.flash[s].nodes # <<>> => Len(d0.flash[s].nodes) # 0
                     /\ d.flash[s].nodes = <<>> => Len(d.flash[s].nodes) = 0
  BY SoundFields DEF Sound, Sectors
<1>2. Kept(d0, e)
  BY DEF Quiet, Kept
<1>3. ASSUME NEW s \in Sec PROVE CalmAt(d0.flash[s], e.flash[s])
  <2>1. CalmAt(d0.flash[s], d.flash[s]) /\ CalmAt(d.flash[s], e.flash[s])
    BY DEF Quiet, Calm
  <2> QED BY <1>1, <2>1 DEF CalmAt
<1> QED BY <1>2, <1>3 DEF Quiet, Calm

(* A sector in use is written over with nodes as long as before. *)
LEMMA RewrittenSound ==
    ASSUME NEW d0, NEW c, Sound(d0, c), NEW s \in Sec, d0.flash[s].nodes # <<>>,
           NEW x \in Sectors, x.ok = d0.flash[s].ok, x.store = d0.flash[s].store,
           x.dirty = d0.flash[s].dirty, Len(x.nodes) = Len(d0.flash[s].nodes),
           \A i \in 1 .. Len(x.nodes) : SameLength(x.nodes[i], d0.flash[s].nodes[i]),
           NEW d, d = Written(d0, s, x)
    PROVE  Sound(d, c) /\ Quiet(d0, d) /\ d.flash[s] = x
<1> DEFINE old == d0.flash[s]
<1>1. /\ d0 \in Stores /\ old \in Sectors /\ Shape(old) /\ Fine(d0.flash)
      /\ \A t \in Sec : d0.flash[t] \in Sectors /\ Shape(d0.flash[t])
  BY SoundFields DEF Sound
<1>2. old.store = USING /\ old.ok /\ old.dirty \in {CLEAN, DIRTY, GC} /\ Remain(old) \in Nat
  BY <1>1, ShapeFacts
<1>3. old # Formatted /\ old # Erased
  BY <1>1, <1>2, ShapeFacts
<1>4. old.nodes \in Seq(Nodes) /\ x.nodes \in Seq(Nodes) /\ x.nodes # <<>>
  BY <1>1 DEF Sectors
<1>5. Remain(x) = Remain(old)
  BY <1>4, RemainSame
<1>6. Shape(x)
  BY <1>2, <1>5 DEF Shape
<1>7. Spare(x) \/ \E t \in Sec \ {s} : Spare(d0.flash[t])
  BY <1>1, <1>3 DEF Fine, Spare
<1>8. Cached(d0, s) => Tells(d0.secCache[s], s, x, c)
  <2>1. Cached(d0, s) => Tells(d0.secCache[s], s, old, c)
    BY Sizes DEF Sound, SoundBut
  <2> QED BY <1>2, <1>3, <1>4, <1>5, <2>1 DEF Tells
<1>9. s = c => x.dirty = GC
  BY DEF Sound, SoundBut
<1>10. Sound(d, c)
  BY <1>6, <1>7, <1>8, <1>9, WrittenSound DEF Sound
<1>11. d.flash[s] = x /\ (\A t \in Sec \ {s} : d.flash[t] = d0.flash[t]) /\ Kept(d0, d)
  BY <1>1, WrittenFields, SMTT(30)
<1>12. Calm(d0.flash, d.flash)
  <2>1. CalmAt(d0.flash[s], d.flash[s])
    BY <1>3, <1>4, <1>5, <1>11 DEF CalmAt
  <2>2. \A t \in Sec \ {s} : CalmAt(d0.flash[t], d.flash[t])
    <3>1. \A t \in Sec : Len(d0.flash[t].nodes) <= Len(d0.flash[t].nodes)
      BY <1>1 DEF Sectors
    <3> QED BY <1>11, <3>1 DEF CalmAt
  <2> QED BY <2>1, <2>2 DEF Calm
<1> QED BY <1>10, <1>11, <1>12 DEF Quiet

(* A place in a sector where there is a node. *)
Placed(d0, a) == /\ a \in Sec \X (Nat \ {0})
                 /\ a[2] <= Len(d0.flash[a[1]].nodes)

(* The node at an address in use, and its sector. *)
LEMMA PlacedNode ==
    ASSUME NEW d0, NEW c, Sound(d0, c), NEW a, Placed(d0, a)
    PROVE  /\ a[1] \in Sec /\ a[2] \in 1 .. Len(d0.flash[a[1]].nodes) /\ a \in Addresses /\ a # Nowhere
           /\ Node(d0, a) \in Nodes /\ d0.flash[a[1]].nodes # <<>> /\ d0.flash[a[1]].store = USING
           /\ d0.flash[a[1]].nodes \in Seq(Nodes)
<1>1. d0.flash[a[1]] \in Sectors /\ Shape(d0.flash[a[1]]) /\ a[1] \in Sec /\ a[2] \in Nat \ {0}
  BY SoundFields DEF Sound, Placed
<1>2. d0.flash[a[1]].nodes \in Seq(Nodes)
  BY <1>1 DEF Sectors
<1>3. a[2] \in 1 .. Len(d0.flash[a[1]].nodes) /\ d0.flash[a[1]].nodes # <<>>
  BY <1>1, <1>2 DEF Placed
<1>4. Node(d0, a) \in Nodes
  BY <1>2, <1>3 DEF Node
<1>5. d0.flash[a[1]].store = USING
  BY <1>1, <1>3, ShapeFacts
<1>6. a \in Addresses /\ a # Nowhere
  BY <1>1, Sizes DEF Placed, Addresses, Nowhere
<1> QED BY <1>1, <1>2, <1>3, <1>4, <1>5, <1>6

(* Writing the status of a node keeps the store sound, and every node where it is. *)
LEMMA StatusSound ==
    ASSUME NEW d0, NEW c, Sound(d0, c), NEW a, Placed(d0, a), NEW st \in 0 .. 5,
           NEW d, d = WriteKvStatus(d0, a, st)
    PROVE  Sound(d, c) /\ Quiet(d0, d) /\ Placed(d, a)
<1> DEFINE s == a[1]
           i == a[2]
           old == d0.flash[s]
           node == [old.nodes[i] EXCEPT !.st = Later(old.nodes[i].st, st)]
           nodes == [old.nodes EXCEPT ![i] = node]
           x == [old EXCEPT !.nodes = nodes]
<1>1. /\ s \in Sec /\ i \in 1 .. Len(old.nodes) /\ old.nodes \in Seq(Nodes) /\ old.nodes # <<>>
      /\ old.nodes[i] \in Nodes
  BY PlacedNode DEF Node
<1>2. old \in Sectors
  BY <1>1, SoundFields DEF Sound
<1>3. Later(old.nodes[i].st, st) \in 0 .. 5
  <2>1. old.nodes[i].st \in 0 .. 5
    BY <1>1, SMTT(30) DEF Nodes
  <2> QED BY <2>1, LaterIs
<1>4. node \in Nodes /\ node.w = old.nodes[i].w
  BY <1>1, <1>3, ZenonT(30) DEF Nodes
<1>5. d = Written(d0, s, x)
  BY <1>1, <1>2, SMTT(30) DEF WriteKvStatus, Sectors, Nodes
<1> HIDE DEF node
<1>6. nodes \in Seq(Nodes) /\ Len(nodes) = Len(old.nodes)
      /\ \A j \in 1 .. Len(nodes) : SameLength(nodes[j], old.nodes[j])
  BY <1>1, <1>4, SMTT(30) DEF SameLength, Visible, LenOf
<1> HIDE DEF nodes
<1>7. x \in Sectors /\ x.nodes = nodes /\ x.ok = old.ok /\ x.store = old.store /\ x.dirty = old.dirty
  BY <1>2, <1>6 DEF Sectors
<1> HIDE DEF x
<1>8. Sound(d, c) /\ Quiet(d0, d) /\ d.flash[s] = x
  BY <1>1, <1>5, <1>6, <1>7, RewrittenSound
<1>9. Placed(d, a)
  BY <1>6, <1>7, <1>8 DEF Placed
<1> QED BY <1>8, <1>9

(* A node stays where it is when no sector changes its length. *)
LEMMA PlacedQuiet ==
    ASSUME NEW d0, NEW d, NEW c, Sound(d0, c), Quiet(d0, d), NEW a, Placed(d0, a)
    PROVE  Placed(d, a)
<1>1. a[1] \in Sec /\ d0.flash[a[1]].nodes # <<>> /\ a[2] <= Len(d0.flash[a[1]].nodes)
  BY PlacedNode DEF Placed
<1> QED BY <1>1 DEF Placed, Quiet, Calm, CalmAt

\* Where the reading of nodes may begin.
Readable(d0, a) == \/ Placed(d0, a)
                   \/ /\ a \in Sec \X (Nat \ {0}) /\ a[2] = 1
                      /\ d0.flash[a[1]].store = USING /\ d0.flash[a[1]].nodes = <<>>

(* Reading a node, which may spoil its status, keeps the store sound. *)
LEMMA ReadSound ==
    ASSUME NEW d0, NEW c, Sound(d0, c), NEW a, Readable(d0, a), NEW d, d = read_kv(d0, a)
    PROVE  Sound(d, c) /\ Quiet(d0, d) /\ Placed(d, a)
<1> DEFINE s == a[1]
           old == d0.flash[s]
           broken == [st |-> ERR_HDR, w |-> 0, key |-> "none", val |-> "none"]
           x == [old EXCEPT !.nodes = Append(old.nodes, broken)]
<1>1. a \in Sec \X (Nat \ {0}) /\ s \in Sec
  BY DEF Readable, Placed
<1>2. old \in Sectors /\ Shape(old) /\ d0 \in Stores /\ Fine(d0.flash)
      /\ \A t \in Sec : d0.flash[t] \in Sectors /\ Shape(d0.flash[t])
  BY <1>1, SoundFields DEF Sound
<1>3. CASE Placed(d0, a)
  <2>1. ~ (a[2] > Len(old.nodes))
    BY <1>3, PlacedNode
  <2>2. d = WriteKvStatus(d0, a, ERR_HDR) \/ d = d0
    BY <2>1 DEF read_kv
  <2>3. CASE d = WriteKvStatus(d0, a, ERR_HDR)
    BY <1>3, <2>3, StatusSound DEF ERR_HDR
  <2>4. CASE d = d0
    <3>1. Tabled(d0, d)
      BY <2>4 DEF Tabled, Kept
    <3> QED BY <1>3, <2>4, <3>1, QuietSame
  <2> QED BY <2>2, <2>3, <2>4
<1>4. CASE a[2] = 1 /\ old.store = USING /\ old.nodes = <<>>
  <2>1. a[2] > Len(old.nodes) /\ ~ (a[2] <= Len(old.nodes))
    BY <1>4
  <2>2. d = Written(d0, s, x)
    <3>1. d = Written(d0, a[1], [d0.flash[a[1]] EXCEPT !.nodes = Append(@, broken)])
      BY <2>1, Zenon DEF read_kv
    <3>2. [d0.flash[a[1]] EXCEPT !.nodes = Append(@, broken)] = x
      BY <1>2 DEF Sectors
    <3> QED BY <3>1, <3>2, Zenon
  <2>3. broken \in Nodes /\ ~Visible(broken) /\ LenOf(broken) = KvHdr
    BY DEF Nodes, ERR_HDR, Names, Visible, LenOf
  <2> HIDE DEF broken
  <2>4. x \in Sectors /\ x.nodes = Append(old.nodes, broken) /\ x.ok = old.ok /\ x.store = old.store
        /\ x.dirty = old.dirty
    <3>1. Append(old.nodes, broken) \in Seq(Nodes)
      BY <1>2, <2>3 DEF Sectors
    <3> QED BY <1>2, <3>1 DEF Sectors
  <2> HIDE DEF x
  <2>5. Len(x.nodes) = 1 /\ old.nodes \in Seq(Nodes) /\ x.nodes # <<>>
    BY <1>2, <1>4, <2>3, <2>4 DEF Sectors
  <2>6. Remain(old) = SecSize - SecHdr
    BY <1>4, RemainNone
  <2>7. Remain(x) = SecSize - SecHdr - KvHdr
    <3>1. Takes(old.nodes, broken) = KvHdr
      BY <1>4, <2>3 DEF Takes
    <3>2. Remain(x) = Remain(old) - Takes(old.nodes, broken)
      BY <2>3, <2>4, <2>5, RemainAppend
    <3> QED BY <2>6, <3>1, <3>2
  <2>8. Remain(x) \in Nat
    BY <2>7, Sizes
  <2>9. old.ok /\ old.dirty \in {CLEAN, DIRTY, GC} /\ old # Formatted /\ old # Erased
    BY <1>2, <1>4, ShapeFacts
  <2>10. Shape(x)
    BY <1>4, <2>4, <2>8, <2>9 DEF Shape
  <2>11. Spare(x) \/ \E t \in Sec \ {s} : Spare(d0.flash[t])
    BY <1>2, <2>4, <2>9 DEF Fine, Spare
  <2>12. Cached(d0, s) => Tells(d0.secCache[s], s, x, c)
    <3>1. Cached(d0, s) => Tells(d0.secCache[s], s, old, c)
      BY <1>1, Sizes DEF Sound, SoundBut
    <3> QED BY <1>4, <2>4, <2>9, <3>1 DEF Tells
  <2>13. s = c => x.dirty = GC
    BY <1>1, <2>4 DEF Sound, SoundBut
  <2>14. Sound(d, c)
    BY <1>1, <2>2, <2>4, <2>10, <2>11, <2>12, <2>13, WrittenSound DEF Sound
  <2>15. d.flash[s] = x /\ (\A t \in Sec \ {s} : d.flash[t] = d0.flash[t]) /\ Kept(d0, d)
    BY <1>1, <1>2, <2>2, <2>4, WrittenFields, SMTT(30)
  <2>16. CalmAt(old, x)
    BY <1>4, <2>4, <2>5, <2>9 DEF CalmAt
  <2>17. Calm(d0.flash, d.flash)
    <3>1. \A t \in Sec : Len(d0.flash[t].nodes) <= Len(d0.flash[t].nodes)
      BY <1>2 DEF Sectors
    <3>2. \A t \in Sec \ {s} : CalmAt(d0.flash[t], d.flash[t])
      BY <2>15, <3>1 DEF CalmAt
    <3> QED BY <2>15, <2>16, <3>2 DEF Calm
  <2>18. Placed(d, a)
    BY <1>1, <1>4, <2>5, <2>15 DEF Placed
  <2> QED BY <2>14, <2>15, <2>17, <2>18 DEF Quiet
<1> QED BY <1>3, <1>4 DEF Readable

(* A set of numbers has a least one. *)
LEMMA LeastOf ==
    ASSUME NEW S, S \subseteq Nat, S # {}
    PROVE  \E i \in S : \A j \in S : i <= j
<1>1. PICK low \in S : \A m \in S : ~ (<<m, low>> \in OpToRel(<, Nat))
  BY WFMin, NatLessThanWellFounded
<1>2. ASSUME NEW j \in S PROVE low <= j
  <2>1. ~ (<<j, low>> \in OpToRel(<, Nat))
    BY <1>1
  <2>2. ~ (j < low)
    BY <2>1 DEF OpToRel
  <2> QED BY <2>2
<1> QED BY <1>2

(* The next node in a sector is a node of it, or there is none. *)
LEMMA NextIn ==
    ASSUME NEW d0, NEW c, Sound(d0, c), NEW info, NEW s \in Sec, NEW k \in Nat
    PROVE  LET n == get_next_kv_addr(d0, info, <<s, k>>)
           IN  n = FAILED \/ Placed(d0, <<s, n>>)
<1> DEFINE nodes == d0.flash[s].nodes
           after == {i \in k + 1 .. Len(nodes) : Visible(nodes[i])}
           n == get_next_kv_addr(d0, info, <<s, k>>)
<1>1. nodes \in Seq(Nodes)
  BY SoundFields DEF Sound, Sectors
<1>2. n = FAILED \/ (after # {} /\ n = CHOOSE i \in after : \A j \in after : i <= j)
  BY DEF get_next_kv_addr
<1>3. CASE after # {} /\ n = CHOOSE i \in after : \A j \in after : i <= j
  <2>1. \A i \in after : i \in 1 .. Len(nodes)
    BY <1>1
  <2> HIDE DEF after, n
  <2>2. after \subseteq Nat
    BY <1>1, <2>1
  <2>3. \E i \in after : \A j \in after : i <= j
    BY <1>3, <2>2, LeastOf
  <2>4. n \in after
    BY <1>3, <2>3
  <2>5. n \in 1 .. Len(nodes)
    BY <2>1, <2>4
  <2> QED BY <1>1, <2>5 DEF Placed, n
<1> QED BY <1>2, <1>3

-----------------------------------------------------------------------------
(* Walks through a sector. *)
WithDb(acc, d) == [acc EXCEPT !.db = d]
WithI(acc, k) == [acc EXCEPT !.i = k]
WithSec(acc, s) == [acc EXCEPT !.sec = s]
Alike(a, b) == /\ b.stop = a.stop /\ b.at = a.at /\ b.key = a.key /\ b.info = a.info /\ b.size = a.size
               /\ b.empties = a.empties /\ b.usings = a.usings /\ b.last = a.last
               /\ b.oldest = a.oldest /\ b.failed = a.failed

(* A walk with another store ... *)
LEMMA WalkDb ==
    ASSUME NEW a \in Walks, NEW d \in Stores, NEW b, b = WithDb(a, d)
    PROVE  b \in Walks /\ b.db = d /\ b.i = a.i /\ b.sec = a.sec /\ Alike(a, b)
  BY DEF WithDb, Walks, Alike

(* ... at another node ... *)
LEMMA WalkI ==
    ASSUME NEW a \in Walks, NEW k \in Nat, NEW b, b = WithI(a, k)
    PROVE  b \in Walks /\ b.db = a.db /\ b.i = k /\ b.sec = a.sec /\ Alike(a, b)
  BY DEF WithI, Walks, Alike

(* ... or at another sector. *)
LEMMA WalkSec ==
    ASSUME NEW a \in Walks, NEW s \in 0 .. NSec, NEW b, b = WithSec(a, s)
    PROVE  b \in Walks /\ b.db = a.db /\ b.i = a.i /\ b.sec = s /\ Alike(a, b)
  BY DEF WithSec, Walks, Alike

(* A walk that has found nothing yet. *)
LEMMA WalkStarts ==
    ASSUME NEW d \in Stores, NEW b, b = NoFind(d)
    PROVE  /\ b \in Walks /\ b.db = d /\ b.stop = FALSE /\ b.at = Nowhere /\ b.empties = 0
           /\ b.usings = 0 /\ b.last = 0 /\ b.oldest = 0 /\ b.failed = 0 /\ b.size = 0 /\ b.info = NoInfo
<1>1. NoInfo \in Infos /\ Nowhere \in Addresses /\ NSec \in 0 .. NSec /\ 0 \in Sec /\ <<>> \in Seq(Nodes)
      /\ "none" \in Names
  BY NoInfoType, Sizes DEF Addresses, Names
<1>2. b = [db |-> d, stop |-> FALSE, i |-> 0, sec |-> NSec, at |-> Nowhere, key |-> "none",
           info |-> NoInfo, size |-> 0, empties |-> 0, usings |-> 0, last |-> 0, oldest |-> 0,
           failed |-> 0, pairs |-> <<>>]
  BY DEF NoFind, FAILED
<1>3. b.stop = FALSE
  BY <1>2
<1>4. b \in Walks
  BY <1>1, <1>2 DEF Walks
<1> QED BY <1>2, <1>3, <1>4

\* A walk at a node of sector s, or at the end of its nodes.
InSector(a, s, c) == /\ a \in Walks /\ Sound(a.db, c) /\ s \in Sec /\ a.db.flash[s].store = USING
                     /\ a.i = FAILED \/ Readable(a.db, <<s, a.i>>)

(* A walk reads the node it is at ... *)
LEMMA ReadWalk ==
    ASSUME NEW a, NEW s, NEW c, InSector(a, s, c), a.i # FAILED,
           NEW b, b = WithDb(a, read_kv(a.db, <<s, a.i>>))
    PROVE  /\ b \in Walks /\ Sound(b.db, c) /\ Quiet(a.db, b.db) /\ b.db.flash[s].store = USING
           /\ Placed(b.db, <<s, a.i>>) /\ Alike(a, b) /\ b.sec = a.sec /\ b.i = a.i
<1> DEFINE d == read_kv(a.db, <<s, a.i>>)
<1>1. Sound(d, c) /\ Quiet(a.db, d) /\ Placed(d, <<s, a.i>>)
  BY ReadSound DEF InSector
<1>2. d \in Stores
  BY <1>1, SoundFields DEF Sound
<1>3. b \in Walks /\ b.db = d /\ b.i = a.i /\ b.sec = a.sec /\ Alike(a, b)
  BY <1>2, WalkDb DEF InSector
<1>4. d.flash[s].store = USING
  BY <1>1 DEF Quiet, Calm, CalmAt, InSector
<1> QED BY <1>1, <1>3, <1>4

(* ... and goes to the next one of the sector ... *)
LEMMA NextWalk ==
    ASSUME NEW a \in Walks, NEW c, Sound(a.db, c), NEW s \in Sec, a.db.flash[s].store = USING,
           NEW info, NEW k \in Nat, NEW b, b = AtNextKv(a, info, <<s, k>>)
    PROVE  InSector(b, s, c) /\ b.db = a.db /\ Alike(a, b) /\ b.sec = a.sec
<1> DEFINE n == get_next_kv_addr(a.db, info, <<s, k>>)
<1>1. n = FAILED \/ Placed(a.db, <<s, n>>)
  BY NextIn
<1>2. n \in Nat
  BY <1>1 DEF Placed, FAILED
<1>3. b = WithI(a, n)
  BY DEF AtNextKv, WithI
<1> HIDE DEF n
<1>4. b \in Walks /\ b.db = a.db /\ b.i = n /\ b.sec = a.sec /\ Alike(a, b)
  BY <1>2, <1>3, WalkI
<1> QED BY <1>1, <1>4 DEF InSector, Readable

(* ... from the first. *)
LEMMA WalkBegins ==
    ASSUME NEW a \in Walks, NEW c, Sound(a.db, c), NEW s \in Sec, a.db.flash[s].store = USING,
           NEW b, b = WithI(a, 1)
    PROVE  InSector(b, s, c) /\ b.db = a.db /\ b.i = 1 /\ Alike(a, b) /\ b.sec = a.sec
<1>1. b \in Walks /\ b.db = a.db /\ b.i = 1 /\ b.sec = a.sec /\ Alike(a, b)
  BY WalkI
<1>2. a.db.flash[s].nodes \in Seq(Nodes)
  BY SoundFields DEF Sound, Sectors
<1>3. Readable(a.db, <<s, 1>>)
  BY <1>2 DEF Readable, Placed
<1> QED BY <1>1, <1>3 DEF InSector

-----------------------------------------------------------------------------
(* The nodes of a sector are read through. *)
ReadStep(a, head) == IF a.stop \/ a.i = FAILED THEN a ELSE VisitKv(a, head, <<head.at, a.i>>, ReadOnly)
Reading == INSTANCE ListProofs WITH Step <- ReadStep

(* What each node read keeps, step by step, holds at the end of the sector. *)
LEMMA EachRead ==
    ASSUME NEW acc, NEW info, NEW A, WithI(acc, 1) \in A[0],
           \A n \in 1 .. SecSize : \A a \in A[n - 1] : ReadStep(a, info) \in A[n]
    PROVE  EachKv(acc, info, ReadOnly) \in A[SecSize]
<1>1. EachKv(acc, info, ReadOnly)
          = Reading!FoldLeft(ReadStep, WithI(acc, 1), [n \in 1 .. SecSize |-> info])
  BY Zenon DEF EachKv, ReadStep, WithI, FoldLeft, MapThenFoldSet, Max, Reading!FoldLeft,
               Reading!MapThenFoldSet, Reading!Max
<1> QED BY <1>1, Sizes, Reading!KeptTimes, Zenon


(* The entry made from a sector's header, field by field. *)
LEMMA HeaderIs ==
    ASSUME NEW d0, NEW s \in Sec, NEW x, x = d0.flash[s], x \in Sectors, NEW info, info = Header(d0, s)
    PROVE  /\ info \in Infos /\ info.at = s /\ info.ok /\ info.store = x.store /\ info.dirty = x.dirty
           /\ info.empty = FAILED /\ info.remain = 0
<1>1. info = [ok |-> TRUE, store |-> x.store, dirty |-> x.dirty, at |-> s, empty |-> 0, remain |-> 0, span |-> 1]
  BY DEF Header, NoInfo, FAILED
<1>2. s \in 0 .. NSec /\ x.store \in 0 .. 3 /\ x.dirty \in 0 .. 3
  BY Sizes DEF Sectors
<1>3. [ok |-> TRUE, store |-> x.store, dirty |-> x.dirty, at |-> s, empty |-> 0, remain |-> 0, span |-> 1] \in Infos
  BY <1>2 DEF Infos
<1>4. info.ok
  BY <1>1
<1>5. info.at = s /\ info.store = x.store /\ info.dirty = x.dirty /\ info.empty = FAILED /\ info.remain = 0
  BY <1>1 DEF FAILED
<1> QED BY <1>1, <1>3, <1>4, <1>5

\* A walk that has read n nodes of sector s.
ReadTo(d0, s, c, n) ==
    {a \in Walks : /\ InSector(a, s, c) /\ Quiet(d0, a.db)
                   /\ n = 0 => ~a.stop /\ a.i = 1
                   /\ n # 0 => a.db.flash[s].nodes # <<>>}

(* Reading a sector through keeps the store sound; one in use has a node then. *)
LEMMA ReadThroughSound ==
    ASSUME NEW d0, NEW c, Sound(d0, c), NEW s \in Sec, d0.flash[s].store = USING,
           NEW d, d = ReadThrough(d0, s)
    PROVE  Sound(d, c) /\ Quiet(d0, d) /\ d.flash[s].nodes # <<>>
<1> DEFINE A == [n \in 0 .. SecSize |-> ReadTo(d0, s, c, n)]
           info == Header(d0, s)
           acc == NoFind(d0)
           last == EachKv(acc, info, ReadOnly)
<1>1. d0 \in Stores /\ d0.flash[s] \in Sectors
  BY SoundFields DEF Sound
<1>2. info.at = s
  BY <1>1, HeaderIs
<1>3. acc \in Walks /\ acc.db = d0 /\ acc.stop = FALSE
  BY <1>1, WalkStarts
<1> HIDE DEF info, acc
<1>4. WithI(acc, 1) \in A[0]
  <2> DEFINE b == WithI(acc, 1)
  <2>1. InSector(b, s, c) /\ b.db = d0 /\ b.i = 1 /\ Alike(acc, b)
    BY <1>3, WalkBegins
  <2>2. ~b.stop
    BY <1>3, <2>1 DEF Alike
  <2>3. Quiet(d0, b.db)
    <3>1. Tabled(d0, d0)
      BY DEF Tabled, Kept
    <3> QED BY <2>1, <3>1, QuietSame
  <2> HIDE DEF b
  <2>4. b \in ReadTo(d0, s, c, 0)
    BY <2>1, <2>2, <2>3 DEF ReadTo, InSector
  <2> QED BY <2>4, Sizes DEF b
<1>5. ASSUME NEW n \in 1 .. SecSize, NEW a \in A[n - 1] PROVE ReadStep(a, info) \in A[n]
  <2>0. n - 1 \in 0 .. SecSize /\ n \in 0 .. SecSize /\ n # 0
    BY Sizes
  <2>1. a \in ReadTo(d0, s, c, n - 1)
    BY <1>5, <2>0
  <2> HIDE DEF A
  <2>2. a \in Walks /\ InSector(a, s, c) /\ Quiet(d0, a.db)
    BY <2>1 DEF ReadTo
  <2>3. CASE a.stop \/ a.i = FAILED
    <3>1. n - 1 # 0
      BY <2>1, <2>3 DEF ReadTo, FAILED
    <3>2. a \in ReadTo(d0, s, c, n)
      BY <2>0, <2>1, <3>1 DEF ReadTo
    <3>3. ReadStep(a, info) = a
      BY <2>3 DEF ReadStep
    <3> QED BY <2>0, <3>2, <3>3 DEF A
  <2>4. CASE ~a.stop /\ a.i # FAILED
    <3> DEFINE b == WithDb(a, read_kv(a.db, <<s, a.i>>))
               e == AtNextKv(b, info, <<s, a.i>>)
    <3>1. ReadStep(a, info) = e
      BY <1>2, <2>4 DEF ReadStep, VisitKv, ReadOnly, WithDb
    <3>2. b \in Walks /\ Sound(b.db, c) /\ Quiet(a.db, b.db) /\ b.db.flash[s].store = USING
          /\ Placed(b.db, <<s, a.i>>)
      BY <2>2, <2>4, ReadWalk
    <3> HIDE DEF b
    <3>3. a.i \in Nat
      BY <2>2 DEF Walks
    <3>4. InSector(e, s, c) /\ e.db = b.db
      BY <3>2, <3>3, NextWalk
    <3>5. Quiet(d0, e.db)
      BY <2>2, <3>2, <3>4, QuietTrans DEF InSector
    <3>6. e.db.flash[s].nodes # <<>>
      BY <3>2, <3>4, PlacedNode
    <3> HIDE DEF e
    <3>7. e \in ReadTo(d0, s, c, n)
      BY <2>0, <3>4, <3>5, <3>6 DEF ReadTo, InSector
    <3> QED BY <2>0, <3>1, <3>7 DEF A
  <2> QED BY <2>3, <2>4
<1>6. last \in A[SecSize]
  <2> HIDE DEF A
  <2> QED BY <1>4, <1>5, EachRead
<1>7. last \in ReadTo(d0, s, c, SecSize) /\ SecSize # 0
  BY <1>6, Sizes
<1> HIDE DEF last
<1>8. d = last.db
  BY DEF ReadThrough, last, info, acc
<1> QED BY <1>7, <1>8 DEF ReadTo, InSector

(* What is measured of a sector that is in use or empty. *)
LEMMA MeasuredTells ==
    ASSUME NEW d0, NEW c, Sound(d0, c), NEW s \in Sec, d0.flash[s].ok,
           d0.flash[s].store = USING => d0.flash[s].nodes # <<>>,
           NEW info, info = Measured(d0, s)
    PROVE  Tells(info, s, d0.flash[s], c) /\ info.ok /\ info.empty # FAILED
<1> DEFINE x == d0.flash[s]
           head == Header(d0, s)
           empty == IF x.store = USING THEN Len(x.nodes) + 1 ELSE 1
           remain == CASE x.store = EMPTY -> SecSize - SecHdr
                       [] x.store = USING -> Remain(x)
                       [] OTHER -> 0
<1>1. x \in Sectors /\ Shape(x) /\ x.nodes \in Seq(Nodes)
  BY SoundFields DEF Sound, Sectors
<1>2. /\ head \in Infos /\ head.at = s /\ head.ok /\ head.store = x.store /\ head.dirty = x.dirty
      /\ head.empty = FAILED /\ head.remain = 0
  BY <1>1, HeaderIs
<1>3. info = [head EXCEPT !.empty = empty, !.remain = remain]
  BY DEF Measured
<1>4. x.store = EMPTY \/ x.store = USING
  BY <1>1, ShapeFacts DEF Shape
<1>5. empty = Len(x.nodes) + 1 /\ empty \in Nat /\ empty # 0
  BY <1>1, <1>4, ShapeFacts, BlankSectors DEF EMPTY, USING
<1>6. remain = Remain(x) /\ remain \in Nat
  BY <1>1, <1>4, ShapeFacts, BlankSectors DEF EMPTY, USING
<1>7. x = Formatted \/ (x.ok /\ x.nodes # <<>>)
  BY <1>1, <1>4, ShapeFacts
<1> HIDE DEF head, empty, remain
<1>8. info \in Infos
  BY <1>2, <1>3, <1>5, <1>6 DEF Infos
<1>9. info.at = s /\ info.store = x.store /\ info.dirty = x.dirty /\ info.empty = empty /\ info.remain = remain
  BY <1>2, <1>3 DEF Infos
<1>10. info.ok
  BY <1>2, <1>3 DEF Infos
<1>11. s = c => x.dirty # CLEAN
  BY DEF Sound, SoundBut, GC, CLEAN
<1> QED BY <1>5, <1>6, <1>7, <1>8, <1>9, <1>10, <1>11 DEF Tells, FAILED

(* The entry made from a header is true of the flash. *)
LEMMA HeaderTells ==
    ASSUME NEW d0, NEW c, Sound(d0, c), NEW s \in Sec, d0.flash[s].ok, NEW info, info = Header(d0, s)
    PROVE  Tells(info, s, d0.flash[s], c) /\ info.ok
<1>1. d0.flash[s] \in Sectors
  BY SoundFields DEF Sound
<1>2. s = c => d0.flash[s].dirty # CLEAN
  BY DEF Sound, SoundBut, GC, CLEAN
<1>3. info \in Infos /\ info.at = s /\ info.ok /\ info.store = d0.flash[s].store
      /\ info.dirty = d0.flash[s].dirty /\ info.empty = FAILED /\ info.remain = 0
  BY <1>1, HeaderIs
<1>4. info.ok = d0.flash[s].ok
  BY <1>1, <1>3, Zenon DEF Sectors, Infos
<1> QED BY <1>2, <1>3, <1>4 DEF Tells

(* read_sector_info tells the truth, from the table or from the flash. *)
LEMMA InfoRead ==
    ASSUME NEW d0, NEW c, Sound(d0, c), NEW s \in Sec, NEW traversal \in BOOLEAN,
           NEW r, r = read_sector_info(d0, s, traversal)
    PROVE  /\ Sound(r.db, c) /\ Quiet(d0, r.db) /\ Tells(r.info, s, r.db.flash[s], c)
           /\ ~traversal => Tabled(d0, r.db)
           /\ traversal /\ r.info.ok => r.info.empty # FAILED
<1> DEFINE x == d0.flash[s]
<1>1. x \in Sectors /\ Shape(x)
  BY SoundFields DEF Sound
<1>2. Tabled(d0, d0) /\ Quiet(d0, d0)
  BY QuietSame DEF Tabled, Kept
<1>3. CASE Known(d0, s, traversal)
  <2>1. r.db = d0 /\ r.info = d0.secCache[s]
    BY <1>3 DEF read_sector_info
  <2>2. Tells(d0.secCache[s], s, x, c)
    BY <1>3, Sizes DEF Known, Sound, SoundBut
  <2> QED BY <1>2, <1>3, <2>1, <2>2 DEF Known
<1>4. CASE ~Known(d0, s, traversal) /\ ~x.ok
  <2> DEFINE info == [NoInfo EXCEPT !.at = s]
  <2>1. r = [db |-> d0, info |-> info]
    BY <1>4 DEF read_sector_info
  <2>2. info \in Infos /\ info.at = s /\ ~info.ok /\ info.store = UNUSED /\ info.dirty = UNUSED /\ info.empty = FAILED
        /\ info.remain = 0
    BY NoInfoAt
  <2> HIDE DEF info
  <2>3. r.db = d0 /\ r.info = info
    BY <2>1
  <2>4. x = Erased /\ ~x.ok /\ x.store = UNUSED /\ x.dirty = UNUSED
    BY <1>1, <1>4, ShapeFacts, BlankSectors
  <2>5. s # c
    BY <2>4 DEF Sound, SoundBut, GC, UNUSED
  <2>6. info.ok = x.ok
    BY <2>2, <2>4, <1>1, Zenon DEF Sectors, Infos
  <2>7. Tells(info, s, x, c)
    BY <2>2, <2>4, <2>5, <2>6 DEF Tells
  <2> QED BY <1>2, <2>2, <2>3, <2>7
<1>5. CASE ~Known(d0, s, traversal) /\ x.ok /\ ~traversal
  <2> DEFINE info == Header(d0, s)
             d == update_sector_cache(d0, info)
  <2>1. r = [db |-> d, info |-> info]
    BY <1>5 DEF read_sector_info, Told
  <2>2. Tells(info, s, x, c) /\ info.ok
    BY <1>5, HeaderTells
  <2> HIDE DEF info
  <2>3. Sound(d, c) /\ Tabled(d0, d)
    BY <2>2, TableTold
  <2> HIDE DEF d
  <2>4. r.db = d /\ r.info = info
    BY <2>1
  <2>5. Quiet(d0, d) /\ d.flash[s] = x
    BY <2>3, QuietSame DEF Tabled
  <2> QED BY <1>5, <2>2, <2>3, <2>4, <2>5
<1>6. CASE ~Known(d0, s, traversal) /\ x.ok /\ traversal
  <2> DEFINE e == ReadThrough(d0, s)
             info == Measured(e, s)
             d == update_sector_cache(e, info)
  <2>1. r = [db |-> d, info |-> info]
    BY <1>6 DEF read_sector_info, ToldMeasured, Told
  <2>2. Sound(e, c) /\ Quiet(d0, e) /\ (e.flash[s].store = USING => e.flash[s].nodes # <<>>)
    <3>1. CASE x.store = USING
      BY <3>1, ReadThroughSound
    <3>2. CASE x.store # USING
      <4>1. e = d0
        BY <3>2 DEF ReadThrough
      <4> QED BY <1>2, <3>2, <4>1
    <3> QED BY <3>1, <3>2
  <2>3. e.flash[s].ok
    <3>1. e.flash[s].store = x.store /\ x.store # UNUSED
      BY <1>1, <1>6, <2>2, ShapeFacts DEF Quiet, Calm, CalmAt
    <3>2. e.flash[s] \in Sectors /\ Shape(e.flash[s])
      BY <2>2, SoundFields DEF Sound
    <3> QED BY <3>1, <3>2, ShapeFacts
  <2> HIDE DEF e
  <2>4. Tells(info, s, e.flash[s], c) /\ info.ok /\ info.empty # FAILED
    BY <2>2, <2>3, MeasuredTells
  <2> HIDE DEF info
  <2>5. Sound(d, c) /\ Tabled(e, d)
    BY <2>2, <2>4, TableTold
  <2> HIDE DEF d
  <2>6. Quiet(e, d) /\ d.flash[s] = e.flash[s]
    BY <2>2, <2>5, QuietSame DEF Tabled
  <2>7. Quiet(d0, d)
    BY <2>2, <2>5, <2>6, QuietTrans
  <2>8. r.db = d /\ r.info = info
    BY <2>1
  <2> QED BY <1>6, <2>4, <2>5, <2>6, <2>7, <2>8
<1> QED BY <1>3, <1>4, <1>5, <1>6

-----------------------------------------------------------------------------
(* Walks around the ring of sectors. *)
LEMMA SecSizeIs == SecSize \in Nat
  BY Sizes

(* The number of sectors can be counted up to ... *)
LEMMA NSecIs == NSec \in Nat
  BY Sizes

(* ... and by one more, as sector_iterator does. *)
LEMMA OneMore == NSec + 1 \in Nat
  BY Sizes

\* How far sector s is behind the oldest one, around the flash.
Dist(o, s) == IF s >= o THEN s - o ELSE s + NSec - o
Ahead(o, sec, n) == IF n < NSec THEN sec \in Sec /\ Dist(o, sec) = n ELSE sec = NSec

(* Sectors differ in their distance from the oldest. *)
LEMMA DistIs ==
    ASSUME NEW o \in Sec, NEW s \in Sec
    PROVE  Dist(o, s) \in 0 .. NSec - 1 /\ \A t \in Sec : Dist(o, t) = Dist(o, s) => t = s
  BY Sizes DEF Dist

(* The sector after one n - 1 ahead of the oldest is n ahead, or none when all were seen. *)
LEMMA NextAhead ==
    ASSUME NEW o \in Sec, NEW n \in 1 .. NSec, NEW info \in Infos, info.at \in Sec,
           Dist(o, info.at) = n - 1, NEW s, s = get_next_sector_addr(info, n)
    PROVE  Ahead(o, s, n) /\ s \in 0 .. NSec
<1>1. info.span = 1
  BY DEF Infos
<1> DEFINE at == info.at
<1>2. at \in 0 .. NSec - 1 /\ o \in 0 .. NSec - 1
  BY Sizes
<1>3. s = IF n + 1 > NSec THEN NSec ELSE IF at + 1 < NSec THEN at + 1 ELSE 0
  BY <1>1 DEF get_next_sector_addr
<1> HIDE DEF at
<1>4. Dist(o, at) = n - 1
  BY DEF at
<1> QED BY <1>2, <1>3, <1>4, Sizes DEF Ahead, Dist

(* The next sector is a sector, or there is none. *)
LEMMA NextSector ==
    ASSUME NEW n \in Nat, NEW info \in Infos, info.at \in Sec, NEW s, s = get_next_sector_addr(info, n)
    PROVE  s \in 0 .. NSec /\ (n = 0 => s \in Sec)
<1>1. info.span = 1
  BY DEF Infos
<1>2. info.at \in 0 .. NSec - 1
  BY Sizes
<1> QED BY <1>1, <1>2, Sizes DEF get_next_sector_addr

(* A walk a that began at o is at its n-th sector. *)
Around(a, o, n) == a \in Walks /\ (~a.stop => Ahead(o, a.sec, n))

(* A walk around the sectors begins at the oldest ... *)
LEMMA RingBegins ==
    ASSUME NEW a \in Walks, NEW o \in Sec, NEW b, b = WithSec(a, o)
    PROVE  Around(b, o, 0) /\ b.db = a.db /\ Alike(a, b)
<1>1. o \in 0 .. NSec /\ Dist(o, o) = 0 /\ 0 < NSec
  BY Sizes DEF Dist
<1> QED BY <1>1, WalkSec DEF Around, Ahead

(* ... is at a sector while it goes on ... *)
LEMMA RingAt ==
    ASSUME NEW a, NEW o \in Sec, NEW n \in 1 .. NSec + 1, Around(a, o, n - 1), ~a.stop, a.sec # NSec
    PROVE  a.sec \in Sec /\ n \in 1 .. NSec /\ Dist(o, a.sec) = n - 1
  BY Sizes DEF Around, Ahead

(* ... goes one ahead with each step ... *)
LEMMA RingNext ==
    ASSUME NEW a \in Walks, NEW o \in Sec, NEW n \in 1 .. NSec, NEW info \in Infos, info.at \in Sec,
           Dist(o, info.at) = n - 1, NEW b, b = AtNextSector(a, info, n)
    PROVE  Around(b, o, n) /\ b.db = a.db /\ Alike(a, b)
<1> DEFINE s == get_next_sector_addr(info, n)
<1>1. Ahead(o, s, n) /\ s \in 0 .. NSec
  BY NextAhead
<1>2. b = WithSec(a, s)
  BY DEF AtNextSector, WithSec
<1> HIDE DEF s
<1>3. b \in Walks /\ b.db = a.db /\ b.sec = s /\ Alike(a, b)
  BY <1>1, <1>2, WalkSec
<1> QED BY <1>1, <1>3 DEF Around

(* ... changing nothing but its place ... *)
LEMMA SectorNext ==
    ASSUME NEW a \in Walks, NEW n \in Nat, NEW info \in Infos, info.at \in Sec,
           NEW b, b = AtNextSector(a, info, n)
    PROVE  b \in Walks /\ b.db = a.db /\ Alike(a, b)
<1> DEFINE s == get_next_sector_addr(info, n)
<1>1. s \in 0 .. NSec
  BY NextSector
<1>2. b = WithSec(a, s)
  BY DEF AtNextSector, WithSec
<1> HIDE DEF s
<1> QED BY <1>1, <1>2, WalkSec

(* ... and ends, unless it is stopped, when every sector was seen. *)
LEMMA RingOver ==
    ASSUME NEW a, NEW o \in Sec, NEW n \in 1 .. NSec + 1, Around(a, o, n - 1), a.stop \/ a.sec = NSec
    PROVE  Around(a, o, n) /\ (~a.stop => n - 1 >= NSec)
  BY Sizes DEF Around, Ahead

(* The header of the sector a walk is at, read without its nodes. *)
HeadOf(d0, s) == read_sector_info(d0, s, FALSE)
FullOf(d0, s) == read_sector_info(d0, s, TRUE)

(* A walk reads the header of a sector. *)
LEMMA HeadRead ==
    ASSUME NEW a \in Walks, NEW c, Sound(a.db, c), NEW s \in Sec, NEW head,
           head = HeadOf(a.db, s), NEW b, b = WithDb(a, head.db)
    PROVE  /\ b \in Walks /\ b.db = head.db /\ Alike(a, b) /\ Sound(b.db, c) /\ Tabled(a.db, b.db)
           /\ Tells(head.info, s, b.db.flash[s], c) /\ head.info \in Infos /\ head.info.at = s
<1>1. Sound(head.db, c) /\ Tabled(a.db, head.db) /\ Tells(head.info, s, head.db.flash[s], c)
  BY InfoRead DEF HeadOf
<1>2. head.db \in Stores
  BY <1>1, SoundFields DEF Sound
<1>3. b \in Walks /\ b.db = head.db /\ Alike(a, b)
  BY <1>2, WalkDb
<1> QED BY <1>1, <1>3 DEF Tells

(* Two changes of the tables, one after the other. *)
LEMMA TabledTrans ==
    ASSUME NEW d0, NEW d, NEW e, Tabled(d0, d), Tabled(d, e)
    PROVE  Tabled(d0, e)
  BY DEF Tabled, Kept

\* Sectors are counted.
StatStep(a, n) == IF a.stop \/ a.sec = NSec THEN a
                  ELSE VisitSector(a, HeadOf(a.db, a.sec), n, UNUSED, FALSE, sector_statistics_cb)
Stat == INSTANCE ListProofs WITH Step <- StatStep

(* What each sector counted keeps, step by step, holds of the statistics. *)
LEMMA StatWalk ==
    ASSUME NEW acc, NEW A, WithSec(acc, acc.db.oldest) \in A[0],
           \A n \in 1 .. NSec + 1 : \A a \in A[n - 1] : StatStep(a, n) \in A[n]
    PROVE  sector_iterator(acc, UNUSED, FALSE, sector_statistics_cb) \in A[NSec + 1]
<1>1. sector_iterator(acc, UNUSED, FALSE, sector_statistics_cb)
          = Stat!FoldLeft(StatStep, WithSec(acc, acc.db.oldest), [n \in 1 .. NSec + 1 |-> n])
  BY Zenon DEF sector_iterator, HeadOf, StatStep, WithSec, FoldLeft, MapThenFoldSet, Max, Stat!FoldLeft,
               Stat!MapThenFoldSet, Stat!Max
<1> QED BY <1>1, OneMore, Stat!KeptCounting, Zenon

\* What was counted in the n sectors behind the oldest is there.
CountedTo(a, o, n) ==
    /\ a.empties >= 1 => \E t \in Sec : Dist(o, t) < n /\ a.db.flash[t] = Formatted
    /\ a.empties >= 2 => \E t, u \in Sec : t # u /\ a.db.flash[t] = Formatted /\ a.db.flash[u] = Formatted
StatTo(d0, c, size, o, n) ==
    {a \in Walks : /\ Around(a, o, n) /\ Sound(a.db, c) /\ Tabled(d0, a.db) /\ ~a.stop
                   /\ a.at = Nowhere /\ a.size = size /\ CountedTo(a, o, n)}

(* A sector counted as empty is an empty sector not counted before. *)
LEMMA Counts ==
    ASSUME NEW a \in Walks, NEW info, NEW o \in Sec, NEW n \in 1 .. NSec, NEW s \in Sec, Dist(o, s) = n - 1,
           info.ok /\ info.store = EMPTY => a.db.flash[s] = Formatted, CountedTo(a, o, n - 1),
           NEW b, b = sector_statistics_cb(a, info)
    PROVE  /\ b \in Walks /\ b.db = a.db /\ b.stop = a.stop /\ b.at = a.at /\ b.size = a.size
           /\ CountedTo(b, o, n)
<1> DEFINE p == info.ok /\ info.store = EMPTY
           q == info.ok /\ info.store = USING
           k == IF p THEN a.empties + 1 ELSE a.empties
           j == IF q THEN a.usings + 1 ELSE a.usings
<1>1. a.empties \in Nat /\ a.usings \in Nat
  BY DEF Walks
<1>2. b = [a EXCEPT !.empties = k, !.usings = j]
  BY DEF sector_statistics_cb, Walks
<1>3. k \in Nat /\ j \in Nat /\ (k = a.empties \/ (p /\ k = a.empties + 1))
  BY <1>1
<1> HIDE DEF k, j
<1>4. /\ b \in Walks /\ b.db = a.db /\ b.stop = a.stop /\ b.at = a.at /\ b.size = a.size
      /\ b.empties = k
  BY <1>2, <1>3 DEF Walks
<1>5. \A t \in Sec : Dist(o, t) \in 0 .. NSec - 1 /\ (Dist(o, t) < n - 1 => Dist(o, t) < n /\ t # s)
  BY DistIs
<1>6. k = a.empties => CountedTo(b, o, n)
  BY <1>4, <1>5 DEF CountedTo
<1>7. ASSUME p, k = a.empties + 1 PROVE CountedTo(b, o, n)
  <2>1. a.db.flash[s] = Formatted /\ Dist(o, s) < n
    BY <1>7, Sizes
  <2>2. k >= 2 => a.empties >= 1
    BY <1>1, <1>7
  <2>3. k >= 2 => \E t \in Sec : t # s /\ a.db.flash[t] = Formatted
    BY <1>5, <2>2 DEF CountedTo
  <2> QED BY <1>4, <2>1, <2>3 DEF CountedTo
<1> QED BY <1>3, <1>4, <1>6, <1>7

\* The statistics of all sectors.
StatsOf(acc) == sector_iterator(acc, UNUSED, FALSE, sector_statistics_cb)
Two(d) == \E s, t \in Sec : s # t /\ d.flash[s] = Formatted /\ d.flash[t] = Formatted

(* When the statistics count two empty sectors, there are two. *)
LEMMA Statistics ==
    ASSUME NEW d0, NEW c, Sound(d0, c), NEW size \in Nat, NEW acc, acc \in Walks, acc.db = d0,
           ~acc.stop, acc.at = Nowhere, acc.size = size, acc.empties = 0,
           NEW r, r = StatsOf(acc)
    PROVE  /\ r \in Walks /\ Sound(r.db, c) /\ Tabled(d0, r.db) /\ ~r.stop /\ r.at = Nowhere /\ r.size = size
           /\ r.empties >= 2 => Two(r.db)
<1> DEFINE o == d0.oldest
           A == [n \in 0 .. NSec + 1 |-> StatTo(d0, c, size, o, n)]
<1>1. o \in Sec /\ NSec \in Nat
  BY SoundFields, Sizes DEF Sound
<1>2. WithSec(acc, acc.db.oldest) \in A[0]
  <2> DEFINE b == WithSec(acc, o)
  <2>1. Around(b, o, 0) /\ b.db = d0 /\ Alike(acc, b)
    BY <1>1, RingBegins
  <2>2. Tabled(d0, d0)
    BY DEF Tabled, Kept
  <2> HIDE DEF b
  <2>3. b \in StatTo(d0, c, size, o, 0)
    BY <2>1, <2>2 DEF StatTo, Alike, CountedTo, Around
  <2> QED BY <1>1, <2>3 DEF b
<1>3. ASSUME NEW n \in 1 .. NSec + 1, NEW a \in A[n - 1] PROVE StatStep(a, n) \in A[n]
  <2>0. n - 1 \in 0 .. NSec + 1 /\ n \in 0 .. NSec + 1
    BY <1>1
  <2>1. a \in StatTo(d0, c, size, o, n - 1)
    BY <1>3, <2>0
  <2> HIDE DEF A
  <2>2. a \in Walks /\ Around(a, o, n - 1) /\ Sound(a.db, c) /\ Tabled(d0, a.db) /\ ~a.stop
        /\ a.at = Nowhere /\ a.size = size /\ CountedTo(a, o, n - 1)
    BY <2>1 DEF StatTo
  <2>3. CASE a.stop \/ a.sec = NSec
    <3>1. StatStep(a, n) = a
      BY <2>3 DEF StatStep
    <3>2. Around(a, o, n)
      BY <1>1, <2>2, <2>3, RingOver
    <3>3. \A t \in Sec : Dist(o, t) < n - 1 => Dist(o, t) < n
      BY <1>1, DistIs
    <3>4. CountedTo(a, o, n)
      BY <2>2, <3>3 DEF CountedTo
    <3>5. a \in StatTo(d0, c, size, o, n)
      BY <2>2, <3>2, <3>4 DEF StatTo
    <3> QED BY <2>0, <3>1, <3>5 DEF A
  <2>4. CASE ~a.stop /\ a.sec # NSec
    <3> DEFINE s == a.sec
               head == HeadOf(a.db, s)
               b == WithDb(a, head.db)
               w == sector_statistics_cb(b, head.info)
               e == AtNextSector(w, head.info, n)
    <3>1. s \in Sec /\ n \in 1 .. NSec /\ Dist(o, s) = n - 1
      BY <1>1, <2>2, <2>4, RingAt
    <3>2. StatStep(a, n) = e
      BY <2>4 DEF StatStep, VisitSector, CallOn, WithDb
    <3>3. /\ b \in Walks /\ b.db = head.db /\ Alike(a, b) /\ Sound(b.db, c) /\ Tabled(a.db, b.db)
          /\ Tells(head.info, s, b.db.flash[s], c) /\ head.info \in Infos /\ head.info.at = s
      BY <2>2, <3>1, HeadRead
    <3>4. head.info.ok /\ head.info.store = EMPTY => b.db.flash[s] = Formatted
      <4>1. b.db.flash[s] \in Sectors /\ Shape(b.db.flash[s])
        BY <3>1, <3>3, SoundFields DEF Sound
      <4> QED BY <3>3, <4>1, ShapeFacts DEF Tells
    <3>5. CountedTo(b, o, n - 1)
      BY <2>2, <3>3 DEF CountedTo, Alike, Tabled
    <3> HIDE DEF b, head, s
    <3>6. w \in Walks /\ w.db = b.db /\ w.stop = b.stop /\ w.at = b.at /\ w.size = b.size /\ CountedTo(w, o, n)
      BY <1>1, <3>1, <3>3, <3>4, <3>5, Counts
    <3> HIDE DEF w
    <3>7. Around(e, o, n) /\ e.db = w.db /\ Alike(w, e)
      BY <1>1, <3>1, <3>3, <3>6, RingNext
    <3> HIDE DEF e
    <3>8. Tabled(d0, e.db)
      BY <2>2, <3>3, <3>6, <3>7, TabledTrans
    <3>9. CountedTo(e, o, n)
      BY <3>6, <3>7 DEF CountedTo, Alike
    <3>10. e \in StatTo(d0, c, size, o, n)
      BY <2>2, <3>3, <3>6, <3>7, <3>8, <3>9 DEF StatTo, Alike, Around
    <3> QED BY <2>0, <3>2, <3>10 DEF A
  <2> QED BY <2>3, <2>4
<1>4. r \in A[NSec + 1]
  <2> HIDE DEF A
  <2> QED BY <1>2, <1>3, StatWalk DEF StatsOf
<1>5. r \in StatTo(d0, c, size, o, NSec + 1)
  <2>1. NSec + 1 \in 0 .. NSec + 1
    BY <1>1
  <2> QED BY <1>4, <2>1, Zenon
<1> QED BY <1>5 DEF StatTo, CountedTo, Two

-----------------------------------------------------------------------------
(* A pair is looked for. *)
MatchStep(a, head) == IF a.stop \/ a.i = FAILED THEN a ELSE VisitKv(a, head, <<head.at, a.i>>, find_kv_cb)
Match == INSTANCE ListProofs WITH Step <- MatchStep

(* What each node compared keeps holds at the end of the sector. *)
LEMMA MatchWalk ==
    ASSUME NEW acc, NEW info, NEW A, WithI(acc, 1) \in A,
           \A a \in A : MatchStep(a, info) \in A
    PROVE  EachKv(acc, info, find_kv_cb) \in A
<1>1. EachKv(acc, info, find_kv_cb)
          = Match!FoldLeft(MatchStep, WithI(acc, 1), [n \in 1 .. SecSize |-> info])
  BY Zenon DEF EachKv, MatchStep, WithI, FoldLeft, MapThenFoldSet, Max, Match!FoldLeft,
               Match!MapThenFoldSet, Match!Max
<1>2. Match!FoldLeft(MatchStep, WithI(acc, 1), [n \in 1 .. SecSize |-> info]) \in A
  BY SecSizeIs, Match!AlwaysTimes, Zenon
<1> QED BY <1>1, <1>2, Zenon

\* All sectors are searched for a key.
SeekStep(a, n) == IF a.stop \/ a.sec = NSec THEN a
                  ELSE VisitNodes(a, HeadOf(a.db, a.sec), n, find_kv_cb)
Seek == INSTANCE ListProofs WITH Step <- SeekStep

(* What each sector searched keeps holds at the end of the search. *)
LEMMA SeekWalk ==
    ASSUME NEW acc, NEW A, WithSec(acc, acc.db.oldest) \in A,
           \A n \in 1 .. NSec : \A a \in A : SeekStep(a, n) \in A
    PROVE  kv_iterator(acc, find_kv_cb) \in A
<1>1. kv_iterator(acc, find_kv_cb)
          = Seek!FoldLeft(SeekStep, WithSec(acc, acc.db.oldest), [n \in 1 .. NSec |-> n])
  BY Zenon DEF kv_iterator, HeadOf, SeekStep, WithSec, FoldLeft, MapThenFoldSet, Max, Seek!FoldLeft,
               Seek!MapThenFoldSet, Seek!Max
<1>2. Seek!FoldLeft(SeekStep, WithSec(acc, acc.db.oldest), [n \in 1 .. NSec |-> n]) \in A
  BY NSecIs, Seek!AlwaysCounting, Zenon
<1> QED BY <1>1, <1>2, Zenon

\* What a search may give.
Found(d0, at) == at = Nowhere \/ Placed(d0, at)
StoppedAt(a, at) == [a EXCEPT !.stop = TRUE, !.at = at]

(* A walk stops at what it looked for. *)
LEMMA WalkStops ==
    ASSUME NEW a \in Walks, NEW at \in Addresses, NEW b, b = StoppedAt(a, at)
    PROVE  b \in Walks /\ b.db = a.db /\ b.at = at /\ b.stop /\ b.sec = a.sec /\ b.key = a.key
<1>1. b \in Walks /\ b.db = a.db /\ b.at = at /\ b.sec = a.sec /\ b.key = a.key
  BY DEF StoppedAt, Walks
<1>2. b.stop
  BY DEF StoppedAt, Walks
<1> QED BY <1>1, <1>2

(* What was found is there as long as no sector changes its length. *)
LEMMA FoundQuiet ==
    ASSUME NEW d0, NEW d, NEW c, Sound(d0, c), Quiet(d0, d), NEW at, Found(d0, at)
    PROVE  Found(d, at)
  BY PlacedQuiet DEF Found

\* A walk that looks for a pair and has only read and marked nodes since d0.
Seeks(d0, c) == {a \in Walks : Sound(a.db, c) /\ Quiet(d0, a.db) /\ Found(a.db, a.at)}

(* A sector is searched for a key: the store stays sound, what is found is a node ... *)
LEMMA MatchSound ==
    ASSUME NEW d0, NEW c, Sound(d0, c), NEW acc, acc \in Seeks(d0, c), NEW s \in Sec,
           acc.db.flash[s].store = USING, NEW info, info.at = s,
           NEW e, e = EachKv(acc, info, find_kv_cb)
    PROVE  e \in Seeks(d0, c)
<1> DEFINE A == {a \in Seeks(d0, c) : InSector(a, s, c)}
<1>1. WithI(acc, 1) \in A
  <2> DEFINE b == WithI(acc, 1)
  <2>1. InSector(b, s, c) /\ b.db = acc.db /\ Alike(acc, b)
    BY WalkBegins DEF Seeks
  <2> HIDE DEF b
  <2> QED BY <2>1 DEF Seeks, InSector, Alike, b
<1>2. ASSUME NEW a \in A PROVE MatchStep(a, info) \in A
  <2>1. a \in Walks /\ InSector(a, s, c) /\ Quiet(d0, a.db) /\ Sound(a.db, c) /\ Found(a.db, a.at) /\ a \in A
    BY <1>2 DEF Seeks
  <2> HIDE DEF A
  <2>2. CASE a.stop \/ a.i = FAILED
    BY <2>1, <2>2 DEF MatchStep
  <2>3. CASE ~a.stop /\ a.i # FAILED
    <3> DEFINE p == <<s, a.i>>
               b == WithDb(a, read_kv(a.db, p))
               w == find_kv_cb(b, p)
               f == AtNextKv(w, info, p)
    <3>1. MatchStep(a, info) = f
      BY <2>3 DEF MatchStep, VisitKv, WithDb
    <3>2. b \in Walks /\ Sound(b.db, c) /\ Quiet(a.db, b.db) /\ b.db.flash[s].store = USING
          /\ Placed(b.db, p) /\ Alike(a, b)
      BY <2>1, <2>3, ReadWalk
    <3>3. a.i \in Nat
      BY <2>1 DEF Walks
    <3> HIDE DEF b
    <3>4. w = b \/ w = StoppedAt(b, p)
      BY DEF find_kv_cb, StoppedAt
    <3>5. p \in Addresses
      BY <3>2, PlacedNode
    <3> HIDE DEF w
    <3>6. w \in Walks /\ w.db = b.db /\ Found(w.db, w.at)
      <4>1. CASE w = b
        <5>1. Found(b.db, b.at)
          BY <2>1, <3>2, FoundQuiet DEF Alike
        <5> QED BY <3>2, <4>1, <5>1
      <4>2. CASE w = StoppedAt(b, p)
        <5>1. w \in Walks /\ w.db = b.db /\ w.at = p
          BY <3>2, <3>5, <4>2, WalkStops
        <5> QED BY <3>2, <5>1 DEF Found
      <4> QED BY <3>4, <4>1, <4>2
    <3>7. InSector(f, s, c) /\ f.db = w.db /\ Alike(w, f)
      BY <3>2, <3>3, <3>6, NextWalk
    <3> HIDE DEF f
    <3>8. Quiet(d0, f.db)
      BY <2>1, <3>2, <3>6, <3>7, QuietTrans
    <3>9. f \in A
      BY <3>2, <3>6, <3>7, <3>8 DEF A, Seeks, InSector, Alike
    <3> QED BY <3>1, <3>9
  <2> QED BY <2>2, <2>3
<1>3. e \in A
  <2> HIDE DEF A
  <2> QED BY <1>1, <1>2, MatchWalk
<1> QED BY <1>3

(* ... and so are all sectors. *)
LEMMA SeekSound ==
    ASSUME NEW d0, NEW c, Sound(d0, c), NEW acc, acc \in Seeks(d0, c),
           NEW e, e = kv_iterator(acc, find_kv_cb)
    PROVE  e \in Seeks(d0, c)
<1> DEFINE A == Seeks(d0, c)
<1>1. WithSec(acc, acc.db.oldest) \in A
  <2> DEFINE o == acc.db.oldest
             b == WithSec(acc, o)
  <2>1. acc \in Walks /\ o \in Sec
    BY SoundFields DEF Seeks, Sound
  <2> HIDE DEF o
  <2>2. b.db = acc.db /\ Alike(acc, b) /\ b \in Walks
    BY <2>1, RingBegins DEF Around
  <2> HIDE DEF b
  <2>3. b \in A
    BY <2>2 DEF Seeks, Alike
  <2> QED BY <2>3 DEF b, o
<1>2. ASSUME NEW n \in 1 .. NSec, NEW a \in A PROVE SeekStep(a, n) \in A
  <2>1. a \in Walks /\ Quiet(d0, a.db) /\ Sound(a.db, c) /\ Found(a.db, a.at) /\ a \in A /\ a.sec \in 0 .. NSec
    BY <1>2 DEF Seeks, Walks
  <2> HIDE DEF A
  <2>2. CASE a.stop \/ a.sec = NSec
    BY <2>1, <2>2 DEF SeekStep
  <2>3. CASE ~a.stop /\ a.sec # NSec
    <3> DEFINE s == a.sec
               head == HeadOf(a.db, s)
               b == WithDb(a, head.db)
               use == head.info.ok /\ head.info.store \in {USING, FULL}
               w == IF use THEN EachKv(b, head.info, find_kv_cb) ELSE b
               f == AtNextSector(w, head.info, n)
    <3>1. s \in Sec
      BY <2>1, <2>3, Sizes
    <3>2. SeekStep(a, n) = f
      BY <2>3 DEF SeekStep, VisitNodes, WithDb
    <3>3. /\ b \in Walks /\ b.db = head.db /\ Alike(a, b) /\ Sound(b.db, c) /\ Tabled(a.db, b.db)
          /\ Tells(head.info, s, b.db.flash[s], c) /\ head.info \in Infos /\ head.info.at = s
      BY <2>1, <3>1, HeadRead
    <3> HIDE DEF b, head, s
    <3>4. b \in Seeks(d0, c)
      <4>1. Quiet(a.db, b.db)
        BY <2>1, <3>3, QuietSame
      <4>2. Quiet(d0, b.db)
        BY <2>1, <3>3, <4>1, QuietTrans
      <4>3. Found(b.db, b.at)
        BY <2>1, <3>3, <4>1, FoundQuiet DEF Alike
      <4> QED BY <3>3, <4>2, <4>3 DEF Seeks
    <3>5. use => b.db.flash[s].store = USING
      <4>1. b.db.flash[s] \in Sectors /\ Shape(b.db.flash[s])
        BY <3>1, <3>3, SoundFields DEF Sound
      <4> QED BY <3>3, <4>1, ShapeFacts DEF Tells
    <3> HIDE DEF use
    <3>6. w \in Seeks(d0, c)
      <4>1. CASE use
        <5>1. w = EachKv(b, head.info, find_kv_cb)
          BY <4>1
        <5> HIDE DEF w
        <5> QED BY <3>1, <3>3, <3>4, <3>5, <4>1, <5>1, MatchSound
      <4>2. CASE ~use
        BY <3>4, <4>2
      <4> QED BY <4>1, <4>2
    <3> HIDE DEF w
    <3>7. f \in Walks /\ f.db = w.db /\ Alike(w, f)
      BY <3>1, <3>3, <3>6, SectorNext DEF Seeks
    <3> HIDE DEF f
    <3>8. f \in A
      BY <3>6, <3>7 DEF A, Seeks, Alike
    <3> QED BY <3>2, <3>8
  <2> QED BY <2>2, <2>3
<1>3. e \in A
  <2> HIDE DEF A
  <2> QED BY <1>1, <1>2, SeekWalk
<1> QED BY <1>3

-----------------------------------------------------------------------------
(* The address cache says anything it likes. *)
LEMMA AddressSound ==
    ASSUME NEW d0, NEW c, NEW r, SoundBut(d0, c, r), NEW key, NEW a \in Addresses,
           NEW d, d = update_kv_cache(d0, key, a)
    PROVE  SoundBut(d, c, r) /\ Tabled(d0, d) /\ d.secCache = d0.secCache /\ d.lastDel = d0.lastDel
<1> DEFINE cache == [d0.kvCache EXCEPT ![key] = a]
<1>1. d0 \in Stores /\ d0.kvCache \in [Keys -> Addresses]
  BY SoundFields
<1>2. cache \in [Keys -> Addresses]
  BY <1>1
<1>3. d = [d0 EXCEPT !.kvCache = cache]
  BY <1>1 DEF update_kv_cache, Stores
<1> HIDE DEF cache
<1>4. d \in Stores /\ d.flash = d0.flash /\ d.trace = d0.trace /\ d.secCache = d0.secCache
      /\ d.oldest = d0.oldest
  BY <1>1, <1>2, <1>3 DEF Stores
<1>5. d.gcReq = d0.gcReq /\ d.recov = d0.recov /\ d.lastDel = d0.lastDel
  BY <1>1, <1>2, <1>3 DEF Stores
<1>6. SoundBut(d, c, r)
  BY <1>4 DEF SoundBut, Cached
<1> QED BY <1>4, <1>5, <1>6 DEF Tabled, Kept

WithKey(a, key) == [a EXCEPT !.key = key]
WithAt(a, at) == [a EXCEPT !.at = at]

(* find_kv_no_cache finds a node that is there, or none. *)
LEMMA NoCacheSound ==
    ASSUME NEW d0, NEW c, Sound(d0, c), NEW key \in Names, NEW r, r = find_kv_no_cache(d0, key)
    PROVE  r \in Walks /\ Sound(r.db, c) /\ Quiet(d0, r.db) /\ Found(r.db, r.at)
<1> DEFINE start == NoFind(d0)
           acc == WithKey(start, key)
<1>1. d0 \in Stores
  BY SoundFields DEF Sound
<1>2. start \in Walks /\ start.db = d0 /\ start.at = Nowhere
  BY <1>1, WalkStarts
<1>3. r = kv_iterator(acc, find_kv_cb)
  BY DEF find_kv_no_cache, WithKey
<1> HIDE DEF start
<1>4. acc \in Walks /\ acc.db = d0 /\ acc.at = Nowhere
  BY <1>2 DEF WithKey, Walks
<1> HIDE DEF acc
<1>5. Quiet(d0, d0)
  BY QuietSame DEF Tabled, Kept
<1>6. acc \in Seeks(d0, c)
  BY <1>4, <1>5 DEF Seeks, Found
<1>7. r \in Seeks(d0, c)
  BY <1>3, <1>6, SeekSound
<1> QED BY <1>7 DEF Seeks

(* A pair is found where there is a node, or not at all. *)
LEMMA FindSound ==
    ASSUME NEW d0, NEW c, Sound(d0, c), NEW key \in Keys, NEW r, r = find_kv(d0, key)
    PROVE  Sound(r.db, c) /\ Quiet(d0, r.db) /\ Found(r.db, r.at)
<1>1. CASE KvHit(d0, key)
  <2> DEFINE a == d0.kvCache[key]
             d == read_kv(d0, a)
             start == NoFind(d)
  <2>1. a \in Addresses /\ a # Nowhere /\ a[2] <= Len(d0.flash[a[1]].nodes)
    BY <1>1, SoundFields DEF KvHit, Sound
  <2>2. Placed(d0, a)
    BY <2>1 DEF Placed, Addresses
  <2> HIDE DEF a
  <2>3. Sound(d, c) /\ Quiet(d0, d) /\ Placed(d, a)
    BY <2>2, ReadSound DEF Readable
  <2>4. r = WithAt(start, a)
    BY <1>1 DEF find_kv, WithAt, a
  <2> HIDE DEF d
  <2>5. start \in Walks /\ start.db = d
    BY <2>3, SoundFields, WalkStarts DEF Sound
  <2> HIDE DEF start
  <2>6. r.db = d /\ r.at = a
    BY <2>4, <2>5 DEF WithAt, Walks
  <2> QED BY <2>3, <2>6 DEF Found
<1>2. CASE ~KvHit(d0, key)
  <2> DEFINE e == find_kv_no_cache(d0, key)
             d == update_kv_cache(e.db, e.key, e.at)
  <2>1. key \in Names
    BY DEF Names
  <2>2. e \in Walks /\ Sound(e.db, c) /\ Quiet(d0, e.db) /\ Found(e.db, e.at)
    BY <2>1, NoCacheSound
  <2>3. r = Noted(e)
    BY <1>2 DEF find_kv
  <2> HIDE DEF e
  <2>4. CASE e.at = Nowhere
    BY <2>2, <2>3, <2>4 DEF Noted
  <2>5. CASE e.at # Nowhere
    <3>1. e.at \in Addresses
      BY <2>2 DEF Walks
    <3>2. Sound(d, c) /\ Tabled(e.db, d)
      BY <2>2, <3>1, AddressSound DEF Sound
    <3>3. r = WithDb(e, d)
      BY <2>2, <2>3, <2>5 DEF Noted, WithDb, Walks
    <3> HIDE DEF d
    <3>4. d \in Stores
      BY <3>2, SoundFields DEF Sound
    <3>5. r.db = d /\ Alike(e, r)
      BY <2>2, <3>3, <3>4, WalkDb
    <3>6. Quiet(e.db, d)
      BY <2>2, <3>2, QuietSame
    <3>7. Quiet(d0, d)
      BY <2>2, <3>2, <3>6, QuietTrans
    <3>8. Found(d, e.at)
      BY <2>2, <3>6, FoundQuiet
    <3> QED BY <3>2, <3>5, <3>7, <3>8 DEF Alike
  <2> QED BY <2>4, <2>5
<1> QED BY <1>1, <1>2

-----------------------------------------------------------------------------
(* Room for a node. *)
Empty(d) == \E s \in Sec : d.flash[s] = Formatted

\* What is left to the collector when sector s is written to.
Left(d, c, s) == IF c \in Sec THEN s # c ELSE \E t \in Sec \ {s} : d.flash[t] = Formatted

\* Room for a node at the end of a sector, told by info, with a sector left for the collector.
Room(d, c, at, info, size) ==
    /\ at \in Sec \X (Nat \ {0}) /\ info \in Infos /\ at = <<info.at, info.empty>>
    /\ Left(d, c, at[1])
    /\ info.store = d.flash[at[1]].store /\ info.remain = Remain(d.flash[at[1]])
    /\ info.remain > size + Threshold
    /\ info.empty = Len(d.flash[at[1]].nodes) + 1
    /\ d.flash[at[1]] = Formatted \/ (d.flash[at[1]].store = USING /\ d.flash[at[1]].nodes # <<>>)
HasRoom(a, c) == a.at = Nowhere \/ Room(a.db, c, a.at, a.info, a.size)

(* No empty sector is lost while no sector changes its length. *)
LEMMA QuietEmpty ==
    ASSUME NEW d0, NEW d, Quiet(d0, d)
    PROVE  (Empty(d0) => Empty(d)) /\ (Two(d0) => Two(d)) /\ d.gcReq = d0.gcReq
  BY DEF Quiet, Calm, CalmAt, Empty, Two, Kept

(* Room found is still there as long as no sector changes its length. *)
LEMMA RoomQuiet ==
    ASSUME NEW d0, NEW d, NEW c, Sound(d0, c), Sound(d, c), Quiet(d0, d), NEW at, NEW info, NEW size, Room(d0, c, at, info, size)
    PROVE  Room(d, c, at, info, size)
<1> DEFINE s == at[1]
<1>1. s \in Sec
  BY DEF Room
<1>2. CalmAt(d0.flash[s], d.flash[s])
  BY <1>1 DEF Quiet, Calm
<1>3. Left(d, c, s)
  BY DEF Room, Left, Quiet, Calm, CalmAt
<1>4. CASE d0.flash[s] = Formatted
  <2>1. d.flash[s] = d0.flash[s]
    BY <1>2, <1>4 DEF CalmAt
  <2> QED BY <1>3, <2>1 DEF Room
<1>5. CASE d0.flash[s].store = USING /\ d0.flash[s].nodes # <<>>
  <2>1. /\ d.flash[s].store = USING /\ Len(d.flash[s].nodes) = Len(d0.flash[s].nodes)
        /\ Remain(d.flash[s]) = Remain(d0.flash[s])
    BY <1>2, <1>5 DEF CalmAt
  <2>2. d.flash[s].nodes # <<>>
    <3>1. d0.flash[s].nodes \in Seq(Nodes) /\ d.flash[s].nodes \in Seq(Nodes)
      BY <1>1, SoundFields DEF Sound, Sectors
    <3> QED BY <1>5, <2>1, <3>1
  <2> QED BY <1>3, <1>5, <2>1, <2>2 DEF Room
<1> QED BY <1>4, <1>5 DEF Room

\* A walk that looks for room, since d0.
Looks(d0, c, k) == {a \in Walks : Sound(a.db, c) /\ Quiet(d0, a.db) /\ HasRoom(a, c) /\ a.empties = k[1]
                                  /\ a.size = k[2] /\ (a.at # Nowhere => a.stop)}
RoomIn(a, info, at) == [a EXCEPT !.stop = TRUE, !.info = info, !.at = at]

(* A walk stops at room for a node. *)
LEMMA WalkRoom ==
    ASSUME NEW a \in Walks, NEW info \in Infos, NEW at \in Addresses, NEW b, b = RoomIn(a, info, at)
    PROVE  b \in Walks /\ b.db = a.db /\ b.at = at /\ b.stop /\ b.info = info /\ b.size = a.size
           /\ b.empties = a.empties
<1>1. b \in Walks /\ b.db = a.db /\ b.at = at /\ b.info = info /\ b.size = a.size /\ b.empties = a.empties
  BY DEF RoomIn, Walks
<1>2. b.stop
  BY DEF RoomIn, Walks
<1> QED BY <1>1, <1>2

(* Room that alloc_kv_cb takes is at the end of a sector, fits, and leaves the collector one. *)
LEMMA TakesRoom ==
    ASSUME NEW d0, NEW c, NEW k, NEW b, b \in Looks(d0, c, k), b.at = Nowhere, NEW s \in Sec, NEW info,
           c \in Sec => b.db.gcReq, c \notin Sec => \E t \in Sec \ {s} : b.db.flash[t] = Formatted,
           Tells(info, s, b.db.flash[s], c), info.ok => info.empty # FAILED,
           NEW w, w = alloc_kv_cb(b, info)
    PROVE  w \in Looks(d0, c, k) /\ w.db = b.db
<1> DEFINE at == <<info.at, info.empty>>
           x == b.db.flash[s]
<1>1. b \in Walks /\ Sound(b.db, c) /\ Quiet(d0, b.db) /\ b.empties = k[1] /\ b.size = k[2] /\ b.size \in Nat
  BY DEF Looks, Walks
<1>2. CASE ~Fits(info, b.size, b.db.gcReq)
  BY <1>2 DEF alloc_kv_cb
<1>3. CASE Fits(info, b.size, b.db.gcReq)
  <2>1. info.ok /\ info.remain > b.size + Threshold /\ (b.db.gcReq => info.dirty = CLEAN)
    BY <1>3 DEF Fits, CLEAN, DIRTY
  <2>2. info \in Infos /\ info.at = s /\ info.store = x.store /\ info.empty = Len(x.nodes) + 1
        /\ info.remain = Remain(x) /\ (x = Formatted \/ (x.ok /\ x.nodes # <<>>))
    BY <2>1 DEF Tells
  <2>3. s = c => info.dirty # CLEAN
    BY DEF Tells
  <2>4. Left(b.db, c, s)
    BY <2>1, <2>3 DEF Left
  <2>5. x \in Sectors /\ Shape(x) /\ x.nodes \in Seq(Nodes)
    BY <1>1, SoundFields DEF Sound, Sectors
  <2>6. x = Formatted \/ (x.store = USING /\ x.nodes # <<>>)
    BY <2>2, <2>5, ShapeFacts
  <2>7. info.empty \in Nat \ {0}
    <3>1. info.empty \in Nat
      BY <2>2 DEF Infos
    <3> QED BY <2>1, <3>1 DEF FAILED
  <2>8. w = RoomIn(b, info, at)
    BY <1>3 DEF alloc_kv_cb, RoomIn
  <2>9. at \in Sec \X (Nat \ {0}) /\ at[1] = s /\ at \in Addresses
    BY <2>2, <2>7, SMTT(30) DEF Addresses
  <2>10. w \in Walks /\ w.db = b.db /\ w.at = at /\ w.stop /\ w.info = info /\ w.size = b.size
         /\ w.empties = b.empties
    BY <1>1, <2>2, <2>8, <2>9, WalkRoom
  <2>11. Room(b.db, c, at, info, b.size)
    BY <2>1, <2>2, <2>4, <2>6, <2>9 DEF Room
  <2> HIDE DEF at, x
  <2>12. HasRoom(w, c)
    BY <2>10, <2>11 DEF HasRoom
  <2> QED BY <1>1, <2>10, <2>12 DEF Looks
<1> QED BY <1>2, <1>3

\* alloc_kv_cb on the sectors of one status.
Allocs(a, n, st) == VisitSector(a, HeadOf(a.db, a.sec), n, st, TRUE, alloc_kv_cb)
Others(d0, c, st) == c \notin Sec => IF st = USING THEN Empty(d0) ELSE Two(d0)

(* A sector is looked at for room. *)
LEMMA AllocVisit ==
    ASSUME NEW d0, NEW c, Sound(d0, c), NEW k, NEW st \in {EMPTY, USING}, Others(d0, c, st),
           c \in Sec => d0.gcReq, NEW a, a \in Looks(d0, c, k), ~a.stop, a.sec # NSec, NEW n \in Nat,
           NEW f, f = Allocs(a, n, st)
    PROVE  f \in Looks(d0, c, k)
<1> DEFINE s == a.sec
           head == HeadOf(a.db, s)
           full == FullOf(head.db, s)
           h == WithDb(a, head.db)
           b == WithDb(a, full.db)
           w == alloc_kv_cb(b, full.info)
<1>1. a \in Walks /\ Sound(a.db, c) /\ Quiet(d0, a.db) /\ a.empties = k[1] /\ a.size = k[2] /\ a.at = Nowhere /\ s \in Sec
  BY Sizes DEF Looks, Walks
<1>2. /\ h \in Walks /\ h.db = head.db /\ Alike(a, h) /\ Sound(h.db, c) /\ Tabled(a.db, h.db)
      /\ Tells(head.info, s, h.db.flash[s], c) /\ head.info \in Infos /\ head.info.at = s
  BY <1>1, HeadRead
<1>3. f = IF st = head.info.store THEN AtNextSector(w, full.info, n) ELSE AtNextSector(h, head.info, n)
  <2>1. st # UNUSED
    BY DEF UNUSED, EMPTY, USING
  <2>2. st \in {UNUSED, head.info.store} <=> st = head.info.store
    BY <2>1
  <2>3. CASE st = head.info.store
    BY <2>2, <2>3, Zenon DEF Allocs, VisitSector, CallOn, WithDb, FullOf
  <2>4. CASE st # head.info.store
    BY <2>2, <2>4, Zenon DEF Allocs, VisitSector, CallOn, WithDb, FullOf
  <2> QED BY <2>3, <2>4
<1>4. Quiet(d0, h.db)
  <2>1. Quiet(a.db, h.db)
    BY <1>1, <1>2, QuietSame
  <2> QED BY <1>1, <1>2, <2>1, QuietTrans
<1> HIDE DEF h, head, s
<1>5. CASE st # head.info.store
  <2>1. f = AtNextSector(h, head.info, n)
    BY <1>3, <1>5
  <2>2. f \in Walks /\ f.db = h.db /\ Alike(h, f)
    BY <1>1, <1>2, <2>1, SectorNext
  <2> QED BY <1>1, <1>2, <1>4, <2>2 DEF Looks, HasRoom, Alike
<1>6. CASE st = head.info.store
  <2>1. f = AtNextSector(w, full.info, n)
    BY <1>3, <1>6
  <2>2. /\ Sound(full.db, c) /\ Quiet(head.db, full.db) /\ Tells(full.info, s, full.db.flash[s], c)
        /\ full.info.ok => full.info.empty # FAILED
    BY <1>1, <1>2, InfoRead DEF FullOf
  <2> HIDE DEF full
  <2>3. full.db \in Stores /\ full.info \in Infos /\ full.info.at = s
    BY <2>2, SoundFields DEF Sound, Tells
  <2>4. b \in Walks /\ b.db = full.db /\ Alike(a, b)
    BY <1>1, <2>3, WalkDb
  <2> HIDE DEF b
  <2>5. Quiet(d0, b.db)
    BY <1>2, <1>4, <2>2, <2>4, QuietTrans
  <2>6. b \in Looks(d0, c, k) /\ b.at = Nowhere
    BY <1>1, <2>2, <2>4, <2>5 DEF Looks, HasRoom, Alike
  <2>7. c \in Sec => b.db.gcReq
    BY <2>5, QuietEmpty
  <2>8. c \notin Sec => \E t \in Sec \ {s} : b.db.flash[t] = Formatted
    <3>1. CASE st = USING
      <4>1. h.db.flash[s].store = USING
        BY <1>2, <1>6, <3>1 DEF Tells
      <4>2. b.db.flash[s].store = USING
        BY <1>1, <1>2, <2>2, <2>4, <4>1 DEF Quiet, Calm, CalmAt
      <4>3. b.db.flash[s] # Formatted
        BY <4>2, BlankSectors DEF EMPTY, USING
      <4>4. c \notin Sec => Empty(b.db)
        BY <2>5, <3>1, QuietEmpty DEF Others
      <4> QED BY <4>3, <4>4 DEF Empty
    <3>2. CASE st = EMPTY
      <4>1. c \notin Sec => Two(b.db)
        BY <2>5, <3>2, QuietEmpty DEF Others, EMPTY, USING
      <4> QED BY <4>1 DEF Two
    <3> QED BY <3>1, <3>2
  <2>9. w \in Looks(d0, c, k) /\ w.db = b.db
    BY <1>1, <2>2, <2>4, <2>6, <2>7, <2>8, TakesRoom
  <2> HIDE DEF w
  <2>10. f \in Walks /\ f.db = w.db /\ Alike(w, f) /\ f.empties = w.empties /\ f.size = w.size
    BY <1>1, <2>1, <2>3, <2>9, SectorNext DEF Looks, Alike
  <2> QED BY <2>9, <2>10 DEF Looks, HasRoom, Alike
<1> QED BY <1>5, <1>6

(* The search for room begins at the oldest sector. *)
LEMMA LooksBegin ==
    ASSUME NEW d0, NEW c, NEW k, NEW acc, acc \in Looks(d0, c, k), NEW b, b = WithSec(acc, acc.db.oldest)
    PROVE  b \in Looks(d0, c, k)
<1> DEFINE o == acc.db.oldest
<1>1. acc \in Walks /\ o \in Sec
  BY SoundFields DEF Looks, Sound
<1> HIDE DEF o
<1>2. b.db = acc.db /\ Alike(acc, b) /\ b \in Walks
  BY <1>1, RingBegins DEF Around, o
<1> QED BY <1>2 DEF Looks, HasRoom, Alike

\* Room is looked for in the sectors in use ...
AllocUsingStep(a, n) == IF a.stop \/ a.sec = NSec THEN a
                  ELSE VisitSector(a, HeadOf(a.db, a.sec), n, USING, TRUE, alloc_kv_cb)
AllocUsing == INSTANCE ListProofs WITH Step <- AllocUsingStep

(* What each sector looked at keeps holds at the end: sectors in use ... *)
LEMMA AllocUsingWalk ==
    ASSUME NEW acc, NEW A, WithSec(acc, acc.db.oldest) \in A,
           \A n \in 1 .. NSec + 1 : \A a \in A : AllocUsingStep(a, n) \in A
    PROVE  sector_iterator(acc, USING, TRUE, alloc_kv_cb) \in A
<1>1. sector_iterator(acc, USING, TRUE, alloc_kv_cb)
          = AllocUsing!FoldLeft(AllocUsingStep, WithSec(acc, acc.db.oldest), [n \in 1 .. NSec + 1 |-> n])
  BY Zenon DEF sector_iterator, HeadOf, AllocUsingStep, WithSec, FoldLeft, MapThenFoldSet, Max, AllocUsing!FoldLeft,
               AllocUsing!MapThenFoldSet, AllocUsing!Max
<1>2. AllocUsing!FoldLeft(AllocUsingStep, WithSec(acc, acc.db.oldest), [n \in 1 .. NSec + 1 |-> n]) \in A
  BY OneMore, AllocUsing!AlwaysCounting, Zenon
<1> QED BY <1>1, <1>2, Zenon

(* Room found in a sector in use can be used. *)
LEMMA AllocUsingSound ==
    ASSUME NEW d0, NEW c, Sound(d0, c), NEW k, Others(d0, c, USING), c \in Sec => d0.gcReq,
           NEW acc, acc \in Looks(d0, c, k), NEW r, r = sector_iterator(acc, USING, TRUE, alloc_kv_cb)
    PROVE  r \in Looks(d0, c, k)
<1> DEFINE A == Looks(d0, c, k)
<1>1. WithSec(acc, acc.db.oldest) \in A
  BY LooksBegin
<1>2. ASSUME NEW n \in 1 .. NSec + 1, NEW a \in A PROVE AllocUsingStep(a, n) \in A
  <2>1. CASE a.stop \/ a.sec = NSec
    BY <1>2, <2>1 DEF AllocUsingStep
  <2>2. CASE ~a.stop /\ a.sec # NSec
    <3>1. AllocUsingStep(a, n) = Allocs(a, n, USING)
      BY <2>2 DEF AllocUsingStep, Allocs
    <3>2. n \in Nat
      BY Sizes
    <3>3. a \in Looks(d0, c, k)
      BY <1>2
    <3> HIDE DEF A
    <3>4. Allocs(a, n, USING) \in Looks(d0, c, k)
      BY <2>2, <3>2, <3>3, AllocVisit
    <3> QED BY <3>1, <3>4 DEF A
  <2> QED BY <2>1, <2>2
<1>3. r \in A
  <2> HIDE DEF A
  <2> QED BY <1>1, <1>2, AllocUsingWalk
<1> QED BY <1>3

\* ... and in the empty ones.
AllocSpareStep(a, n) == IF a.stop \/ a.sec = NSec THEN a
                  ELSE VisitSector(a, HeadOf(a.db, a.sec), n, EMPTY, TRUE, alloc_kv_cb)
AllocSpare == INSTANCE ListProofs WITH Step <- AllocSpareStep

(* ... and empty ones. *)
LEMMA AllocSpareWalk ==
    ASSUME NEW acc, NEW A, WithSec(acc, acc.db.oldest) \in A,
           \A n \in 1 .. NSec + 1 : \A a \in A : AllocSpareStep(a, n) \in A
    PROVE  sector_iterator(acc, EMPTY, TRUE, alloc_kv_cb) \in A
<1>1. sector_iterator(acc, EMPTY, TRUE, alloc_kv_cb)
          = AllocSpare!FoldLeft(AllocSpareStep, WithSec(acc, acc.db.oldest), [n \in 1 .. NSec + 1 |-> n])
  BY Zenon DEF sector_iterator, HeadOf, AllocSpareStep, WithSec, FoldLeft, MapThenFoldSet, Max, AllocSpare!FoldLeft,
               AllocSpare!MapThenFoldSet, AllocSpare!Max
<1>2. AllocSpare!FoldLeft(AllocSpareStep, WithSec(acc, acc.db.oldest), [n \in 1 .. NSec + 1 |-> n]) \in A
  BY OneMore, AllocSpare!AlwaysCounting, Zenon
<1> QED BY <1>1, <1>2, Zenon

(* Room found in an empty sector can be used when there is another one, or to collect. *)
LEMMA AllocSpareSound ==
    ASSUME NEW d0, NEW c, Sound(d0, c), NEW k, Others(d0, c, EMPTY), c \in Sec => d0.gcReq,
           NEW acc, acc \in Looks(d0, c, k), NEW r, r = sector_iterator(acc, EMPTY, TRUE, alloc_kv_cb)
    PROVE  r \in Looks(d0, c, k)
<1> DEFINE A == Looks(d0, c, k)
<1>1. WithSec(acc, acc.db.oldest) \in A
  BY LooksBegin
<1>2. ASSUME NEW n \in 1 .. NSec + 1, NEW a \in A PROVE AllocSpareStep(a, n) \in A
  <2>1. CASE a.stop \/ a.sec = NSec
    BY <1>2, <2>1 DEF AllocSpareStep
  <2>2. CASE ~a.stop /\ a.sec # NSec
    <3>1. AllocSpareStep(a, n) = Allocs(a, n, EMPTY)
      BY <2>2 DEF AllocSpareStep, Allocs
    <3>2. n \in Nat
      BY Sizes
    <3>3. a \in Looks(d0, c, k)
      BY <1>2
    <3> HIDE DEF A
    <3>4. Allocs(a, n, EMPTY) \in Looks(d0, c, k)
      BY <2>2, <3>2, <3>3, AllocVisit
    <3> QED BY <3>1, <3>4 DEF A
  <2> QED BY <2>1, <2>2
<1>3. r \in A
  <2> HIDE DEF A
  <2> QED BY <1>1, <1>2, AllocSpareWalk
<1> QED BY <1>3

-----------------------------------------------------------------------------
Asking(d0) == [d0 EXCEPT !.gcReq = TRUE]

(* Asking for a collection keeps the store sound ... *)
LEMMA AskingSound ==
    ASSUME NEW d0, NEW c, NEW r, SoundBut(d0, c, r), NEW d, d = Asking(d0)
    PROVE  /\ SoundBut(d, c, r) /\ d.flash = d0.flash /\ d.trace = d0.trace /\ d.gcReq
           /\ d.oldest = d0.oldest /\ d.secCache = d0.secCache
<1>1. d0 \in Stores
  BY SoundFields
<1>2. d \in Stores /\ d.flash = d0.flash /\ d.trace = d0.trace /\ d.secCache = d0.secCache
      /\ d.oldest = d0.oldest
  BY <1>1 DEF Stores, Asking
<1>3. d.gcReq
  BY <1>1 DEF Stores, Asking
<1>4. SoundBut(d, c, r)
  BY <1>2 DEF SoundBut, Cached
<1> QED BY <1>2, <1>3, <1>4

(* ... and so does having made it. *)
LEMMA CollectedSound ==
    ASSUME NEW d0, NEW c, NEW r, SoundBut(d0, c, r), NEW d, d = Collected(d0)
    PROVE  /\ SoundBut(d, c, r) /\ d.flash = d0.flash /\ d.trace = d0.trace /\ ~d.gcReq
           /\ d.oldest = d0.oldest /\ d.secCache = d0.secCache
<1>1. d0 \in Stores
  BY SoundFields
<1>2. d \in Stores /\ d.flash = d0.flash /\ d.trace = d0.trace /\ d.secCache = d0.secCache
      /\ d.oldest = d0.oldest
  BY <1>1 DEF Stores, Collected
<1>3. ~d.gcReq
  BY <1>1 DEF Stores, Collected
<1>4. SoundBut(d, c, r)
  BY <1>2 DEF SoundBut, Cached
<1> QED BY <1>2, <1>3, <1>4

\* A set or a recovery, with room to collect later, or a collection of sector c.
Mode(d0, c) == \/ c = NSec /\ ~d0.gcReq /\ Empty(d0)
               \/ c \in Sec /\ d0.gcReq

WithSize(a, size) == [a EXCEPT !.size = size]

(* alloc_kv: what it gives is room at the end of a sector that leaves the collector one. *)
LEMMA AllocSound ==
    ASSUME NEW d0, NEW c, Sound(d0, c), Mode(d0, c), NEW size \in Nat, NEW r, r = alloc_kv(d0, size)
    PROVE  /\ r \in Walks /\ Sound(r.db, c) /\ Calm(d0.flash, r.db.flash) /\ (d0.gcReq => r.db.gcReq)
           /\ r.at # Nowhere => Room(r.db, c, r.at, r.info, size) /\ Quiet(d0, r.db)
<1> DEFINE start == NoFind(d0)
           acc == WithSize(start, size)
           e == StatsOf(acc)
           u == FromUsing(e)
           k == <<e.empties, size>>
<1>1. d0 \in Stores /\ NSec \notin Sec
  BY SoundFields, Sizes DEF Sound
<1>2. start \in Walks /\ start.db = d0 /\ start.at = Nowhere /\ start.stop = FALSE /\ start.empties = 0
  BY <1>1, WalkStarts
<1>3. r = FromEmpty(u)
  BY DEF alloc_kv, WithSize, StatsOf
<1> HIDE DEF start
<1>4. acc \in Walks /\ acc.db = d0 /\ acc.at = Nowhere /\ acc.size = size /\ acc.empties = 0
  BY <1>2 DEF WithSize, Walks
<1>5. ~acc.stop
  BY <1>2 DEF WithSize, Walks
<1> HIDE DEF acc
<1>6. /\ e \in Walks /\ Sound(e.db, c) /\ Tabled(d0, e.db) /\ ~e.stop /\ e.at = Nowhere /\ e.size = size
      /\ e.empties >= 2 => Two(e.db)
  BY <1>4, <1>5, Statistics
<1>7. Quiet(d0, e.db) /\ e.empties \in Nat
  BY <1>6, QuietSame DEF Walks
<1> HIDE DEF e
<1>8. e \in Looks(d0, c, k)
  BY <1>6, <1>7 DEF Looks, HasRoom
<1>9. u \in Looks(d0, c, k)
  <2>1. Others(d0, c, USING)
    BY <1>1 DEF Others, Mode
  <2>2. c \in Sec => d0.gcReq
    BY <1>1 DEF Mode
  <2>3. CASE e.usings > 0
    <3>1. u = sector_iterator(e, USING, TRUE, alloc_kv_cb)
      BY <2>3 DEF FromUsing
    <3> HIDE DEF u, k
    <3> QED BY <1>8, <2>1, <2>2, <3>1, AllocUsingSound
  <2>4. CASE ~(e.usings > 0)
    BY <1>8, <2>4 DEF FromUsing
  <2> QED BY <2>3, <2>4
<1> HIDE DEF u
<1>10. u \in Walks /\ Sound(u.db, c) /\ Quiet(d0, u.db) /\ HasRoom(u, c) /\ u.empties = e.empties /\ u.size = size
  BY <1>9 DEF Looks
<1>11. CASE u.at # Nowhere \/ u.empties = 0
  <2>1. r = u
    <3>1. ~(u.at = Nowhere /\ u.empties > 0 /\ MayTakeEmpty(u.empties, u.db.gcReq))
      BY <1>11
    <3> QED BY <1>3, <1>11, <3>1, Zenon DEF FromEmpty
  <2>2. r.at # Nowhere => Room(r.db, c, r.at, r.info, size)
    BY <1>10, <2>1 DEF HasRoom
  <2> QED BY <1>10, <2>1, <2>2 DEF Quiet, Kept
<1>12. CASE u.at = Nowhere /\ u.empties > 0 /\ MayTakeEmpty(u.empties, u.db.gcReq)
  <2>1. r = sector_iterator(u, EMPTY, TRUE, alloc_kv_cb)
    <3>1. ~(u.at # Nowhere \/ u.empties = 0)
      BY <1>7, <1>10, <1>12
    <3> QED BY <1>3, <1>12, <3>1, Zenon DEF FromEmpty
  <2>2. c \in Sec => d0.gcReq
    BY <1>1 DEF Mode
  <2>3. Others(d0, c, EMPTY)
    <3>1. ASSUME c \notin Sec PROVE Two(d0)
      <4>1. ~d0.gcReq
        BY <3>1 DEF Mode
      <4>2. u.db.gcReq = d0.gcReq
        BY <1>10, QuietEmpty
      <4>3. u.empties > 1
        BY <1>12, <4>1, <4>2 DEF MayTakeEmpty
      <4>4. Two(e.db)
        BY <1>6, <1>7, <1>10, <4>3
      <4> QED BY <1>6, <4>4 DEF Tabled, Two
    <3> QED BY <3>1 DEF Others, EMPTY, USING
  <2>4. r \in Looks(d0, c, k)
    <3> HIDE DEF k
    <3> QED BY <1>9, <2>1, <2>2, <2>3, AllocSpareSound
  <2> QED BY <2>4 DEF Looks, HasRoom, Quiet, Kept
<1>13. CASE u.at = Nowhere /\ u.empties # 0 /\ ~MayTakeEmpty(u.empties, u.db.gcReq)
  <2> DEFINE d == Asking(u.db)
  <2>1. r = [u EXCEPT !.db.gcReq = TRUE]
    <3>1. ~(u.at # Nowhere \/ u.empties = 0)
      BY <1>13
    <3> QED BY <1>3, <1>13, <3>1, Zenon DEF FromEmpty
  <2>2. r = WithDb(u, d)
    BY <1>10, <2>1 DEF WithDb, Asking, Walks
  <2>3. Sound(d, c) /\ d.flash = u.db.flash /\ d.gcReq
    BY <1>10, AskingSound DEF Sound
  <2> HIDE DEF d
  <2>4. d \in Stores
    BY <2>3, SoundFields DEF Sound
  <2>5. r \in Walks /\ r.db = d /\ Alike(u, r)
    BY <1>10, <2>2, <2>4, WalkDb
  <2>6. r.at = Nowhere
    BY <1>13, <2>5 DEF Alike
  <2>7. r.db.gcReq
    BY <2>3, <2>5
  <2> QED BY <1>10, <2>3, <2>5, <2>6, <2>7 DEF Quiet
<1> QED BY <1>7, <1>10, <1>11, <1>12, <1>13

-----------------------------------------------------------------------------
(* A node is deleted. *)
LEMMA SoundWeakens ==
    ASSUME NEW d0, NEW c, Sound(d0, c), NEW s \in Sec
    PROVE  SoundBut(d0, c, s)
  BY Sizes DEF Sound, SoundBut

(* A store that is sound but for a sector the table does not know is sound. *)
LEMMA Uncached ==
    ASSUME NEW d0, NEW c, NEW s \in Sec, SoundBut(d0, c, s), ~Cached(d0, s)
    PROVE  Sound(d0, c)
  BY Sizes DEF Sound, SoundBut

DirtyInfo(info) == [info EXCEPT !.dirty = DIRTY]
DirtySector(x) == [x EXCEPT !.dirty = Later(x.dirty, DIRTY)]

(* A clean sector is marked dirty. *)
LEMMA DirtyFields ==
    ASSUME NEW x \in Sectors, x.dirty = CLEAN, NEW y, y = DirtySector(x)
    PROVE  y \in Sectors /\ y.ok = x.ok /\ y.store = x.store /\ y.dirty = DIRTY /\ y.nodes = x.nodes
<1>1. Later(x.dirty, DIRTY) = 2
  BY LaterIs DEF CLEAN, DIRTY
<1>2. y \in Sectors /\ y.store = x.store /\ y.dirty = DIRTY /\ y.nodes = x.nodes
  BY <1>1 DEF DirtySector, Sectors, DIRTY
<1>3. y.ok = x.ok
  BY DEF DirtySector, Sectors
<1> QED BY <1>2, <1>3

(* The entry of a sector that became dirty. *)
LEMMA DirtyTold ==
    ASSUME NEW info \in Infos, NEW new, new = DirtyInfo(info)
    PROVE  /\ new \in Infos /\ new.ok = info.ok /\ new.at = info.at /\ new.store = info.store
           /\ new.dirty = DIRTY /\ new.empty = info.empty /\ new.remain = info.remain
<1>1. new \in Infos /\ new.at = info.at /\ new.store = info.store
      /\ new.dirty = DIRTY /\ new.empty = info.empty /\ new.remain = info.remain
  BY DEF DirtyInfo, Infos, DIRTY
<1>2. new.ok = info.ok
  BY DEF DirtyInfo, Infos
<1> QED BY <1>1, <1>2

(* Marking the sector of a deleted node keeps the store sound. *)
LEMMA DirtiedSound ==
    ASSUME NEW d0, NEW c, Sound(d0, c), NEW s \in Sec, d0.flash[s].nodes # <<>>, NEW d, d = Dirtied(d0, s)
    PROVE  Sound(d, c) /\ Quiet(d0, d)
<1> DEFINE old == d0.flash[s]
           x == DirtySector(old)
           w == Written(d0, s, x)
           info == DirtyInfo(w.secCache[s])
<1>1. old \in Sectors /\ Shape(old) /\ Fine(d0.flash) /\ d0 \in Stores
  BY SoundFields DEF Sound
<1>2. old.store = USING /\ old.ok /\ Remain(old) \in Nat /\ old # Formatted /\ old # Erased
      /\ old.nodes \in Seq(Nodes)
  BY <1>1, ShapeFacts DEF Sectors
<1>3. CASE old.dirty # CLEAN
  <2>1. d = d0
    BY <1>3 DEF Dirtied
  <2> QED BY <2>1, QuietSame DEF Tabled, Kept
<1>4. CASE old.dirty = CLEAN
  <2>1. d = NotedDirty(w, s)
    BY <1>4 DEF Dirtied, WriteDirty, DirtySector
  <2>2. x \in Sectors /\ x.ok = old.ok /\ x.store = old.store /\ x.dirty = DIRTY /\ x.nodes = old.nodes
    BY <1>1, <1>4, DirtyFields
  <2> HIDE DEF x
  <2>3. Remain(x) = Remain(old)
    <3>1. \A i \in 1 .. Len(x.nodes) : SameLength(x.nodes[i], old.nodes[i])
      BY <2>2 DEF SameLength
    <3> QED BY <1>2, <2>2, <3>1, RemainSame
  <2>4. Shape(x)
    BY <1>2, <2>2, <2>3 DEF Shape
  <2>5. s # c
    BY <1>4 DEF Sound, SoundBut, GC, CLEAN
  <2>6. \E t \in Sec \ {s} : Spare(d0.flash[t])
    BY <1>1, <1>2, <1>4 DEF Fine, Spare, CLEAN, GC
  <2>7. SoundBut(d0, c, s)
    BY SoundWeakens
  <2>8. SoundBut(w, c, s)
    BY <2>2, <2>4, <2>5, <2>6, <2>7, WrittenSound
  <2>9. w.flash[s] = x /\ (\A t \in Sec \ {s} : w.flash[t] = d0.flash[t]) /\ Kept(d0, w)
        /\ w.secCache = d0.secCache
    BY <1>1, <2>2, WrittenFields
  <2> HIDE DEF w
  <2>10. Sound(d, c) /\ Tabled(w, d)
    <3>1. CASE ~Cached(w, s)
      <4>1. d = w
        BY <2>1, <3>1 DEF NotedDirty
      <4> QED BY <2>8, <3>1, <4>1, Uncached DEF Tabled, Kept
    <3>2. CASE Cached(w, s)
      <4>1. w.secCache[s] \in Infos /\ w.secCache \in [Sec -> Infos] /\ w \in Stores
        BY <2>8, SoundFields
      <4>2. d = Recached(w, s, info)
        BY <2>1, <3>2, <4>1 DEF NotedDirty, Recached, DirtyInfo, Stores
      <4>3. w.secCache[s].ok /\ Tells(w.secCache[s], s, old, c)
        BY <2>9, <3>2, Sizes DEF Sound, SoundBut, Cached
      <4>4. info \in Infos /\ info.ok = w.secCache[s].ok /\ info.at = w.secCache[s].at
            /\ info.store = w.secCache[s].store /\ info.dirty = DIRTY /\ info.empty = w.secCache[s].empty
            /\ info.remain = w.secCache[s].remain
        BY <4>1, DirtyTold
      <4> HIDE DEF info
      <4>5. Tells(info, s, x, c)
        BY <1>2, <2>2, <2>3, <2>5, <4>3, <4>4 DEF Tells
      <4>6. info.ok
        BY <4>3, <4>4
      <4> QED BY <2>8, <2>9, <4>2, <4>4, <4>5, <4>6, TableSound
    <3> QED BY <3>1, <3>2
  <2>11. Calm(d0.flash, d.flash)
    <3>1. CalmAt(old, x)
      BY <1>2, <2>2, <2>3 DEF CalmAt
    <3>2. \A t \in Sec : Len(d0.flash[t].nodes) <= Len(d0.flash[t].nodes)
      BY <1>1 DEF Fine, Flashes, Sectors
    <3>3. \A t \in Sec \ {s} : CalmAt(d0.flash[t], d.flash[t])
      BY <2>9, <2>10, <3>2 DEF CalmAt, Tabled
    <3> QED BY <2>9, <2>10, <3>1, <3>3 DEF Calm, Tabled
  <2>12. Kept(d0, d)
    BY <2>9, <2>10 DEF Tabled, Kept
  <2> QED BY <2>10, <2>11, <2>12 DEF Quiet
<1> QED BY <1>3, <1>4

WithLastDel(d0, b) == [d0 EXCEPT !.lastDel = b]

(* The flag of an unfinished deletion is read by no condition of soundness ... *)
LEMMA LastDelSound ==
    ASSUME NEW d0, NEW c, Sound(d0, c), NEW b \in BOOLEAN, NEW d, d = WithLastDel(d0, b)
    PROVE  Sound(d, c) /\ Tabled(d0, d)
<1>1. d0 \in Stores
  BY SoundFields DEF Sound
<1>2. d \in Stores /\ d.flash = d0.flash /\ d.trace = d0.trace /\ d.secCache = d0.secCache
      /\ d.oldest = d0.oldest
  BY <1>1 DEF Stores, WithLastDel
<1>3. d.gcReq = d0.gcReq /\ d.recov = d0.recov
  BY <1>1 DEF Stores, WithLastDel
<1>4. SoundBut(d, c, NSec)
  BY <1>2 DEF Sound, SoundBut, Cached
<1> QED BY <1>2, <1>3, <1>4 DEF Tabled, Kept, Sound

(* ... whichever deletion sets or clears it. *)
LEMMA FlaggedSound ==
    ASSUME NEW d0, NEW c, Sound(d0, c), NEW a, NEW complete \in BOOLEAN, NEW d, d = Flagged(d0, a, complete)
    PROVE  Sound(d, c) /\ Tabled(d0, d)
<1> DEFINE e == IF complete /\ ~d0.lastDel THEN update_kv_cache(d0, Node(d0, a).key, Nowhere) ELSE d0
           b == ~complete
<1>1. d = WithLastDel(e, b)
  BY DEF Flagged, WithLastDel
<1>2. b \in BOOLEAN /\ Nowhere \in Addresses
  BY DEF Addresses
<1> HIDE DEF b
<1>3. Sound(e, c) /\ Tabled(d0, e)
  <2>1. CASE complete /\ ~d0.lastDel
    <3>1. e = update_kv_cache(d0, Node(d0, a).key, Nowhere)
      BY <2>1
    <3> HIDE DEF e
    <3> QED BY <1>2, <3>1, AddressSound DEF Sound
  <2>2. CASE ~(complete /\ ~d0.lastDel)
    BY <2>2 DEF Tabled, Kept
  <2> QED BY <2>1, <2>2
<1> HIDE DEF e
<1>4. Sound(d, c) /\ Tabled(e, d)
  BY <1>1, <1>2, <1>3, LastDelSound
<1> QED BY <1>3, <1>4, TabledTrans

(* Deleting a node, in two steps or one, keeps the store sound and the node where it is: *)
LEMMA DelSound ==
    ASSUME NEW d0, NEW c, Sound(d0, c), NEW a, Placed(d0, a), NEW complete \in BOOLEAN,
           NEW d, d = del_kv(d0, a, complete)
    PROVE  Sound(d, c) /\ Quiet(d0, d) /\ Placed(d, a)
<1> DEFINE st == IF complete THEN DELETED ELSE PRE_DELETE
           e == WriteKvStatus(d0, a, st)
           f == Flagged(e, a, complete)
<1>1. st \in 0 .. 5
  BY DEF DELETED, PRE_DELETE
<1>2. d = Dirtied(f, a[1])
  BY DEF del_kv
<1> HIDE DEF st
<1>3. Sound(e, c) /\ Quiet(d0, e) /\ Placed(e, a)
  BY <1>1, StatusSound
<1> HIDE DEF e
<1>4. Sound(f, c) /\ Tabled(e, f)
  BY <1>3, FlaggedSound
<1>5. Quiet(e, f)
  BY <1>3, <1>4, QuietSame
<1> HIDE DEF f
<1>6. Placed(f, a)
  BY <1>3, <1>5, PlacedQuiet
<1>7. a[1] \in Sec /\ f.flash[a[1]].nodes # <<>>
  BY <1>4, <1>6, PlacedNode
<1>8. Sound(d, c) /\ Quiet(f, d)
  BY <1>2, <1>4, <1>7, DirtiedSound
<1>9. Quiet(d0, f)
  BY <1>3, <1>4, <1>5, QuietTrans
<1>10. Quiet(d0, d)
  BY <1>4, <1>8, <1>9, QuietTrans
<1> QED BY <1>4, <1>6, <1>8, <1>10, PlacedQuiet

(* Its deletion is prepared, or completed. *)
Prepares(d0, a) == del_kv(d0, a, FALSE)
Finishes(d0, a) == del_kv(d0, a, TRUE)

(* the first step, ... *)
LEMMA PreparesSound ==
    ASSUME NEW d0, NEW c, Sound(d0, c), NEW a, Placed(d0, a), NEW d, d = Prepares(d0, a)
    PROVE  Sound(d, c) /\ Quiet(d0, d) /\ Placed(d, a)
  BY DelSound DEF Prepares

(* ... and the second. *)
LEMMA FinishesSound ==
    ASSUME NEW d0, NEW c, Sound(d0, c), NEW a, Placed(d0, a), NEW d, d = Finishes(d0, a)
    PROVE  Sound(d, c) /\ Quiet(d0, d) /\ Placed(d, a)
  BY DelSound DEF Finishes

-----------------------------------------------------------------------------
(* A sector gets a node. *)

\* Sector s is being written to: what the table says of its nodes is not yet true.
Half(d0, c, s) ==
    /\ SoundBut(d0, c, s) /\ s \in Sec /\ Left(d0, c, s)
    /\ d0.flash[s].ok /\ d0.flash[s].store = USING
    /\ Cached(d0, s) => /\ d0.secCache[s].ok /\ d0.secCache[s].store = USING
                        /\ d0.secCache[s].dirty = d0.flash[s].dirty

\* Only sector s differs.
OnlyAt(d0, d, s) == Kept(d0, d) /\ \A t \in Sec \ {s} : d.flash[t] = d0.flash[t]

(* Two changes of the same sector, one after the other. *)
LEMMA OnlyTrans ==
    ASSUME NEW d0, NEW d, NEW e, NEW s, OnlyAt(d0, d, s), OnlyAt(d, e, s)
    PROVE  OnlyAt(d0, e, s)
  BY DEF OnlyAt, Kept

(* A change of one sector leaves the collector the sector it had. *)
LEMMA LeftKept ==
    ASSUME NEW d0, NEW d, NEW c, NEW s, OnlyAt(d0, d, s), Left(d0, c, s)
    PROVE  Left(d, c, s)
  BY DEF OnlyAt, Left

(* A sector that leaves one for the collector is not being collected itself. *)
LEMMA LeftSpare ==
    ASSUME NEW d0, NEW c, NEW s \in Sec, NEW r, SoundBut(d0, c, r), Left(d0, c, s)
    PROVE  s # c /\ \E t \in Sec \ {s} : Spare(d0.flash[t])
  BY DEF Left, SoundBut, Spare

(* A sector half-way through a write is written again. *)
LEMMA HalfWritten ==
    ASSUME NEW d0, NEW c, NEW s, Half(d0, c, s), NEW x \in Sectors, x.ok, x.store = USING,
           x.dirty = d0.flash[s].dirty, Remain(x) \in Nat, NEW d, d = Written(d0, s, x)
    PROVE  Half(d, c, s) /\ OnlyAt(d0, d, s) /\ d.flash[s] = x
<1> DEFINE old == d0.flash[s]
<1>1. SoundBut(d0, c, s) /\ s \in Sec /\ Left(d0, c, s) /\ old.ok /\ old.store = USING
  BY DEF Half
<1>2. old \in Sectors /\ Shape(old) /\ d0 \in Stores
  BY <1>1, SoundFields
<1>3. Shape(x)
  BY <1>1, <1>2, ShapeFacts DEF Shape
<1>4. s # c /\ \E t \in Sec \ {s} : Spare(d0.flash[t])
  BY <1>1, LeftSpare
<1>5. SoundBut(d, c, s)
  BY <1>1, <1>3, <1>4, WrittenSound
<1>6. d.flash[s] = x /\ (\A t \in Sec \ {s} : d.flash[t] = d0.flash[t]) /\ Kept(d0, d)
      /\ d.secCache = d0.secCache
  BY <1>1, <1>2, WrittenFields
<1>7. OnlyAt(d0, d, s)
  BY <1>6 DEF OnlyAt
<1>8. Left(d, c, s)
  BY <1>1, <1>7, LeftKept
<1>9. Cached(d, s) => /\ d.secCache[s].ok /\ d.secCache[s].store = USING
                      /\ d.secCache[s].dirty = d.flash[s].dirty
  BY <1>6 DEF Half, Cached
<1> QED BY <1>1, <1>5, <1>6, <1>7, <1>8, <1>9 DEF Half

\* The last node of a sector is another.
LastIs(x, q, node) == [x EXCEPT !.nodes = Append(q, node)]
RoomFor(q) == q \in Seq(Nodes) /\ Remain([nodes |-> q]) \in Nat /\ Remain([nodes |-> q]) >= KvLen

(* One more node fits at the end of a sector with room for it. *)
LEMMA LastFits ==
    ASSUME NEW q, RoomFor(q), NEW node \in Nodes, NEW x \in Sectors, NEW y, y = LastIs(x, q, node)
    PROVE  /\ y \in Sectors /\ y.store = x.store /\ y.dirty = x.dirty /\ y.nodes = Append(q, node)
           /\ (x.ok => y.ok) /\ Remain(y) \in Nat
<1> DEFINE base == [nodes |-> q]
           new == Append(q, node)
<1>1. new \in Seq(Nodes)
  BY DEF RoomFor
<1> HIDE DEF new
<1>2. y = [x EXCEPT !.nodes = new]
  BY DEF LastIs, new
<1>3. y \in Sectors /\ y.store = x.store /\ y.dirty = x.dirty /\ y.nodes = new
  BY <1>1, <1>2 DEF Sectors
<1>4. x.ok => y.ok
  BY <1>2 DEF Sectors
<1>5. base.nodes = q
  OBVIOUS
<1>8. Remain(base) \in Nat /\ Remain(base) >= KvLen /\ q \in Seq(Nodes)
  BY DEF RoomFor
<1> HIDE DEF base
<1>6. Remain(y) = Remain(base) - Takes(base.nodes, node)
  <2>1. y.nodes = Append(base.nodes, node)
    BY <1>3, <1>5 DEF new
  <2>2. base.nodes \in Seq(Nodes)
    BY <1>5, <1>8
  <2> QED BY <2>1, <2>2, RemainAppend
<1>7. Takes(q, node) \in Nat /\ Takes(q, node) <= KvLen
  BY Sizes DEF Takes, LenOf
<1>9. Remain(y) \in Nat
  <2> DEFINE m == Remain(base)
             n == Takes(q, node)
  <2>1. m \in Nat /\ n \in Nat /\ n <= KvLen /\ m >= KvLen /\ Remain(y) = m - n
    BY <1>5, <1>6, <1>7, <1>8
  <2> HIDE DEF m, n
  <2> QED BY <2>1, Sizes
<1> QED BY <1>3, <1>4, <1>9 DEF new

(* A last node is written, in whatever state it is. *)
LEMMA HalfLast ==
    ASSUME NEW d0, NEW c, NEW s, Half(d0, c, s), NEW q, RoomFor(q), NEW node \in Nodes,
           NEW d, d = Written(d0, s, LastIs(d0.flash[s], q, node))
    PROVE  Half(d, c, s) /\ OnlyAt(d0, d, s) /\ d.flash[s].nodes = Append(q, node)
<1> DEFINE old == d0.flash[s]
           x == LastIs(old, q, node)
<1>1. old \in Sectors /\ old.ok /\ old.store = USING
  BY SoundFields DEF Half
<1>2. x = LastIs(old, q, node) /\ d = Written(d0, s, x)
  OBVIOUS
<1> HIDE DEF x
<1>3. /\ x \in Sectors /\ x.store = old.store /\ x.dirty = old.dirty
      /\ x.nodes = Append(q, node) /\ (old.ok => x.ok) /\ Remain(x) \in Nat
  BY <1>1, <1>2, LastFits
<1>4. Half(d, c, s) /\ OnlyAt(d0, d, s) /\ d.flash[s] = x
  BY <1>1, <1>2, <1>3, HalfWritten
<1> QED BY <1>3, <1>4

\* The last node of sector s is written up to w.
Ends(d0, s, q, w) == \E node \in Nodes : node.w = w /\ d0.flash[s].nodes = Append(q, node)
EndOf(s, q) == <<s, Len(q) + 1>>
WithW(node, w) == [node EXCEPT !.w = w]
WithSt(node, st) == [node EXCEPT !.st = st]

(* A node with more of it written, or with another status. *)
LEMMA NodeParts ==
    ASSUME NEW node \in Nodes, NEW w \in 0 .. 3, NEW st \in 0 .. 5
    PROVE  /\ WithW(node, w) \in Nodes /\ WithW(node, w).w = w
           /\ WithSt(node, st) \in Nodes /\ WithSt(node, st).w = node.w /\ node.st \in 0 .. 5
  BY DEF WithW, WithSt, Nodes

\* Element i of a sequence is changed.
PutAt(x, i, more) == [x EXCEPT ![i] = more]

(* Changing the last element of a sequence ... *)
LEMMA PutLast ==
    ASSUME NEW x \in Seq(Nodes), NEW y \in Seq(Nodes), NEW L \in Nat, Len(x) = L + 1, Len(y) = L + 1,
           NEW more \in Nodes, y[L + 1] = more, \A i \in 1 .. L : x[i] = y[i]
    PROVE  PutAt(x, L + 1, more) = y
<1> DEFINE m == [x EXCEPT ![L + 1] = more]
<1>1. m \in Seq(Nodes) /\ Len(m) = L + 1
  OBVIOUS
<1>2. m[L + 1] = more
  OBVIOUS
<1>3. \A i \in 1 .. L : m[i] = x[i]
  OBVIOUS
<1> HIDE DEF m
<1>4. m = y
  BY <1>1, <1>2, <1>3
<1> QED BY <1>4 DEF PutAt, m

(* ... is appending another. *)
LEMMA LastChanged ==
    ASSUME NEW q \in Seq(Nodes), NEW node \in Nodes, NEW more \in Nodes
    PROVE  /\ Len(q) + 1 \in DOMAIN Append(q, node) /\ Append(q, node)[Len(q) + 1] = node
           /\ PutAt(Append(q, node), Len(q) + 1, more) = Append(q, more)
<1> DEFINE x == Append(q, node)
           y == Append(q, more)
           L == Len(q)
<1>1. L \in Nat /\ x \in Seq(Nodes) /\ y \in Seq(Nodes) /\ Len(x) = L + 1 /\ Len(y) = L + 1
      /\ x[L + 1] = node /\ y[L + 1] = more /\ \A i \in 1 .. L : x[i] = y[i]
  OBVIOUS
<1>2. L + 1 \in DOMAIN x
  BY <1>1
<1> HIDE DEF x, y, L
<1>3. PutAt(x, L + 1, more) = y
  BY <1>1, PutLast
<1> QED BY <1>1, <1>2, <1>3 DEF x, y, L

(* A node is begun: its status is written ... *)
LEMMA HalfAppended ==
    ASSUME NEW d0, NEW c, NEW s, Half(d0, c, s), NEW q, RoomFor(q), d0.flash[s].nodes = q,
           NEW node \in Nodes, NEW d, d = Appended(d0, s, node)
    PROVE  Half(d, c, s) /\ OnlyAt(d0, d, s) /\ Ends(d, s, q, node.w)
<1>1. d0.flash[s] \in Sectors
  BY SoundFields DEF Half
<1>2. d = Written(d0, s, LastIs(d0.flash[s], q, node))
  BY <1>1 DEF Appended, LastIs, Sectors
<1>3. Half(d, c, s) /\ OnlyAt(d0, d, s) /\ d.flash[s].nodes = Append(q, node)
  BY <1>2, HalfLast
<1> QED BY <1>3 DEF Ends

(* ... then more of it ... *)
LEMMA HalfGrown ==
    ASSUME NEW d0, NEW c, NEW s, Half(d0, c, s), NEW q, RoomFor(q), NEW v, Ends(d0, s, q, v),
           NEW w \in 0 .. 3, NEW at, at = EndOf(s, q), NEW d, d = Grown(d0, at, w)
    PROVE  Half(d, c, s) /\ OnlyAt(d0, d, s) /\ Ends(d, s, q, w)
<1> DEFINE old == d0.flash[s]
           n == old.nodes
<1>1. old \in Sectors /\ q \in Seq(Nodes)
  BY SoundFields DEF Half, RoomFor
<1>2. PICK node \in Nodes : n = Append(q, node)
  BY DEF Ends
<1> DEFINE more == WithW(node, w)
<1>3. more \in Nodes /\ more.w = w
  BY NodeParts DEF Nodes
<1>4. /\ Len(q) + 1 \in DOMAIN n /\ n[Len(q) + 1] = node
      /\ PutAt(n, Len(q) + 1, more) = Append(q, more)
  <2> HIDE DEF more, n
  <2> QED BY <1>1, <1>2, <1>3, LastChanged
<1>5. d = Written(d0, s, [old EXCEPT !.nodes = PutAt(n, Len(q) + 1, more)])
  BY <1>1, <1>4 DEF Grown, EndOf, WithW, Sectors, PutAt
<1>6. d = Written(d0, s, LastIs(old, q, more))
  BY <1>4, <1>5 DEF LastIs
<1> HIDE DEF more
<1>7. Half(d, c, s) /\ OnlyAt(d0, d, s) /\ d.flash[s].nodes = Append(q, more)
  BY <1>3, <1>6, HalfLast
<1> QED BY <1>3, <1>7 DEF Ends

(* ... and a status over the first ... *)
LEMMA HalfStatus ==
    ASSUME NEW d0, NEW c, NEW s, Half(d0, c, s), NEW q, RoomFor(q), NEW w, Ends(d0, s, q, w),
           NEW st \in 0 .. 5, NEW at, at = EndOf(s, q), NEW d, d = WriteKvStatus(d0, at, st)
    PROVE  Half(d, c, s) /\ OnlyAt(d0, d, s) /\ Ends(d, s, q, w)
<1> DEFINE old == d0.flash[s]
           n == old.nodes
<1>1. old \in Sectors /\ q \in Seq(Nodes)
  BY SoundFields DEF Half, RoomFor
<1>2. PICK node \in Nodes : node.w = w /\ n = Append(q, node)
  BY DEF Ends
<1> DEFINE later == Later(node.st, st)
           more == WithSt(node, later)
<1>3. later \in 0 .. 5
  <2>1. node.st \in 0 .. 5
    BY DEF Nodes
  <2> QED BY <2>1, LaterIs
<1>4. more \in Nodes /\ more.w = w
  <2> HIDE DEF later
  <2> QED BY <1>2, <1>3 DEF Nodes, WithSt
<1>5. /\ Len(q) + 1 \in DOMAIN n /\ n[Len(q) + 1] = node
      /\ PutAt(n, Len(q) + 1, more) = Append(q, more)
  <2> HIDE DEF more, n
  <2> QED BY <1>1, <1>2, <1>4, LastChanged
<1>6. d = Written(d0, s, [old EXCEPT !.nodes = PutAt(n, Len(q) + 1, more)])
  BY <1>1, <1>5 DEF WriteKvStatus, EndOf, WithSt, Sectors, PutAt
<1>7. d = Written(d0, s, LastIs(old, q, more))
  BY <1>5, <1>6 DEF LastIs
<1> HIDE DEF more
<1>8. Half(d, c, s) /\ OnlyAt(d0, d, s) /\ d.flash[s].nodes = Append(q, more)
  BY <1>4, <1>7, HalfLast
<1> QED BY <1>4, <1>8 DEF Ends

(* ... which together is write_kv_hdr. *)
LEMMA HdrSound ==
    ASSUME NEW d0, NEW c, NEW s, Half(d0, c, s), NEW q, RoomFor(q), d0.flash[s].nodes = q,
           NEW at, at = EndOf(s, q), NEW key \in Names, NEW val \in Values \cup {"none"},
           NEW d, d = write_kv_hdr(d0, at, key, val)
    PROVE  Half(d, c, s) /\ OnlyAt(d0, d, s) /\ Ends(d, s, q, 2)
<1> DEFINE node == [st |-> PRE_WRITE, w |-> 0, key |-> key, val |-> val]
           e == Appended(d0, s, node)
           f == Grown(e, at, 1)
<1>1. node \in Nodes /\ node.w = 0
  BY DEF Nodes, PRE_WRITE
<1>2. d = Grown(f, at, 2)
  BY DEF write_kv_hdr, EndOf
<1> HIDE DEF node
<1>3. Half(e, c, s) /\ OnlyAt(d0, e, s) /\ Ends(e, s, q, 0)
  BY <1>1, HalfAppended
<1> HIDE DEF e
<1>4. Half(f, c, s) /\ OnlyAt(e, f, s) /\ Ends(f, s, q, 1)
  BY <1>3, HalfGrown
<1> HIDE DEF f
<1>5. Half(d, c, s) /\ OnlyAt(f, d, s) /\ Ends(d, s, q, 2)
  BY <1>2, <1>4, HalfGrown
<1> QED BY <1>3, <1>4, <1>5, OnlyTrans

-----------------------------------------------------------------------------
(* The sector is taken into use, and the table told of its node. *)
TakenInfo(info) == [info EXCEPT !.store = USING]
SizedInfo(info, remain, next) == [info EXCEPT !.remain = remain, !.empty = next]

(* The entry of a sector that is taken into use ... *)
LEMMA InfoParts ==
    ASSUME NEW info \in Infos, NEW t, t = TakenInfo(info)
    PROVE  t \in Infos /\ (info.ok => t.ok) /\ t.at = info.at /\ t.store = USING /\ t.dirty = info.dirty
<1>1. t \in Infos /\ t.at = info.at /\ t.store = USING /\ t.dirty = info.dirty
  BY DEF TakenInfo, Infos, USING
<1>2. info.ok => t.ok
  BY DEF TakenInfo, Infos
<1> QED BY <1>1, <1>2

\* An entry z like old, with its room measured.
SizedAs(z, old, left, k) ==
    /\ z \in Infos /\ (old.ok => z.ok) /\ z.at = old.at /\ z.store = old.store
    /\ z.dirty = old.dirty /\ z.empty = k /\ z.remain = left

(* ... and of one that was measured. *)
LEMMA SizedParts ==
    ASSUME NEW old, old \in Infos, NEW left, left \in Nat, NEW k, k \in Nat
    PROVE  SizedAs(SizedInfo(old, left, k), old, left, k)
<1> DEFINE z == SizedInfo(old, left, k)
<1>1. z \in Infos /\ z.at = old.at /\ z.store = old.store /\ z.dirty = old.dirty
      /\ z.empty = k /\ z.remain = left
  BY DEF SizedInfo, Infos
<1>2. old.ok => z.ok
  BY DEF SizedInfo, Infos
<1> QED BY <1>1, <1>2 DEF SizedAs

(* The table is told where the next node goes: the store is sound again. *)
LEMMA HalfTold ==
    ASSUME NEW d0, NEW c, NEW s, Half(d0, c, s), d0.flash[s].nodes # <<>>,
           NEW next, next = Len(d0.flash[s].nodes) + 1,
           NEW d, d = update_sector_empty_addr_cache(d0, s, next)
    PROVE  Sound(d, c) /\ Tabled(d0, d)
<1> DEFINE x == d0.flash[s]
           remain == Remain(x)
           info == SizedInfo(d0.secCache[s], remain, next)
<1>1. /\ SoundBut(d0, c, s) /\ s \in Sec /\ x.ok /\ x.store = USING /\ x \in Sectors /\ Shape(x)
      /\ d0.secCache[s] \in Infos /\ d0 \in Stores
  BY SoundFields DEF Half
<1>2. Remain(x) \in Nat /\ next \in Nat
  BY <1>1, ShapeFacts DEF Sectors
<1>3. CASE ~Cached(d0, s)
  <2>1. d = d0
    BY <1>3 DEF update_sector_empty_addr_cache
  <2> QED BY <1>1, <1>3, <2>1, Uncached DEF Tabled, Kept
<1>4. CASE Cached(d0, s)
  <2>1. d = Recached(d0, s, info)
    <3>1. d0.secCache \in [Sec -> Infos]
      BY <1>1 DEF Stores
    <3> QED BY <1>1, <1>4, <3>1 DEF update_sector_empty_addr_cache, Recached, SizedInfo, Stores
  <2>2. d0.secCache[s].at = s /\ d0.secCache[s].ok /\ d0.secCache[s].store = USING
        /\ d0.secCache[s].dirty = x.dirty
    BY <1>4 DEF Half, Cached
  <2>3. SizedAs(info, d0.secCache[s], remain, next)
    BY <1>1, <1>2, SizedParts
  <2> HIDE DEF remain, info
  <2>4. info.ok
    BY <2>2, <2>3 DEF SizedAs
  <2>5. info.ok = x.ok
    BY <1>1, <2>3, <2>4, Zenon DEF Sectors, Infos, SizedAs
  <2>6. s # c
    BY <1>1, LeftSpare DEF Half
  <2>7. Tells(info, s, x, c)
    BY <1>1, <2>2, <2>3, <2>5, <2>6 DEF Tells, remain, SizedAs
  <2>8. info \in Infos
    BY <2>3 DEF SizedAs
  <2> QED BY <1>1, <2>1, <2>4, <2>7, <2>8, TableSound
<1> QED BY <1>3, <1>4

(* An empty sector is taken into use. *)
LEMMA StoreFields ==
    ASSUME NEW x, x = [Formatted EXCEPT !.store = Later(Formatted.store, USING)]
    PROVE  /\ x \in Sectors /\ x.ok /\ x.store = USING /\ x.dirty = CLEAN /\ x.nodes = <<>>
           /\ Remain(x) \in Nat
<1>1. Formatted = [ok |-> TRUE, store |-> 1, dirty |-> 1, nodes |-> <<>>]
  BY DEF Formatted, EMPTY, CLEAN
<1>2. Later(Formatted.store, USING) = 2
  <2>1. Formatted.store = 1 /\ USING = 2
    BY <1>1 DEF USING
  <2> QED BY <2>1, LaterIs
<1>3. x = [ok |-> TRUE, store |-> 2, dirty |-> 1, nodes |-> <<>>]
  BY <1>1, <1>2
<1>4. x.store = USING /\ x.dirty = CLEAN /\ x.nodes = <<>>
  BY <1>3 DEF USING, CLEAN
<1>5. x.ok
  BY <1>3
<1>6. x \in Sectors
  <2>1. <<>> \in Seq(Nodes)
    OBVIOUS
  <2>2. [ok |-> TRUE, store |-> 2, dirty |-> 1, nodes |-> <<>>] \in Sectors
    BY <2>1 DEF Sectors
  <2> QED BY <1>3, <2>2, Zenon
<1>7. Remain(x) \in Nat
  BY <1>4, RemainNone, BlankSectors
<1> QED BY <1>4, <1>5, <1>6, <1>7

(* Room that was found is room behind the nodes of its sector. *)
LEMMA RoomNodes ==
    ASSUME NEW d0, NEW c, Sound(d0, c), NEW at, NEW info, Room(d0, c, at, info, KvLen)
    PROVE  RoomFor(d0.flash[at[1]].nodes)
<1> DEFINE x == d0.flash[at[1]]
<1>1. x \in Sectors /\ Shape(x) /\ x.nodes \in Seq(Nodes)
  BY SoundFields DEF Sound, Room, Sectors
<1>2. x = Formatted \/ x.store = USING
  BY DEF Room
<1>3. Remain(x) \in Nat
  BY <1>1, <1>2, ShapeFacts, BlankSectors
<1>4. Remain(x) > KvLen + Threshold
  BY DEF Room
<1>5. Remain(x) >= KvLen
  BY <1>3, <1>4, Sizes
<1>6. Remain([nodes |-> x.nodes]) = Remain(x)
  BY DEF Remain
<1> QED BY <1>1, <1>3, <1>5, <1>6 DEF RoomFor

\* A sector is taken into use for a node.
InUse(d0, info) == update_sec_status(d0, info, KvLen)

(* update_sec_status takes a sector into use, and never closes one in which room was found. *)
LEMMA UseSound ==
    ASSUME NEW d0, NEW c, Sound(d0, c), NEW at, NEW info, Room(d0, c, at, info, KvLen),
           NEW s, s = at[1], NEW r, r = InUse(d0, info)
    PROVE  /\ Half(r.db, c, s) /\ ~r.full /\ OnlyAt(d0, r.db, s)
           /\ r.db.flash[s].nodes = d0.flash[s].nodes
<1> DEFINE old == d0.flash[s]
<1>1. /\ s \in Sec /\ info.at = s /\ Left(d0, c, s) /\ info.store = old.store /\ info.remain = Remain(old)
      /\ info.remain > KvLen + Threshold
      /\ old = Formatted \/ (old.store = USING /\ old.nodes # <<>>)
  BY DEF Room
<1>2. old \in Sectors /\ Shape(old) /\ d0 \in Stores /\ d0.secCache \in [Sec -> Infos]
  BY <1>1, SoundFields DEF Sound
<1>3. SoundBut(d0, c, s)
  BY <1>1, SoundWeakens
<1>4. s # c /\ \E t \in Sec \ {s} : Spare(d0.flash[t])
  BY <1>1, <1>3, LeftSpare
<1>5. Cached(d0, s) => d0.secCache[s].ok /\ Tells(d0.secCache[s], s, old, c)
  BY <1>1, Sizes DEF Sound, SoundBut
<1>6. Remain(old) \in Nat
  BY <1>1, <1>2, ShapeFacts, BlankSectors
<1>7. ~(info.store = USING /\ info.remain < Threshold + KvLen)
  BY <1>1, <1>6, Sizes
<1>8. CASE old.store = USING /\ old.nodes # <<>>
  <2>1. info.store # EMPTY
    BY <1>1, <1>8 DEF EMPTY, USING
  <2>2. r = [db |-> d0, full |-> FALSE]
    BY <1>7, <2>1, Zenon DEF InUse, update_sec_status
  <2>3. r.db = d0
    BY <2>2
  <2>4. ~r.full
    BY <2>2
  <2>5. old.ok
    BY <1>2, <1>8, ShapeFacts
  <2>6. Cached(d0, s) => /\ d0.secCache[s].ok /\ d0.secCache[s].store = USING
                         /\ d0.secCache[s].dirty = old.dirty
    BY <1>4, <1>5, <1>8 DEF Tells
  <2>7. Half(d0, c, s)
    BY <1>1, <1>3, <1>8, <2>5, <2>6 DEF Half
  <2> QED BY <2>3, <2>4, <2>7 DEF OnlyAt, Kept
<1>9. CASE old = Formatted
  <2> DEFINE x == [Formatted EXCEPT !.store = Later(Formatted.store, USING)]
             w == Written(d0, s, x)
             d == update_sector_status_store_cache(w, s, USING)
  <2>1. info.store = EMPTY
    BY <1>1, <1>9, BlankSectors
  <2>2. r = [db |-> d, full |-> FALSE]
    <3>1. Written(d0, s, [d0.flash[s] EXCEPT !.store = Later(@, USING)]) = w
      BY <1>9, <1>2 DEF Sectors
    <3>2. info.store # USING
      BY <2>1 DEF EMPTY, USING
    <3>3. WriteStore(d0, s, USING) = w
      BY <3>1, Zenon DEF WriteStore
    <3> QED BY <1>1, <2>1, <3>2, <3>3, Zenon DEF InUse, update_sec_status
  <2>3. r.db = d
    BY <2>2
  <2>4. ~r.full
    BY <2>2
  <2>5. x \in Sectors /\ x.ok /\ x.store = USING /\ x.dirty = CLEAN /\ x.nodes = <<>> /\ Remain(x) \in Nat
    BY StoreFields
  <2>6. Shape(x)
    BY <2>5 DEF Shape
  <2> HIDE DEF x
  <2>7. SoundBut(w, c, s)
    BY <1>1, <1>3, <1>4, <2>5, <2>6, WrittenSound
  <2>8. w.flash[s] = x /\ (\A t \in Sec \ {s} : w.flash[t] = d0.flash[t]) /\ Kept(d0, w)
        /\ w.secCache = d0.secCache /\ w \in Stores
    BY <1>1, <1>2, <2>5, WrittenFields
  <2>9. OnlyAt(d0, w, s)
    BY <2>8 DEF OnlyAt
  <2>10. Left(w, c, s)
    BY <1>1, <2>9, LeftKept
  <2> HIDE DEF w
  <2>11. CASE ~Cached(w, s)
    <3>1. d = w
      BY <2>11 DEF update_sector_status_store_cache
    <3>2. Half(w, c, s)
      BY <1>1, <2>5, <2>7, <2>8, <2>10, <2>11 DEF Half
    <3> QED BY <1>9, <2>3, <2>4, <2>5, <2>8, <2>9, <3>1, <3>2, BlankSectors
  <2>12. CASE Cached(w, s)
    <3> DEFINE new == TakenInfo(w.secCache[s])
    <3>1. d = Recached(w, s, new)
      BY <1>1, <1>2, <2>8, <2>12 DEF update_sector_status_store_cache, Recached, TakenInfo, Stores
    <3>2. /\ w.secCache[s] \in Infos /\ w.secCache[s].ok /\ w.secCache[s].at = s
          /\ w.secCache[s].dirty = CLEAN
      <4>1. Cached(d0, s) /\ w.secCache[s] = d0.secCache[s]
        BY <2>8, <2>12 DEF Cached
      <4> QED BY <1>4, <1>5, <1>9, <4>1, BlankSectors DEF Tells
    <3>4. new \in Infos /\ (w.secCache[s].ok => new.ok) /\ new.at = s /\ new.store = USING /\ new.dirty = CLEAN
      BY <3>2, InfoParts
    <3> HIDE DEF new
    <3>5. /\ d \in Stores /\ d.flash = w.flash /\ d.trace = w.trace /\ Kept(w, d) /\ d.secCache[s] = new
          /\ (\A t \in Sec \ {s} : d.secCache[t] = w.secCache[t])
      BY <1>1, <2>8, <3>1, <3>4, TableFields
    <3>6. SoundBut(d, c, s)
      BY <2>7, <3>5 DEF SoundBut, Cached
    <3>7. OnlyAt(d0, d, s)
      BY <2>9, <3>5 DEF OnlyAt, Kept
    <3>8. Left(d, c, s)
      BY <1>1, <3>7, LeftKept
    <3>9. Half(d, c, s)
      BY <1>1, <2>5, <2>8, <3>2, <3>4, <3>5, <3>6, <3>8 DEF Half
    <3> HIDE DEF d
    <3> QED BY <1>9, <2>3, <2>4, <2>5, <2>8, <3>5, <3>7, <3>9, BlankSectors
  <2> QED BY <2>11, <2>12
<1> QED BY <1>1, <1>8, <1>9

\* No node is lost, and a sector in use stays in use.
Grows(d0, d) == \A t \in Sec : /\ Len(d0.flash[t].nodes) <= Len(d.flash[t].nodes)
                               /\ d0.flash[t].store = USING => d.flash[t].store = USING

(* A node stays where it is while no node is lost. *)
LEMMA GrowsPlaced ==
    ASSUME NEW d0, NEW d, NEW c, Sound(d0, c), NEW e, Sound(d, e), Grows(d0, d), NEW a, Placed(d0, a)
    PROVE  Placed(d, a)
<1>1. a[1] \in Sec /\ a[2] \in Nat
  BY DEF Placed
<1>2. Len(d0.flash[a[1]].nodes) \in Nat /\ Len(d.flash[a[1]].nodes) \in Nat
  BY <1>1, SoundFields, SMTT(30) DEF Sound, Sectors
<1> QED BY <1>1, <1>2 DEF Placed, Grows

(* Two changes that lose no node, one after the other. *)
LEMMA GrowsTrans ==
    ASSUME NEW d0, NEW d, NEW e, NEW c, Sound(d0, c), NEW g, Sound(d, g), NEW h, Sound(e, h),
           Grows(d0, d), Grows(d, e)
    PROVE  Grows(d0, e)
<1>1. \A t \in Sec : /\ Len(d0.flash[t].nodes) \in Nat /\ Len(d.flash[t].nodes) \in Nat
                     /\ Len(e.flash[t].nodes) \in Nat
  BY SoundFields DEF Sound, Sectors
<1>2. ASSUME NEW t \in Sec
      PROVE  /\ Len(d0.flash[t].nodes) <= Len(e.flash[t].nodes)
             /\ d0.flash[t].store = USING => e.flash[t].store = USING
  <2>1. Len(d0.flash[t].nodes) <= Len(d.flash[t].nodes) /\ Len(d.flash[t].nodes) <= Len(e.flash[t].nodes)
    BY <1>2 DEF Grows
  <2>2. d0.flash[t].store = USING => e.flash[t].store = USING
    BY <1>2 DEF Grows
  <2> DEFINE x == Len(d0.flash[t].nodes)
             y == Len(d.flash[t].nodes)
             z == Len(e.flash[t].nodes)
  <2>3. x \in Nat /\ y \in Nat /\ z \in Nat /\ x <= y /\ y <= z
    BY <1>1, <1>2, <2>1
  <2> HIDE DEF x, y, z
  <2>4. x <= z
    BY <2>3
  <2> QED BY <2>2, <2>4 DEF x, z
<1> QED BY <1>2 DEF Grows

(* A change that leaves the sectors as long as they are loses no node ... *)
LEMMA CalmGrows ==
    ASSUME NEW d0, NEW d, Calm(d0.flash, d.flash)
    PROVE  Grows(d0, d)
  BY DEF Calm, CalmAt, Grows

(* ... and leaves the collector its sector ... *)
LEMMA CalmLeft ==
    ASSUME NEW d0, NEW d, Calm(d0.flash, d.flash), NEW c, NEW s, Left(d0, c, s)
    PROVE  Left(d, c, s)
  BY DEF Calm, CalmAt, Left

(* ... as a change of the tables does. *)
LEMMA TabledLeft ==
    ASSUME NEW d0, NEW d, Tabled(d0, d), NEW c, NEW s, Left(d0, c, s)
    PROVE  Left(d, c, s)
  BY DEF Tabled, Left

\* A node is put at the end of sector s.
Extended(d0, d, s) == /\ Kept(d0, d) /\ s \in Sec
                      /\ \A t \in Sec \ {s} : d.flash[t] = d0.flash[t]
                      /\ Len(d.flash[s].nodes) = Len(d0.flash[s].nodes) + 1
                      /\ d.flash[s].store = USING

Longer(d0, d, s, q) == Extended(d0, d, s) /\ d.flash[s].nodes # <<>> /\ Len(d.flash[s].nodes) = Len(q) + 1

(* A sector whose last node is new has one node more. *)
LEMMA EndsExtended ==
    ASSUME NEW d0, NEW c, Sound(d0, c), NEW d, NEW s \in Sec, OnlyAt(d0, d, s), NEW w, NEW q,
           q = d0.flash[s].nodes, Ends(d, s, q, w), d.flash[s].store = USING
    PROVE  Longer(d0, d, s, q)
<1>1. q \in Seq(Nodes)
  BY SoundFields DEF Sound, Sectors
<1>2. PICK node \in Nodes : d.flash[s].nodes = Append(q, node)
  BY DEF Ends
<1>3. Len(d.flash[s].nodes) = Len(q) + 1 /\ d.flash[s].nodes # <<>>
  <2>1. Len(Append(q, node)) = Len(q) + 1 /\ Append(q, node) # <<>>
    BY <1>1
  <2> QED BY <1>2, <2>1, Zenon
<1> QED BY <1>3 DEF Extended, OnlyAt, Longer

(* One node more loses none. *)
LEMMA ExtendedGrows ==
    ASSUME NEW d0, NEW c, Sound(d0, c), NEW d, NEW s, Extended(d0, d, s)
    PROVE  Grows(d0, d)
<1>1. \A t \in Sec : Len(d0.flash[t].nodes) \in Nat
  BY SoundFields DEF Sound, Sectors
<1> QED BY <1>1 DEF Extended, Grows

(* One node more, and then a change of the tables. *)
LEMMA ExtendedTabled ==
    ASSUME NEW d0, NEW d, NEW e, NEW s, Extended(d0, d, s), Tabled(d, e)
    PROVE  Extended(d0, e, s)
  BY SMTT(30) DEF Extended, Tabled, Kept

\* The table is told of the node at the end.
LEMMA TailTold ==
    ASSUME NEW d0, NEW c, Sound(d0, c), NEW s, NEW q, q = d0.flash[s].nodes, NEW e, Half(e, c, s),
           OnlyAt(d0, e, s), NEW w, Ends(e, s, q, w), NEW at, at = EndOf(s, q),
           NEW d, d = update_sector_empty_addr_cache(e, at[1], at[2] + 1)
    PROVE  /\ Sound(d, c) /\ Extended(d0, d, s) /\ Left(d, c, s) /\ Ends(d, s, q, w) /\ Tabled(e, d)
<1>1. s \in Sec /\ e.flash[s].store = USING /\ Left(e, c, s)
  BY DEF Half
<1>2. Extended(d0, e, s) /\ e.flash[s].nodes # <<>> /\ Len(e.flash[s].nodes) = Len(q) + 1
  <2>1. Longer(d0, e, s, q)
    BY <1>1, EndsExtended, Zenon
  <2> QED BY <2>1, Zenon DEF Longer
<1>3. at[1] = s /\ at[2] + 1 = Len(e.flash[s].nodes) + 1
  BY <1>2 DEF EndOf
<1>4. Sound(d, c) /\ Tabled(e, d)
  BY <1>2, <1>3, HalfTold
<1>5. Extended(d0, d, s) /\ Left(d, c, s)
  BY <1>1, <1>2, <1>4, ExtendedTabled, TabledLeft
<1>6. Ends(d, s, q, w)
  BY <1>4 DEF Tabled, Ends
<1> QED BY <1>4, <1>5, <1>6

\* A sector's nodes are as long as they were, and the rest of it is the same.
Rewrites(old, x) == /\ old.nodes # <<>> /\ x \in Sectors /\ x.store = old.store /\ x.dirty = old.dirty
                    /\ x.ok = old.ok /\ Len(x.nodes) = Len(old.nodes)
                    /\ \A i \in 1 .. Len(x.nodes) : SameLength(x.nodes[i], old.nodes[i])

(* A sector is rewritten with nodes of the same lengths: the store stays sound. *)
LEMMA RewrittenBy ==
    ASSUME NEW d0, NEW c, Sound(d0, c), NEW s \in Sec, NEW x, Rewrites(d0.flash[s], x), NEW d, d = Written(d0, s, x)
    PROVE  Sound(d, c) /\ Quiet(d0, d) /\ d.flash[s] = x
  BY RewrittenSound DEF Rewrites

(* The rest of a node is written, or its status. *)
LEMMA GrownSound ==
    ASSUME NEW d0, NEW c, Sound(d0, c), NEW s \in Sec, NEW q \in Seq(Nodes), Ends(d0, s, q, 2),
           NEW at, at = EndOf(s, q), NEW d, d = Grown(d0, at, 3)
    PROVE  Sound(d, c) /\ Quiet(d0, d) /\ Placed(d, at)
<1> DEFINE old == d0.flash[s]
           n == old.nodes
<1>1. old \in Sectors
  BY SoundFields DEF Sound
<1>2. PICK node \in Nodes : node.w = 2 /\ n = Append(q, node)
  BY DEF Ends
<1> DEFINE more == WithW(node, 3)
           x == LastIs(old, q, more)
<1>3. more \in Nodes /\ more.w = 3
  BY DEF WithW, Nodes
<1>4. /\ Len(q) + 1 \in DOMAIN n /\ n[Len(q) + 1] = node
      /\ PutAt(n, Len(q) + 1, more) = Append(q, more)
  <2> HIDE DEF more, n
  <2> QED BY <1>2, <1>3, LastChanged
<1>5. d = Written(d0, s, [old EXCEPT !.nodes = PutAt(n, Len(q) + 1, more)])
  BY <1>1, <1>4 DEF Grown, EndOf, WithW, Sectors, PutAt
<1>6. d = Written(d0, s, x)
  BY <1>4, <1>5 DEF LastIs
<1> HIDE DEF more
<1>7. SameLength(more, node)
  BY <1>2, <1>3 DEF SameLength, Visible, LenOf
<1>8. Append(q, more) \in Seq(Nodes) /\ Len(Append(q, more)) = Len(n) /\ n # <<>>
      /\ \A i \in 1 .. Len(Append(q, more)) : Append(q, more)[i] = n[i]
                                              \/ (Append(q, more)[i] = more /\ n[i] = node)
  BY <1>2, <1>3
<1>9. /\ x \in Sectors /\ x.store = old.store /\ x.dirty = old.dirty /\ x.nodes = Append(q, more)
  BY <1>1, <1>8 DEF LastIs, Sectors
<1>10. x.ok = old.ok
  BY <1>1 DEF LastIs, Sectors
<1> HIDE DEF x
<1>11. \A i \in 1 .. Len(x.nodes) : SameLength(x.nodes[i], n[i])
  <2>1. \A k : SameLength(k, k)
    BY DEF SameLength
  <2> QED BY <1>7, <1>8, <1>9, <2>1, Zenon
<1>12. Len(x.nodes) = Len(n)
  BY <1>8, <1>9
<1>13. Sound(d, c) /\ Quiet(d0, d) /\ d.flash[s] = x
  <2>1. Rewrites(old, x)
    BY <1>8, <1>9, <1>10, <1>11, <1>12, Zenon DEF Rewrites
  <2> QED BY <1>6, <2>1, RewrittenBy
<1>14. Placed(d, at)
  <2>1. Len(x.nodes) = Len(q) + 1
    BY <1>3, <1>9
  <2> QED BY <1>13, <2>1 DEF Placed, EndOf
<1> QED BY <1>13, <1>14

-----------------------------------------------------------------------------
(* A pair is written where there is room. *)
(* Room is at the end of its sector. *)
LEMMA RoomIsEnd ==
    ASSUME NEW d0, NEW c, NEW at, NEW info, NEW size, Room(d0, c, at, info, size), NEW s, s = at[1],
           NEW q, q = d0.flash[s].nodes
    PROVE  at = EndOf(s, q)
<1>1. at = <<info.at, info.empty>> /\ info.empty = Len(q) + 1
  BY DEF Room
<1> QED BY <1>1 DEF EndOf

WithGc(d0, b) == [d0 EXCEPT !.gcReq = b]

(* Setting a flag to what it is changes nothing. *)
LEMMA GcSame ==
    ASSUME NEW d0 \in Stores, NEW b, b = d0.gcReq
    PROVE  WithGc(d0, b) = d0
  BY DEF WithGc, Stores

(* create_kv_blob, given room, makes one node there and keeps the store sound. *)
LEMMA CreateSound ==
    ASSUME NEW d0, NEW c, Sound(d0, c), NEW at, NEW info, Room(d0, c, at, info, KvLen),
           NEW key \in Names, NEW val \in Values \cup {"none"},
           NEW u, u = InUse(d0, info), NEW d, d = CreateIn(u, at, key, val)
    PROVE  Sound(d, c) /\ Grows(d0, d) /\ Kept(d0, d) /\ Left(d, c, at[1])
<1> DEFINE s == at[1]
           q == d0.flash[s].nodes
           e == write_kv_hdr(u.db, at, key, val)
           f == update_sector_empty_addr_cache(e, at[1], at[2] + 1)
           g == update_kv_cache(f, key, at)
           h == Grown(g, at, 3)
           w == WriteKvStatus(h, at, WRITE)
           b == w.gcReq \/ u.full
<1>1. at = EndOf(s, q)
  BY RoomIsEnd, SMTT(30)
<1>2. s \in Sec /\ RoomFor(q) /\ q \in Seq(Nodes)
  BY RoomNodes DEF Room, RoomFor
<1>3. Half(u.db, c, s) /\ ~u.full /\ OnlyAt(d0, u.db, s) /\ u.db.flash[s].nodes = q
  BY UseSound
<1>4. d = WithGc(w, b)
  BY <1>3 DEF CreateIn, Finished, Sized, NewAddress, WithGc
<1> HIDE DEF s, q
<1>5. Half(e, c, s) /\ OnlyAt(u.db, e, s) /\ Ends(e, s, q, 2)
  BY <1>1, <1>2, <1>3, HdrSound
<1>6. OnlyAt(d0, e, s)
  BY <1>3, <1>5, OnlyTrans
<1> HIDE DEF e
<1>7. Sound(f, c) /\ Extended(d0, f, s) /\ Left(f, c, s) /\ Ends(f, s, q, 2)
  BY <1>1, <1>5, <1>6, TailTold DEF q
<1> HIDE DEF f
<1>8. at \in Addresses
  BY <1>2 DEF Room, Addresses
<1>9. Sound(g, c) /\ Tabled(f, g)
  BY <1>7, <1>8, AddressSound DEF Sound
<1>10. Extended(d0, g, s) /\ Left(g, c, s) /\ Ends(g, s, q, 2)
  BY <1>7, <1>9, ExtendedTabled, TabledLeft DEF Tabled, Ends
<1> HIDE DEF g
<1>11. Sound(h, c) /\ Quiet(g, h) /\ Placed(h, at)
  BY <1>1, <1>2, <1>9, <1>10, GrownSound
<1> HIDE DEF h
<1>12. Sound(w, c) /\ Quiet(h, w)
  <2>1. WRITE \in 0 .. 5
    BY DEF WRITE
  <2> QED BY <1>11, <2>1, StatusSound
<1>13. Quiet(g, w)
  BY <1>9, <1>11, <1>12, QuietTrans
<1> HIDE DEF w
<1>14. d = w
  <2>1. w \in Stores /\ w.gcReq \in BOOLEAN
    BY <1>12, SoundFields DEF Sound
  <2>2. b = w.gcReq
    BY <1>3, <2>1
  <2> QED BY <1>4, <2>1, <2>2, GcSame
<1>15. Grows(d0, g)
  BY <1>10, ExtendedGrows
<1>16. Grows(g, w) /\ Left(w, c, s)
  BY <1>10, <1>13, CalmGrows, CalmLeft DEF Quiet
<1>17. Grows(d0, w)
  BY <1>9, <1>12, <1>15, <1>16, GrowsTrans
<1>18. Kept(d0, w)
  BY <1>10, <1>13 DEF Extended, Quiet, Kept
<1> QED BY <1>12, <1>14, <1>16, <1>17, <1>18 DEF s

-----------------------------------------------------------------------------
(* A node is copied where there is room. *)
LEMMA CopySound ==
    ASSUME NEW d0, NEW c, Sound(d0, c), NEW room, Room(d0, c, room.at, room.info, KvLen),
           NEW kv \in Nodes, CrcOk(kv), NEW d, d = CopyTo(d0, kv, room)
    PROVE  Sound(d, c) /\ Grows(d0, d) /\ Kept(d0, d) /\ Left(d, c, room.at[1])
<1> DEFINE at == room.at
           info == room.info
           s == at[1]
           q == d0.flash[s].nodes
           u == InUse(d0, info)
           e == write_kv_hdr(u.db, at, kv.key, kv.val)
           f == Grown(e, at, 3)
           g == WriteKvStatus(f, at, WRITE)
           h == update_sector_empty_addr_cache(g, at[1], at[2] + 1)
<1>1. at = EndOf(s, q)
  BY RoomIsEnd
<1>2. s \in Sec /\ RoomFor(q) /\ q \in Seq(Nodes)
  BY RoomNodes DEF Room, RoomFor
<1>3. Half(u.db, c, s) /\ ~u.full /\ OnlyAt(d0, u.db, s) /\ u.db.flash[s].nodes = q
  BY UseSound
<1>4. d = update_kv_cache(h, kv.key, at)
  <2>1. LenOf(kv) = KvLen
    BY DEF LenOf, CrcOk
  <2> QED BY <2>1 DEF CopyTo, CopyNoted, Copied, InUse
<1>5. kv.key \in Names /\ kv.val \in Values \cup {"none"}
  BY DEF Nodes
<1> HIDE DEF s, q, u
<1>6. Half(e, c, s) /\ OnlyAt(u.db, e, s) /\ Ends(e, s, q, 2)
  BY <1>1, <1>2, <1>3, <1>5, HdrSound
<1> HIDE DEF e
<1>7. Half(f, c, s) /\ OnlyAt(e, f, s) /\ Ends(f, s, q, 3)
  BY <1>1, <1>2, <1>6, HalfGrown
<1> HIDE DEF f
<1>8. Half(g, c, s) /\ OnlyAt(f, g, s) /\ Ends(g, s, q, 3)
  <2>1. WRITE \in 0 .. 5
    BY DEF WRITE
  <2> QED BY <1>1, <1>2, <1>7, <2>1, HalfStatus
<1> HIDE DEF g
<1>9. OnlyAt(d0, g, s)
  BY <1>3, <1>6, <1>7, <1>8, OnlyTrans
<1>10. Sound(h, c) /\ Extended(d0, h, s) /\ Left(h, c, s)
  BY <1>1, <1>8, <1>9, TailTold DEF q
<1> HIDE DEF h
<1>11. at \in Addresses
  BY DEF Room, Addresses
<1>12. Sound(d, c) /\ Tabled(h, d)
  BY <1>4, <1>10, <1>11, AddressSound DEF Sound
<1>13. Extended(d0, d, s) /\ Left(d, c, s)
  BY <1>10, <1>12, ExtendedTabled, TabledLeft
<1> QED BY <1>12, <1>13, ExtendedGrows DEF Extended, s

(* A change that leaves the sectors as long as they are loses no node. *)
LEMMA QuietGrows ==
    ASSUME NEW d0, NEW d, Quiet(d0, d)
    PROVE  Grows(d0, d)
  BY CalmGrows DEF Quiet

\* A copy is made, unless one is there.
LEMMA UnlessThereSound ==
    ASSUME NEW d0, NEW c, Sound(d0, c), NEW room, room.db = d0, Room(d0, c, room.at, room.info, KvLen),
           NEW kv \in Nodes, CrcOk(kv), NEW there, Sound(there.db, c), Quiet(d0, there.db),
           NEW d, d = UnlessThere(there, kv, room)
    PROVE  Sound(d, c) /\ Grows(d0, d) /\ Kept(d0, d) /\ Left(d, c, room.at[1])
<1>1. Room(there.db, c, room.at, room.info, KvLen)
  BY RoomQuiet
<1>2. CASE there.at # Nowhere
  <2>1. d = there.db
    BY <1>2 DEF UnlessThere
  <2>2. Left(d0, c, room.at[1])
    BY DEF Room
  <2>3. Left(d, c, room.at[1])
    BY <2>1, <2>2, CalmLeft DEF Quiet
  <2> QED BY <2>1, <2>3, QuietGrows DEF Quiet
<1>3. CASE there.at = Nowhere
  <2>1. d = CopyTo(there.db, kv, room)
    BY <1>3 DEF UnlessThere
  <2>2. Sound(d, c) /\ Grows(there.db, d) /\ Kept(there.db, d) /\ Left(d, c, room.at[1])
    BY <1>1, <2>1, CopySound
  <2>3. Grows(d0, d)
    BY <2>2, QuietGrows, GrowsTrans
  <2> QED BY <2>2, <2>3 DEF Kept, Quiet
<1> QED BY <1>2, <1>3

\* What is looked for before a copy is made.
ThereOf(room, kv) == IF room.db.recov /\ kv.st = PRE_DELETE THEN find_kv_no_cache(room.db, kv.key) ELSE NoFind(room.db)

(* Before a node is moved in a recovery its successor is looked for: the store stays sound. *)
LEMMA ThereSound ==
    ASSUME NEW room, NEW c, Sound(room.db, c), NEW kv \in Nodes, NEW there, there = ThereOf(room, kv)
    PROVE  Sound(there.db, c) /\ Quiet(room.db, there.db)
<1>1. kv.key \in Names
  BY DEF Nodes
<1>2. CASE room.db.recov /\ kv.st = PRE_DELETE
  <2>1. there = find_kv_no_cache(room.db, kv.key)
    BY <1>2 DEF ThereOf
  <2> QED BY <1>1, <2>1, NoCacheSound
<1>3. CASE ~(room.db.recov /\ kv.st = PRE_DELETE)
  <2>1. there = NoFind(room.db)
    BY <1>3 DEF ThereOf
  <2>2. there.db = room.db
    BY <2>1 DEF NoFind
  <2>3. Tabled(room.db, room.db)
    BY DEF Tabled, Kept
  <2> QED BY <2>2, <2>3, QuietSame
<1> QED BY <1>2, <1>3

\* The mode after a collection's or a recovery's step.
Stays(d0, d, c) == /\ Sound(d, c) /\ Grows(d0, d)
                   /\ c = NSec => Empty(d)
                   /\ c \in Sec => d.gcReq

(* move_kv keeps the store sound and the collector's sector, and asks for no collection. *)
LEMMA MoveSound ==
    ASSUME NEW d0, NEW c, Sound(d0, c), Mode(d0, c), NEW a, Placed(d0, a), CrcOk(Node(d0, a)),
           NEW m, m = move_kv(d0, a)
    PROVE  Stays(d0, m.db, c) /\ (m.ok => Mode(m.db, c))
<1> DEFINE kv == Node(d0, a)
           e == IF kv.st = WRITE THEN Prepares(d0, a) ELSE d0
           r == alloc_kv(e, KvLen)
           there == ThereOf(r, kv)
           f == UnlessThere(there, kv, r)
           g == Finishes(f, a)
<1>1. kv \in Nodes /\ LenOf(kv) = KvLen
  BY PlacedNode DEF LenOf, CrcOk
<1>2. m = MovedTo(r, kv, a)
  BY <1>1 DEF move_kv, MoveNode, Prepares
<1>3. Sound(e, c) /\ Quiet(d0, e) /\ Placed(e, a)
  <2>1. CASE kv.st = WRITE
    BY <2>1, PreparesSound
  <2>2. CASE kv.st # WRITE
    <3>1. Tabled(d0, d0)
      BY DEF Tabled, Kept
    <3> QED BY <2>2, <3>1, QuietSame
  <2> QED BY <2>1, <2>2
<1> HIDE DEF kv, e
<1>4. Mode(e, c)
  BY <1>3, QuietEmpty DEF Mode
<1>5. KvLen \in Nat
  BY Sizes
<1>6. /\ Sound(r.db, c) /\ Calm(e.flash, r.db.flash) /\ (e.gcReq => r.db.gcReq)
      /\ r.at # Nowhere => Room(r.db, c, r.at, r.info, KvLen) /\ Quiet(e, r.db)
  BY <1>3, <1>4, <1>5, AllocSound
<1>7. Grows(d0, r.db)
  <2>1. Grows(d0, e) /\ Grows(e, r.db)
    BY <1>3, <1>6, QuietGrows, CalmGrows
  <2> QED BY <1>3, <1>6, <2>1, GrowsTrans
<1> HIDE DEF r
<1>8. CASE r.at = Nowhere
  <2>1. m.db = r.db
    BY <1>2, <1>8 DEF MovedTo
  <2>2. ~m.ok
    BY <1>2, <1>8 DEF MovedTo
  <2>3. c = NSec => Empty(r.db)
    BY <1>4, <1>6, Sizes DEF Mode, Empty, Calm, CalmAt
  <2>4. c \in Sec => r.db.gcReq
    BY <1>4, <1>6, Sizes DEF Mode
  <2> QED BY <1>6, <1>7, <2>1, <2>2, <2>3, <2>4 DEF Stays
<1>9. CASE r.at # Nowhere
  <2>1. m = [db |-> g, ok |-> TRUE]
    BY <1>2, <1>9, Zenon DEF MovedTo, Finishes, ThereOf
  <2>2. m.db = g
    BY <2>1
  <2>3. Room(r.db, c, r.at, r.info, KvLen) /\ Quiet(e, r.db)
    BY <1>6, <1>9
  <2>4. Sound(there.db, c) /\ Quiet(r.db, there.db)
    BY <1>1, <1>6, ThereSound
  <2> HIDE DEF there
  <2>5. CrcOk(kv)
    BY DEF kv
  <2>6. Sound(f, c) /\ Grows(r.db, f) /\ Kept(r.db, f) /\ Left(f, c, r.at[1])
    BY <1>1, <1>6, <2>3, <2>4, <2>5, UnlessThereSound
  <2> HIDE DEF f
  <2>7. Placed(r.db, a)
    BY <1>3, <1>6, <2>3, PlacedQuiet
  <2>8. Placed(f, a)
    BY <1>6, <2>6, <2>7, GrowsPlaced
  <2>9. Sound(g, c) /\ Quiet(f, g)
    BY <2>6, <2>8, FinishesSound
  <2> HIDE DEF g
  <2>10. Grows(d0, g)
    <3>1. Grows(f, g)
      BY <2>9, QuietGrows
    <3>2. Grows(d0, f)
      BY <1>6, <1>7, <2>6, GrowsTrans
    <3> QED BY <2>6, <2>9, <3>1, <3>2, GrowsTrans
  <2>11. Left(g, c, r.at[1])
    BY <2>6, <2>9, CalmLeft DEF Quiet
  <2>12. g.gcReq = e.gcReq
    BY <2>3, <2>6, <2>9 DEF Quiet, Kept
  <2>13. c = NSec => Empty(g)
    BY <2>11, Sizes DEF Left, Empty
  <2>14. Mode(g, c)
    BY <1>4, <2>12, <2>13, Sizes DEF Mode
  <2>15. c \in Sec => g.gcReq
    BY <2>14, Sizes DEF Mode
  <2> QED BY <2>2, <2>9, <2>10, <2>13, <2>14, <2>15 DEF Stays
<1> QED BY <1>8, <1>9

-----------------------------------------------------------------------------
(* A sector is marked for collection, and its live nodes are moved out. *)
GcSector(x) == [x EXCEPT !.dirty = Later(x.dirty, GC)]
(* A dirty sector is marked as being collected. *)
LEMMA GcFields ==
    ASSUME NEW x \in Sectors, x.dirty \in {DIRTY, GC}, NEW y, y = GcSector(x)
    PROVE  y \in Sectors /\ y.store = x.store /\ y.dirty = GC /\ y.nodes = x.nodes /\ (x.ok => y.ok)
<1>1. Later(x.dirty, GC) = 3
  <2>1. x.dirty \in 0 .. 5 /\ GC = 3 /\ x.dirty <= 3
    BY DEF DIRTY, GC
  <2>2. Later(x.dirty, GC) = IF GC > x.dirty THEN GC ELSE x.dirty
    BY <2>1, LaterIs
  <2> QED BY <2>1, <2>2
<1>2. y = [x EXCEPT !.dirty = 3]
  BY <1>1 DEF GcSector
<1>3. y \in Sectors /\ y.store = x.store /\ y.dirty = GC /\ y.nodes = x.nodes
  BY <1>2 DEF Sectors, GC
<1>4. x.ok => y.ok
  BY <1>2 DEF Sectors
<1> QED BY <1>3, <1>4

(* From the mark on, the store is sound with that sector in collection. *)
LEMMA MarkedSound ==
    ASSUME NEW d0, Sound(d0, NSec), NEW s \in Sec, d0.flash[s].dirty \in {DIRTY, GC},
           NEW d, d = WriteDirty(d0, s, GC)
    PROVE  Sound(d, s) /\ Kept(d0, d) /\ d.flash[s].store = USING
<1> DEFINE old == d0.flash[s]
           x == GcSector(old)
<1>1. old \in Sectors /\ Shape(old) /\ SoundBut(d0, NSec, s) /\ d0 \in Stores /\ NSec \notin Sec
  BY SoundWeakens, SoundFields, Sizes DEF Sound
<1>2. old # Erased /\ old # Formatted
  BY BlankSectors DEF DIRTY, GC, CLEAN, UNUSED
<1>3. old.store = USING /\ old.ok /\ Remain(old) \in Nat
  BY <1>1, <1>2, ShapeFacts
<1>4. d = Written(d0, s, x)
  BY DEF WriteDirty, GcSector
<1>5. x \in Sectors /\ x.store = USING /\ x.dirty = GC /\ x.nodes = old.nodes /\ x.ok
  BY <1>1, <1>3, GcFields
<1> HIDE DEF x
<1>6. Remain(x) = Remain(old)
  BY <1>5 DEF Remain
<1>7. Shape(x) /\ Spare(x)
  BY <1>3, <1>5, <1>6 DEF Shape, Spare
<1>8. SoundBut(d, NSec, s)
  BY <1>1, <1>4, <1>5, <1>7, WrittenSound
<1>9. /\ d.flash[s] = x /\ Kept(d0, d) /\ d.secCache = d0.secCache
      /\ \A t \in Sec \ {s} : d.flash[t] = d0.flash[t]
  BY <1>1, <1>4, <1>5, WrittenFields
<1>10. ASSUME NEW t \in Sec, Cached(d, t) PROVE d.secCache[t].ok /\ Tells(d.secCache[t], t, d.flash[t], s)
  <2>1. Cached(d0, t) /\ d.secCache[t] = d0.secCache[t]
    BY <1>9, <1>10 DEF Cached
  <2>2. d0.secCache[t].ok /\ Tells(d0.secCache[t], t, d0.flash[t], NSec)
    BY <1>1, <2>1 DEF Sound, SoundBut
  <2>3. CASE t # s
    BY <1>1, <1>9, <2>1, <2>2, <2>3 DEF Tells
  <2>4. CASE t = s
    <3>1. d0.secCache[s].dirty # CLEAN
      BY <1>1, <2>2, <2>4 DEF Tells, CLEAN, DIRTY, GC
    <3>2. d.secCache[s].ok = x.ok
      <4>1. d.secCache[s].ok /\ x.ok /\ d.secCache[s] \in Infos
        BY <1>5, <2>1, <2>2, <2>4 DEF Tells
      <4> QED BY <4>1, <1>5, Zenon DEF Infos, Sectors
    <3>3. Tells(d.secCache[s], s, x, s)
      <4>1. /\ d0.secCache[s] \in Infos /\ d0.secCache[s].at = s /\ d0.secCache[s].store = old.store
            /\ \/ d0.secCache[s].empty = FAILED /\ d0.secCache[s].remain = 0
               \/ /\ d0.secCache[s].empty = Len(old.nodes) + 1 /\ d0.secCache[s].remain = Remain(old)
                  /\ old.nodes # <<>>
        BY <1>2, <2>2, <2>4 DEF Tells
      <4> QED BY <1>3, <1>5, <1>6, <2>1, <2>4, <3>1, <3>2, <4>1 DEF Tells
    <3> QED BY <1>9, <2>1, <2>2, <2>4, <3>3
  <2> QED BY <2>3, <2>4
<1>11. Sound(d, s)
  BY <1>1, <1>5, <1>8, <1>9, <1>10 DEF Sound, SoundBut
<1> QED BY <1>5, <1>9, <1>11

\* The nodes of a sector are moved out.
VacateStep(a, head) == IF a.stop \/ a.i = FAILED THEN a ELSE VisitKv(a, head, <<head.at, a.i>>, MoveLive)
Vacate == INSTANCE ListProofs WITH Step <- VacateStep

(* What each node moved keeps holds at the end of the sector. *)
LEMMA VacateWalk ==
    ASSUME NEW acc, NEW info, NEW A, WithI(acc, 1) \in A,
           \A a \in A : VacateStep(a, info) \in A
    PROVE  EachKv(acc, info, MoveLive) \in A
<1>1. EachKv(acc, info, MoveLive)
          = Vacate!FoldLeft(VacateStep, WithI(acc, 1), [n \in 1 .. SecSize |-> info])
  BY Zenon DEF EachKv, VacateStep, WithI, FoldLeft, MapThenFoldSet, Max, Vacate!FoldLeft,
               Vacate!MapThenFoldSet, Vacate!Max
<1>2. Vacate!FoldLeft(VacateStep, WithI(acc, 1), [n \in 1 .. SecSize |-> info]) \in A
  BY SecSizeIs, Vacate!AlwaysTimes, Zenon
<1> QED BY <1>1, <1>2, Zenon

(* The live nodes of a sector are moved out: the store stays sound. *)
LEMMA EmptiedSound ==
    ASSUME NEW d0, Sound(d0, NSec), d0.gcReq, NEW s \in Sec, d0.flash[s].dirty \in {DIRTY, GC},
           NEW info, info.at = s, NEW e, e = Emptied(d0, info)
    PROVE  Sound(e, s) /\ e.gcReq
<1> DEFINE d == WriteDirty(d0, s, GC)
           acc == NoFind(d)
           A == {a \in Walks : InSector(a, s, s) /\ a.db.gcReq}
<1>1. Sound(d, s) /\ d.gcReq /\ d.flash[s].store = USING
  BY MarkedSound DEF Kept
<1> HIDE DEF d
<1>2. acc \in Walks /\ acc.db = d
  <2>1. d \in Stores
    BY <1>1, SoundFields DEF Sound
  <2> QED BY <2>1, WalkStarts
<1>3. e = EachKv(acc, info, MoveLive).db
  BY DEF Emptied, d
<1> HIDE DEF acc
<1>4. WithI(acc, 1) \in A
  <2> DEFINE b == WithI(acc, 1)
  <2>1. InSector(b, s, s) /\ b.db = d
    BY <1>1, <1>2, WalkBegins
  <2> HIDE DEF b
  <2> QED BY <1>1, <2>1 DEF InSector, b
<1>5. ASSUME NEW a \in A PROVE VacateStep(a, info) \in A
  <2>1. a \in Walks /\ InSector(a, s, s) /\ a.db.gcReq
    BY <1>5
  <2>2. CASE a.stop \/ a.i = FAILED
    BY <2>1, <2>2 DEF VacateStep
  <2>3. CASE ~a.stop /\ a.i # FAILED
    <3> DEFINE p == <<s, a.i>>
               b == WithDb(a, read_kv(a.db, p))
               w == MoveLive(b, p)
               f == AtNextKv(w, info, p)
    <3>1. VacateStep(a, info) = f
      BY <2>3 DEF VacateStep, VisitKv, WithDb
    <3>2. b \in Walks /\ Sound(b.db, s) /\ Quiet(a.db, b.db) /\ b.db.flash[s].store = USING /\ Placed(b.db, p)
      BY <2>1, <2>3, ReadWalk
    <3>3. a.i \in Nat
      BY <2>1 DEF Walks
    <3>4. b.db.gcReq
      BY <2>1, <3>2 DEF Quiet, Kept
    <3> HIDE DEF b
    <3>5. w \in Walks /\ Sound(w.db, s) /\ w.db.gcReq /\ w.db.flash[s].store = USING
      <4>1. CASE ~(CrcOk(Node(b.db, p)) /\ Node(b.db, p).st \in {WRITE, PRE_DELETE})
        <5>1. w = b
          BY <4>1 DEF MoveLive
        <5> HIDE DEF w
        <5> QED BY <3>2, <3>4, <5>1
      <4>2. CASE CrcOk(Node(b.db, p)) /\ Node(b.db, p).st \in {WRITE, PRE_DELETE}
        <5> DEFINE m == move_kv(b.db, p)
        <5>1. w = WithDb(b, m.db)
          BY <4>2 DEF MoveLive, WithDb
        <5>2. Mode(b.db, s)
          BY <3>4 DEF Mode
        <5>3. Stays(b.db, m.db, s)
          BY <3>2, <4>2, <5>2, MoveSound
        <5> HIDE DEF m, w
        <5>4. Sound(m.db, s) /\ m.db.gcReq /\ m.db.flash[s].store = USING
          BY <3>2, <5>3 DEF Stays, Grows
        <5>5. m.db \in Stores
          BY <5>4, SoundFields DEF Sound
        <5>6. w \in Walks /\ w.db = m.db
          BY <3>2, <5>1, <5>5, WalkDb
        <5> QED BY <5>4, <5>6
      <4> QED BY <4>1, <4>2
    <3> HIDE DEF w
    <3>6. InSector(f, s, s) /\ f.db = w.db
      BY <3>3, <3>5, NextWalk
    <3> HIDE DEF f
    <3> QED BY <3>1, <3>5, <3>6 DEF InSector
  <2> QED BY <2>2, <2>3
<1>6. EachKv(acc, info, MoveLive) \in A
  <2> HIDE DEF A
  <2> QED BY <1>4, <1>5, VacateWalk
<1> QED BY <1>3, <1>6 DEF InSector

-----------------------------------------------------------------------------
(* A sector is formatted. *)
LEMMA FormatSound ==
    ASSUME NEW d0, NEW s \in Sec, SoundBut(d0, NSec, s), NEW d, d = format_sector(d0, s)
    PROVE  /\ Sound(d, NSec) /\ Kept(d0, d) /\ d.flash[s] = Formatted
           /\ \A t \in Sec \ {s} : d.flash[t] = d0.flash[t]
<1> DEFINE e == Written(d0, s, Erased)
           f == Written(e, s, Formatted)
           info == [NoInfo EXCEPT !.at = s]
<1>1. s # NSec /\ d0 \in Stores
  BY Sizes, SoundFields
<1>2. SoundBut(e, NSec, s)
  BY <1>1, BlankSectors, WrittenSound
<1>3. e \in Stores /\ Kept(d0, e) /\ \A t \in Sec \ {s} : e.flash[t] = d0.flash[t]
  BY <1>1, BlankSectors, WrittenFields
<1>4. d = update_sector_cache(f, info)
  BY DEF format_sector
<1> HIDE DEF e
<1>5. SoundBut(f, NSec, s)
  BY <1>1, <1>2, BlankSectors, WrittenSound
<1>6. f.flash[s] = Formatted /\ Kept(e, f) /\ \A t \in Sec \ {s} : f.flash[t] = e.flash[t]
  BY <1>3, BlankSectors, WrittenFields
<1> HIDE DEF f
<1>7. Sound(d, NSec) /\ Tabled(f, d)
  BY <1>4, <1>5, TableForgets
<1> QED BY <1>3, <1>6, <1>7 DEF Tabled, Kept

(* While a sector is collected the store is sound but for its entry. *)
LEMMA CollectedBut ==
    ASSUME NEW d0, NEW s \in Sec, Sound(d0, s)
    PROVE  SoundBut(d0, NSec, s)
<1>1. NSec \notin Sec
  BY Sizes
<1>2. \A t \in Sec \ {s} : Cached(d0, t) => d0.secCache[t].ok /\ Tells(d0.secCache[t], t, d0.flash[t], NSec)
  BY <1>1 DEF Sound, SoundBut, Tells
<1> QED BY <1>1, <1>2 DEF Sound, SoundBut

WithOldest(d0, o) == [d0 EXCEPT !.oldest = o]

(* The collector moves the oldest sector: the store stays sound. *)
LEMMA OldestSound ==
    ASSUME NEW d0, NEW c, Sound(d0, c), NEW o \in Sec, NEW d, d = WithOldest(d0, o)
    PROVE  Sound(d, c) /\ d.flash = d0.flash /\ d.gcReq = d0.gcReq /\ d.trace = d0.trace
<1>1. d0 \in Stores
  BY SoundFields DEF Sound
<1>2. d \in Stores /\ d.flash = d0.flash /\ d.gcReq = d0.gcReq /\ d.trace = d0.trace /\ d.secCache = d0.secCache
  BY <1>1 DEF Stores, WithOldest
<1> QED BY <1>2 DEF Sound, SoundBut, Cached

GcDone(a, d, s, stop) == [a EXCEPT !.db = d, !.last = s, !.stop = stop]

(* A walk that has collected a sector. *)
LEMMA WalkGcDone ==
    ASSUME NEW a \in Walks, NEW d \in Stores, NEW s \in Sec, NEW stop \in BOOLEAN, NEW b, b = GcDone(a, d, s, stop)
    PROVE  b \in Walks /\ b.db = d /\ b.last = s /\ b.size = a.size
<1>1. s \in Nat
  BY Sizes
<1> QED BY <1>1 DEF Walks, GcDone

(* do_gc moves the live nodes of a sector out and formats it: there is an empty sector. *)
LEMMA DoGcSound ==
    ASSUME NEW a \in Walks, Sound(a.db, NSec), a.db.gcReq, a.last \in Sec, NEW s \in Sec, NEW info,
           Tells(info, s, a.db.flash[s], NSec), info.ok, info.dirty \in {DIRTY, GC},
           NEW w, w = do_gc(a, info)
    PROVE  w \in Walks /\ Sound(w.db, NSec) /\ w.db.gcReq /\ w.last \in Sec /\ Empty(w.db)
<1> DEFINE e == Emptied(a.db, info)
           f == format_sector(e, s)
           o == get_next_sector_addr(info, 0)
           g == WithOldest(f, o)
           r == FullOf(g, a.last)
           stop == r.info.ok /\ r.info.remain > a.size
<1>1. info.at = s /\ info \in Infos /\ a.db.flash[s].dirty \in {DIRTY, GC}
  BY Sizes DEF Tells
<1>2. Sound(e, s) /\ e.gcReq
  BY <1>1, EmptiedSound
<1>3. w = GcDone(a, r.db, s, stop)
  BY <1>1, Zenon DEF do_gc, AfterGc, FormattedNext, WithOldest, FullOf, GcDone
<1> HIDE DEF e
<1>4. SoundBut(e, NSec, s)
  BY <1>2, CollectedBut
<1>5. Sound(f, NSec) /\ f.gcReq /\ f.flash[s] = Formatted
  BY <1>2, <1>4, FormatSound DEF Kept
<1> HIDE DEF f
<1>6. o \in Sec
  BY <1>1, NextSector
<1> HIDE DEF o
<1>7. Sound(g, NSec) /\ g.gcReq /\ Empty(g)
  BY <1>5, <1>6, OldestSound, ZenonT(30) DEF Empty
<1> HIDE DEF g
<1>8. Sound(r.db, NSec) /\ Quiet(g, r.db)
  BY <1>7, InfoRead DEF FullOf
<1>9. r.db.gcReq /\ Empty(r.db)
  BY <1>7, <1>8, QuietEmpty
<1>10. r.db \in Stores
  BY <1>8, SoundFields DEF Sound
<1>11. stop \in BOOLEAN
  OBVIOUS
<1> HIDE DEF r, stop
<1>12. w \in Walks /\ w.db = r.db /\ w.last = s
  BY <1>3, <1>10, <1>11, WalkGcDone
<1> QED BY <1>8, <1>9, <1>12

-----------------------------------------------------------------------------
(* The empty sectors are counted, and then the dirty ones collected. *)
GcCheckStep(a, n) == IF a.stop \/ a.sec = NSec THEN a
                  ELSE VisitSector(a, HeadOf(a.db, a.sec), n, EMPTY, FALSE, gc_check_cb)
GcCheck == INSTANCE ListProofs WITH Step <- GcCheckStep

(* What each sector checked keeps holds of the check before a collection. *)
LEMMA GcCheckWalk ==
    ASSUME NEW acc, NEW A, WithSec(acc, acc.db.oldest) \in A,
           \A n \in 1 .. NSec + 1 : \A a \in A : GcCheckStep(a, n) \in A
    PROVE  sector_iterator(acc, EMPTY, FALSE, gc_check_cb) \in A
<1>1. sector_iterator(acc, EMPTY, FALSE, gc_check_cb)
          = GcCheck!FoldLeft(GcCheckStep, WithSec(acc, acc.db.oldest), [n \in 1 .. NSec + 1 |-> n])
  BY Zenon DEF sector_iterator, HeadOf, GcCheckStep, WithSec, FoldLeft, MapThenFoldSet, Max, GcCheck!FoldLeft,
               GcCheck!MapThenFoldSet, GcCheck!Max
<1>2. GcCheck!FoldLeft(GcCheckStep, WithSec(acc, acc.db.oldest), [n \in 1 .. NSec + 1 |-> n]) \in A
  BY OneMore, GcCheck!AlwaysCounting, Zenon
<1> QED BY <1>1, <1>2, Zenon

GcChecked(a, s) == [a EXCEPT !.empties = @ + 1, !.last = s]

(* A walk that counts an empty sector. *)
LEMMA WalkGcChecked ==
    ASSUME NEW a \in Walks, NEW s \in Sec, NEW b, b = GcChecked(a, s)
    PROVE  b \in Walks /\ b.db = a.db /\ b.last = s /\ (~a.stop => ~b.stop)
<1>1. s \in Nat /\ a.empties + 1 \in Nat
  BY Sizes DEF Walks
<1> DEFINE k == a.empties + 1
<1>2. b = [a EXCEPT !.empties = k, !.last = s] /\ k \in Nat
  BY <1>1 DEF GcChecked
<1> HIDE DEF k
<1>3. b \in Walks /\ b.db = a.db /\ b.last = s
  BY <1>1, <1>2 DEF Walks
<1>4. ~a.stop => ~b.stop
  BY <1>2 DEF Walks
<1> QED BY <1>3, <1>4

\* A walk that counts, since d0.
Counting(d0) == {a \in Walks : /\ Sound(a.db, NSec) /\ Tabled(d0, a.db) /\ ~a.stop /\ a.last \in Sec
                               /\ a.empties # 0 => Empty(a.db)}
CheckedOf(acc) == sector_iterator(acc, EMPTY, FALSE, gc_check_cb)

(* The check changes tables only, and counts a sector only when there is an empty one. *)
LEMMA GcCheckSound ==
    ASSUME NEW d0, Sound(d0, NSec), NEW acc, acc \in Counting(d0), NEW r, r = CheckedOf(acc)
    PROVE  r \in Counting(d0)
<1> DEFINE A == Counting(d0)
<1>1. WithSec(acc, acc.db.oldest) \in A
  <2> DEFINE o == acc.db.oldest
             b == WithSec(acc, o)
  <2>1. acc \in Walks /\ o \in Sec
    BY SoundFields DEF Counting, Sound
  <2> HIDE DEF o
  <2>2. b.db = acc.db /\ Alike(acc, b) /\ b \in Walks
    BY <2>1, RingBegins DEF Around
  <2> HIDE DEF b
  <2>3. b \in A
    BY <2>2 DEF Counting, Alike
  <2> QED BY <2>3 DEF b, o
<1>2. ASSUME NEW n \in 1 .. NSec + 1, NEW a \in A PROVE GcCheckStep(a, n) \in A
  <2>1. a \in Walks /\ Sound(a.db, NSec) /\ Tabled(d0, a.db) /\ ~a.stop /\ a.last \in Sec
        /\ (a.empties # 0 => Empty(a.db))
    BY <1>2 DEF Counting
  <2>2. CASE a.stop \/ a.sec = NSec
    BY <1>2, <2>2 DEF GcCheckStep
  <2>3. CASE ~a.stop /\ a.sec # NSec
    <3> DEFINE s == a.sec
               head == HeadOf(a.db, s)
               b == WithDb(a, head.db)
               w == gc_check_cb(b, head.info)
               v == IF EMPTY = head.info.store THEN w ELSE b
               e == AtNextSector(v, head.info, n)
    <3>1. s \in Sec /\ n \in Nat
      BY <1>2, <2>1, <2>3, Sizes DEF Walks
    <3>2. GcCheckStep(a, n) = e
      <4>1. EMPTY \in {UNUSED, head.info.store} <=> EMPTY = head.info.store
        BY DEF EMPTY, UNUSED
      <4>2. CASE EMPTY = head.info.store
        BY <2>3, <4>1, <4>2, Zenon DEF GcCheckStep, VisitSector, CallOn, WithDb
      <4>3. CASE EMPTY # head.info.store
        BY <2>3, <4>1, <4>3, Zenon DEF GcCheckStep, VisitSector, CallOn, WithDb
      <4> QED BY <4>2, <4>3
    <3>3. /\ b \in Walks /\ b.db = head.db /\ Alike(a, b) /\ Sound(b.db, NSec) /\ Tabled(a.db, b.db)
          /\ Tells(head.info, s, b.db.flash[s], NSec) /\ head.info \in Infos /\ head.info.at = s
      BY <2>1, <3>1, HeadRead
    <3>4. head.info.store = EMPTY => Empty(b.db)
      <4>1. b.db.flash[s] \in Sectors /\ Shape(b.db.flash[s])
        BY <3>1, <3>3, SoundFields DEF Sound
      <4> QED BY <3>1, <3>3, <4>1, ShapeFacts DEF Tells, Empty
    <3>5. Empty(a.db) => Empty(b.db)
      BY <3>3 DEF Tabled, Empty
    <3>6. Tabled(d0, b.db)
      BY <2>1, <3>3, TabledTrans
    <3> HIDE DEF b, head, s
    <3>7. b \in A
      BY <2>1, <3>3, <3>5, <3>6 DEF Counting, Alike
    <3>8. v \in A
      <4>1. CASE v = b
        BY <3>7, <4>1
      <4>2. CASE v = w /\ EMPTY = head.info.store
        <5>1. CASE ~head.info.ok
          <6>1. w = b
            BY <5>1 DEF gc_check_cb
          <6> QED BY <3>7, <4>2, <6>1
        <5>2. CASE head.info.ok
          <6>1. w = GcChecked(b, s)
            BY <3>3, <5>2 DEF gc_check_cb, GcChecked
          <6> HIDE DEF w
          <6>2. w \in Walks /\ w.db = b.db /\ w.last = s /\ (~b.stop => ~w.stop)
            BY <3>1, <3>3, <6>1, WalkGcChecked
          <6> HIDE DEF v
          <6> QED BY <3>1, <3>3, <3>4, <3>7, <4>2, <6>2 DEF Counting
        <5> QED BY <5>1, <5>2
      <4> QED BY <4>1, <4>2
    <3>9. v \in Walks
      BY <3>8 DEF Counting
    <3> HIDE DEF v
    <3>10. e \in Walks /\ e.db = v.db /\ Alike(v, e)
      BY <3>1, <3>3, <3>9, SectorNext
    <3> HIDE DEF e
    <3> QED BY <3>2, <3>8, <3>10 DEF Counting, Alike
  <2> QED BY <2>2, <2>3
<1>3. r \in A
  <2> HIDE DEF A
  <2> QED BY <1>1, <1>2, GcCheckWalk, Zenon DEF CheckedOf
<1> QED BY <1>3

\* All sectors are visited by the collector.
SweepingStep(a, n) == IF a.stop \/ a.sec = NSec THEN a
                  ELSE VisitSector(a, HeadOf(a.db, a.sec), n, UNUSED, FALSE, do_gc)
Sweeping == INSTANCE ListProofs WITH Step <- SweepingStep

(* What each sector visited keeps, step by step, holds of the collection. *)
LEMMA SweepingWalk ==
    ASSUME NEW acc, NEW A, WithSec(acc, acc.db.oldest) \in A[0],
           \A n \in 1 .. NSec + 1 : \A a \in A[n - 1] : SweepingStep(a, n) \in A[n]
    PROVE  sector_iterator(acc, UNUSED, FALSE, do_gc) \in A[NSec + 1]
<1>1. sector_iterator(acc, UNUSED, FALSE, do_gc)
          = Sweeping!FoldLeft(SweepingStep, WithSec(acc, acc.db.oldest), [n \in 1 .. NSec + 1 |-> n])
  BY Zenon DEF sector_iterator, HeadOf, SweepingStep, WithSec, FoldLeft, MapThenFoldSet, Max, Sweeping!FoldLeft,
               Sweeping!MapThenFoldSet, Sweeping!Max
<1>2. Sweeping!FoldLeft(SweepingStep, WithSec(acc, acc.db.oldest), [n \in 1 .. NSec + 1 |-> n]) \in A[NSec + 1]
  BY OneMore, Sweeping!KeptCounting, Zenon
<1> QED BY <1>1, <1>2, Zenon

\* There is an empty sector, or one that is marked for collection is ahead.
GcAhead(a, o, n) == Empty(a.db) \/ (~a.stop /\ \E t \in Sec : Dist(o, t) >= n /\ a.db.flash[t].dirty = GC)
SweepTo(o, n) == {a \in Walks : /\ Around(a, o, n) /\ Sound(a.db, NSec) /\ a.db.gcReq /\ a.last \in Sec
                                /\ GcAhead(a, o, n)}
SweptOf(acc) == sector_iterator(acc, UNUSED, FALSE, do_gc)

(* A collection with a sector to format, empty or marked, ends with an empty one. *)
LEMMA SweepSound ==
    ASSUME NEW acc \in Walks, Sound(acc.db, NSec), acc.db.gcReq, acc.last \in Sec, ~acc.stop,
           Empty(acc.db) \/ \E t \in Sec : acc.db.flash[t].dirty = GC,
           NEW r, r = SweptOf(acc)
    PROVE  r \in Walks /\ Sound(r.db, NSec) /\ Empty(r.db)
<1> DEFINE o == acc.db.oldest
           A == [n \in 0 .. NSec + 1 |-> SweepTo(o, n)]
<1>1. o \in Sec /\ NSec \in Nat
  BY SoundFields, Sizes DEF Sound
<1>2. WithSec(acc, acc.db.oldest) \in A[0]
  <2> DEFINE b == WithSec(acc, o)
  <2>1. Around(b, o, 0) /\ b.db = acc.db /\ Alike(acc, b)
    BY <1>1, RingBegins
  <2>2. \A t \in Sec : Dist(o, t) >= 0
    BY <1>1, DistIs
  <2> HIDE DEF b
  <2>3. GcAhead(b, o, 0)
    BY <2>1, <2>2 DEF GcAhead, Alike
  <2>4. b \in SweepTo(o, 0)
    BY <2>1, <2>3 DEF SweepTo, Alike, Around
  <2> QED BY <1>1, <2>4 DEF b
<1>3. ASSUME NEW n \in 1 .. NSec + 1, NEW a \in A[n - 1] PROVE SweepingStep(a, n) \in A[n]
  <2>0. n - 1 \in 0 .. NSec + 1 /\ n \in 0 .. NSec + 1
    BY <1>1
  <2>1. a \in SweepTo(o, n - 1)
    BY <1>3, <2>0
  <2> HIDE DEF A
  <2>2. a \in Walks /\ Around(a, o, n - 1) /\ Sound(a.db, NSec) /\ a.db.gcReq /\ a.last \in Sec
        /\ GcAhead(a, o, n - 1)
    BY <2>1 DEF SweepTo
  <2>3. CASE a.stop \/ a.sec = NSec
    <3>1. SweepingStep(a, n) = a
      BY <2>3 DEF SweepingStep
    <3>2. Around(a, o, n) /\ (~a.stop => n - 1 >= NSec)
      BY <1>1, <2>2, <2>3, RingOver
    <3>3. \A t \in Sec : Dist(o, t) \in 0 .. NSec - 1
      BY <1>1, DistIs
    <3>4. GcAhead(a, o, n)
      BY <1>1, <2>0, <2>2, <3>2, <3>3 DEF GcAhead
    <3>5. a \in SweepTo(o, n)
      BY <2>2, <3>2, <3>4 DEF SweepTo
    <3> QED BY <2>0, <3>1, <3>5 DEF A
  <2>4. CASE ~a.stop /\ a.sec # NSec
    <3> DEFINE s == a.sec
               head == HeadOf(a.db, s)
               b == WithDb(a, head.db)
               w == do_gc(b, head.info)
               e == AtNextSector(w, head.info, n)
    <3>1. s \in Sec /\ n \in 1 .. NSec /\ Dist(o, s) = n - 1
      BY <1>1, <2>2, <2>4, RingAt
    <3>2. SweepingStep(a, n) = e
      BY <2>4 DEF SweepingStep, VisitSector, CallOn, WithDb
    <3>3. /\ b \in Walks /\ b.db = head.db /\ Alike(a, b) /\ Sound(b.db, NSec) /\ Tabled(a.db, b.db)
          /\ Tells(head.info, s, b.db.flash[s], NSec) /\ head.info \in Infos /\ head.info.at = s
      BY <2>2, <3>1, HeadRead
    <3>4. b.db.gcReq /\ b.last \in Sec
      BY <2>2, <3>3 DEF Tabled, Kept, Alike
    <3>5. GcAhead(b, o, n - 1)
      BY <2>2, <3>3 DEF GcAhead, Alike, Tabled, Empty
    <3> HIDE DEF b, head, s
    <3>6. w \in Walks /\ Sound(w.db, NSec) /\ w.db.gcReq /\ w.last \in Sec
          /\ (Empty(w.db) \/ (w = b /\ ~(head.info.ok /\ head.info.dirty \in {DIRTY, GC})))
      <4>1. CASE head.info.ok /\ head.info.dirty \in {DIRTY, GC}
        BY <3>1, <3>3, <3>4, <4>1, DoGcSound
      <4>2. CASE ~(head.info.ok /\ head.info.dirty \in {DIRTY, GC})
        <5>1. w = b
          BY <4>2 DEF do_gc
        <5> HIDE DEF w
        <5> QED BY <3>3, <3>4, <4>2, <5>1
      <4> QED BY <4>1, <4>2
    <3>7. Empty(w.db) \/ (~w.stop /\ \E t \in Sec : Dist(o, t) >= n /\ w.db.flash[t].dirty = GC)
      <4>1. CASE Empty(w.db)
        BY <4>1
      <4>2. CASE w = b /\ ~(head.info.ok /\ head.info.dirty \in {DIRTY, GC})
        <5>1. CASE Empty(b.db)
          BY <4>2, <5>1
        <5>2. CASE ~b.stop /\ \E t \in Sec : Dist(o, t) >= n - 1 /\ b.db.flash[t].dirty = GC
          <6>1. PICK t \in Sec : Dist(o, t) >= n - 1 /\ b.db.flash[t].dirty = GC
            BY <5>2
          <6>2. t # s
            <7>1. SUFFICES ASSUME t = s PROVE FALSE
              OBVIOUS
            <7>2. b.db.flash[s] \in Sectors /\ Shape(b.db.flash[s])
              BY <3>1, <3>3, SoundFields DEF Sound
            <7>3. b.db.flash[s].ok
              BY <6>1, <7>1, <7>2, ShapeFacts
            <7>4. head.info.ok /\ head.info.dirty = GC
              BY <3>1, <3>3, <6>1, <7>1, <7>3, Sizes DEF Tells
            <7> QED BY <4>2, <7>4
          <6>3. Dist(o, t) # n - 1 /\ Dist(o, t) \in 0 .. NSec - 1
            BY <1>1, <3>1, <6>2, DistIs
          <6>4. Dist(o, t) >= n
            BY <1>1, <6>1, <6>3
          <6> HIDE DEF w
          <6> QED BY <4>2, <5>2, <6>1, <6>4
        <5> QED BY <3>5, <5>1, <5>2 DEF GcAhead
      <4> QED BY <3>6, <4>1, <4>2
    <3> HIDE DEF w
    <3>8. Around(e, o, n) /\ e.db = w.db /\ Alike(w, e)
      BY <1>1, <3>1, <3>3, <3>6, RingNext
    <3> HIDE DEF e
    <3>9. GcAhead(e, o, n)
      BY <3>7, <3>8 DEF GcAhead, Alike
    <3>10. e \in SweepTo(o, n)
      BY <3>6, <3>8, <3>9 DEF SweepTo, Alike, Around
    <3> QED BY <2>0, <3>2, <3>10 DEF A
  <2> QED BY <2>3, <2>4
<1>4. r \in A[NSec + 1]
  <2> HIDE DEF A
  <2> QED BY <1>2, <1>3, SweepingWalk, Zenon DEF SweptOf
<1>5. r \in SweepTo(o, NSec + 1)
  BY <1>1, <1>4
<1>6. \A t \in Sec : Dist(o, t) \in 0 .. NSec - 1
  BY <1>1, DistIs
<1>7. Empty(r.db)
  BY <1>1, <1>5, <1>6 DEF SweepTo, GcAhead
<1> QED BY <1>5, <1>7 DEF SweepTo

\* What a collection needs: an empty sector, or one whose collection had begun.
MayCollect(d0) == d0.gcReq /\ (Empty(d0) \/ \E t \in Sec : d0.flash[t].dirty = GC)
CollectFor(d0, free) == gc_collect_by_free_size(d0, free)

(* gc_collect_by_free_size ends with an empty sector and nothing left to collect. *)
LEMMA CollectSound ==
    ASSUME NEW d0, Sound(d0, NSec), MayCollect(d0), NEW free \in Nat, NEW d, d = CollectFor(d0, free)
    PROVE  Sound(d, NSec) /\ Empty(d) /\ ~d.gcReq
<1> DEFINE acc == WithSize(NoFind(d0), free)
           k == CheckedOf(acc)
           w == Sweep(k)
<1>1. d = Collected(w.db)
  BY DEF CollectFor, gc_collect_by_free_size, WithSize, CheckedOf
<1>2. acc \in Counting(d0)
  <2> DEFINE b == NoFind(d0)
  <2>1. b \in Walks /\ b.db = d0 /\ b.stop = FALSE /\ b.last = 0 /\ b.empties = 0
    BY SoundFields, WalkStarts DEF Sound
  <2> HIDE DEF b
  <2>2. acc \in Walks /\ acc.db = d0 /\ acc.stop = b.stop /\ acc.last = 0 /\ acc.empties = 0
    BY <2>1 DEF WithSize, Walks, b
  <2>3. Tabled(d0, d0)
    BY DEF Tabled, Kept
  <2> HIDE DEF acc
  <2> QED BY <2>1, <2>2, <2>3, Sizes DEF Counting
<1> HIDE DEF acc
<1>3. k \in Counting(d0)
  BY <1>2, GcCheckSound
<1> HIDE DEF k
<1>4. k \in Walks /\ Sound(k.db, NSec) /\ Tabled(d0, k.db) /\ ~k.stop /\ k.last \in Sec
      /\ (k.empties # 0 => Empty(k.db)) /\ k.empties \in Nat
  BY <1>3 DEF Counting, Walks
<1>5. k.db.gcReq /\ (Empty(k.db) \/ \E t \in Sec : k.db.flash[t].dirty = GC)
  BY <1>4 DEF MayCollect, Tabled, Kept, Empty
<1>6. Sound(w.db, NSec) /\ Empty(w.db)
  <2>1. CASE k.empties <= 1
    <3>1. w = SweptOf(k)
      BY <2>1 DEF Sweep, SweptOf
    <3> QED BY <1>4, <1>5, <3>1, SweepSound
  <2>2. CASE ~(k.empties <= 1)
    <3>1. w = k
      BY <2>2 DEF Sweep
    <3>2. k.empties # 0
      BY <2>2
    <3> QED BY <1>4, <3>1, <3>2
  <2> QED BY <2>1, <2>2
<1> HIDE DEF w
<1>7. Sound(d, NSec) /\ d.flash = w.db.flash /\ ~d.gcReq
  BY <1>1, <1>6, CollectedSound DEF Sound
<1> QED BY <1>6, <1>7 DEF Empty
=============================================================================
