-------------------------------- MODULE Fal --------------------------------
(***************************************************************************)
(* Where the bytes of a database lie on the chip: the partition table of   *)
(* fal_cfg.h, the bounds that fal_partition.c keeps, and the driver        *)
(* fal_flash_esp32.c that takes its one device apart into two partitions   *)
(* of the chip.  An access gives the bytes of the chip that it touches, as *)
(* [part, from, size], or Error, the -1 of the C functions.                *)
(***************************************************************************)
EXTENDS Integers, Sequences

CONSTANT Word            \* the number of values of a size_t

Error == [part |-> "none", from |-> 0, size |-> 0]
NULL == [name |-> "none"]
-----------------------------------------------------------------------------
(* fal_cfg.h and partitions.csv *)
FALSH_KV_SIZE == 1024 * 1024
FLASH_ERASE_MIN_SIZE == 4 * 1024

nor_flash0 == [name |-> "norflash0", len |-> 2048 * 1024, blk_size |-> FLASH_ERASE_MIN_SIZE]
device_table == <<nor_flash0>>

FAL_PART_TABLE ==
    << [name |-> "fdb_kv", flash_name |-> "norflash0", offset |-> 0, len |-> 1024 * 1024],
       [name |-> "fdb_ts", flash_name |-> "norflash0", offset |-> 1024 * 1024, len |-> 1024 * 1024] >>

(* The chip's own partitions, which refuse what is not inside them, and to *)
(* erase a part of a block.                                                *)
ChipLen == 1024 * 1024
OnChip(part, from, size) ==
    IF from + size <= ChipLen THEN [part |-> part, from |-> from, size |-> size] ELSE Error
ErasedOnChip(part, from, size) ==
    IF from % FLASH_ERASE_MIN_SIZE = 0 THEN OnChip(part, from, size) ELSE Error
-----------------------------------------------------------------------------
(* fal_flash_esp32.c: the device's first megabyte is fdb_kv, the rest is   *)
(* fdb_ts; an access is looked up by where it begins.                      *)
read(offset, size) ==
    IF offset < FALSH_KV_SIZE THEN OnChip("fdb_kv", offset, size)
    ELSE OnChip("fdb_ts", offset - FALSH_KV_SIZE, size)

write(offset, size) ==
    IF offset < FALSH_KV_SIZE THEN OnChip("fdb_kv", offset, size)
    ELSE OnChip("fdb_ts", offset - FALSH_KV_SIZE, size)

(* Whole blocks are erased, enough of them for size. *)
erase(offset, size) ==
    LET blocks == ((size - 1) \div FLASH_ERASE_MIN_SIZE + 1) * FLASH_ERASE_MIN_SIZE
    IN  IF offset < FALSH_KV_SIZE THEN ErasedOnChip("fdb_kv", offset, blocks)
        ELSE ErasedOnChip("fdb_ts", offset - FALSH_KV_SIZE, blocks)

(* The driver's init finds the chip's two partitions; what it returns, and *)
(* what it found, fal_flash_init does not look at.                         *)
init(found) == IF {"fdb_kv", "fdb_ts"} \subseteq found THEN 1 ELSE 0
fal_flash_init(found) == 0

fal_flash_device_find(name) == IF name = nor_flash0.name THEN nor_flash0 ELSE NULL
-----------------------------------------------------------------------------
(* fal_partition.c: a partition that begins past its device refuses the    *)
(* whole table; that it ends there is not checked.                         *)
check_and_update_part_cache(table) ==
    IF \E i \in DOMAIN table : LET flash_dev == fal_flash_device_find(table[i].flash_name)
                               IN  flash_dev # NULL /\ table[i].offset >= flash_dev.len
    THEN -1 ELSE 0

(* The number of partitions. *)
fal_partition_init == IF check_and_update_part_cache(FAL_PART_TABLE) = 0 THEN Len(FAL_PART_TABLE) ELSE 0
fal_init(found) == IF fal_flash_init(found) < 0 THEN fal_flash_init(found) ELSE fal_partition_init

fal_partition_find(name) ==
    IF \E i \in DOMAIN FAL_PART_TABLE : FAL_PART_TABLE[i].name = name
    THEN FAL_PART_TABLE[CHOOSE i \in DOMAIN FAL_PART_TABLE : FAL_PART_TABLE[i].name = name]
    ELSE NULL

flash_device_find_by_part(part) == fal_flash_device_find(part.flash_name)

(* The sum of an address and a size is a size_t. *)
OutOfBound(part, addr, size) == (addr + size) % Word > part.len

fal_partition_read(part, addr, size) ==
    IF OutOfBound(part, addr, size) \/ flash_device_find_by_part(part) = NULL
    THEN Error ELSE read(part.offset + addr, size)

fal_partition_write(part, addr, size) ==
    IF OutOfBound(part, addr, size) \/ flash_device_find_by_part(part) = NULL
    THEN Error ELSE write(part.offset + addr, size)

fal_partition_erase(part, addr, size) ==
    IF OutOfBound(part, addr, size) \/ flash_device_find_by_part(part) = NULL
    THEN Error ELSE erase(part.offset + addr, size)

fal_partition_erase_all(part) == fal_partition_erase(part, 0, part.len)
=============================================================================
