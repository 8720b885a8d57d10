------------------------------ MODULE Storage ------------------------------
(***************************************************************************)
(* The database's view of the flash (fdb.c, fdb_utils.c): what a database  *)
(* object learns of its partition when it is initialised, and the reads,   *)
(* writes and erases it then makes.                                        *)
(***************************************************************************)
EXTENDS Fal

FDB_NO_ERR == "FDB_NO_ERR"
FDB_PART_NOT_FOUND == "FDB_PART_NOT_FOUND"
FDB_INIT_FAILED == "FDB_INIT_FAILED"

(* The sector size is that asked for, or one block; the size is the        *)
(* partition's, in whole sectors and at least two.                         *)
_fdb_init_ex(path, sec_size) ==
    LET part == fal_partition_find(path)
        block_size == fal_flash_device_find(part.flash_name).blk_size
        size == IF sec_size = 0 THEN block_size ELSE sec_size
    IN  IF part = NULL THEN [result |-> FDB_PART_NOT_FOUND]
        ELSE IF size % block_size # 0 \/ part.len % size # 0 \/ part.len \div size < 2
        THEN [result |-> FDB_INIT_FAILED]
        ELSE [result |-> FDB_NO_ERR, part |-> part, sec_size |-> size, max_size |-> part.len]

(* fdb_init opens both databases, whatever becomes of the first one, with  *)
(* no sector size of their own.  The result is looked at by nobody.        *)
fdb_init == <<_fdb_init_ex("fdb_kv", 0), _fdb_init_ex("fdb_ts", 0)>>

_fdb_flash_read(db, addr, size) == fal_partition_read(db.part, addr, size)
_fdb_flash_erase(db, addr, size) == fal_partition_erase(db.part, addr, size)
_fdb_flash_write(db, addr, size) == fal_partition_write(db.part, addr, size)
=============================================================================
