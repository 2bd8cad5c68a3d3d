---------------------------- MODULE Fat12Volume ----------------------------
(***************************************************************************)
(* What the FAT12 programs of src/FAT12 (fat12.c, msdosdir.c, msdosextr.c) *)
(* share: the layout they compute from the boot sector, the unpacking of   *)
(* 12-bit entries, the tests on directory entries, and the printed stamp.  *)
(* The definitions named Kernel... are the same facts as Linux' own FAT    *)
(* driver (fs/fat) has them: the reference the programs are checked        *)
(* against.                                                                *)
(*                                                                         *)
(* A boot sector is a record with the fields of boot_t the code uses:      *)
(* bps, spc, reserved, copies, maxRoot, spf.  A directory entry is a       *)
(* record: "first" is the first byte of the name as far as the code looks  *)
(* at it, "attr" the set of attribute bits, "time", "date", "start" and    *)
(* "size" the fields.  A bitwise or of disjoint bits is a sum.             *)
(***************************************************************************)
EXTENDS Integers

Byte == 0..255
USHRT_MAX == 65535
Word == 0..USHRT_MAX
MAX_FAT12_ENTRY == 4095
Twelve == 0..MAX_FAT12_ENTRY     \* an entry of a FAT
Attributes == {"readonly", "hidden", "system", "volume", "directory", "archive"}

BootSectors == [bps : Nat, spc : Nat, reserved : Nat, copies : Nat,
                maxRoot : Nat, spf : Nat]
DirEntries == [first : {"free", "deleted", "used"}, attr : SUBSET Attributes,
               time : Word, date : Word, start : Word, size : Nat]

DIR_ENTRY_MEMBER_SIZE == 32

-----------------------------------------------------------------------------
\* Layout.  All the fields are 8 or 16 bits wide, and the products 32: they
\* do not overflow for volumes with a FAT of at least one sector.

bytes_per_fat(b) == b.spf * b.bps

num_fat_entries(b) == (bytes_per_fat(b) * 2) \div 3 - 2

\* Where the FAT and the root directory start: fat_start and dir_start of the
\* kernel, in bytes.
KernelFatStart(b) == b.reserved * b.bps
KernelDirStart(b) == (b.reserved + b.copies * b.spf) * b.bps

\* Fault: the root directory is forgotten.
DataAfterFat(b) == (b.reserved + b.spf * b.copies) * b.bps

\* Where extract_single_file takes the first cluster to be.
base_address(b) == (b.reserved + b.spf * b.copies) * b.bps
                     + b.maxRoot * DIR_ENTRY_MEMBER_SIZE

cluster_size(b) == b.bps * b.spc

-----------------------------------------------------------------------------
\* Fault: the shift by 8 of the first entry's high bits is a shift by 4.
UnpackBadShift(t) == <<(t[2] % 16) * 16 + t[1], t[3] * 16 + t[2] \div 16>>

\* Fault: the middle byte is not masked.
UnpackNoMask(t) == <<t[2] * 256 + t[1], t[3] * 16 + t[2] \div 16>>

\* read_twelve_bits_twice: two entries out of three bytes.
Unpack(t) == <<(t[2] % 16) * 256 + t[1], t[3] * 16 + t[2] \div 16>>

\* The same entry by number, as the kernel finds it in the bytes of a FAT.
KernelEntry(fat, e) ==
    LET at == e + e \div 2
    IN (IF e % 2 = 1 THEN fat[at] \div 16 + fat[at + 1] * 16
                     ELSE fat[at + 1] * 256 + fat[at]) % 4096

BAD_FAT12 == 4087

\* The kernel ends a chain at every value from BAD_FAT12 on.
KernelEnds(v) == v >= BAD_FAT12

-----------------------------------------------------------------------------
is_volume_label(e) == "volume" \in e.attr
is_entry_free(e) == e.first = "free"
is_entry_deleted(e) == e.first = "deleted"

\* Fault: deleted entries are not told from files.
RegularIfDeleted(e) == ~ is_volume_label(e)

is_regular_entry(e) == ~ is_volume_label(e) /\ ~ is_entry_deleted(e)

-----------------------------------------------------------------------------
\* Fault: the mask of the month is one bit short.
StampShortMonth(time, date) ==
    LET minutes == (time \div 32) % 64
    IN [month |-> (date \div 32) % 8,
        day |-> date % 32,
        year |-> ((date \div 512) % 64) + 1980,
        hours |-> (time \div 2048) % 32,
        minutes |-> minutes - 16 * ((minutes \div 16) % 2),
        seconds |-> time % 32]

\* MASK_AND_SHIFT with the masks of fat12.c: MINUTES_MASK has 0x2f, so that the
\* bit worth 16 minutes is lost, YEAR_MASK has 0x3f, so that the bit worth 64
\* years is lost, and the seconds are printed in the units of the disk.
Stamp(time, date) ==
    LET minutes == (time \div 32) % 64
    IN [month |-> (date \div 32) % 16,
        day |-> date % 32,
        year |-> ((date \div 512) % 64) + 1980,
        hours |-> (time \div 2048) % 32,
        minutes |-> minutes - 16 * ((minutes \div 16) % 2),
        seconds |-> time % 32]

\* The fields as date_dos2unix takes them apart.
KernelStamp(time, date) ==
    [month |-> (date \div 32) % 16,
     day |-> date % 32,
     year |-> date \div 512 + 1980,
     hours |-> time \div 2048,
     minutes |-> (time \div 32) % 64,
     seconds |-> (time % 32) * 2]
=============================================================================
