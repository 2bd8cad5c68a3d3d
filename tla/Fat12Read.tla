----------------------------- MODULE Fat12Read -----------------------------
(***************************************************************************)
(* read_fat12 (src/FAT12/src/fat12.c) and the ends of the two main         *)
(* programs: the boot sector, the reserved sectors, the first FAT, the     *)
(* other copies and the root directory are read front to back through one  *)
(* file position that nothing checks, and free_fat12 frees what was        *)
(* allocated on every way out.                                             *)
(*                                                                         *)
(* bool_read takes a short read for a success.  A byte or entry that is    *)
(* not there, or that is read from the wrong place, is one of GarbageBytes *)
(* or GarbageEntries: stack or heap memory, or bytes of something else.    *)
(***************************************************************************)
EXTENDS Fat12Volume, FiniteSetsExt

CONSTANTS
    Images,          \* disk images: boot sector, FAT, root directory, length
    BootSize,        \* BOOT_MEMBER_SIZE, 512 in the code
    GarbageBytes,    \* what a byte may be that was not read from the FAT
    GarbageEntries   \* what a directory entry may be that was not read whole

\* Images have a boot sector as mkdosfs and DOS write it; their length may be
\* anything, as the input file is whatever the user names.  boot is what the
\* fields of boot_t hold after the reads: in a file shorter than the
\* boot sector some of them were never set and boot is what the stack held,
\* of which only values like those of a boot sector are considered.
ASSUME ImageAssumption ==
    \A m \in Images :
      /\ m.boot \in BootSectors
      /\ m.boot.reserved >= 1
      /\ m.boot.copies >= 1
      /\ m.boot.bps >= BootSize
      /\ bytes_per_fat(m.boot) >= 3
      /\ m.fat \in [0..(bytes_per_fat(m.boot) - 1) -> Byte]
      /\ m.root \in [0..(m.boot.maxRoot - 1) -> DirEntries]
      /\ m.len \in Nat
ASSUME SizeAssumption == BootSize \in Nat
ASSUME GarbageAssumption == /\ GarbageBytes \subseteq Byte
                            /\ GarbageBytes # {}
                            /\ GarbageEntries \subseteq DirEntries
                            /\ GarbageEntries # {}

VARIABLES
    image,    \* the file that fd is open on
    phase,    \* what read_fat12 does next
    pos,      \* the file position of fd
    i,        \* the loop counters of the FAT and of the root directory
    eof,      \* fat->eof_marker
    table,    \* the elements of fat->fat_entries written so far
    root,     \* the elements of fat->root_dir_entries written so far
    label,    \* the index fat->volume_label points to, -1 for uninitialized
    ptr       \* fat->fat_entries and fat->root_dir_entries

vars == <<image, phase, pos, i, eof, table, root, label, ptr>>

Arrays == {"fat_entries", "root_dir_entries"}
Reading == {"boot", "reserved", "markers", "table_alloc", "table", "copies",
            "root_alloc", "root"}

boot == image.boot
num == num_fat_entries(boot)

\* The image holds everything up to the data area.
Whole(m) == m.len >= base_address(m.boot)

TypeOK ==
    /\ image.boot \in BootSectors
    /\ phase \in {"start", "done", "failed", "freed"} \cup Reading
    /\ pos \in Nat
    /\ i \in Nat
    /\ eof \in Nat
    /\ DOMAIN table \subseteq Nat /\ \A k \in DOMAIN table : table[k] \in 0..4095
    /\ DOMAIN root \subseteq Nat /\ \A k \in DOMAIN root : root[k] \in DirEntries
    /\ label \in Int
    /\ ptr \in [Arrays -> {"stack", "null", "heap", "free"}]

Init ==
    /\ image \in Images
    /\ phase = "start"
    /\ pos = 0
    /\ i = 0
    /\ eof = 0
    /\ table = <<>>
    /\ root = <<>>
    /\ label = -1
    /\ ptr = [a \in Arrays |-> "stack"]

-----------------------------------------------------------------------------
\* Where a read of n bytes leaves the position: at the end of a short file,
\* and where it was if it was beyond the end.
ReadTo(n) == IF pos + n <= image.len THEN pos + n
             ELSE IF pos <= image.len THEN image.len ELSE pos

\* What a byte read at p may be.
ByteAt(p) ==
    IF p < image.len /\ p >= KernelFatStart(boot) /\ p < KernelDirStart(boot)
    THEN {image.fat[(p - KernelFatStart(boot)) % bytes_per_fat(boot)]}
    ELSE GarbageBytes

\* What read_directory_entry at p may leave in an entry.
EntryAt(p) ==
    LET at == p - KernelDirStart(boot)
    IN IF /\ p + DIR_ENTRY_MEMBER_SIZE <= image.len
          /\ at \in {DIR_ENTRY_MEMBER_SIZE * k : k \in 0..(boot.maxRoot - 1)}
       THEN {image.root[at \div DIR_ENTRY_MEMBER_SIZE]}
       ELSE GarbageEntries

\* Set k of a partly written array.
Put(f, k, v) == [x \in DOMAIN f \cup {k} |-> IF x = k THEN v ELSE f[x]]

-----------------------------------------------------------------------------
\* Fault: the pointers are not set to NULL first.
StartUnset ==
    /\ phase = "start"
    /\ phase' = "boot"
    /\ UNCHANGED <<image, pos, i, eof, table, root, label, ptr>>

\* read_fat12 is entered.
Start ==
    /\ phase = "start"
    /\ phase' = "boot"
    /\ ptr' = [a \in Arrays |-> "null"]
    /\ UNCHANGED <<image, pos, i, eof, table, root, label>>

\* read_boot_sector: 512 bytes of members, then the rest of the sector is
\* skipped, with the bytes per sector just read, or left in memory if the file
\* ended before them.
ReadBoot ==
    /\ phase = "boot"
    /\ phase' = "reserved"
    /\ pos' = ReadTo(BootSize) + (boot.bps - BootSize)
    /\ UNCHANGED <<image, i, eof, table, root, label, ptr>>

\* skip_reserved_sectors.
SkipReserved ==
    /\ phase = "reserved"
    /\ phase' = "markers"
    /\ pos' = pos + (boot.reserved - 1) * boot.bps
    /\ UNCHANGED <<image, i, eof, table, root, label, ptr>>

\* The first two entries of the FAT are the media descriptor and the mark
\* that ends a chain.
ReadMarkers ==
    /\ phase = "markers"
    /\ phase' = "table_alloc"
    /\ \E t \in ByteAt(pos) \X ByteAt(pos + 1) \X ByteAt(pos + 2) :
         eof' = Unpack(t)[2]
    /\ pos' = ReadTo(3)
    /\ UNCHANGED <<image, i, table, root, label, ptr>>

\* Room for num_fat_entries entries.
AllocTable ==
    /\ phase = "table_alloc"
    /\ phase' = "table"
    /\ i' = 0
    /\ ptr' = [ptr EXCEPT !["fat_entries"] = "heap"]
    /\ UNCHANGED <<image, pos, eof, table, root, label>>

\* Fault: one turn too many.
ReadPairMore ==
    /\ phase = "table"
    /\ i <= num
    /\ \E t \in ByteAt(pos) \X ByteAt(pos + 1) \X ByteAt(pos + 2) :
         table' = Put(Put(table, i, Unpack(t)[1]), i + 1, Unpack(t)[2])
    /\ pos' = ReadTo(3)
    /\ i' = i + 2
    /\ UNCHANGED <<image, phase, eof, root, label, ptr>>

\* One turn of the loop over the FAT: two entries at a time.
ReadPair ==
    /\ phase = "table"
    /\ i < num
    /\ \E t \in ByteAt(pos) \X ByteAt(pos + 1) \X ByteAt(pos + 2) :
         table' = Put(Put(table, i, Unpack(t)[1]), i + 1, Unpack(t)[2])
    /\ pos' = ReadTo(3)
    /\ i' = i + 2
    /\ UNCHANGED <<image, phase, eof, root, label, ptr>>

\* Fault: the loop ends only if the counter meets the limit exactly.
TableDoneExact ==
    /\ phase = "table"
    /\ i = num
    /\ phase' = "copies"
    /\ UNCHANGED <<image, pos, i, eof, table, root, label, ptr>>

\* The loop ends.
TableDone ==
    /\ phase = "table"
    /\ i >= num
    /\ phase' = "copies"
    /\ UNCHANGED <<image, pos, i, eof, table, root, label, ptr>>

\* Fault: all the copies are skipped, the one just read included.
SkipCopiesAll ==
    /\ phase = "copies"
    /\ phase' = "root_alloc"
    /\ pos' = pos + boot.copies * bytes_per_fat(boot)
    /\ UNCHANGED <<image, i, eof, table, root, label, ptr>>

\* Skip any remaining FAT copies.
SkipCopies ==
    /\ phase = "copies"
    /\ phase' = "root_alloc"
    /\ pos' = pos + (boot.copies - 1) * bytes_per_fat(boot)
    /\ UNCHANGED <<image, i, eof, table, root, label, ptr>>

\* Room for max_root_dir_entries entries.
AllocRoot ==
    /\ phase = "root_alloc"
    /\ phase' = "root"
    /\ i' = 0
    /\ ptr' = [ptr EXCEPT !["root_dir_entries"] = "heap"]
    /\ UNCHANGED <<image, pos, eof, table, root, label>>

\* Fault: the loop goes on after a free entry.
ReadEntryOn ==
    /\ phase = "root"
    /\ i < boot.maxRoot
    /\ \E e \in EntryAt(pos) :
         /\ root' = Put(root, i, e)
         /\ label' = IF is_volume_label(e) THEN i ELSE label
    /\ i' = i + 1
    /\ pos' = ReadTo(DIR_ENTRY_MEMBER_SIZE)
    /\ UNCHANGED <<image, phase, eof, table, ptr>>

\* One turn of the loop over the root directory; a free entry ends it, before
\* the test for a volume label.
ReadEntry ==
    /\ phase = "root"
    /\ i < boot.maxRoot
    /\ \E e \in EntryAt(pos) :
         /\ root' = Put(root, i, e)
         /\ IF is_entry_free(e)
            THEN phase' = "done" /\ i' = i /\ label' = label
            ELSE /\ phase' = phase
                 /\ i' = i + 1
                 /\ label' = IF is_volume_label(e) THEN i ELSE label
    /\ pos' = ReadTo(DIR_ENTRY_MEMBER_SIZE)
    /\ UNCHANGED <<image, eof, table, ptr>>

\* Every entry is taken: the loop ends at max_root_dir_entries.
RootFull ==
    /\ phase = "root"
    /\ i >= boot.maxRoot
    /\ phase' = "done"
    /\ UNCHANGED <<image, pos, i, eof, table, root, label, ptr>>

\* A read, a seek or an allocation fails, in any part of read_fat12: it
\* returns 0 at once.
Fail ==
    /\ phase \in Reading
    /\ phase = "root" => i < boot.maxRoot
    /\ phase' = "failed"
    /\ UNCHANGED <<image, pos, i, eof, table, root, label, ptr>>

\* free_fat12, called by main after a failure and at the end of the program.
Free ==
    /\ phase \in {"done", "failed"}
    /\ phase' = "freed"
    /\ ptr' = [a \in Arrays |-> IF ptr[a] = "heap" THEN "free" ELSE ptr[a]]
    /\ UNCHANGED <<image, pos, i, eof, table, root, label>>

Step ==
    \/ Start \/ ReadBoot \/ SkipReserved \/ ReadMarkers \/ AllocTable
    \/ ReadPair \/ TableDone \/ SkipCopies \/ AllocRoot \/ ReadEntry
    \/ RootFull \/ Free

Next == Step \/ Fail

Spec == Init /\ [][Next]_vars

\* The program is one thread that runs until it exits.
FairSpec == Spec /\ WF_vars(Step)

-----------------------------------------------------------------------------
\* Three bytes hold two entries: the pairs fill the FAT exactly.
Pairs(b) == bytes_per_fat(b) % 3 = 0

\* In a whole image whose FAT is a whole number of pairs, the loop over the
\* root directory reads entry i from where the kernel's driver has it, for
\* every number of reserved sectors and of FAT copies: the relative seeks and
\* reads of fat12.c add up to the address that base_address is computed from.
RootAligned ==
    phase = "root" /\ Whole(image) /\ Pairs(boot) =>
        pos = KernelDirStart(boot) + DIR_ENTRY_MEMBER_SIZE * i

\* In the same images nothing is written outside the two arrays.
ArraysInBounds ==
    Pairs(boot) => /\ DOMAIN table \subseteq 0..(num - 1)
                   /\ DOMAIN root \subseteq 0..(boot.maxRoot - 1)

\* What is in fat_entries[e - 2] is entry e of the FAT as the kernel's driver
\* unpacks it, for every image whose FAT is there, also if the pairs do not
\* fill it.
TableDecoded ==
    image.len >= KernelDirStart(boot) =>
        \A k \in DOMAIN table \cap 0..(num - 1) :
            table[k] = KernelEntry(image.fat, k + 2)

\* After a successful read of such an image the entries in memory are the
\* root directory up to the first free entry, and volume_label is the last
\* entry before it with the volume bit, if there is one.
RootRead ==
    phase = "done" /\ Whole(image) /\ Pairs(boot) =>
        LET free == {k \in DOMAIN image.root : is_entry_free(image.root[k])}
            end == IF free = {} THEN boot.maxRoot ELSE Min(free)
            volumes == {k \in 0..(end - 1) : is_volume_label(image.root[k])}
        IN /\ \A k \in DOMAIN image.root : k <= end => root[k] = image.root[k]
           /\ label = IF volumes = {} THEN -1 ELSE Max(volumes)

\* free_fat12 is only given NULL or a live block, wherever read_fat12 stopped,
\* and leaves nothing allocated.
FreeIsValid ==
    /\ phase \in {"done", "failed"} => \A a \in Arrays : ptr[a] \in {"null", "heap"}
    /\ phase = "freed" => \A a \in Arrays : ptr[a] # "heap"

\* read_fat12 and the program around it end, truncated and misread images
\* included.
ReadEnds == <>(phase = "freed")

\* fat12.c:201 "Skip any remaining FAT copies": after the skip the root
\* directory follows.
RootFollowsCopies ==
    phase = "root" /\ Whole(image) =>
        pos = KernelDirStart(boot) + DIR_ENTRY_MEMBER_SIZE * i
=============================================================================
