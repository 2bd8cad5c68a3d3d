---------------------------- MODULE Fat12Files ----------------------------
(***************************************************************************)
(* What the two FAT12 programs do with a volume once Fat12Read has read    *)
(* it: msdosdir prints the volume name and the files (print_fat12),        *)
(* msdosextr writes the files out (extract_files, extract_single_file,     *)
(* write_cluster).  One step is one turn of a loop.                        *)
(*                                                                         *)
(* A volume is what is in memory: boot sector, fat_entries, eof_marker,    *)
(* the root directory and the label.  It may be damaged; a read outside    *)
(* an array crashes the program or gives one of JunkEntries, JunkClusters. *)
(* File names are left out: they decide only where the output goes.        *)
(***************************************************************************)
EXTENDS Fat12Volume, FiniteSets, Functions, Sequences

CONSTANTS
    Volumes,        \* the volumes the programs are run on
    JunkEntries,    \* what memory after root_dir_entries may look like
    JunkClusters,   \* what memory around fat_entries may look like
    Overscan,       \* bound: entries read after the end of root_dir_entries
    MaxCopies,      \* bound: pieces of one file that are remembered
    UINT,           \* 2^32, the range of a uint32_t
    MaxFds          \* how many output files the process can have open

ASSUME VolumeAssumption ==
    \A v \in Volumes :
      /\ v.boot \in BootSectors /\ v.boot.maxRoot \in Word
      /\ cluster_size(v.boot) > 0
      /\ bytes_per_fat(v.boot) >= 3
      /\ base_address(v.boot)
           + cluster_size(v.boot) * num_fat_entries(v.boot) < UINT
      /\ v.table \in [0..(num_fat_entries(v.boot) - 1) -> Twelve]
      /\ v.root \in [0..(v.boot.maxRoot - 1) -> DirEntries]
      /\ v.eof \in Twelve
      /\ v.label \in DOMAIN v.root \cup {-1}
ASSUME JunkAssumption == /\ JunkEntries \subseteq DirEntries
                         /\ JunkClusters \subseteq Word
\* No chain without a cycle is longer than what is remembered of a file.
ASSUME BoundAssumption ==
    /\ {Overscan, MaxCopies, UINT, MaxFds} \subseteq Nat /\ UINT > 0
    /\ \A v \in Volumes : num_fat_entries(v.boot) < MaxCopies

VARIABLES
    vol,      \* fat
    phase,    \* the loop the program is in
    i,        \* the loop counter over the root directory
    entry,    \* entry of extract_single_file
    cluster,  \* cluster of extract_single_file
    fds,      \* output files opened; none is ever closed
    out,      \* what was written for an entry: sequence of pieces
    short,    \* entries for which a read or a write failed
    visited,  \* entries that were listed, or that an output was opened for
    refused,  \* entries whose output could not be opened
    total,    \* total_files and total_size of print_file_data
    line      \* the last line printed: entry and stamp

vars == <<vol, phase, i, entry, cluster, fds, out, short, visited, refused,
          total, line>>

boot == vol.boot
max_root == boot.maxRoot

TypeOK ==
    /\ vol.boot \in BootSectors
    /\ phase \in {"start", "list", "extract", "copy", "listed", "extracted",
                 "nomemory", "crashed"}
    /\ i \in Word
    /\ entry \in DirEntries
    /\ cluster \in Word
    /\ fds \in 0..MaxFds
    /\ \A k \in DOMAIN out : Len(out[k]) <= MaxCopies
    /\ short \subseteq DOMAIN out /\ DOMAIN out \subseteq visited
    /\ visited \cup refused \subseteq Word
    /\ total.files \in Nat /\ total.size \in Nat

NoEntry == [first |-> "free", attr |-> {}, time |-> 0, date |-> 0,
            start |-> 0, size |-> 0]
NoLine == [entry |-> -1]

Init ==
    /\ vol \in Volumes
    /\ phase = "start"
    /\ i = 0
    /\ entry = NoEntry
    /\ cluster = 0
    /\ fds = 0
    /\ out = <<>>
    /\ short = {}
    /\ visited = {}
    /\ refused = {}
    /\ total = [files |-> 0, size |-> 0]
    /\ line = NoLine

-----------------------------------------------------------------------------
\* The entry that root_dir_entries + i is.
EntryAt == IF i < max_root THEN {vol.root[i]}
           ELSE IF i < max_root + Overscan THEN JunkEntries ELSE {}

\* Fault: the first two entries, which are not in the array, are not taken off.
NextClusterUnbiased == IF cluster \in DOMAIN vol.table THEN {vol.table[cluster]}
                       ELSE JunkClusters

\* fat_entries[cluster - 2].
NextCluster == IF cluster - 2 \in DOMAIN vol.table THEN {vol.table[cluster - 2]}
               ELSE JunkClusters

\* Where write_cluster reads, as a 32-bit unsigned number.
ClusterAddress(c) ==
    (base_address(boot) + cluster_size(boot) * (c - 2)) % UINT

-----------------------------------------------------------------------------
\* msdosdir: print_volume_data looks at the label without asking whether one
\* was found.
ListStart ==
    /\ phase = "start"
    /\ phase' \in IF vol.label = -1 THEN {"list", "crashed"} ELSE {"list"}
    /\ UNCHANGED <<vol, i, entry, cluster, fds, out, short, visited, refused,
                   total, line>>

\* One turn of print_file_data.
ListEntry ==
    /\ phase = "list"
    /\ i < max_root
    /\ ~ is_entry_free(vol.root[i])
    /\ i' = i + 1
    /\ IF is_regular_entry(vol.root[i])
       THEN LET e == vol.root[i]
            IN /\ total' = [files |-> total.files + 1,
                            size |-> (total.size + e.size) % UINT]
               /\ visited' = visited \cup {i}
               /\ line' = [entry |-> i, stamp |-> Stamp(e.time, e.date)]
       ELSE UNCHANGED <<total, visited, line>>
    /\ UNCHANGED <<vol, phase, entry, cluster, fds, out, short, refused>>

\* Fault: the loop over the directory does not stop at the last entry.
ListEndFree ==
    /\ phase = "list"
    /\ i < max_root /\ is_entry_free(vol.root[i])
    /\ phase' = "listed"
    /\ UNCHANGED <<vol, i, entry, cluster, fds, out, short, visited, refused,
                   total, line>>

\* The end of print_file_data.
ListEnd ==
    /\ phase = "list"
    /\ i < max_root => is_entry_free(vol.root[i])
    /\ phase' = "listed"
    /\ UNCHANGED <<vol, i, entry, cluster, fds, out, short, visited, refused,
                   total, line>>

-----------------------------------------------------------------------------
\* msdosextr: extract_files is entered.
ExtractStart ==
    /\ phase = "start"
    /\ phase' = "extract"
    /\ UNCHANGED <<vol, i, entry, cluster, fds, out, short, visited, refused,
                   total, line>>

\* No memory for the file name.
ExtractNoMemory ==
    /\ phase = "start"
    /\ phase' = "nomemory"
    /\ UNCHANGED <<vol, i, entry, cluster, fds, out, short, visited, refused,
                   total, line>>

\* An entry that is not a file is passed over.
SkipEntry ==
    /\ phase = "extract"
    /\ max_root # 0
    /\ \E e \in EntryAt : ~ is_entry_free(e) /\ ~ is_regular_entry(e)
    /\ i' = (i + 1) % 65536
    /\ UNCHANGED <<vol, phase, entry, cluster, fds, out, short, visited, refused,
                   total, line>>

\* Fault: the bias of the table's index is taken off here as well.
OpenFileBiased ==
    /\ phase = "extract"
    /\ max_root # 0
    /\ fds < MaxFds
    /\ fds' = fds + 1
    /\ \E e \in EntryAt :
         /\ ~ is_entry_free(e) /\ is_regular_entry(e)
         /\ entry' = e
         /\ cluster' = e.start - 2
         /\ IF e.start = 0
            THEN phase' = phase /\ i' = (i + 1) % 65536
            ELSE phase' = "copy" /\ i' = i
    /\ out' = [k \in DOMAIN out \cup {i} |-> IF k = i THEN <<>> ELSE out[k]]
    /\ visited' = visited \cup {i}
    /\ UNCHANGED <<vol, short, refused, total, line>>

\* A file is opened.
OpenFile ==
    /\ phase = "extract"
    /\ max_root # 0
    /\ fds < MaxFds
    /\ fds' = fds + 1
    /\ \E e \in EntryAt :
         /\ ~ is_entry_free(e) /\ is_regular_entry(e)
         /\ entry' = e
         /\ cluster' = e.start
         /\ IF e.start = 0
            THEN phase' = phase /\ i' = (i + 1) % 65536
            ELSE phase' = "copy" /\ i' = i
    /\ out' = [k \in DOMAIN out \cup {i} |-> IF k = i THEN <<>> ELSE out[k]]
    /\ visited' = visited \cup {i}
    /\ UNCHANGED <<vol, short, refused, total, line>>

\* It cannot be opened: a message, and the loop goes on.
OpenFails ==
    /\ phase = "extract"
    /\ max_root # 0
    /\ \E e \in EntryAt : ~ is_entry_free(e) /\ is_regular_entry(e)
    /\ refused' = refused \cup {i}
    /\ i' = (i + 1) % 65536
    /\ UNCHANGED <<vol, phase, entry, cluster, fds, out, short, visited, total, line>>

\* Fault: the last cluster is written whole.
CopyClusterWhole ==
    /\ phase = "copy"
    /\ \E next \in NextCluster, ok \in BOOLEAN :
         LET last == next = vol.eof
         IN /\ cluster' = next
            /\ phase' = IF last THEN "extract" ELSE "copy"
            /\ i' = IF last THEN (i + 1) % 65536 ELSE i
            /\ out' = IF Len(out[i]) >= MaxCopies THEN out ELSE
                      [out EXCEPT ![i] = Append(@, [at |-> ClusterAddress(cluster),
                                         n |-> cluster_size(boot)])]
            /\ short' = IF ok THEN short ELSE short \cup {i}
    /\ UNCHANGED <<vol, entry, fds, visited, refused, total, line>>

\* One turn of the loop of extract_single_file with write_cluster, which does
\* not look at what its calls return.
CopyCluster ==
    /\ phase = "copy"
    /\ \E next \in NextCluster, ok \in BOOLEAN :
         LET last == next = vol.eof
             write_size == IF last THEN entry.size % cluster_size(boot)
                                   ELSE cluster_size(boot)
         IN /\ cluster' = next
            /\ phase' = IF last THEN "extract" ELSE "copy"
            /\ i' = IF last THEN (i + 1) % 65536 ELSE i
            /\ out' = IF Len(out[i]) >= MaxCopies THEN out ELSE
                      [out EXCEPT ![i] = Append(@, [at |-> ClusterAddress(cluster),
                                                    n |-> write_size])]
            /\ short' = IF ok THEN short ELSE short \cup {i}
    /\ UNCHANGED <<vol, entry, fds, visited, refused, total, line>>

\* The loop of extract_files ends at a free entry; the test of
\* max_root_dir_entries does not compare it with i.
ExtractEnd ==
    /\ phase = "extract"
    /\ max_root # 0 => \E e \in EntryAt : is_entry_free(e)
    /\ phase' = "extracted"
    /\ UNCHANGED <<vol, i, entry, cluster, fds, out, short, visited, refused,
                   total, line>>

\* A read outside an array.
Crash ==
    /\ \/ phase = "extract" /\ max_root # 0 /\ i >= max_root
       \/ phase = "copy" /\ cluster - 2 \notin DOMAIN vol.table
    /\ phase' = "crashed"
    /\ UNCHANGED <<vol, i, entry, cluster, fds, out, short, visited, refused,
                   total, line>>

List == ListStart \/ ListEntry \/ ListEnd
Extract == ExtractStart \/ ExtractNoMemory \/ SkipEntry \/ OpenFile \/ OpenFails
             \/ CopyCluster \/ ExtractEnd

Next == List \/ Extract \/ Crash

Spec == Init /\ [][Next]_vars

\* The program is one thread that runs until it exits.
FairSpec == Spec /\ WF_vars(List \/ Extract)

-----------------------------------------------------------------------------
\* The clusters of a chain as the kernel's driver follows it, at most one for
\* each entry of the table.
KernelChain(v, start) ==
    LET walk[n \in Nat] ==
          IF n = 0 THEN <<start>>
          ELSE LET w == walk[n - 1]
                   c == w[Len(w)] - 2
               IN IF c \notin DOMAIN v.table \/ KernelEnds(v.table[c]) THEN w
                  ELSE Append(w, v.table[c])
    IN walk[num_fat_entries(v.boot)]

\* The chain stays in the table and ends with the mark of this volume.
SoundChain(v, start) ==
    LET chain == KernelChain(v, start)
    IN /\ \A k \in DOMAIN chain : chain[k] - 2 \in DOMAIN v.table
       /\ v.table[chain[Len(chain)] - 2] = v.eof

\* The files of the root directory: what comes before the first free entry
\* and is neither deleted nor a label.
Files(v) ==
    {k \in DOMAIN v.root : /\ v.root[k].first = "used"
                           /\ "volume" \notin v.root[k].attr
                           /\ \A j \in 0..k : ~ is_entry_free(v.root[j])}

HasFreeEntry(v) == \E k \in DOMAIN v.root : is_entry_free(v.root[k])

SoundVolume(v) ==
    /\ KernelEnds(v.eof)
    /\ HasFreeEntry(v) \/ v.boot.maxRoot = 0
    /\ \A k \in Files(v) : v.root[k].start # 0 => SoundChain(v, v.root[k].start)

Ended == {"listed", "extracted", "nomemory", "crashed"}
Finished(k) == k \in DOMAIN out /\ (i > k \/ phase \in Ended)

\* On a sound volume neither program reads outside its arrays (msdosdir alone
\* can crash, for want of a label), although extract_files does not compare its
\* counter with the size of the directory and the chain is followed without a
\* test of the cluster.
ReadsInside ==
    SoundVolume(vol) =>
        /\ phase = "crashed" => vol.label = -1 /\ visited = {}
        /\ phase = "extract" /\ max_root # 0 => i < max_root
        /\ phase = "copy" => cluster - 2 \in DOMAIN vol.table

\* On a sound volume the pieces written for a file are the clusters of its
\* chain in order, each from where the kernel's driver has it on the disk.
ChainsCopied ==
    SoundVolume(vol) =>
        \A k \in {x \in DOMAIN out : Finished(x)} :
            LET start == vol.root[k].start
                chain == IF start = 0 THEN <<>> ELSE KernelChain(vol, start)
            IN [p \in DOMAIN out[k] |-> out[k][p].at]
                 = [p \in DOMAIN chain |-> KernelDirStart(boot)
                      + max_root * 32 + (chain[p] - 2) * boot.spc * boot.bps]

Bytes(pieces) == SumFunction([p \in DOMAIN pieces |-> pieces[p].n])

\* The chain has as many clusters as the size asks for.
SizeFits(k) ==
    LET e == vol.root[k]
        cs == cluster_size(boot)
    IN IF e.start = 0 THEN e.size = 0
       ELSE Len(KernelChain(vol, e.start)) = (e.size + cs - 1) \div cs

ExactMultiple(k) == /\ vol.root[k].size > 0
                    /\ vol.root[k].size % cluster_size(boot) = 0

\* A file whose size fits its chain comes out with that size, unless a call
\* of write_cluster failed or the size is a multiple of the cluster size.
SizesKept ==
    SoundVolume(vol) =>
        \A k \in {x \in DOMAIN out : Finished(x)} \ short :
            SizeFits(k) /\ ~ ExactMultiple(k) => Bytes(out[k]) = vol.root[k].size

\* Each program handles exactly the files, up to the first free entry or the
\* end of the directory: msdosdir lists and counts them, msdosextr writes
\* them or says that it cannot.
AllFilesHandled ==
    /\ phase = "listed" =>
         /\ visited = Files(vol)
         /\ total.files = Cardinality(Files(vol))
         /\ total.size = SumFunction([k \in Files(vol) |-> vol.root[k].size]) % UINT
    /\ phase = "extracted" /\ HasFreeEntry(vol) => visited \cup refused = Files(vol)

\* The stamps printed have the kernel's month, day and hour, its year before
\* 2044, its minutes unless the bit worth 16 minutes is set, and half its
\* seconds.
StampsAgree ==
    line # NoLine =>
        LET e == vol.root[line.entry]
            k == KernelStamp(e.time, e.date)
            s == line.stamp
        IN /\ s.month = k.month /\ s.day = k.day /\ s.hours = k.hours
           /\ k.year < 2044 => s.year = k.year
           /\ (k.minutes \div 16) % 2 = 0 => s.minutes = k.minutes
           /\ 2 * s.seconds = k.seconds

\* On a sound volume both programs end.
ProgramsEnd == SoundVolume(vol) => <>(phase \in Ended)

\* msdos_fs.h:158 "file size (in bytes)": what is extracted has the size that
\* the directory gives and msdosdir prints.
FilesComplete ==
    SoundVolume(vol) =>
        \A k \in {x \in DOMAIN out : Finished(x)} \ short :
            SizeFits(k) => Bytes(out[k]) = vol.root[k].size
=============================================================================
