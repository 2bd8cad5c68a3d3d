-------------------------- MODULE Fat12FilesProofs --------------------------
(***************************************************************************)
(* Proofs about Fat12Files, for every set of volumes and every content of  *)
(* the memory around the arrays.                                           *)
(***************************************************************************)
EXTENDS Fat12Files, Summation, SequenceTheorems

\* A piece of an output file.
Pieces == [at : Nat, n : Nat]

Phases == {"start", "list", "extract", "copy", "listed", "extracted", "nomemory", "crashed"}

\* The ranges of the numbers by their ends.
LEMMA WordRange ==
    /\ \A x \in Word : x \in Nat /\ x <= 65535
    /\ \A x \in Nat : x <= 65535 => x \in Word
<1>1. USHRT_MAX = 65535 /\ USHRT_MAX \in Nat
  BY DEF USHRT_MAX
<1>2. USHRT_MAX \in Nat
  BY <1>1
<1>3. \A x : x \in Word <=> x \in Nat /\ x <= USHRT_MAX
  BY <1>2 DEF Word
<1> QED
  BY <1>1, <1>3

LEMMA TwelveRange ==
    /\ \A x \in Twelve : x \in Nat /\ x <= 4095
    /\ \A x \in Nat : x <= 4095 => x \in Twelve
<1>1. MAX_FAT12_ENTRY = 4095 /\ MAX_FAT12_ENTRY \in Nat
  BY DEF MAX_FAT12_ENTRY
<1>2. MAX_FAT12_ENTRY \in Nat
  BY <1>1
<1>3. \A x : x \in Twelve <=> x \in Nat /\ x <= MAX_FAT12_ENTRY
  BY <1>2 DEF Twelve
<1> QED
  BY <1>1, <1>3

LEMMA TwelveWord == Twelve \subseteq Word
<1>1. ASSUME NEW x \in Twelve PROVE x \in Word
  <2>1. x \in Nat /\ x <= 4095
    BY TwelveRange
  <2>2. x <= 65535
    BY <2>1
  <2> QED
    BY <2>1, <2>2, WordRange
<1> QED
  BY <1>1

\* What is known of a volume in numbers.
LEMMA VolumeFacts ==
    ASSUME NEW v \in Volumes
    PROVE  /\ v.boot \in BootSectors /\ v.boot.maxRoot \in Nat /\ v.boot.maxRoot <= 65535
           /\ cluster_size(v.boot) \in Nat /\ cluster_size(v.boot) > 0
           /\ base_address(v.boot) \in Nat
           /\ num_fat_entries(v.boot) \in Nat /\ num_fat_entries(v.boot) < MaxCopies
           /\ base_address(v.boot) + cluster_size(v.boot) * num_fat_entries(v.boot) < UINT
           /\ v.table \in [0..(num_fat_entries(v.boot) - 1) -> Twelve]
           /\ v.root \in [0..(v.boot.maxRoot - 1) -> DirEntries]
           /\ v.eof \in Twelve /\ v.label \in Int
           /\ UINT \in Nat /\ UINT > 0 /\ MaxCopies \in Nat /\ MaxFds \in Nat /\ Overscan \in Nat
<1> DEFINE b == v.boot
<1>1. b \in BootSectors /\ b.maxRoot \in Word /\ cluster_size(b) > 0 /\ bytes_per_fat(b) >= 3
  BY VolumeAssumption
<1>2. /\ b.bps \in Nat /\ b.spc \in Nat /\ b.reserved \in Nat /\ b.copies \in Nat
      /\ b.maxRoot \in Nat /\ b.spf \in Nat
  BY <1>1 DEF BootSectors
<1>3. b.maxRoot <= 65535
  BY <1>1, WordRange
<1> HIDE DEF b
<1>4. cluster_size(b) \in Nat /\ bytes_per_fat(b) \in Nat
  BY <1>2 DEF cluster_size, bytes_per_fat
<1>5. base_address(b) \in Nat
  <2>1. b.reserved + b.spf * b.copies \in Nat
    BY <1>2
  <2>2. (b.reserved + b.spf * b.copies) * b.bps \in Nat
    BY <1>2, <2>1
  <2> QED
    BY <1>2, <2>2 DEF base_address, DIR_ENTRY_MEMBER_SIZE
<1>6. num_fat_entries(b) \in Nat
  <2>1. \A n \in Nat : n >= 3 => (n * 2) \div 3 - 2 \in Nat
    OBVIOUS
  <2> QED
    BY <1>1, <1>4, <2>1 DEF num_fat_entries
<1>7. /\ base_address(b) + cluster_size(b) * num_fat_entries(b) < UINT
      /\ v.table \in [0..(num_fat_entries(b) - 1) -> Twelve]
      /\ v.root \in [0..(b.maxRoot - 1) -> DirEntries] /\ v.eof \in Twelve
  BY VolumeAssumption DEF b
<1>8. v.label \in Int
  <2>1. v.label \in DOMAIN v.root \cup {-1}
    BY VolumeAssumption
  <2> QED
    BY <1>2, <1>7, <2>1
<1>9. /\ UINT \in Nat /\ UINT > 0 /\ MaxCopies \in Nat /\ MaxFds \in Nat /\ Overscan \in Nat
      /\ num_fat_entries(b) < MaxCopies
  BY BoundAssumption DEF b
<1>10. /\ b \in BootSectors /\ b.maxRoot \in Nat /\ b.maxRoot <= 65535
       /\ cluster_size(b) \in Nat /\ cluster_size(b) > 0
  BY ONLY <1>1, <1>2, <1>3, <1>4
<1> QED
  BY ONLY <1>5, <1>6, <1>7, <1>8, <1>9, <1>10 DEF b

\* What is known of its root directory.
LEMMA RootFacts ==
    ASSUME NEW v \in Volumes
    PROVE  v.boot.maxRoot \in Nat /\ v.root \in [0..(v.boot.maxRoot - 1) -> DirEntries]
  BY VolumeFacts

---------------------------------------------------------------------------
(* Types *)

OutTypes(o) == \A k \in DOMAIN o : o[k] \in Seq(Pieces) /\ Len(o[k]) <= MaxCopies

\* Nothing has been done yet.
Fresh == /\ i = 0 /\ visited = {} /\ refused = {} /\ DOMAIN out = {} /\ short = {}
         /\ total = [files |-> 0, size |-> 0] /\ line = NoLine

Base ==
    /\ vol \in Volumes
    /\ phase \in Phases
    /\ i \in Word
    /\ entry \in DirEntries
    /\ cluster \in Word
    /\ fds \in 0..MaxFds
    /\ OutTypes(out)
    /\ out = [k \in DOMAIN out |-> out[k]]
    /\ short \subseteq DOMAIN out /\ DOMAIN out \subseteq visited
    /\ visited \cup refused \subseteq Word
    /\ total \in [files : Nat, size : Nat]
    /\ phase = "copy" => i \in DOMAIN out
    /\ phase = "list" => i <= max_root
    /\ phase = "start" => Fresh

LEMMA BaseInit == Init => Base
<1> SUFFICES ASSUME Init PROVE Base
  OBVIOUS
<1>1. vol \in Volumes
  BY DEF Init
<1>2. MaxFds \in Nat
  BY <1>1, VolumeFacts
<1>4. 0 \in Word /\ 0 \in 0..MaxFds
  BY <1>2, WordRange
<1>3. NoEntry \in DirEntries
  BY <1>4 DEF NoEntry, DirEntries
<1>5. DOMAIN out = {} /\ out = [k \in DOMAIN out |-> out[k]]
  BY DEF Init
<1>6. OutTypes(out)
  BY <1>5 DEF OutTypes
<1>7. total \in [files : Nat, size : Nat]
  BY DEF Init
<1>8. Fresh
  BY <1>5 DEF Init, Fresh
<1> QED
  BY <1>1, <1>3, <1>4, <1>5, <1>6, <1>7, <1>8 DEF Init, Base, Phases

\* What a step may leave in the variables that the other facts are about.
LEMMA ModRange ==
    ASSUME NEW a \in Int, NEW n \in Nat, n > 0
    PROVE  a % n \in Nat /\ a % n < n
  BY Z3

LEMMA EntryAtType ==
    ASSUME vol \in Volumes, i \in Word
    PROVE  EntryAt \subseteq DirEntries
<1>1. max_root \in Nat /\ vol.root \in [0..(max_root - 1) -> DirEntries] /\ i \in Nat
  BY RootFacts, WordRange DEF max_root, boot
<1>2. i < max_root => vol.root[i] \in DirEntries
  BY <1>1
<1> QED
  BY <1>2, JunkAssumption DEF EntryAt

LEMMA NextClusterType ==
    ASSUME vol \in Volumes
    PROVE  NextCluster \subseteq Word
<1>0. vol.table \in [0..(num_fat_entries(vol.boot) - 1) -> Twelve]
  BY VolumeFacts
<1>1. \A c \in DOMAIN vol.table : vol.table[c] \in Twelve
  BY ONLY <1>0
<1>2. Twelve \subseteq Word
  BY TwelveWord
<1> QED
  BY <1>1, <1>2, JunkAssumption DEF NextCluster

LEMMA BaseStep == Base /\ [Next]_vars => Base'
<1> SUFFICES ASSUME Base, [Next]_vars PROVE Base'
  OBVIOUS
<1>0. /\ vol \in Volumes /\ phase \in Phases /\ i \in Word /\ entry \in DirEntries
      /\ cluster \in Word /\ fds \in 0..MaxFds /\ OutTypes(out) /\ short \subseteq DOMAIN out
      /\ DOMAIN out \subseteq visited /\ visited \cup refused \subseteq Word
      /\ total \in [files : Nat, size : Nat]
      /\ out = [k \in DOMAIN out |-> out[k]]
  BY DEF Base
<1>1. /\ max_root \in Nat /\ max_root <= 65535 /\ UINT \in Nat /\ UINT > 0 /\ MaxCopies \in Nat
      /\ cluster_size(boot) \in Nat /\ cluster_size(boot) > 0 /\ base_address(boot) \in Nat
      /\ vol.root \in [0..(max_root - 1) -> DirEntries] /\ MaxFds \in Nat
  <2>1. vol \in Volumes
    BY <1>0
  <2> QED
    BY ONLY <2>1, VolumeFacts DEF max_root, boot
<1>2. (i + 1) % 65536 \in Word
  <2>1. i + 1 \in Int /\ 65536 \in Nat
    BY <1>0, WordRange
  <2>2. (i + 1) % 65536 \in Nat /\ (i + 1) % 65536 < 65536
    BY <2>1, ModRange
  <2>3. (i + 1) % 65536 <= 65535
    BY <2>2
  <2> QED
    BY <2>2, <2>3, WordRange
<1>3. CASE ListStart \/ ListEnd \/ ExtractStart \/ ExtractNoMemory \/ ExtractEnd \/ Crash
  <2>1. /\ UNCHANGED <<vol, i, entry, cluster, fds, out, short, visited, refused, total, line>>
        /\ phase' \in Phases \ {"copy", "start"} /\ (phase' = "list" => phase = "start")
    BY <1>3 DEF ListStart, ListEnd, ExtractStart, ExtractNoMemory, ExtractEnd, Crash, Phases
  <2>2. phase' = "list" => i <= max_root
    BY <1>1, <2>1 DEF Base, Fresh
  <2>3. max_root' = max_root
    BY <2>1 DEF max_root, boot
  <2> QED
    BY <1>0, <2>1, <2>2, <2>3 DEF Base
<1>4. CASE ListEntry
  <2>1. /\ phase = "list" /\ i < max_root /\ i' = i + 1
        /\ UNCHANGED <<vol, phase, entry, cluster, fds, out, short, refused>>
        /\ \/ UNCHANGED <<total, visited, line>>
           \/ /\ total' = [files |-> total.files + 1,
                           size |-> (total.size + vol.root[i].size) % UINT]
              /\ visited' = visited \cup {i}
    BY <1>4 DEF ListEntry
  <2>2. i' \in Word /\ i' <= max_root /\ i \in 0..(max_root - 1)
    <3>1. i \in Nat
      BY <1>0, WordRange
    <3>2. i' \in Nat /\ i' <= max_root /\ i' <= 65535 /\ i \in 0..(max_root - 1)
      BY <1>1, <2>1, <3>1
    <3> QED
      BY <3>2, WordRange
  <2>3. vol.root[i].size \in Nat
    BY <1>1, <2>2 DEF DirEntries
  <2>4. total' \in [files : Nat, size : Nat]
    <3>1. total.size + vol.root[i].size \in Int
      BY <1>0, <2>3
    <3>2. (total.size + vol.root[i].size) % UINT \in Nat
      BY <1>1, <3>1, ModRange
    <3> QED
      BY <1>0, <2>1, <3>2
  <2>5. visited' \cup refused \subseteq Word /\ DOMAIN out \subseteq visited'
    BY <1>0, <2>1
  <2>6. max_root' = max_root
    BY <2>1 DEF max_root, boot
  <2> QED
    BY <1>0, <2>1, <2>2, <2>4, <2>5, <2>6 DEF Base
<1>5. CASE SkipEntry \/ OpenFails
  <2>1. /\ phase = "extract" /\ i' = (i + 1) % 65536 /\ refused' \subseteq refused \cup {i}
        /\ UNCHANGED <<vol, phase, entry, cluster, fds, out, short, visited, total, line>>
    BY <1>5 DEF SkipEntry, OpenFails
  <2> QED
    BY <1>0, <1>2, <2>1 DEF Base
<1>6. CASE OpenFile
  <2>1. PICK e \in EntryAt :
           /\ entry' = e /\ cluster' = e.start
           /\ IF e.start = 0
              THEN phase' = phase /\ i' = (i + 1) % 65536
              ELSE phase' = "copy" /\ i' = i
    BY <1>6 DEF OpenFile
  <2>2. /\ phase = "extract" /\ fds < MaxFds /\ fds' = fds + 1
        /\ out' = [k \in DOMAIN out \cup {i} |-> IF k = i THEN <<>> ELSE out[k]]
        /\ visited' = visited \cup {i}
        /\ UNCHANGED <<vol, short, refused, total, line>>
    BY <1>6 DEF OpenFile
  <2>3. e \in DirEntries
    BY <1>0, EntryAtType
  <2>4. entry' \in DirEntries /\ cluster' \in Word
    BY <2>1, <2>3 DEF DirEntries
  <2>5. fds' \in 0..MaxFds
    BY <1>0, <1>1, <2>2
  <2>6. OutTypes(out')
    <3>1. <<>> \in Seq(Pieces) /\ Len(<<>>) <= MaxCopies
      BY <1>1
    <3> QED
      BY <1>0, <2>2, <3>1 DEF OutTypes
  <2>7. DOMAIN out' = DOMAIN out \cup {i} /\ out' = [k \in DOMAIN out' |-> out'[k]]
    BY <2>2
  <2>8. phase' \in {"extract", "copy"} /\ i' \in Word /\ (phase' = "copy" => i' = i)
    BY <1>0, <1>2, <2>1, <2>2
  <2> QED
    BY <1>0, <2>2, <2>4, <2>5, <2>6, <2>7, <2>8 DEF Base, Phases
<1>7. CASE CopyCluster
  <2>1. PICK next \in NextCluster, ok \in BOOLEAN :
         LET last == next = vol.eof
             write_size == IF last THEN entry.size % cluster_size(boot)
                                   ELSE cluster_size(boot)
         IN /\ cluster' = next
            /\ phase' = IF last THEN "extract" ELSE "copy"
            /\ i' = IF last THEN (i + 1) % 65536 ELSE i
            /\ out' = IF Len(out[i]) >= MaxCopies THEN out ELSE
                      [out EXCEPT ![i] = Append(@, [at |-> ClusterAddress(cluster),
                                                    n |-> write_size])]
            /\ short' = IF ok THEN short ELSE short \cup {i}
    BY <1>7 DEF CopyCluster
  <2> DEFINE ws == IF next = vol.eof THEN entry.size % cluster_size(boot) ELSE cluster_size(boot)
             piece == [at |-> ClusterAddress(cluster), n |-> ws]
  <2>2. /\ cluster' = next
        /\ phase' = IF next = vol.eof THEN "extract" ELSE "copy"
        /\ i' = IF next = vol.eof THEN (i + 1) % 65536 ELSE i
        /\ out' = IF Len(out[i]) >= MaxCopies THEN out
                  ELSE [out EXCEPT ![i] = Append(out[i], piece)]
        /\ short' \subseteq short \cup {i}
    BY <2>1
  <2>3. phase = "copy" /\ UNCHANGED <<vol, entry, fds, visited, refused, total, line>>
    BY <1>7 DEF CopyCluster
  <2>4. next \in Word /\ i \in DOMAIN out
    BY <1>0, <2>3, NextClusterType DEF Base
  <2>5. piece \in Pieces
    <3>1. ClusterAddress(cluster) \in Nat
      <4>1. base_address(boot) + cluster_size(boot) * (cluster - 2) \in Int
        <5>1. cluster \in Nat
          BY <1>0, WordRange
        <5>2. cluster_size(boot) * (cluster - 2) \in Int
          BY <1>1, <5>1
        <5> QED
          BY <1>1, <5>2
      <4> QED
        BY <1>1, <4>1, ModRange DEF ClusterAddress
    <3>2. ws \in Nat
      <4>1. entry.size \in Int
        BY <1>0 DEF DirEntries
      <4>2. entry.size % cluster_size(boot) \in Nat
        BY <1>1, <4>1, ModRange
      <4> QED
        BY <1>1, <4>2
    <3> HIDE DEF ws
    <3> QED
      BY <3>1, <3>2 DEF Pieces
  <2> HIDE DEF piece
  <2>6. OutTypes(out') /\ DOMAIN out' = DOMAIN out /\ out' = [k \in DOMAIN out' |-> out'[k]]
    <3>1. CASE Len(out[i]) >= MaxCopies
      BY <1>0, <2>2, <3>1
    <3>2. CASE ~ (Len(out[i]) >= MaxCopies)
      <4> DEFINE w == Append(out[i], piece)
      <4>1. out[i] \in Seq(Pieces)
        BY <1>0, <2>4 DEF OutTypes
      <4>2. w \in Seq(Pieces) /\ Len(w) = Len(out[i]) + 1
        BY ONLY <2>5, <4>1, AppendProperties
      <4>3. Len(w) <= MaxCopies
        <5>1. Len(out[i]) \in Nat
          BY <4>1
        <5> HIDE DEF w
        <5> QED
          BY <1>1, <3>2, <4>2, <5>1
      <4> HIDE DEF w
      <4>4. out' = [out EXCEPT ![i] = w]
        BY <2>2, <3>2 DEF w
      <4>5. DOMAIN out' = DOMAIN out /\ out' = [k \in DOMAIN out' |-> out'[k]]
            /\ \A k \in DOMAIN out : out'[k] = IF k = i THEN w ELSE out[k]
        BY ONLY <1>0, <4>4
      <4> QED
        BY <1>0, <4>2, <4>3, <4>5 DEF OutTypes
    <3> QED
      BY <3>1, <3>2
  <2>7. i' \in Word /\ phase' \in {"extract", "copy"} /\ (phase' = "copy" => i' = i)
    BY <1>0, <1>2, <2>2
  <2>8. short' \subseteq DOMAIN out
    BY <1>0, <2>2, <2>4
  <2> QED
    BY <1>0, <2>2, <2>3, <2>4, <2>6, <2>7, <2>8 DEF Base, Phases
<1>8. CASE UNCHANGED vars
  <2>1. UNCHANGED <<vol, phase, i, entry, cluster, fds, out, short, visited, refused, total, line>>
    BY <1>8 DEF vars
  <2>2. max_root' = max_root
    BY <2>1 DEF max_root, boot
  <2> QED
    BY <2>1, <2>2 DEF Base, Fresh
<1> QED
  BY <1>3, <1>4, <1>5, <1>6, <1>7, <1>8 DEF Next, List, Extract

LEMMA BaseHolds == Spec => []Base
  BY BaseInit, BaseStep, PTL DEF Spec

\* Every state of the two programs is well typed, damaged volumes and reads
\* outside the arrays included (print_fat12, extract_files).
THEOREM FilesTypeCorrect == Spec => []TypeOK
<1>1. Base => TypeOK
  <2> SUFFICES ASSUME Base PROVE TypeOK
    OBVIOUS
  <2>1. vol.boot \in BootSectors
    BY VolumeFacts DEF Base
  <2>2. \A k \in DOMAIN out : Len(out[k]) <= MaxCopies
    BY DEF Base, OutTypes
  <2>3. total.files \in Nat /\ total.size \in Nat
    BY DEF Base
  <2> QED
    BY <2>1, <2>2, <2>3 DEF Base, TypeOK, Phases
<1> QED
  BY <1>1, BaseHolds, PTL

---------------------------------------------------------------------------
(* Arithmetic *)

LEMMA DivMod ==
    ASSUME NEW a \in Int, NEW n \in Nat, n > 0
    PROVE  a \div n \in Int /\ (a % n) \in 0..(n - 1) /\ a = n * (a \div n) + (a % n)
  BY Z3

LEMMA DivModUnique ==
    ASSUME NEW n \in Nat, n > 0, NEW q \in Int, NEW r \in 0..(n - 1)
    PROVE  (n * q + r) % n = r /\ (n * q + r) \div n = q
  BY Z3

LEMMA ModSmall ==
    ASSUME NEW x \in Nat, NEW n \in Nat, x < n
    PROVE  x % n = x
  BY Z3

\* A sum may be reduced after every addition.
LEMMA ModAdd ==
    ASSUME NEW x \in Nat, NEW y \in Nat, NEW n \in Nat, n > 0
    PROVE  ((x % n) + y) % n = (x + y) % n
<1> DEFINE q == x \div n
           a == x % n
           p == (a + y) \div n
           r == (a + y) % n
<1>1. q \in Int /\ a \in 0..(n - 1) /\ x = n * q + a
  BY DivMod
<1>2. a + y \in Int
  BY <1>1
<1> HIDE DEF q, a
<1>3. p \in Int /\ r \in 0..(n - 1) /\ a + y = n * p + r
  BY <1>2, DivMod
<1> HIDE DEF p, r
<1>4. x + y = n * (q + p) + r
  <2>1. x + y = n * q + (n * p + r)
    BY <1>1, <1>2, <1>3
  <2> QED
    BY <1>1, <1>3, <2>1
<1>5. q + p \in Int
  BY <1>1, <1>3
<1>6. (n * (q + p) + r) % n = r
  BY <1>3, <1>5, DivModUnique
<1>7. (x + y) % n = r
  BY <1>4, <1>6
<1> QED
  BY <1>7 DEF r, a

\* A size that is not a multiple of the cluster size is the size of all the
\* clusters it needs but the last one, and the rest.
LEMMA LastClusterSize ==
    ASSUME NEW size \in Nat, NEW cs \in Nat, cs > 0, (size % cs) # 0
    PROVE  cs * (((size + cs - 1) \div cs) - 1) + (size % cs) = size
<1> DEFINE q == size \div cs
           r == size % cs
<1>1. q \in Int /\ r \in 0..(cs - 1) /\ size = cs * q + r /\ r # 0
  BY DivMod
<1> HIDE DEF q, r
<1>2. q + 1 \in Int /\ r - 1 \in 0..(cs - 1)
  BY <1>1
<1>3. (cs * (q + 1) + (r - 1)) \div cs = q + 1
  BY <1>2, DivModUnique
<1>4. size + cs - 1 = cs * (q + 1) + (r - 1)
  BY <1>1
<1>5. (size + cs - 1) \div cs = q + 1
  BY <1>3, <1>4
<1>6. (q + 1) - 1 = q
  BY <1>1
<1>7. ((size + cs - 1) \div cs) - 1 = q
  BY ONLY <1>5, <1>6
<1>8. cs * (((size + cs - 1) \div cs) - 1) + r = size
  BY ONLY <1>1, <1>7
<1> QED
  BY <1>8 DEF r

---------------------------------------------------------------------------
(* The stamps *)

LEMMA StampFacts ==
    ASSUME NEW t \in Word, NEW d \in Word
    PROVE  LET k == KernelStamp(t, d)
               s == Stamp(t, d)
           IN  /\ s.month = k.month /\ s.day = k.day /\ s.hours = k.hours
               /\ k.year < 2044 => s.year = k.year
               /\ (k.minutes \div 16) % 2 = 0 => s.minutes = k.minutes
               /\ 2 * s.seconds = k.seconds
<1>1. t \in Nat /\ t <= 65535 /\ d \in Nat /\ d <= 65535
  BY WordRange
<1>2. (t \div 2048) % 32 = t \div 2048
  BY <1>1, Z3
<1>3. d \div 512 + 1980 < 2044 => ((d \div 512) % 64) + 1980 = d \div 512 + 1980
  BY <1>1, Z3
<1> DEFINE m == (t \div 32) % 64
<1>4. (m \div 16) % 2 = 0 => m - 16 * ((m \div 16) % 2) = m
  BY <1>1, Z3
<1>5. 2 * (t % 32) = (t % 32) * 2
  BY <1>1, Z3
<1> QED
  BY <1>2, <1>3, <1>4, <1>5 DEF KernelStamp, Stamp

\* The last line printed is about an entry of the directory.
LineOk(v, l) ==
    \/ l = NoLine
    \/ \E k \in 0..(v.boot.maxRoot - 1) :
         l = [entry |-> k, stamp |-> Stamp(v.root[k].time, v.root[k].date)]

LEMMA LineStep == Base /\ LineOk(vol, line) /\ [Next]_vars => LineOk(vol, line)'
<1> SUFFICES ASSUME Base, LineOk(vol, line), [Next]_vars PROVE LineOk(vol, line)'
  OBVIOUS
<1>1. vol' = vol
  BY DEF Next, List, Extract, ListStart, ListEntry, ListEnd, ExtractStart, ExtractNoMemory,
         SkipEntry, OpenFile, OpenFails, CopyCluster, ExtractEnd, Crash, vars
<1>2. CASE ListEntry
  <2>1. i \in Nat /\ max_root \in Nat /\ max_root = vol.boot.maxRoot
    <3>1. vol.boot.maxRoot \in Nat
      BY VolumeFacts DEF Base
    <3> QED
      BY <3>1, WordRange DEF Base, max_root, boot
  <2>2. /\ i < max_root
        /\ \/ line' = line
           \/ line' = [entry |-> i, stamp |-> Stamp(vol.root[i].time, vol.root[i].date)]
    BY <1>2 DEF ListEntry
  <2>3. i \in 0..(vol.boot.maxRoot - 1)
    BY <2>1, <2>2
  <2> QED
    BY <1>1, <2>2, <2>3 DEF LineOk
<1>3. CASE ~ ListEntry
  <2>1. line' = line
    BY <1>3 DEF Next, List, Extract, ListStart, ListEnd, ExtractStart, ExtractNoMemory,
                SkipEntry, OpenFile, OpenFails, CopyCluster, ExtractEnd, Crash, vars
  <2> QED
    BY <1>1, <2>1 DEF LineOk
<1> QED
  BY <1>2, <1>3

\* What msdosdir prints for the date and the time of a file agrees with
\* the kernel's fields as StampsAgree says, for every date and time
\* (print_single_file_data of fat12.c and its masks).
THEOREM StampsArePrinted == Spec => []StampsAgree
<1>1. Init => LineOk(vol, line)
  BY DEF Init, LineOk
<1>2. Base /\ LineOk(vol, line) => StampsAgree
  <2> SUFFICES ASSUME Base, LineOk(vol, line), line # NoLine PROVE StampsAgree
    BY DEF StampsAgree
  <2>1. PICK k \in 0..(vol.boot.maxRoot - 1) :
           line = [entry |-> k, stamp |-> Stamp(vol.root[k].time, vol.root[k].date)]
    BY DEF LineOk
  <2>2. vol.root \in [0..(vol.boot.maxRoot - 1) -> DirEntries]
    BY RootFacts DEF Base
  <2>3. vol.root[k].time \in Word /\ vol.root[k].date \in Word
    BY <2>2 DEF DirEntries
  <2>4. line.entry = k /\ line.stamp = Stamp(vol.root[k].time, vol.root[k].date)
    BY <2>1
  <2> QED
    BY <2>3, <2>4, StampFacts DEF StampsAgree
<1> QED
  BY <1>1, <1>2, LineStep, BaseHolds, PTL DEF Spec

---------------------------------------------------------------------------
(* The walk over the directory *)

NoFreeBefore(v, n) == \A k \in DOMAIN v.root : k < n => ~ is_entry_free(v.root[k])
FilesBefore(v, n) == {k \in Files(v) : k < n}

\* One more entry: it is a file exactly if the programs take it for one.
LEMMA OneMoreEntry ==
    ASSUME NEW v \in Volumes, NEW j \in Nat, j < v.boot.maxRoot,
           NoFreeBefore(v, j), ~ is_entry_free(v.root[j])
    PROVE  /\ NoFreeBefore(v, j + 1)
           /\ is_regular_entry(v.root[j]) <=> j \in Files(v)
           /\ FilesBefore(v, j + 1) = IF is_regular_entry(v.root[j])
                                      THEN FilesBefore(v, j) \cup {j} ELSE FilesBefore(v, j)
<1>1. v.boot.maxRoot \in Nat /\ v.root \in [0..(v.boot.maxRoot - 1) -> DirEntries]
  BY VolumeFacts
<1>2. DOMAIN v.root = 0..(v.boot.maxRoot - 1) /\ j \in DOMAIN v.root
  BY <1>1
<1>3. NoFreeBefore(v, j + 1)
  BY <1>1, <1>2 DEF NoFreeBefore
<1>4. v.root[j].first \in {"free", "deleted", "used"}
  BY <1>1, <1>2 DEF DirEntries
<1>5. \A k \in 0..j : ~ is_entry_free(v.root[k])
  BY <1>1, <1>2, <1>3 DEF NoFreeBefore
<1>6. is_regular_entry(v.root[j]) <=> j \in Files(v)
  BY <1>2, <1>4, <1>5 DEF Files, is_regular_entry, is_entry_free, is_entry_deleted, is_volume_label
<1>7. \A k \in Files(v) : k \in Int
  BY <1>1, <1>2 DEF Files
<1>8. \A k \in Files(v) : k < j + 1 <=> k < j \/ k = j
  BY <1>7
<1> QED
  BY <1>3, <1>6, <1>8 DEF FilesBefore

\* No file comes after the first free entry or the end of the directory.
LEMMA NoMoreFiles ==
    ASSUME NEW v \in Volumes, NEW j \in Nat, NoFreeBefore(v, j),
           j < v.boot.maxRoot => is_entry_free(v.root[j])
    PROVE  FilesBefore(v, j) = Files(v)
<1>1. v.boot.maxRoot \in Nat /\ DOMAIN v.root = 0..(v.boot.maxRoot - 1)
  BY VolumeFacts
<1> SUFFICES ASSUME NEW k \in Files(v), ~ (k < j) PROVE FALSE
  BY DEF FilesBefore
<1>2. k \in DOMAIN v.root /\ \A x \in 0..k : ~ is_entry_free(v.root[x])
  BY DEF Files
<1>3. j \in 0..k /\ j < v.boot.maxRoot
  BY <1>1, <1>2
<1> QED
  BY <1>2, <1>3

LEMMA FilesFinite ==
    ASSUME NEW v \in Volumes
    PROVE  IsFiniteSet(Files(v)) /\ \A k \in Files(v) : k \in DOMAIN v.root /\ k \in Nat
                                                        /\ v.root[k] \in DirEntries
<1>1. v.boot.maxRoot \in Nat /\ v.root \in [0..(v.boot.maxRoot - 1) -> DirEntries]
  BY VolumeFacts
<1>2. Files(v) \subseteq 0..(v.boot.maxRoot - 1)
  BY <1>1 DEF Files
<1>3. IsFiniteSet(0..(v.boot.maxRoot - 1))
  <2>1. 0 \in Int /\ v.boot.maxRoot - 1 \in Int
    BY <1>1
  <2> QED
    BY ONLY <2>1, FS_Interval
<1> QED
  BY <1>1, <1>2, <1>3, FS_Subset

\* A free entry that the walk has not met is still before it.
LEMMA FreeEntryAhead ==
    ASSUME NEW v \in Volumes, NEW j \in Nat, NoFreeBefore(v, j), HasFreeEntry(v)
    PROVE  j < v.boot.maxRoot /\ (j + 1) % 65536 = j + 1
<1>1. v.boot.maxRoot \in Nat /\ v.boot.maxRoot <= 65535 /\ DOMAIN v.root = 0..(v.boot.maxRoot - 1)
  BY VolumeFacts
<1>2. PICK k \in DOMAIN v.root : is_entry_free(v.root[k])
  BY DEF HasFreeEntry
<1>3. ~ (k < j)
  BY <1>2 DEF NoFreeBefore
<1>4. j < v.boot.maxRoot
  BY <1>1, <1>2, <1>3
<1>5. j + 1 \in Nat /\ j + 1 < 65536 /\ 65536 \in Nat
  BY <1>1, <1>4
<1> QED
  BY <1>4, <1>5, ModSmall

---------------------------------------------------------------------------
(* The directory is walked to its end, each file being handled once *)

SizeOf(v) == [k \in Files(v) |-> v.root[k].size]

\* The files listed so far, their number and their size.
ListedSoFar ==
    /\ NoFreeBefore(vol, i)
    /\ visited = FilesBefore(vol, i)
    /\ total.files = Cardinality(visited)
    /\ total.size = SumFunctionOnSet(SizeOf(vol), visited) % UINT

\* The files for which an output was opened or refused so far.
HandledSoFar ==
    /\ NoFreeBefore(vol, i)
    /\ phase \in {"extract", "extracted"} => visited \cup refused = FilesBefore(vol, i)
    /\ phase = "copy" => /\ ~ is_entry_free(vol.root[i]) /\ is_regular_entry(vol.root[i])
                         /\ visited \cup refused = FilesBefore(vol, i) \cup {i}
                         /\ entry = vol.root[i] /\ entry.start # 0

Walk ==
    /\ phase \in {"list", "listed"} => ListedSoFar
    /\ phase = "listed" => (i < max_root => is_entry_free(vol.root[i]))
    /\ HasFreeEntry(vol) /\ phase \in {"extract", "copy", "extracted"} => HandledSoFar
    /\ HasFreeEntry(vol) /\ phase = "extracted" => is_entry_free(vol.root[i])
    /\ phase = "copy" => max_root # 0

\* The walk at its start.
LEMMA NothingBefore ==
    ASSUME NEW v \in Volumes
    PROVE  NoFreeBefore(v, 0) /\ FilesBefore(v, 0) = {}
<1>1. v.boot.maxRoot \in Nat /\ DOMAIN v.root = 0..(v.boot.maxRoot - 1)
  BY VolumeFacts
<1>2. \A k \in DOMAIN v.root : ~ (k < 0)
  BY <1>1
<1>3. \A k \in Files(v) : k \in DOMAIN v.root
  BY DEF Files
<1> QED
  BY <1>2, <1>3 DEF NoFreeBefore, FilesBefore

\* The entry that the walk is at, as long as a free one is ahead.
LEMMA EntryInside ==
    ASSUME vol \in Volumes, i \in Nat, NoFreeBefore(vol, i), HasFreeEntry(vol)
    PROVE  EntryAt = {vol.root[i]} /\ i < vol.boot.maxRoot /\ (i + 1) % 65536 = i + 1
  BY FreeEntryAhead DEF EntryAt, max_root, boot

LEMMA VolumeStays == [Next]_vars => vol' = vol
  BY DEF Next, List, Extract, ListStart, ListEntry, ListEnd, ExtractStart, ExtractNoMemory,
         SkipEntry, OpenFile, OpenFails, CopyCluster, ExtractEnd, Crash, vars

LEMMA WalkStep == Base /\ Walk /\ [Next]_vars => Walk'
<1> SUFFICES ASSUME Base, Walk, [Next]_vars PROVE Walk'
  OBVIOUS
<1>0. vol \in Volumes /\ vol' = vol /\ max_root = vol.boot.maxRoot /\ max_root' = max_root
      /\ (HasFreeEntry(vol))' = HasFreeEntry(vol)
  BY VolumeStays DEF Base, max_root, boot, HasFreeEntry
<1>1. i \in Nat /\ max_root \in Nat /\ UINT \in Nat /\ UINT > 0
  BY <1>0, VolumeFacts, WordRange DEF Base
<1>2. CASE ListStart \/ ExtractStart
  <2>1. Fresh /\ phase' \in {"list", "crashed", "extract"}
        /\ UNCHANGED <<i, visited, refused, total>>
    BY <1>2 DEF ListStart, ExtractStart, Base
  <2>2. i' = 0 /\ visited' = {} /\ refused' = {} /\ total' = [files |-> 0, size |-> 0]
    BY <2>1 DEF Fresh
  <2>3. NoFreeBefore(vol', i') /\ FilesBefore(vol', i') = {}
    BY <1>0, <2>2, NothingBefore
  <2>4. total'.files = Cardinality(visited')
    BY <2>2, FS_EmptySet
  <2>5. total'.size = SumFunctionOnSet(SizeOf(vol'), visited') % UINT
    <3>1. SumFunctionOnSet(SizeOf(vol'), visited') = 0
      BY <2>2, SumOfNothing
    <3>2. 0 % UINT = 0
      BY <1>1, ModSmall
    <3>3. total'.size = 0
      BY <2>2
    <3> QED
      BY ONLY <3>1, <3>2, <3>3
  <2>6. ListedSoFar'
    BY <2>2, <2>3, <2>4, <2>5 DEF ListedSoFar
  <2>7. visited' \cup refused' = FilesBefore(vol', i')
    BY <2>2, <2>3
  <2>8. phase' # "copy" /\ phase' # "extracted" /\ phase' # "listed"
    BY <2>1
  <2>9. HandledSoFar'
    BY <2>3, <2>7, <2>8 DEF HandledSoFar
  <2> QED
    BY <2>6, <2>8, <2>9 DEF Walk
<1>3. CASE ListEntry
  <2>1. /\ phase = "list" /\ phase' = "list" /\ i < max_root /\ ~ is_entry_free(vol.root[i])
        /\ i' = i + 1
        /\ IF is_regular_entry(vol.root[i])
           THEN /\ total' = [files |-> total.files + 1,
                             size |-> (total.size + vol.root[i].size) % UINT]
                /\ visited' = visited \cup {i}
           ELSE UNCHANGED <<total, visited>>
    BY <1>3 DEF ListEntry
  <2>2. ListedSoFar
    BY <2>1 DEF Walk
  <2>3. /\ NoFreeBefore(vol, i + 1)
        /\ is_regular_entry(vol.root[i]) <=> i \in Files(vol)
        /\ FilesBefore(vol, i + 1) = IF is_regular_entry(vol.root[i])
                                     THEN FilesBefore(vol, i) \cup {i} ELSE FilesBefore(vol, i)
    BY <1>0, <1>1, <2>1, <2>2, OneMoreEntry DEF ListedSoFar
  <2>4. visited' = FilesBefore(vol, i + 1)
    BY <2>1, <2>2, <2>3 DEF ListedSoFar
  <2>5. CASE ~ is_regular_entry(vol.root[i])
    <3>1. UNCHANGED <<total, visited>>
      BY <2>1, <2>5
    <3>2. ListedSoFar'
      BY <1>0, <2>1, <2>2, <2>3, <2>4, <3>1 DEF ListedSoFar
    <3> QED
      BY <2>1, <3>2 DEF Walk
  <2>6. CASE is_regular_entry(vol.root[i])
    <3> DEFINE f == SizeOf(vol)
    <3>1. i \in Files(vol) /\ i \notin visited /\ visited \subseteq Files(vol)
      BY <1>1, <2>2, <2>3, <2>6 DEF ListedSoFar, FilesBefore
    <3>2. IsFiniteSet(visited) /\ IsFiniteSet(visited \cup {i})
      BY <1>0, <3>1, FilesFinite, FS_Subset, FS_AddElement
    <3>3. Cardinality(visited \cup {i}) = Cardinality(visited) + 1
      BY <3>1, <3>2, FS_AddElement
    <3>4. \A x \in Files(vol) : f[x] \in Nat
      BY <1>0, FilesFinite DEF SizeOf, DirEntries
    <3>5. f[i] = vol.root[i].size /\ f[i] \in Nat
      BY <3>1, <3>4 DEF SizeOf
    <3> HIDE DEF f
    <3>6. SumFunctionOnSet(f, visited \cup {i}) = f[i] + SumFunctionOnSet(f, visited)
          /\ SumFunctionOnSet(f, visited) \in Nat
      <4>1. (visited \cup {i}) \ {i} = visited
        BY <3>1
      <4>2. \A x \in visited \cup {i} : f[x] \in Int
        BY <3>1, <3>4
      <4>3. SumFunctionOnSet(f, visited \cup {i})
              = f[i] + SumFunctionOnSet(f, (visited \cup {i}) \ {i})
        BY <3>2, <4>2, SumTakeOff
      <4>4. \A x \in visited : f[x] \in Int /\ f[x] >= 0
        BY <3>1, <3>4
      <4>5. SumFunctionOnSet(f, visited) \in Int /\ SumFunctionOnSet(f, visited) >= 0
        BY <3>2, <4>4, SumType
      <4> QED
        BY <4>1, <4>3, <4>5
    <3> DEFINE S == SumFunctionOnSet(f, visited)
               z == vol.root[i].size
    <3>7. ((S % UINT) + z) % UINT = (S + z) % UINT
      BY <1>1, <3>5, <3>6, ModAdd
    <3>8. S + z = SumFunctionOnSet(f, visited \cup {i})
      BY <3>5, <3>6
    <3>9. total.size = S % UINT
      BY <2>2 DEF ListedSoFar, f
    <3>10. visited' = visited \cup {i} /\ total'.files = total.files + 1
           /\ total'.size = (total.size + z) % UINT
      BY <2>1, <2>6
    <3> HIDE DEF S, z
    <3>11. total'.size = SumFunctionOnSet(f, visited') % UINT
      BY <3>7, <3>8, <3>9, <3>10, Zenon
    <3>12. total'.files = Cardinality(visited')
      BY <2>2, <3>3, <3>10 DEF ListedSoFar
    <3>13. ListedSoFar'
      BY <1>0, <2>1, <2>3, <2>4, <3>11, <3>12 DEF ListedSoFar, f
    <3> QED
      BY <2>1, <3>13 DEF Walk
  <2> QED
    BY <2>5, <2>6
<1>4. CASE ListEnd
  <2>1. /\ phase = "list" /\ phase' = "listed" /\ (i < max_root => is_entry_free(vol.root[i]))
        /\ UNCHANGED <<i, visited, total>>
    BY <1>4 DEF ListEnd
  <2>2. ListedSoFar'
    BY <1>0, <2>1 DEF Walk, ListedSoFar
  <2> QED
    BY <1>0, <2>1, <2>2 DEF Walk
<1>5. CASE ExtractNoMemory \/ Crash
  <2>1. phase' \in {"nomemory", "crashed"}
    BY <1>5 DEF ExtractNoMemory, Crash
  <2> QED
    BY <2>1 DEF Walk
<1>6. CASE SkipEntry \/ OpenFails
  <2>1. phase = "extract" /\ phase' = "extract" /\ i' = (i + 1) % 65536
        /\ \E e \in EntryAt :
             /\ ~ is_entry_free(e)
             /\ \/ ~ is_regular_entry(e) /\ visited' \cup refused' = visited \cup refused
                \/ is_regular_entry(e) /\ visited' \cup refused' = (visited \cup refused) \cup {i}
    BY <1>6 DEF SkipEntry, OpenFails
  <2>2. ASSUME HasFreeEntry(vol) PROVE HandledSoFar'
    <3>1. HandledSoFar
      BY <2>1, <2>2 DEF Walk
    <3>2. EntryAt = {vol.root[i]} /\ i < vol.boot.maxRoot /\ (i + 1) % 65536 = i + 1
      BY <1>0, <1>1, <2>2, <3>1, EntryInside DEF HandledSoFar
    <3>3. ~ is_entry_free(vol.root[i])
      BY <2>1, <3>2
    <3>4. /\ NoFreeBefore(vol, i + 1)
          /\ FilesBefore(vol, i + 1) = IF is_regular_entry(vol.root[i])
                                       THEN FilesBefore(vol, i) \cup {i} ELSE FilesBefore(vol, i)
      <4>1. vol \in Volumes /\ i \in Nat /\ i < vol.boot.maxRoot /\ NoFreeBefore(vol, i)
        BY <1>0, <1>1, <3>1, <3>2 DEF HandledSoFar
      <4> QED
        BY ONLY <3>3, <4>1, OneMoreEntry
    <3>5. visited' \cup refused' = FilesBefore(vol, i + 1)
      BY <2>1, <3>1, <3>2, <3>4 DEF HandledSoFar
    <3>6. i' = i + 1
      BY <2>1, <3>2
    <3> QED
      BY <1>0, <2>1, <3>4, <3>5, <3>6 DEF HandledSoFar
  <2> QED
    BY <1>0, <2>1, <2>2 DEF Walk
<1>7. CASE OpenFile
  <2>1. PICK e \in EntryAt :
           /\ ~ is_entry_free(e) /\ is_regular_entry(e) /\ entry' = e
           /\ IF e.start = 0
              THEN phase' = phase /\ i' = (i + 1) % 65536
              ELSE phase' = "copy" /\ i' = i
    BY <1>7 DEF OpenFile
  <2>2. phase = "extract" /\ visited' = visited \cup {i} /\ refused' = refused /\ max_root # 0
    BY <1>7 DEF OpenFile
  <2>3. ASSUME HasFreeEntry(vol) PROVE HandledSoFar'
    <3>1. HandledSoFar
      BY <2>2, <2>3 DEF Walk
    <3>2. EntryAt = {vol.root[i]} /\ i < vol.boot.maxRoot /\ (i + 1) % 65536 = i + 1
      BY <1>0, <1>1, <2>3, <3>1, EntryInside DEF HandledSoFar
    <3>3. e = vol.root[i]
      BY <3>2
    <3>4. NoFreeBefore(vol, i + 1) /\ FilesBefore(vol, i + 1) = FilesBefore(vol, i) \cup {i}
      <4>1. vol \in Volumes /\ i \in Nat /\ i < vol.boot.maxRoot /\ NoFreeBefore(vol, i)
        BY <1>0, <1>1, <3>1, <3>2 DEF HandledSoFar
      <4>2. ~ is_entry_free(vol.root[i]) /\ is_regular_entry(vol.root[i])
        BY <2>1, <3>3
      <4> QED
        BY ONLY <4>1, <4>2, OneMoreEntry
    <3>5. visited' \cup refused' = FilesBefore(vol, i) \cup {i}
      BY <2>2, <3>1 DEF HandledSoFar
    <3>6. CASE e.start = 0
      <4>1. phase' = "extract" /\ i' = i + 1
        BY <2>1, <2>2, <3>2, <3>6
      <4> QED
        BY <1>0, <3>4, <3>5, <4>1 DEF HandledSoFar
    <3>7. CASE e.start # 0
      <4>1. phase' = "copy" /\ i' = i /\ entry' = vol.root[i] /\ entry'.start # 0
        BY <2>1, <3>3, <3>7
      <4> QED
        BY <1>0, <2>1, <3>1, <3>3, <3>5, <4>1 DEF HandledSoFar
    <3> QED
      BY <3>6, <3>7
  <2>4. phase' \in {"extract", "copy"}
    BY <2>1, <2>2
  <2> QED
    BY <1>0, <2>2, <2>3, <2>4 DEF Walk
<1>8. CASE CopyCluster
  <2>1. /\ phase = "copy" /\ UNCHANGED <<entry, visited, refused>>
        /\ \/ phase' = "extract" /\ i' = (i + 1) % 65536
           \/ phase' = "copy" /\ i' = i
    BY <1>8 DEF CopyCluster
  <2>2. ASSUME HasFreeEntry(vol) PROVE HandledSoFar'
    <3>1. HandledSoFar
      BY <2>1, <2>2 DEF Walk
    <3>2. i < vol.boot.maxRoot /\ (i + 1) % 65536 = i + 1
      BY <1>0, <1>1, <2>2, <3>1, EntryInside DEF HandledSoFar
    <3>3. NoFreeBefore(vol, i + 1) /\ FilesBefore(vol, i + 1) = FilesBefore(vol, i) \cup {i}
      <4>1. vol \in Volumes /\ i \in Nat /\ i < vol.boot.maxRoot /\ NoFreeBefore(vol, i)
        BY <1>0, <1>1, <3>1, <3>2 DEF HandledSoFar
      <4>2. ~ is_entry_free(vol.root[i]) /\ is_regular_entry(vol.root[i])
        BY <2>1, <3>1 DEF HandledSoFar
      <4> QED
        BY ONLY <4>1, <4>2, OneMoreEntry
    <3> QED
      BY <1>0, <2>1, <3>1, <3>2, <3>3 DEF HandledSoFar
  <2>3. max_root # 0
    BY <2>1 DEF Walk
  <2> QED
    BY <1>0, <2>1, <2>2, <2>3 DEF Walk
<1>9. CASE ExtractEnd
  <2>1. /\ phase = "extract" /\ phase' = "extracted" /\ UNCHANGED <<i, entry, visited, refused>>
        /\ max_root # 0 => \E e \in EntryAt : is_entry_free(e)
    BY <1>9 DEF ExtractEnd
  <2>2. ASSUME HasFreeEntry(vol) PROVE HandledSoFar' /\ is_entry_free(vol.root[i])
    <3>1. HandledSoFar
      BY <2>1, <2>2 DEF Walk
    <3>2. EntryAt = {vol.root[i]} /\ i < vol.boot.maxRoot
      BY <1>0, <1>1, <2>2, <3>1, EntryInside DEF HandledSoFar
    <3>3. max_root # 0
      BY <1>0, <1>1, <3>2
    <3>4. is_entry_free(vol.root[i])
      BY <2>1, <3>2, <3>3
    <3> QED
      BY <1>0, <2>1, <3>1, <3>4 DEF HandledSoFar
  <2> QED
    BY <1>0, <2>1, <2>2 DEF Walk
<1>10. CASE UNCHANGED vars
  <2>1. UNCHANGED <<phase, i, entry, visited, refused, total>>
    BY <1>10 DEF vars
  <2> QED
    BY <1>0, <2>1 DEF Walk, ListedSoFar, HandledSoFar
<1> QED
  BY <1>2, <1>3, <1>4, <1>5, <1>6, <1>7, <1>8, <1>9, <1>10 DEF Next, List, Extract

LEMMA WalkHolds == Spec => [](Base /\ Walk)
<1>1. Init => Walk
  BY DEF Init, Walk
<1> QED
  BY <1>1, WalkStep, BaseHolds, PTL DEF Spec

\* Each program handles exactly the files of the directory, and msdosdir's
\* number of files and (32-bit) number of bytes are right, for directories
\* of every size (print_file_data, extract_files).
THEOREM FilesAreHandled == Spec => []AllFilesHandled
<1>1. Base /\ Walk => AllFilesHandled
  <2> SUFFICES ASSUME Base, Walk PROVE AllFilesHandled
    OBVIOUS
  <2>0. vol \in Volumes /\ i \in Nat /\ max_root = vol.boot.maxRoot
    BY WordRange DEF Base, max_root, boot
  <2>1. ASSUME phase = "listed"
        PROVE  /\ visited = Files(vol)
               /\ total.files = Cardinality(Files(vol))
               /\ total.size = SumFunction([k \in Files(vol) |-> vol.root[k].size]) % UINT
    <3>1. ListedSoFar /\ (i < max_root => is_entry_free(vol.root[i]))
      BY <2>1 DEF Walk
    <3>2. visited = Files(vol)
      BY <2>0, <3>1, NoMoreFiles DEF ListedSoFar
    <3>3. SumFunction([k \in Files(vol) |-> vol.root[k].size])
            = SumFunctionOnSet(SizeOf(vol), Files(vol))
      BY DEF SumFunction, SizeOf, FoldFunction, SumFunctionOnSet
    <3>4. total.files = Cardinality(Files(vol))
          /\ total.size = SumFunctionOnSet(SizeOf(vol), Files(vol)) % UINT
      BY <3>1, <3>2 DEF ListedSoFar
    <3> QED
      BY ONLY <3>2, <3>3, <3>4
  <2>2. ASSUME phase = "extracted", HasFreeEntry(vol) PROVE visited \cup refused = Files(vol)
    <3>1. HandledSoFar /\ is_entry_free(vol.root[i])
      BY <2>2 DEF Walk
    <3>2. FilesBefore(vol, i) = Files(vol)
      BY <2>0, <3>1, NoMoreFiles DEF HandledSoFar
    <3> QED
      BY <2>2, <3>1, <3>2 DEF HandledSoFar
  <2> QED
    BY <2>1, <2>2 DEF AllFilesHandled
<1> QED
  BY <1>1, WalkHolds, PTL

---------------------------------------------------------------------------
(* Functions defined by recursion, for the chains *)

\* h follows G from a up to n.
Follows(S, G, a, n, h) ==
    h \in [0..n -> S] /\ h[0] = a /\ \A m \in 0..(n - 1) : h[m + 1] = G[h[m]]

LEMMA FollowsAgree ==
    ASSUME NEW S, NEW G, NEW a, NEW n \in Nat, NEW m \in Nat, n <= m, NEW h, NEW k,
           Follows(S, G, a, n, h), Follows(S, G, a, m, k)
    PROVE  \A j \in 0..n : h[j] = k[j]
<1> DEFINE N == {j \in Nat : j <= n => h[j] = k[j]}
<1>1. 0 \in N
  BY DEF Follows
<1>2. ASSUME NEW j \in Nat, j \in N PROVE j + 1 \in N
  <2> SUFFICES ASSUME j + 1 <= n PROVE h[j + 1] = k[j + 1]
    OBVIOUS
  <2>1. j \in 0..(n - 1) /\ j \in 0..(m - 1) /\ j <= n
    OBVIOUS
  <2>2. h[j + 1] = G[h[j]] /\ k[j + 1] = G[k[j]]
    BY <2>1 DEF Follows
  <2>3. h[j] = k[j]
    BY <1>2, <2>1
  <2> QED
    BY <2>2, <2>3
<1>3. \A j \in Nat : j \in N
  <2> HIDE DEF N
  <2> QED
    BY <1>1, <1>2, NatSetInduction
<1> QED
  BY <1>3

Iterates(S, G, a, f) ==
    /\ f = [n \in Nat |-> f[n]] /\ f[0] = a
    /\ \A n \in Nat : f[n] \in S /\ f[n + 1] = G[f[n]]

\* Every function from a set to itself can be iterated.
LEMMA Iterate ==
    ASSUME NEW S, NEW G, \A x \in S : G[x] \in S, NEW a \in S
    PROVE  \E f : Iterates(S, G, a, f)
<1> DEFINE Ok(n, h) == Follows(S, G, a, n, h)
           N == {n \in Nat : \E h : Ok(n, h)}
<1>1. 0 \in N
  <2>1. Ok(0, [x \in 0..0 |-> a])
    BY DEF Follows
  <2> HIDE DEF Ok
  <2> QED
    BY <2>1
<1>2. ASSUME NEW n \in Nat, n \in N PROVE n + 1 \in N
  <2>1. PICK h : Ok(n, h)
    BY <1>2
  <2>2. h \in [0..n -> S] /\ h[0] = a /\ \A m \in 0..(n - 1) : h[m + 1] = G[h[m]]
    BY <2>1 DEF Follows
  <2> DEFINE k == [x \in 0..(n + 1) |-> IF x = n + 1 THEN G[h[n]] ELSE h[x]]
  <2>3. k \in [0..(n + 1) -> S]
    <3>1. h[n] \in S /\ G[h[n]] \in S
      BY <2>2
    <3>2. \A x \in 0..(n + 1) : x # n + 1 => x \in 0..n /\ h[x] \in S
      BY <2>2
    <3> QED
      BY <3>1, <3>2
  <2>4. k[0] = a
    BY <2>2
  <2>5. ASSUME NEW m \in 0..((n + 1) - 1) PROVE k[m + 1] = G[k[m]]
    <3>1. m \in 0..n /\ m # n + 1 /\ m \in 0..(n + 1) /\ m + 1 \in 0..(n + 1)
      BY <2>5
    <3>2. k[m] = h[m]
      BY <3>1
    <3>3. CASE m = n
      BY <3>1, <3>2, <3>3
    <3>4. CASE m # n
      <4>1. m \in 0..(n - 1) /\ m + 1 # n + 1
        BY <3>1, <3>4
      <4>2. k[m + 1] = h[m + 1]
        BY <3>1, <4>1
      <4> QED
        BY <2>2, <3>2, <4>1, <4>2
    <3> QED
      BY <3>3, <3>4
  <2> HIDE DEF k
  <2>6. Ok(n + 1, k)
    BY <2>3, <2>4, <2>5 DEF Follows
  <2> HIDE DEF Ok
  <2> QED
    BY <2>6
<1>3. \A n \in Nat : n \in N
  <2> HIDE DEF N
  <2> QED
    BY <1>1, <1>2, NatSetInduction
<1> DEFINE H(n) == CHOOSE h : Ok(n, h)
           f == [n \in Nat |-> H(n)[n]]
<1>4. \A n \in Nat : Ok(n, H(n))
  <2> HIDE DEF Ok
  <2> QED
    BY <1>3
<1>5. \A n \in Nat : H(n)[n] \in S
  <2> HIDE DEF H
  <2>1. \A n \in Nat : H(n) \in [0..n -> S] /\ n \in 0..n
    BY <1>4 DEF Follows
  <2> QED
    BY <2>1
<1>6. f[0] = a
  <2>1. H(0)[0] = a
    <3> HIDE DEF H
    <3> QED
      BY <1>4 DEF Follows
  <2> QED
    BY <2>1
<1>7. ASSUME NEW n \in Nat PROVE f[n + 1] = G[f[n]]
  <2> HIDE DEF H
  <2>1. Ok(n, H(n)) /\ Ok(n + 1, H(n + 1))
    BY <1>4
  <2>2. H(n)[n] = H(n + 1)[n]
    <3>1. n <= n + 1 /\ n \in 0..n /\ n + 1 \in Nat
      OBVIOUS
    <3> QED
      BY ONLY <2>1, <3>1, FollowsAgree, n \in Nat
  <2>3. H(n + 1)[n + 1] = G[H(n + 1)[n]]
    <3>1. n \in 0..((n + 1) - 1)
      OBVIOUS
    <3> QED
      BY <2>1, <3>1 DEF Follows
  <2>4. f[n] = H(n)[n] /\ f[n + 1] = H(n + 1)[n + 1]
    OBVIOUS
  <2> QED
    BY <2>2, <2>3, <2>4
<1>8. f = [n \in Nat |-> f[n]] /\ \A n \in Nat : f[n] \in S
  <2> HIDE DEF H
  <2> QED
    BY <1>5
<1> HIDE DEF f
<1> QED
  BY <1>6, <1>7, <1>8 DEF Iterates

---------------------------------------------------------------------------
(* What KernelChain computes *)

Longer(v, w) ==
    IF w[Len(w)] - 2 \notin DOMAIN v.table \/ KernelEnds(v.table[w[Len(w)] - 2]) THEN w
    ELSE Append(w, v.table[w[Len(w)] - 2])
IsWalk(v, start, g) == g = [n \in Nat |-> IF n = 0 THEN <<start>> ELSE Longer(v, g[n - 1])]

LEMMA ChainIsWalk ==
    ASSUME NEW v, NEW start
    PROVE  KernelChain(v, start) = (CHOOSE g : IsWalk(v, start, g))[num_fat_entries(v.boot)]
  BY DEF KernelChain, IsWalk, Longer

\* A cluster of a chain and the next one.
Linked(v, c, d) == c - 2 \in DOMAIN v.table /\ d = v.table[c - 2] /\ ~ KernelEnds(d)

Chains(v, start, n) ==
    {w \in Seq(Word) : /\ Len(w) >= 1 /\ Len(w) <= n + 1 /\ w[1] = start
                       /\ \A p \in 1..(Len(w) - 1) : Linked(v, w[p], w[p + 1])}

LEMMA LongerChain ==
    ASSUME NEW v \in Volumes, NEW start, NEW n \in Nat, NEW w \in Chains(v, start, n)
    PROVE  Longer(v, w) \in Chains(v, start, n + 1)
<1>1. w \in Seq(Word) /\ Len(w) >= 1 /\ Len(w) <= n + 1 /\ w[1] = start
      /\ Len(w) \in Nat
  BY DEF Chains
<1>2. \A p \in 1..(Len(w) - 1) : Linked(v, w[p], w[p + 1])
  BY DEF Chains
<1> DEFINE c == w[Len(w)] - 2
           d == v.table[c]
<1>3. CASE c \notin DOMAIN v.table \/ KernelEnds(d)
  <2>1. Longer(v, w) = w
    BY <1>3 DEF Longer
  <2>2. Len(w) <= (n + 1) + 1
    BY <1>1
  <2> QED
    BY <1>1, <1>2, <2>1, <2>2 DEF Chains
<1>4. CASE c \in DOMAIN v.table /\ ~ KernelEnds(d)
  <2> DEFINE x == Append(w, d)
  <2>1. Longer(v, w) = x
    BY <1>4 DEF Longer
  <2>2. d \in Word
    <3>1. v.table \in [0..(num_fat_entries(v.boot) - 1) -> Twelve]
      BY VolumeFacts
    <3>2. d \in Twelve
      BY ONLY <1>4, <3>1
    <3> QED
      BY <3>2, TwelveWord
  <2>3. /\ x \in Seq(Word) /\ Len(x) = Len(w) + 1
        /\ \A p \in 1..Len(w) : x[p] = w[p]
        /\ x[Len(w) + 1] = d
    BY ONLY <1>1, <2>2, AppendProperties
  <2>4. Linked(v, w[Len(w)], d)
    BY <1>4 DEF Linked
  <2> HIDE DEF x, d, c
  <2>5. ASSUME NEW p \in 1..(Len(x) - 1) PROVE Linked(v, x[p], x[p + 1])
    <3>1. p \in 1..Len(w)
      BY <1>1, <2>3, <2>5
    <3>2. CASE p = Len(w)
      <4>1. x[p] = w[Len(w)] /\ x[p + 1] = d
        BY <2>3, <3>1, <3>2
      <4> QED
        BY <2>4, <4>1
    <3>3. CASE p # Len(w)
      <4>1. p \in 1..(Len(w) - 1) /\ p + 1 \in 1..Len(w)
        BY <1>1, <3>1, <3>3
      <4>2. x[p] = w[p] /\ x[p + 1] = w[p + 1]
        BY <2>3, <3>1, <4>1
      <4> QED
        BY <1>2, <4>1, <4>2
    <3> QED
      BY <3>2, <3>3
  <2>6. Len(x) >= 1 /\ Len(x) <= (n + 1) + 1 /\ x[1] = start
    <3>1. 1 \in 1..Len(w)
      BY <1>1
    <3> QED
      BY <1>1, <2>3, <3>1
  <2>7. x \in Chains(v, start, n + 1)
    BY <2>3, <2>5, <2>6 DEF Chains
  <2> QED
    BY <2>1, <2>7
<1> QED
  BY <1>3, <1>4

\* A chain starts where it is asked to, every cluster in it follows from the
\* one before, and it has at most one cluster more than the table has entries.
LEMMA ChainFacts ==
    ASSUME NEW v \in Volumes, NEW start \in Word
    PROVE  KernelChain(v, start) \in Chains(v, start, num_fat_entries(v.boot))
<1> DEFINE S == UNION {Chains(v, start, n) : n \in Nat}
           G == [w \in S |-> Longer(v, w)]
           g == CHOOSE x : IsWalk(v, start, x)
<1>1. <<start>> \in Chains(v, start, 0)
  <2>1. <<start>> \in Seq(Word) /\ Len(<<start>>) = 1 /\ <<start>>[1] = start
    OBVIOUS
  <2> QED
    BY <2>1 DEF Chains
<1>2. \A w \in S : G[w] \in S
  <2>1. ASSUME NEW w \in S PROVE Longer(v, w) \in S
    <3>1. PICK n \in Nat : w \in Chains(v, start, n)
      OBVIOUS
    <3>2. Longer(v, w) \in Chains(v, start, n + 1) /\ n + 1 \in Nat
      BY <3>1, LongerChain
    <3> QED
      BY <3>2
  <2> QED
    BY <2>1
<1>3. <<start>> \in S
  BY <1>1
<1>4. PICK f : /\ f = [n \in Nat |-> f[n]] /\ f[0] = <<start>>
               /\ \A n \in Nat : f[n] \in S /\ f[n + 1] = G[f[n]]
  <2> HIDE DEF S, G
  <2>1. \E f : Iterates(S, G, <<start>>, f)
    BY ONLY <1>2, <1>3, Iterate
  <2> QED
    BY <2>1 DEF Iterates
<1>5. \A n \in Nat : n # 0 => n - 1 \in Nat /\ f[n] = Longer(v, f[n - 1])
  <2> SUFFICES ASSUME NEW n \in Nat, n # 0
               PROVE  n - 1 \in Nat /\ f[n] = Longer(v, f[n - 1])
    OBVIOUS
  <2>1. n - 1 \in Nat /\ (n - 1) + 1 = n
    OBVIOUS
  <2> HIDE DEF S
  <2>2. f[(n - 1) + 1] = G[f[n - 1]] /\ f[n - 1] \in S
    BY <1>4, <2>1
  <2> QED
    BY <2>1, <2>2
<1>6. IsWalk(v, start, f)
  <2>1. f = [n \in Nat |-> f[n]]
    BY <1>4
  <2>2. \A n \in Nat : f[n] = IF n = 0 THEN <<start>> ELSE Longer(v, f[n - 1])
    BY <1>4, <1>5
  <2> HIDE DEF S, G
  <2> QED
    BY ONLY <2>1, <2>2 DEF IsWalk
<1>7. IsWalk(v, start, g)
  <2> HIDE DEF S, G
  <2> QED
    BY <1>6
<1> HIDE DEF g
<1>8. g[0] = <<start>> /\ \A n \in Nat : g[n + 1] = Longer(v, g[n])
  <2>1. \A n \in Nat : g[n] = IF n = 0 THEN <<start>> ELSE Longer(v, g[n - 1])
    BY ONLY <1>7 DEF IsWalk
  <2>2. \A n \in Nat : n + 1 \in Nat /\ n + 1 # 0 /\ (n + 1) - 1 = n
    OBVIOUS
  <2> QED
    BY ONLY <2>1, <2>2
<1> DEFINE N == {n \in Nat : g[n] \in Chains(v, start, n)}
<1>9. 0 \in N
  BY <1>1, <1>8
<1>10. ASSUME NEW n \in Nat, n \in N PROVE n + 1 \in N
  <2>1. Longer(v, g[n]) \in Chains(v, start, n + 1)
    BY <1>10, LongerChain
  <2> QED
    BY <1>8, <2>1
<1>11. \A n \in Nat : n \in N
  <2> HIDE DEF N
  <2> QED
    BY <1>9, <1>10, NatSetInduction
<1>12. num_fat_entries(v.boot) \in Nat
  BY VolumeFacts
<1>13. g[num_fat_entries(v.boot)] \in Chains(v, start, num_fat_entries(v.boot))
  BY <1>11, <1>12
<1> QED
  BY <1>13, ChainIsWalk DEF g

---------------------------------------------------------------------------
(* The clusters of the files are copied *)

Chain(v, k) == IF v.root[k].start = 0 THEN <<>> ELSE KernelChain(v, v.root[k].start)

Addr(v, c) == (base_address(v.boot) + cluster_size(v.boot) * (c - 2)) % UINT

\* What is to be written for the p-th cluster of a file.
PieceOf(v, k, p) ==
    [at |-> Addr(v, Chain(v, k)[p]),
     n |-> IF p = Len(Chain(v, k)) THEN v.root[k].size % cluster_size(v.boot)
           ELSE cluster_size(v.boot)]

\* w holds the first n pieces of a file.
Copied(v, k, w, n) == Len(w) = n /\ \A p \in 1..n : w[p] = PieceOf(v, k, p)

Copies ==
    SoundVolume(vol) =>
        /\ phase = "crashed" => vol.label = -1 /\ visited = {}
        /\ DOMAIN out \subseteq Files(vol)
        /\ \A k \in DOMAIN out :
             ~ (phase = "copy" /\ k = i) => Copied(vol, k, out[k], Len(Chain(vol, k)))
        /\ phase = "copy" =>
             \E p \in 1..Len(Chain(vol, i)) :
               cluster = Chain(vol, i)[p] /\ Copied(vol, i, out[i], p - 1)

\* The chain of a file on a sound volume.
LEMMA SoundFile ==
    ASSUME NEW v \in Volumes, SoundVolume(v), NEW k \in Files(v), v.root[k].start # 0
    PROVE  LET ch == Chain(v, k)
               L == Len(ch)
           IN  /\ ch \in Seq(Word) /\ L \in Nat /\ L >= 1 /\ L <= MaxCopies
               /\ ch[1] = v.root[k].start
               /\ \A p \in 1..L : ch[p] - 2 \in DOMAIN v.table
               /\ \A p \in 1..(L - 1) : v.table[ch[p] - 2] = ch[p + 1] /\ ch[p + 1] # v.eof
               /\ v.table[ch[L] - 2] = v.eof
<1> DEFINE ch == Chain(v, k)
           L == Len(ch)
           num == num_fat_entries(v.boot)
<1>1. ch = KernelChain(v, v.root[k].start)
  BY DEF Chain
<1>2. v.root[k].start \in Word
  BY FilesFinite DEF DirEntries
<1>3. ch \in Chains(v, v.root[k].start, num)
  BY <1>1, <1>2, ChainFacts
<1>4. num \in Nat /\ num < MaxCopies /\ MaxCopies \in Nat
  BY VolumeFacts
<1>5. SoundChain(v, v.root[k].start) /\ KernelEnds(v.eof)
  BY DEF SoundVolume
<1> HIDE DEF ch, num
<1>6. ch \in Seq(Word) /\ Len(ch) >= 1 /\ Len(ch) <= num + 1 /\ ch[1] = v.root[k].start
  BY <1>3 DEF Chains
<1>7. \A p \in 1..(Len(ch) - 1) : Linked(v, ch[p], ch[p + 1])
  BY <1>3 DEF Chains
<1>8. \A p \in 1..(Len(ch) - 1) : v.table[ch[p] - 2] = ch[p + 1] /\ ch[p + 1] # v.eof
  BY <1>5, <1>7 DEF Linked
<1>9. Len(ch) \in Nat /\ DOMAIN ch = 1..Len(ch)
  BY <1>6
<1>10. /\ \A p \in DOMAIN ch : ch[p] - 2 \in DOMAIN v.table
       /\ v.table[ch[Len(ch)] - 2] = v.eof
  BY <1>1, <1>5 DEF SoundChain
<1>11. Len(ch) <= MaxCopies
  BY ONLY <1>4, <1>6, <1>9
<1> QED
  BY <1>6, <1>8, <1>9, <1>10, <1>11 DEF ch

\* While a file of a sound volume is copied.
LEMMA CopyState ==
    ASSUME Base, Walk, SoundVolume(vol), phase = "copy"
    PROVE  /\ i \in Files(vol) /\ HasFreeEntry(vol)
           /\ entry = vol.root[i] /\ vol.root[i].start # 0
<1>1. vol \in Volumes /\ i \in Nat
  BY WordRange DEF Base
<1>2. HasFreeEntry(vol)
  BY DEF Walk, SoundVolume, max_root, boot
<1>3. HandledSoFar
  BY <1>2 DEF Walk
<1>4. /\ NoFreeBefore(vol, i) /\ ~ is_entry_free(vol.root[i]) /\ is_regular_entry(vol.root[i])
      /\ entry = vol.root[i] /\ entry.start # 0
  BY <1>3 DEF HandledSoFar
<1>5. i < vol.boot.maxRoot
  BY <1>1, <1>2, <1>4, FreeEntryAhead
<1>6. i \in Files(vol)
  BY ONLY <1>1, <1>4, <1>5, OneMoreEntry
<1> QED
  BY <1>2, <1>4, <1>6

LEMMA PieceType ==
    ASSUME NEW v \in Volumes, NEW c \in Word, NEW e \in DirEntries
    PROVE  /\ Addr(v, c) \in Nat
           /\ e.size % cluster_size(v.boot) \in Nat
           /\ cluster_size(v.boot) \in Nat
<1> DEFINE cs == cluster_size(v.boot)
           ba == base_address(v.boot)
<1>1. cs \in Nat /\ cs > 0 /\ ba \in Nat /\ UINT \in Nat /\ UINT > 0
  BY VolumeFacts
<1>2. c \in Nat /\ e.size \in Nat
  BY WordRange DEF DirEntries
<1> HIDE DEF cs, ba
<1>3. ba + cs * (c - 2) \in Int
  BY <1>1, <1>2
<1>4. (ba + cs * (c - 2)) % UINT \in Nat
  BY <1>1, <1>3, ModRange
<1>5. e.size % cs \in Nat
  BY <1>1, <1>2, ModRange
<1> QED
  BY <1>1, <1>4, <1>5 DEF Addr, cs, ba

LEMMA CopiedMore ==
    ASSUME NEW v, NEW k, NEW w \in Seq(Pieces), NEW n \in Nat, Copied(v, k, w, n),
           NEW x \in Pieces, x = PieceOf(v, k, n + 1)
    PROVE  Copied(v, k, Append(w, x), n + 1)
<1> DEFINE y == Append(w, x)
<1>1. Len(w) = n /\ \A p \in 1..n : w[p] = PieceOf(v, k, p)
  BY DEF Copied
<1>2. /\ Len(y) = Len(w) + 1 /\ \A p \in 1..Len(w) : y[p] = w[p]
      /\ y[Len(w) + 1] = x
  BY ONLY w \in Seq(Pieces), x \in Pieces, AppendProperties
<1> HIDE DEF y
<1>3. \A p \in 1..(n + 1) : p \in 1..n \/ p = n + 1
  OBVIOUS
<1>4. \A p \in 1..(n + 1) : y[p] = PieceOf(v, k, p)
  BY <1>1, <1>2, <1>3
<1>5. Copied(v, k, y, n + 1)
  BY <1>1, <1>2, <1>4 DEF Copied
<1> QED
  BY <1>5 DEF y

LEMMA CopiesStep == Base /\ Walk /\ Copies /\ [Next]_vars => Copies'
<1> SUFFICES ASSUME Base, Walk, Copies, [Next]_vars PROVE Copies'
  OBVIOUS
<1> SUFFICES ASSUME SoundVolume(vol) PROVE Copies'
  <2>1. (SoundVolume(vol))' = SoundVolume(vol)
    BY VolumeStays
  <2> QED
    BY <2>1 DEF Copies
<1>0. vol \in Volumes /\ vol' = vol /\ i \in Nat /\ max_root = vol.boot.maxRoot
      /\ out = [k \in DOMAIN out |-> out[k]]
  BY VolumeStays, WordRange DEF Base, max_root, boot
<1>1. max_root # 0 => HasFreeEntry(vol)
  BY <1>0 DEF SoundVolume
<1>2. ASSUME phase = "extract", max_root # 0
      PROVE  EntryAt = {vol.root[i]} /\ i < vol.boot.maxRoot
  <2>1. HasFreeEntry(vol) /\ HandledSoFar
    BY <1>1, <1>2 DEF Walk
  <2> QED
    BY <1>0, <2>1, EntryInside DEF HandledSoFar
<1>3. ASSUME phase = "copy"
      PROVE  /\ i \in Files(vol) /\ entry = vol.root[i] /\ vol.root[i].start # 0
             /\ \E p \in 1..Len(Chain(vol, i)) :
                  /\ cluster = Chain(vol, i)[p] /\ Copied(vol, i, out[i], p - 1)
                  /\ cluster - 2 \in DOMAIN vol.table
  <2>1. i \in Files(vol) /\ entry = vol.root[i] /\ vol.root[i].start # 0
    BY <1>3, CopyState
  <2>2. \A p \in 1..Len(Chain(vol, i)) : Chain(vol, i)[p] - 2 \in DOMAIN vol.table
    BY <1>0, <2>1, SoundFile
  <2>3. \E p \in 1..Len(Chain(vol, i)) :
           cluster = Chain(vol, i)[p] /\ Copied(vol, i, out[i], p - 1)
    BY <1>3 DEF Copies
  <2> QED
    BY <2>1, <2>2, <2>3
<1>4. CASE ListStart
  <2>1. /\ phase = "start" /\ phase' \in {"list", "crashed"} /\ UNCHANGED <<out, visited>>
        /\ phase' = "crashed" => vol.label = -1
    BY <1>4 DEF ListStart
  <2>2. DOMAIN out = {} /\ visited = {}
    BY <2>1 DEF Base, Fresh
  <2> QED
    BY <1>0, <2>1, <2>2 DEF Copies
<1>5. CASE ListEntry \/ ListEnd \/ ExtractStart \/ ExtractNoMemory \/ SkipEntry \/ OpenFails
           \/ ExtractEnd
  <2>1. phase # "copy" /\ phase' \notin {"copy", "crashed"} /\ out' = out
    BY <1>5 DEF ListEntry, ListEnd, ExtractStart, ExtractNoMemory, SkipEntry, OpenFails,
                ExtractEnd
  <2>2. /\ \A k \in DOMAIN out' : Copied(vol', k, out'[k], Len(Chain(vol', k)))
        /\ DOMAIN out' \subseteq Files(vol')
    BY <1>0, <2>1 DEF Copies
  <2> QED
    BY <2>1, <2>2 DEF Copies
<1>6. CASE OpenFile
  <2>1. PICK e \in EntryAt :
           /\ ~ is_entry_free(e) /\ is_regular_entry(e) /\ entry' = e /\ cluster' = e.start
           /\ IF e.start = 0
              THEN phase' = phase /\ i' = (i + 1) % 65536
              ELSE phase' = "copy" /\ i' = i
    BY <1>6 DEF OpenFile
  <2>2. /\ phase = "extract" /\ max_root # 0
        /\ out' = [k \in DOMAIN out \cup {i} |-> IF k = i THEN <<>> ELSE out[k]]
    BY <1>6 DEF OpenFile
  <2>3. e = vol.root[i] /\ i < vol.boot.maxRoot
    BY <1>2, <2>2
  <2>4. DOMAIN out' = DOMAIN out \cup {i} /\ out'[i] = <<>>
        /\ \A k \in DOMAIN out' : k # i => k \in DOMAIN out /\ out'[k] = out[k]
    BY <2>2
  <2>5. \A k \in DOMAIN out' : k # i => Copied(vol, k, out'[k], Len(Chain(vol, k)))
    BY <2>2, <2>4 DEF Copies
  <2>6. Copied(vol, i, <<>>, 0)
    BY DEF Copied
  <2>6a. i \in Files(vol)
    <3>1. HandledSoFar
      BY <1>1, <2>2 DEF Walk
    <3>2. NoFreeBefore(vol, i)
      BY <3>1 DEF HandledSoFar
    <3>3. vol \in Volumes /\ i \in Nat
      BY <1>0
    <3>4. ~ is_entry_free(vol.root[i]) /\ is_regular_entry(vol.root[i])
      BY <2>1, <2>3
    <3> QED
      BY ONLY <2>3, <3>2, <3>3, <3>4, OneMoreEntry
  <2>6b. DOMAIN out' \subseteq Files(vol')
    BY <1>0, <2>4, <2>6a DEF Copies
  <2>7. CASE e.start = 0
    <3>1. phase' = "extract"
      BY <2>1, <2>2, <2>7
    <3>2. Chain(vol, i) = <<>> /\ Len(<<>>) = 0
      BY <2>3, <2>7 DEF Chain
    <3>3. Copied(vol, i, out'[i], Len(Chain(vol, i)))
      BY <2>4, <2>6, <3>2
    <3>4. \A k \in DOMAIN out' : Copied(vol', k, out'[k], Len(Chain(vol', k)))
      BY <1>0, <2>5, <3>3
    <3> QED
      BY <2>6b, <3>1, <3>4 DEF Copies
  <2>8. CASE e.start # 0
    <3>1. phase' = "copy" /\ i' = i /\ cluster' = vol.root[i].start /\ vol.root[i].start # 0
      BY <2>1, <2>3, <2>8
    <3>3. Len(Chain(vol, i)) \in Nat /\ Len(Chain(vol, i)) >= 1
          /\ Chain(vol, i)[1] = vol.root[i].start
      BY <1>0, <2>6a, <3>1, SoundFile
    <3>4. 1 \in 1..Len(Chain(vol, i)) /\ 1 - 1 = 0
      BY <3>3
    <3>5. \E p \in 1..Len(Chain(vol, i)) :
             cluster' = Chain(vol, i)[p] /\ Copied(vol, i, out'[i], p - 1)
      BY <2>4, <2>6, <3>1, <3>3, <3>4
    <3> QED
      BY <1>0, <2>5, <2>6b, <3>1, <3>5 DEF Copies
  <2> QED
    BY <2>7, <2>8
<1>7. CASE CopyCluster
  <2>1. PICK next \in NextCluster, ok \in BOOLEAN :
         LET last == next = vol.eof
             write_size == IF last THEN entry.size % cluster_size(boot)
                                   ELSE cluster_size(boot)
         IN /\ cluster' = next
            /\ phase' = IF last THEN "extract" ELSE "copy"
            /\ i' = IF last THEN (i + 1) % 65536 ELSE i
            /\ out' = IF Len(out[i]) >= MaxCopies THEN out ELSE
                      [out EXCEPT ![i] = Append(@, [at |-> ClusterAddress(cluster),
                                                    n |-> write_size])]
            /\ short' = IF ok THEN short ELSE short \cup {i}
    BY <1>7 DEF CopyCluster
  <2> DEFINE ch == Chain(vol, i)
             L == Len(ch)
             ws == IF next = vol.eof THEN entry.size % cluster_size(boot) ELSE cluster_size(boot)
             x == [at |-> ClusterAddress(cluster), n |-> ws]
             w == Append(out[i], x)
  <2>2. phase = "copy"
    BY <1>7 DEF CopyCluster
  <2>3. i \in Files(vol) /\ entry = vol.root[i] /\ vol.root[i].start # 0
    BY <1>3, <2>2
  <2>4. PICK p \in 1..L : /\ cluster = ch[p] /\ Copied(vol, i, out[i], p - 1)
                          /\ cluster - 2 \in DOMAIN vol.table
    BY <1>3, <2>2
  <2>5. /\ L \in Nat /\ L >= 1 /\ L <= MaxCopies /\ MaxCopies \in Nat
        /\ \A q \in 1..(L - 1) : vol.table[ch[q] - 2] = ch[q + 1] /\ ch[q + 1] # vol.eof
        /\ vol.table[ch[L] - 2] = vol.eof
    <3>1. MaxCopies \in Nat
      BY <1>0, VolumeFacts
    <3>2. vol \in Volumes /\ SoundVolume(vol) /\ i \in Files(vol) /\ vol.root[i].start # 0
      BY <1>0, <2>3
    <3> QED
      BY ONLY <3>1, <3>2, SoundFile
  <2>6. next = vol.table[ch[p] - 2]
    BY <2>4 DEF NextCluster
  <2>7. (next = vol.eof) <=> (p = L)
    <3> HIDE DEF ch, L
    <3>1. p # L => p \in 1..(L - 1)
      BY <2>4, <2>5
    <3> QED
      BY <2>5, <2>6, <3>1
  <2>8. x = PieceOf(vol, i, p) /\ x \in Pieces
    <3>1. cluster \in Word /\ vol.root[i] \in DirEntries
      BY <1>0, <2>3, FilesFinite DEF Base
    <3>2. Addr(vol, cluster) \in Nat /\ vol.root[i].size % cluster_size(vol.boot) \in Nat
          /\ cluster_size(vol.boot) \in Nat
      BY <1>0, <3>1, PieceType
    <3>3. ClusterAddress(cluster) = Addr(vol, cluster)
      BY DEF ClusterAddress, Addr, boot
    <3>4. ws = IF p = L THEN vol.root[i].size % cluster_size(vol.boot)
               ELSE cluster_size(vol.boot)
      BY <2>3, <2>7 DEF boot
    <3>5. ws \in Nat
      BY <3>2, <3>4
    <3> HIDE DEF ws
    <3>6. x \in Pieces
      BY <3>2, <3>3, <3>5 DEF Pieces
    <3>7. x = PieceOf(vol, i, p)
      BY <2>4, <3>3, <3>4 DEF PieceOf
    <3> QED
      BY <3>6, <3>7
  <2>9. i \in DOMAIN out /\ out[i] \in Seq(Pieces)
    BY <2>2 DEF Base, OutTypes
  <2>10. p \in Nat /\ p - 1 \in Nat /\ (p - 1) + 1 = p /\ p <= L
    <3> HIDE DEF L
    <3> QED
      BY <2>4, <2>5
  <2>11. Copied(vol, i, w, p)
    <3> HIDE DEF x, L, ch
    <3>1. x = PieceOf(vol, i, (p - 1) + 1)
      BY <2>8, <2>10
    <3>2. Copied(vol, i, w, (p - 1) + 1)
      BY <2>4, <2>8, <2>9, <2>10, <3>1, CopiedMore
    <3> QED
      BY <2>10, <3>2
  <2>12. ~ (Len(out[i]) >= MaxCopies)
    <3>1. Len(out[i]) = p - 1
      BY <2>4 DEF Copied
    <3> HIDE DEF L
    <3> QED
      BY <2>5, <2>10, <3>1
  <2>13. out' = [out EXCEPT ![i] = w]
    BY <2>1, <2>12
  <2> HIDE DEF x, w, ws
  <2>14. DOMAIN out' = DOMAIN out /\ out'[i] = w
         /\ \A k \in DOMAIN out : k # i => out'[k] = out[k]
    BY ONLY <1>0, <2>9, <2>13
  <2>15. \A k \in DOMAIN out' : k # i => Copied(vol, k, out'[k], Len(Chain(vol, k)))
    BY <2>14 DEF Copies
  <2>15a. DOMAIN out' \subseteq Files(vol')
    BY <1>0, <2>14 DEF Copies
  <2>16. CASE p = L
    <3>1. phase' = "extract"
      BY <2>1, <2>7, <2>16
    <3>2. Copied(vol, i, out'[i], Len(Chain(vol, i)))
      BY <2>11, <2>14, <2>16
    <3>3. \A k \in DOMAIN out' : Copied(vol', k, out'[k], Len(Chain(vol', k)))
      BY <1>0, <2>15, <3>2
    <3> QED
      BY <2>15a, <3>1, <3>3 DEF Copies
  <2>17. CASE p # L
    <3>1. phase' = "copy" /\ i' = i /\ cluster' = next
      BY <2>1, <2>7, <2>17
    <3> HIDE DEF ch, L
    <3>2. p \in 1..(L - 1) /\ p + 1 \in 1..L /\ (p + 1) - 1 = p
      BY <2>5, <2>10, <2>17, <2>4
    <3>3. cluster' = ch[p + 1]
      BY <2>5, <2>6, <3>1, <3>2
    <3>4. Copied(vol, i, out'[i], (p + 1) - 1)
      BY <2>11, <2>14, <3>2
    <3>5. \E q \in 1..Len(Chain(vol, i)) :
             cluster' = Chain(vol, i)[q] /\ Copied(vol, i, out'[i], q - 1)
      BY <3>2, <3>3, <3>4 DEF ch, L
    <3> QED
      BY <1>0, <2>15, <2>15a, <3>1, <3>5 DEF Copies
  <2> QED
    BY <2>16, <2>17
<1>8. CASE Crash
  <2>1. \/ phase = "extract" /\ max_root # 0 /\ i >= max_root
        \/ phase = "copy" /\ cluster - 2 \notin DOMAIN vol.table
    BY <1>8 DEF Crash
  <2>2. ~ (phase = "copy" /\ cluster - 2 \notin DOMAIN vol.table)
    BY <1>3
  <2>3. phase = "extract" /\ max_root # 0 => i < max_root
    BY <1>0, <1>2
  <2>4. max_root \in Nat
    BY <1>0, VolumeFacts
  <2> QED
    BY <1>0, <2>1, <2>2, <2>3, <2>4
<1>9. CASE UNCHANGED vars
  <2>1. UNCHANGED <<phase, i, cluster, out, visited>>
    BY <1>9 DEF vars
  <2> QED
    BY <1>0, <2>1 DEF Copies
<1> QED
  BY <1>4, <1>5, <1>6, <1>7, <1>8, <1>9 DEF Next, List, Extract

LEMMA CopiesHold == Spec => [](Base /\ Walk /\ Copies)
<1>1. Init => Copies
  BY DEF Init, Copies
<1> QED
  BY <1>1, CopiesStep, WalkHolds, PTL DEF Spec

\* On a sound volume of any size no read is outside root_dir_entries or
\* fat_entries, neither in extract_files nor in extract_single_file.
THEOREM ReadsStayInside == Spec => []ReadsInside
<1>1. Base /\ Walk /\ Copies => ReadsInside
  <2> SUFFICES ASSUME Base, Walk, Copies, SoundVolume(vol) PROVE ReadsInside
    BY DEF ReadsInside
  <2>0. vol \in Volumes /\ i \in Nat /\ max_root = vol.boot.maxRoot
    BY WordRange DEF Base, max_root, boot
  <2>1. phase = "crashed" => vol.label = -1 /\ visited = {}
    BY DEF Copies
  <2>2. ASSUME phase = "extract", max_root # 0 PROVE i < max_root
    <3>1. HasFreeEntry(vol)
      BY <2>0, <2>2 DEF SoundVolume
    <3>2. NoFreeBefore(vol, i)
      BY <2>2, <3>1 DEF Walk, HandledSoFar
    <3> QED
      BY <2>0, <3>1, <3>2, FreeEntryAhead
  <2>3. ASSUME phase = "copy" PROVE cluster - 2 \in DOMAIN vol.table
    <3>1. i \in Files(vol) /\ vol.root[i].start # 0
      BY <2>3, CopyState
    <3>2. \A p \in 1..Len(Chain(vol, i)) : Chain(vol, i)[p] - 2 \in DOMAIN vol.table
      BY <2>0, <3>1, SoundFile
    <3> QED
      BY <2>3, <3>2 DEF Copies
  <2> QED
    BY <2>1, <2>2, <2>3 DEF ReadsInside
<1> QED
  BY <1>1, CopiesHold, PTL

\* What was written for a file is the whole of its chain, once it is finished.
LEMMA FinishedCopied ==
    ASSUME Base, Copies, SoundVolume(vol), NEW k, Finished(k)
    PROVE  /\ k \in DOMAIN out /\ k \in Files(vol) /\ out[k] \in Seq(Pieces)
           /\ Copied(vol, k, out[k], Len(Chain(vol, k)))
<1>1. k \in DOMAIN out /\ (i > k \/ phase \in Ended)
  BY DEF Finished
<1>2. k \in Files(vol) /\ out[k] \in Seq(Pieces)
  BY <1>1 DEF Base, OutTypes, Copies
<1>3. ~ (phase = "copy" /\ k = i)
  <2>1. i \in Nat
    BY WordRange DEF Base
  <2> QED
    BY <1>1, <2>1 DEF Ended
<1> QED
  BY <1>1, <1>2, <1>3 DEF Copies

\* The 32-bit address of a cluster is the kernel's.
LEMMA AddressAgrees ==
    ASSUME NEW v \in Volumes, NEW c \in Word, c - 2 \in DOMAIN v.table
    PROVE  Addr(v, c) = KernelDirStart(v.boot) + v.boot.maxRoot * 32
                          + (c - 2) * v.boot.spc * v.boot.bps
<1> DEFINE b == v.boot
           ba == base_address(b)
           cs == cluster_size(b)
           num == num_fat_entries(b)
           d == c - 2
<1>1. b \in BootSectors
  BY VolumeFacts
<1>2. /\ b.bps \in Nat /\ b.spc \in Nat /\ b.reserved \in Nat /\ b.copies \in Nat
      /\ b.maxRoot \in Nat /\ b.spf \in Nat
  BY <1>1 DEF BootSectors
<1>3. ba \in Nat /\ cs \in Nat /\ num \in Nat /\ ba + cs * num < UINT /\ UINT \in Nat
  BY VolumeFacts
<1>4. d \in Nat /\ d <= num
  <2>1. DOMAIN v.table = 0..(num - 1)
    BY VolumeFacts
  <2>2. d \in 0..(num - 1)
    BY <2>1
  <2> HIDE DEF d, num
  <2> QED
    BY ONLY <1>3, <2>2
<1>5. ba + cs * d = KernelDirStart(b) + b.maxRoot * 32 + d * b.spc * b.bps
  <2>1. d \in Int
    BY <1>4
  <2> HIDE DEF d, b
  <2>2. ba = (b.reserved + b.spf * b.copies) * b.bps + b.maxRoot * 32 /\ cs = b.bps * b.spc
    BY DEF base_address, cluster_size, DIR_ENTRY_MEMBER_SIZE
  <2>3. KernelDirStart(b) = (b.reserved + b.copies * b.spf) * b.bps
    BY DEF KernelDirStart
  <2>4. ((b.reserved + b.spf * b.copies) * b.bps + b.maxRoot * 32) + (b.bps * b.spc) * d
          = ((b.reserved + b.copies * b.spf) * b.bps) + b.maxRoot * 32 + d * b.spc * b.bps
    BY ONLY <1>2, <2>1
  <2> QED
    BY ONLY <2>2, <2>3, <2>4
<1> HIDE DEF ba, cs, num, d, b
<1>6. ba + cs * d \in Nat /\ ba + cs * d < UINT
  <2>1. cs * d <= cs * num /\ cs * d \in Nat /\ cs * num \in Nat
    BY ONLY <1>3, <1>4
  <2> DEFINE x == cs * d
             y == cs * num
  <2> HIDE DEF x, y
  <2>2. x <= y /\ x \in Nat /\ y \in Nat /\ ba + y < UINT
    BY <1>3, <2>1 DEF x, y
  <2>3. ba + x \in Nat /\ ba + x < UINT
    BY <1>3, <2>2
  <2> QED
    BY <2>3 DEF x
<1>7. (ba + cs * d) % UINT = ba + cs * d
  BY ONLY <1>3, <1>6, ModSmall
<1> QED
  BY <1>5, <1>7 DEF Addr, ba, cs, d, b

\* On a sound volume of any size, msdosextr writes for each file the clusters
\* of its chain, in order, from where the kernel has them
\* (extract_single_file, write_cluster).
THEOREM ChainsAreCopied == Spec => []ChainsCopied
<1>1. Base /\ Copies => ChainsCopied
  <2> SUFFICES ASSUME Base, Copies, SoundVolume(vol),
                      NEW k \in {x \in DOMAIN out : Finished(x)}
               PROVE  LET start == vol.root[k].start
                          chain == IF start = 0 THEN <<>> ELSE KernelChain(vol, start)
                      IN [p \in DOMAIN out[k] |-> out[k][p].at]
                           = [p \in DOMAIN chain |-> KernelDirStart(boot)
                                + max_root * 32 + (chain[p] - 2) * boot.spc * boot.bps]
    BY DEF ChainsCopied
  <2> DEFINE ch == Chain(vol, k)
             kad(c) == KernelDirStart(vol.boot) + vol.boot.maxRoot * 32
                         + (c - 2) * vol.boot.spc * vol.boot.bps
  <2>1. vol \in Volumes
    BY DEF Base
  <2>2. k \in Files(vol) /\ out[k] \in Seq(Pieces) /\ Copied(vol, k, out[k], Len(ch))
    BY FinishedCopied
  <2>3. /\ Len(out[k]) = Len(ch) /\ DOMAIN out[k] = 1..Len(out[k])
        /\ \A p \in 1..Len(ch) : out[k][p] = PieceOf(vol, k, p)
    BY <2>2 DEF Copied
  <2>4. DOMAIN ch = 1..Len(ch) /\ \A p \in DOMAIN ch : Addr(vol, ch[p]) = kad(ch[p])
    <3>1. CASE vol.root[k].start = 0
      <4>1. ch = <<>>
        BY <3>1 DEF Chain
      <4>2. DOMAIN <<>> = {} /\ 1..Len(<<>>) = {}
        OBVIOUS
      <4> HIDE DEF ch, kad
      <4> QED
        BY <4>1, <4>2
    <3>2. CASE vol.root[k].start # 0
      <4>1. ch \in Seq(Word) /\ \A p \in 1..Len(ch) : ch[p] - 2 \in DOMAIN vol.table
        BY <2>1, <2>2, <3>2, SoundFile
      <4> HIDE DEF ch
      <4>2. DOMAIN ch = 1..Len(ch) /\ \A p \in DOMAIN ch : ch[p] \in Word
        BY <4>1
      <4>3. \A p \in DOMAIN ch : ch[p] - 2 \in DOMAIN vol.table
        BY <4>1, <4>2
      <4>4. ASSUME NEW p \in DOMAIN ch PROVE Addr(vol, ch[p]) = kad(ch[p])
        BY <2>1, <4>2, <4>3, AddressAgrees
      <4> QED
        BY <4>2, <4>4
    <3> QED
      BY <3>1, <3>2
  <2> HIDE DEF kad
  <2>5. \A p \in DOMAIN ch : out[k][p].at = kad(ch[p])
    <3>1. \A p \in DOMAIN ch : out[k][p].at = Addr(vol, ch[p])
      BY <2>3, <2>4 DEF PieceOf
    <3> QED
      BY <2>4, <3>1
  <2>6. DOMAIN out[k] = DOMAIN ch
    BY <2>3, <2>4
  <2> HIDE DEF ch
  <2>7. [p \in DOMAIN out[k] |-> out[k][p].at] = [p \in DOMAIN ch |-> kad(ch[p])]
    BY <2>5, <2>6
  <2> QED
    BY <2>7 DEF ch, kad, Chain, boot, max_root
<1> QED
  BY <1>1, CopiesHold, PTL

---------------------------------------------------------------------------
(* The sizes of the copies *)

\* The sum of equal values.
LEMMA SumOfEqual ==
    ASSUME NEW f, NEW c \in Nat, NEW m \in Nat, \A p \in 1..m : f[p] = c
    PROVE  SumFunctionOnSet(f, 1..m) = c * m
<1> DEFINE Sum(n) == SumFunctionOnSet(f, 1..n)
           N == {n \in Nat : n <= m => Sum(n) = c * n}
<1>1. 0 \in N
  <2>1. 1..0 = {}
    OBVIOUS
  <2>2. Sum(0) = 0
    BY <2>1, SumOfNothing
  <2> HIDE DEF Sum
  <2>3. c * 0 = 0
    OBVIOUS
  <2> QED
    BY <2>2, <2>3
<1>2. ASSUME NEW n \in Nat, n \in N PROVE n + 1 \in N
  <2> SUFFICES ASSUME n + 1 <= m PROVE Sum(n + 1) = c * (n + 1)
    OBVIOUS
  <2>1. IsFiniteSet(1..(n + 1))
    <3>1. 1 \in Int /\ n + 1 \in Int
      OBVIOUS
    <3> QED
      BY ONLY <3>1, FS_Interval
  <2>2. (1..(n + 1)) \ {n + 1} = 1..n /\ n + 1 \in 1..(n + 1)
    OBVIOUS
  <2>3. \A p \in 1..(n + 1) : f[p] = c /\ f[p] \in Int
    OBVIOUS
  <2>4. SumFunctionOnSet(f, 1..(n + 1))
          = f[n + 1] + SumFunctionOnSet(f, (1..(n + 1)) \ {n + 1})
    BY <2>1, <2>2, <2>3, SumTakeOff
  <2>5. f[n + 1] = c
    BY <2>2, <2>3
  <2>6. Sum(n + 1) = c + Sum(n)
    BY <2>2, <2>4, <2>5
  <2> HIDE DEF Sum
  <2>7. Sum(n) = c * n
    BY <1>2
  <2>8. c + c * n = c * (n + 1)
    OBVIOUS
  <2> QED
    BY ONLY <2>6, <2>7, <2>8
<1>3. \A n \in Nat : n \in N
  <2> HIDE DEF N
  <2> QED
    BY <1>1, <1>2, NatSetInduction
<1> HIDE DEF Sum
<1>4. Sum(m) = c * m
  BY <1>3
<1> QED
  BY <1>4 DEF Sum

\* The bytes of a file whose pieces are all of one size but the last.
LEMMA BytesOfPieces ==
    ASSUME NEW w \in Seq(Pieces), NEW c \in Nat, NEW r \in Nat, Len(w) >= 1,
           \A p \in 1..Len(w) : w[p].n = IF p = Len(w) THEN r ELSE c
    PROVE  Bytes(w) = c * (Len(w) - 1) + r
<1> DEFINE f == [p \in DOMAIN w |-> w[p].n]
           L == Len(w)
<1>1. L \in Nat /\ DOMAIN w = 1..L
  OBVIOUS
<1>2. DOMAIN f = 1..L /\ \A p \in 1..L : f[p] = IF p = L THEN r ELSE c
  BY <1>1
<1>3. Bytes(w) = SumFunctionOnSet(f, 1..L)
  BY <1>2 DEF Bytes, SumFunction
<1>4. L >= 1
  OBVIOUS
<1> HIDE DEF f, L
<1>5. L \in 1..L /\ (1..L) \ {L} = 1..(L - 1) /\ L - 1 \in Nat
  BY <1>1, <1>4
<1>6. \A p \in 1..L : f[p] \in Int
  BY <1>2
<1>7. IsFiniteSet(1..L)
  <2>1. 1 \in Int /\ L \in Int
    BY <1>1
  <2> QED
    BY ONLY <2>1, FS_Interval
<1>8. SumFunctionOnSet(f, 1..L) = f[L] + SumFunctionOnSet(f, (1..L) \ {L})
  <2> DEFINE S == 1..L
  <2>1. IsFiniteSet(S) /\ L \in S /\ \A p \in S : f[p] \in Int
    BY <1>5, <1>6, <1>7
  <2> HIDE DEF S
  <2>2. SumFunctionOnSet(f, S) = f[L] + SumFunctionOnSet(f, S \ {L})
    BY ONLY <2>1, SumTakeOff
  <2> QED
    BY <2>2 DEF S
<1>9. SumFunctionOnSet(f, 1..(L - 1)) = c * (L - 1)
  <2>1. \A p \in 1..(L - 1) : f[p] = c
    BY <1>1, <1>2, <1>4
  <2> QED
    BY <1>5, <2>1, SumOfEqual
<1>10. f[L] = r
  BY <1>2, <1>5
<1>11. r + c * (L - 1) = c * (L - 1) + r
  BY <1>5
<1>12. Bytes(w) = c * (L - 1) + r
  BY ONLY <1>3, <1>5, <1>8, <1>9, <1>10, <1>11, Zenon
<1> QED
  BY <1>12 DEF L

\* On a sound volume of any size, a file whose size fits its chain and is not
\* a multiple of the cluster size comes out with that size
\* (extract_single_file, write_cluster).
THEOREM SizesAreKept == Spec => []SizesKept
<1>1. Base /\ Copies => SizesKept
  <2> SUFFICES ASSUME Base, Copies, SoundVolume(vol),
                      NEW k \in {x \in DOMAIN out : Finished(x)} \ short,
                      SizeFits(k), ~ ExactMultiple(k)
               PROVE  Bytes(out[k]) = vol.root[k].size
    BY DEF SizesKept
  <2> DEFINE ch == Chain(vol, k)
             cs == cluster_size(vol.boot)
             size == vol.root[k].size
             L == Len(ch)
  <2>1. vol \in Volumes
    BY DEF Base
  <2>2. k \in Files(vol) /\ out[k] \in Seq(Pieces) /\ Copied(vol, k, out[k], L)
    BY FinishedCopied
  <2>3. Len(out[k]) = L /\ \A p \in 1..L : out[k][p] = PieceOf(vol, k, p)
    BY <2>2 DEF Copied
  <2>4. cs \in Nat /\ cs > 0
    BY <2>1, VolumeFacts
  <2>5. size \in Nat
    BY <2>1, <2>2, FilesFinite DEF DirEntries
  <2>6. CASE vol.root[k].start = 0
    <3>1. size = 0
      BY <2>6 DEF SizeFits
    <3>2. Len(out[k]) = 0
      <4>1. ch = <<>>
        BY <2>6 DEF Chain
      <4> HIDE DEF ch
      <4> QED
        BY <2>3, <4>1
    <3>3. DOMAIN out[k] = {}
      BY <2>2, <3>2
    <3>4. Bytes(out[k]) = 0
      <4> DEFINE f == [p \in DOMAIN out[k] |-> out[k][p].n]
      <4>1. DOMAIN f = {}
        BY <3>3
      <4>2. Bytes(out[k]) = SumFunctionOnSet(f, DOMAIN f)
        BY DEF Bytes, SumFunction
      <4> HIDE DEF f
      <4> QED
        BY <4>1, <4>2, SumOfNothing
    <3> QED
      BY <3>1, <3>4
  <2>7. CASE vol.root[k].start # 0
    <3>1. L \in Nat /\ L >= 1
      BY <2>1, <2>2, <2>7, SoundFile
    <3>2. L = (size + cs - 1) \div cs
      BY <2>7 DEF SizeFits, Chain, boot
    <3>3. \A p \in 1..L : out[k][p].n = IF p = L THEN size % cs ELSE cs
      <4>1. \A p : PieceOf(vol, k, p).n = IF p = L THEN size % cs ELSE cs
        BY DEF PieceOf
      <4> HIDE DEF L, cs, size, ch
      <4> QED
        BY ONLY <2>3, <4>1
    <3> HIDE DEF L, cs, size, ch
    <3>4. size % cs \in Nat
      BY <2>4, <2>5, ModRange
    <3>5. size % cs # 0
      <4> SUFFICES ASSUME size % cs = 0 PROVE FALSE
        OBVIOUS
      <4>1. size = 0
        BY <2>5 DEF ExactMultiple, boot, size, cs
      <4>2. cs * 0 + (cs - 1) = (size + cs) - 1 /\ cs - 1 \in 0..(cs - 1) /\ 0 \in Int
        BY <2>4, <4>1
      <4>3. (cs * 0 + (cs - 1)) \div cs = 0
        BY <2>4, <4>2, DivModUnique
      <4>4. L = 0
        <5>1. size + cs - 1 = cs * 0 + (cs - 1)
          BY <2>4, <4>1
        <5> QED
          BY ONLY <3>2, <4>3, <5>1
      <4> QED
        BY <3>1, <4>4
    <3>6. cs * (((size + cs - 1) \div cs) - 1) + (size % cs) = size
      BY <2>4, <2>5, <3>5, LastClusterSize
    <3>7. cs * (L - 1) + (size % cs) = size
      BY ONLY <3>2, <3>6
    <3>8. Bytes(out[k]) = cs * (Len(out[k]) - 1) + (size % cs)
      <4>1. Len(out[k]) >= 1
        BY <2>3, <3>1
      <4>2. \A p \in 1..Len(out[k]) : out[k][p].n = IF p = Len(out[k]) THEN size % cs ELSE cs
        BY <2>3, <3>3
      <4> QED
        BY <2>2, <2>4, <3>4, <4>1, <4>2, BytesOfPieces
    <3>9. Bytes(out[k]) = size
      BY ONLY <2>3, <3>7, <3>8
    <3> QED
      BY <3>9 DEF size
  <2> QED
    BY <2>6, <2>7
<1> QED
  BY <1>1, CopiesHold, PTL
=============================================================================
