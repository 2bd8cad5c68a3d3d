-------------------------- MODULE Fat12ReadProofs --------------------------
(***************************************************************************)
(* Proofs about Fat12Read, for every set of images: the file position that *)
(* fat12.c moves with relative reads and seeks is where the layout of the  *)
(* volume says, nothing is written outside the arrays, and the table in    *)
(* memory is the FAT as the kernel's driver unpacks it.                    *)
(***************************************************************************)
EXTENDS Fat12Read, TLAPS

F == KernelFatStart(boot)
D == KernelDirStart(boot)
B == bytes_per_fat(boot)

\* The products of the layout, each taken once.
LEMMA Layout ==
    ASSUME image \in Images
    PROVE  /\ F \in Nat /\ D \in Nat /\ B \in Nat /\ num \in Nat /\ num = (B * 2) \div 3 - 2
           /\ B >= 3 /\ BootSize \in Nat /\ boot.bps \in Nat /\ boot.maxRoot \in Nat
           /\ boot.bps >= BootSize
           /\ image.len \in Nat
           /\ (boot.reserved - 1) * boot.bps \in Nat
           /\ boot.bps + (boot.reserved - 1) * boot.bps = F
           /\ (boot.copies - 1) * bytes_per_fat(boot) \in Nat
           /\ D = F + B + (boot.copies - 1) * bytes_per_fat(boot)
           /\ base_address(boot) = D + 32 * boot.maxRoot
<1> DEFINE r == boot.reserved
           c == boot.copies
           s == boot.spf
           p == boot.bps
           m == boot.maxRoot
<1>1. /\ r \in Nat /\ c \in Nat /\ s \in Nat /\ p \in Nat /\ m \in Nat
      /\ r >= 1 /\ c >= 1 /\ p >= BootSize /\ BootSize \in Nat
      /\ s * p >= 3 /\ image.len \in Nat
  BY ImageAssumption, SizeAssumption DEF BootSectors, boot, bytes_per_fat
<1> HIDE DEF r, c, s, p, m
<1>2. s * p \in Nat /\ r * p \in Nat
  BY <1>1
<1>3. (r - 1) * p = r * p - p /\ (r - 1) * p \in Nat
  BY <1>1
<1>4. \A x \in Nat : (c - 1) * x = c * x - x /\ (c - 1) * x \in Nat
  BY <1>1
<1>5. (r + c * s) * p = r * p + c * (s * p)
  BY <1>1
<1>6. (r + s * c) * p = r * p + c * (s * p)
  BY <1>1
<1>7. (c - 1) * (s * p) = c * (s * p) - s * p /\ (c - 1) * (s * p) \in Nat
  BY <1>2, <1>4
<1>8. F = r * p /\ B = s * p /\ D = (r + c * s) * p
      /\ base_address(boot) = (r + s * c) * p + m * 32
      /\ num = (B * 2) \div 3 - 2 /\ bytes_per_fat(boot) = s * p
  BY DEF F, B, D, KernelFatStart, KernelDirStart, bytes_per_fat, base_address,
         num, num_fat_entries, DIR_ENTRY_MEMBER_SIZE, r, c, s, p, m
<1>9. num \in Nat
  BY <1>1, <1>2, <1>8
<1> QED
  BY <1>1, <1>2, <1>3, <1>5, <1>6, <1>7, <1>8, <1>9 DEF r, c, s, p, m

\* Remainders by the length of a FAT.
LEMMA ModFact ==
    ASSUME NEW n \in Nat \ {0}, NEW x \in Nat
    PROVE  /\ x % n \in 0..(n - 1)
           /\ x < n => x % n = x
<1>1. x % n \in 0..(n - 1)
  BY Z3
<1>2. ASSUME x < n PROVE x % n = x
  BY <1>2, Z3
<1> QED
  BY <1>1, <1>2

LEMMA BytesAreBytes ==
    ASSUME image \in Images, NEW p \in Nat
    PROVE  ByteAt(p) \subseteq Byte
<1>1. CASE p < image.len /\ p >= F /\ p < D
  <2>1. p - F \in Nat /\ B \in Nat \ {0}
    BY <1>1, Layout
  <2>2. (p - F) % B \in 0..(B - 1)
    BY <2>1, ModFact
  <2>3. image.fat[(p - F) % B] \in Byte
    BY <2>2, ImageAssumption DEF B, boot
  <2> QED
    BY <1>1, <2>3 DEF ByteAt, F, D, B
<1>2. CASE ~ (p < image.len /\ p >= F /\ p < D)
  BY <1>2, GarbageAssumption DEF ByteAt, F, D
<1> QED
  BY <1>1, <1>2

\* A byte in the first FAT of an image that has all its FATs.
LEMMA FirstCopy ==
    ASSUME image \in Images, image.len >= D, NEW k \in Nat, k < B
    PROVE  ByteAt(F + k) = {image.fat[k]} /\ image.fat[k] \in Byte
<1>1. F + k < D /\ F + k >= F /\ F + k < image.len /\ (F + k) - F = k /\ B \in Nat \ {0}
  BY Layout
<1>2. k % B = k
  BY <1>1, ModFact
<1>3. image.fat[k] \in Byte
  BY <1>1, ImageAssumption DEF B, boot
<1>4. ByteAt(F + k) = {image.fat[((F + k) - F) % B]}
  BY <1>1 DEF ByteAt, F, D, B
<1> QED
  BY <1>1, <1>2, <1>3, <1>4

\* The two entries of a triple are the kernel's entries of its place.
LEMMA TripleIsKernels ==
    ASSUME NEW fat, NEW k \in Nat, k % 2 = 0,
           NEW o \in Nat, o = 3 + 3 * (k \div 2),
           fat[o] \in Byte, fat[o + 1] \in Byte
    PROVE  /\ (fat[o + 1] % 16) * 256 + fat[o] = KernelEntry(fat, k + 2)
           /\ fat[o + 2] \in Byte =>
                fat[o + 2] * 16 + fat[o + 1] \div 16 = KernelEntry(fat, k + 3)
<1>1. (k + 2) + (k + 2) \div 2 = o /\ (k + 2) % 2 = 0
  BY Z3
<1>2. (k + 3) + (k + 3) \div 2 = o + 1 /\ (k + 3) % 2 = 1 /\ (o + 1) + 1 = o + 2
  BY Z3
<1>3. \A x, y \in Byte : (x % 16) * 256 + y = (x * 256 + y) % 4096
  BY Z3 DEF Byte
<1>4. \A x, y \in Byte : y * 16 + x \div 16 = (x \div 16 + y * 16) % 4096
  BY Z3 DEF Byte
<1>5. KernelEntry(fat, k + 2) = (fat[o + 1] * 256 + fat[o]) % 4096
  BY <1>1 DEF KernelEntry
<1>6. KernelEntry(fat, k + 3) = (fat[o + 1] \div 16 + fat[o + 2] * 16) % 4096
  BY <1>2 DEF KernelEntry
<1> QED
  BY <1>3, <1>4, <1>5, <1>6

-----------------------------------------------------------------------------
\* Where the file position is before each step, for an image that has all its
\* FATs; the last pair may stick out of a FAT that is not filled by pairs.
PosInv ==
    image.len >= D =>
        /\ phase \in {"start", "boot"} => pos = 0
        /\ phase = "reserved" => pos = boot.bps
        /\ phase = "markers" => pos = F
        /\ phase = "table_alloc" => pos = F + 3
        /\ phase = "table" /\ (i < num \/ B % 3 = 0) => pos = F + 3 + 3 * (i \div 2)
        /\ phase = "copies" /\ B % 3 = 0 => pos = F + B
        /\ phase = "root_alloc" /\ B % 3 = 0 => pos = D
        /\ phase = "root" /\ B % 3 = 0 /\ image.len >= base_address(boot) =>
             pos = D + 32 * i

\* What the loop counters may be.
CountInv ==
    /\ phase = "table" => i % 2 = 0 /\ (B % 3 = 0 => i <= num)
    /\ phase = "root" => i <= boot.maxRoot

\* What the two pointers may be.
PtrInv ==
    /\ phase \in Reading \cup {"done", "failed"} =>
         \A a \in Arrays : ptr[a] \in {"null", "heap"}
    /\ phase = "freed" => \A a \in Arrays : ptr[a] \in {"null", "free"}

IInv == /\ image \in Images
        /\ TypeOK
        /\ PosInv
        /\ CountInv
        /\ ArraysInBounds
        /\ TableDecoded
        /\ PtrInv

\* A read that the image has room for moves the position by its length.
LEMMA ReadMoves ==
    ASSUME image \in Images, pos \in Nat, NEW n \in Nat
    PROVE  /\ ReadTo(n) \in Nat
           /\ pos + n <= image.len => ReadTo(n) = pos + n
BY Layout DEF ReadTo

LEMMA InitInv == Init => IInv
<1> SUFFICES ASSUME Init PROVE IInv
  OBVIOUS
<1>1. image \in Images /\ image.boot \in BootSectors
  BY ImageAssumption DEF Init
<1>2. TypeOK
  BY <1>1 DEF Init, TypeOK, Arrays, Reading
<1>3. PosInv /\ CountInv /\ PtrInv
  BY DEF Init, PosInv, CountInv, PtrInv, Reading
<1>4. DOMAIN table = {} /\ DOMAIN root = {}
  BY DEF Init
<1>5. ArraysInBounds /\ TableDecoded
  BY <1>4 DEF ArraysInBounds, TableDecoded
<1> QED
  BY <1>1, <1>2, <1>3, <1>5 DEF IInv

\* A step that leaves the arrays alone keeps what is said of them.
LEMMA ArraysSame ==
    ASSUME IInv, image' = image, table' = table, root' = root
    PROVE  ArraysInBounds' /\ TableDecoded'
BY DEF IInv, ArraysInBounds, TableDecoded, boot, num, Pairs, num_fat_entries,
       bytes_per_fat, KernelDirStart, KernelEntry

\* One turn of the loop over the FAT.
LEMMA ReadPairInv == IInv /\ ReadPair => IInv'
<1> SUFFICES ASSUME IInv, ReadPair PROVE IInv'
  OBVIOUS
<1>1. /\ phase = "table" /\ i < num /\ pos' = ReadTo(3) /\ i' = i + 2
      /\ image' = image /\ phase' = phase /\ eof' = eof /\ root' = root
      /\ label' = label /\ ptr' = ptr
  BY DEF ReadPair
<1>2. /\ image \in Images /\ pos \in Nat /\ i \in Nat /\ i % 2 = 0
      /\ TypeOK /\ PosInv /\ CountInv /\ ArraysInBounds /\ TableDecoded /\ PtrInv
  BY <1>1 DEF IInv, TypeOK, CountInv
<1>3. /\ F' = F /\ D' = D /\ B' = B /\ num' = num /\ boot' = boot
  BY <1>1 DEF F, D, B, num, boot
<1>4. PICK t \in ByteAt(pos) \X ByteAt(pos + 1) \X ByteAt(pos + 2) :
        table' = Put(Put(table, i, Unpack(t)[1]), i + 1, Unpack(t)[2])
  BY DEF ReadPair
<1>5. PICK t1 \in ByteAt(pos), t2 \in ByteAt(pos + 1), t3 \in ByteAt(pos + 2) :
        t = <<t1, t2, t3>>
  BY <1>4
<1>6. t1 \in Byte /\ t2 \in Byte /\ t3 \in Byte
  BY <1>2, <1>5, BytesAreBytes
<1> DEFINE e1 == (t2 % 16) * 256 + t1
           e2 == t3 * 16 + t2 \div 16
<1>7. Unpack(t)[1] = e1 /\ Unpack(t)[2] = e2 /\ e1 \in 0..4095 /\ e2 \in 0..4095
  <2>1. Unpack(t) = <<e1, e2>>
    BY <1>5 DEF Unpack
  <2>2. e1 \in 0..4095
    BY <1>6 DEF Byte
  <2>3. e2 \in 0..4095
    BY <1>6 DEF Byte
  <2> HIDE DEF e1, e2
  <2> QED
    BY <2>1, <2>2, <2>3
<1> HIDE DEF e1, e2
<1>8. table' = Put(Put(table, i, e1), i + 1, e2)
  BY <1>4, <1>7
<1>9. /\ DOMAIN table' = DOMAIN table \cup {i, i + 1}
      /\ table'[i] = e1 /\ table'[i + 1] = e2
      /\ \A x \in DOMAIN table : x # i /\ x # i + 1 => table'[x] = table[x]
  <2>1. i # i + 1
    BY <1>2
  <2> DEFINE g == Put(table, i, e1)
  <2>2. /\ DOMAIN g = DOMAIN table \cup {i} /\ g[i] = e1
        /\ \A x \in DOMAIN table : x # i => g[x] = table[x]
    BY DEF Put
  <2> HIDE DEF g
  <2>3. /\ DOMAIN Put(g, i + 1, e2) = DOMAIN g \cup {i + 1}
        /\ Put(g, i + 1, e2)[i + 1] = e2
        /\ \A x \in DOMAIN g : x # i + 1 => Put(g, i + 1, e2)[x] = g[x]
    BY DEF Put
  <2>4. table' = Put(g, i + 1, e2)
    BY <1>8 DEF g
  <2> QED
    BY <2>1, <2>2, <2>3, <2>4
<1>10. TypeOK'
  <2>1. pos' \in Nat /\ i' \in Nat
    BY <1>1, <1>2, ReadMoves
  <2>2. DOMAIN table' \subseteq Nat
    BY <1>2, <1>9 DEF TypeOK
  <2>3. ASSUME NEW k \in DOMAIN table' PROVE table'[k] \in 0..4095
    <3> DEFINE R == 0..4095
    <3>1. e1 \in R /\ e2 \in R
      BY ONLY <1>7
    <3>2. \A x \in DOMAIN table : table[x] \in R
      BY ONLY <1>2 DEF TypeOK
    <3> HIDE DEF R
    <3>3. table'[k] \in R
      BY ONLY <1>9, <3>1, <3>2, k \in DOMAIN table', Zenon
    <3> QED
      BY ONLY <3>3 DEF R
  <2>4. image'.boot \in BootSectors /\ eof' \in Nat /\ label' \in Int
    BY ONLY <1>1, <1>2 DEF TypeOK
  <2>5. /\ phase' \in {"start", "done", "failed", "freed"} \cup Reading
        /\ ptr' \in [Arrays -> {"stack", "null", "heap", "free"}]
        /\ DOMAIN root' \subseteq Nat /\ \A k \in DOMAIN root' : root'[k] \in DirEntries
    BY ONLY <1>1, <1>2 DEF TypeOK
  <2> QED
    BY ONLY <2>1, <2>2, <2>3, <2>4, <2>5 DEF TypeOK
<1>11. B \in Nat /\ F \in Nat /\ D \in Nat /\ num = (B * 2) \div 3 - 2 /\ B >= 3
       /\ D >= F + B /\ image.len \in Nat /\ num \in Nat
  BY <1>2, Layout
<1> DEFINE o == 3 + 3 * (i \div 2)
<1>12. /\ o \in Nat /\ o + 1 < B
       /\ i + 1 < num => o + 2 < B
       /\ i + 2 < num \/ B % 3 = 0 => o + 3 <= B
       /\ 3 + 3 * ((i + 2) \div 2) = o + 3
       /\ (i + 2) % 2 = 0
       /\ B % 3 = 0 => i + 2 <= num
  BY <1>1, <1>2, <1>11, Z3
<1> HIDE DEF o
<1>13. image.len >= D => pos = F + o
  BY <1>1, <1>2, <1>11 DEF PosInv, o
<1>14. PosInv'
  <2> SUFFICES ASSUME image.len >= D, i + 2 < num \/ B % 3 = 0
               PROVE  pos' = F + 3 + 3 * ((i + 2) \div 2)
    BY <1>1, <1>3 DEF PosInv
  <2>1. pos + 3 <= image.len
    BY <1>11, <1>12, <1>13
  <2>2. pos' = pos + 3
    BY <1>1, <1>2, <2>1, ReadMoves
  <2> QED
    BY <1>2, <1>11, <1>12, <1>13, <2>2
<1>15. CountInv'
  BY <1>1, <1>3, <1>12 DEF CountInv
<1>16. ArraysInBounds'
  <2>1. B % 3 = 0 => i + 1 \in 0..(num - 1) /\ i \in 0..(num - 1)
    BY <1>1, <1>2, <1>11, <1>12
  <2>2. Pairs(boot) <=> B % 3 = 0
    BY DEF Pairs, B
  <2>3. Pairs(boot)' <=> B % 3 = 0
    BY <1>3 DEF Pairs, B
  <2> QED
    BY <1>1, <1>2, <1>3, <1>9, <2>1, <2>2, <2>3 DEF ArraysInBounds
<1>17. TableDecoded'
  <2> SUFFICES ASSUME image.len >= D, NEW k \in DOMAIN table' \cap 0..(num - 1)
               PROVE  table'[k] = KernelEntry(image.fat, k + 2)
    BY <1>1, <1>3 DEF TableDecoded, D, KernelEntry
  <2>0. /\ o + 1 \in Nat /\ o + 2 \in Nat /\ o < B /\ pos = F + o
        /\ pos + 1 = F + (o + 1) /\ pos + 2 = F + (o + 2)
    BY <1>11, <1>12, <1>13
  <2>1. t1 = image.fat[o] /\ t2 = image.fat[o + 1]
    BY <1>2, <1>5, <1>12, <2>0, FirstCopy
  <2>2. CASE k = i
    <3>1. e1 = KernelEntry(image.fat, i + 2)
      BY <1>2, <1>6, <1>12, <2>1, TripleIsKernels DEF o, e1
    <3> QED
      BY <1>9, <2>2, <3>1
  <2>3. CASE k = i + 1
    <3>1. i + 1 < num
      BY <1>2, <1>11, <2>3
    <3>2. t3 = image.fat[o + 2]
      BY <1>2, <1>5, <1>12, <2>0, <3>1, FirstCopy
    <3>3. e2 = KernelEntry(image.fat, i + 3)
      BY <1>2, <1>6, <1>12, <2>1, <3>2, TripleIsKernels DEF o, e2
    <3>4. (i + 1) + 2 = i + 3
      BY <1>2
    <3> QED
      BY <1>9, <2>3, <3>3, <3>4
  <2>4. CASE k # i /\ k # i + 1
    <3>1. k \in DOMAIN table \cap 0..(num - 1)
      BY <1>9, <2>4
    <3> QED
      BY <1>2, <1>9, <2>4, <3>1 DEF TableDecoded, D
  <2> QED
    BY <2>2, <2>3, <2>4
<1>18. PtrInv'
  BY <1>1, <1>2 DEF PtrInv, Reading
<1> QED
  BY <1>1, <1>2, <1>10, <1>14, <1>15, <1>16, <1>17, <1>18 DEF IInv

\* One turn of the loop over the root directory.
LEMMA ReadEntryInv == IInv /\ ReadEntry => IInv'
<1> SUFFICES ASSUME IInv, ReadEntry PROVE IInv'
  OBVIOUS
<1>1. /\ phase = "root" /\ i < boot.maxRoot
      /\ pos' = ReadTo(32) /\ image' = image /\ eof' = eof /\ table' = table
      /\ ptr' = ptr
  BY DEF ReadEntry, DIR_ENTRY_MEMBER_SIZE
<1>2. /\ image \in Images /\ pos \in Nat /\ i \in Nat
      /\ TypeOK /\ PosInv /\ CountInv /\ ArraysInBounds /\ TableDecoded /\ PtrInv
  BY DEF IInv, TypeOK
<1>3. /\ F' = F /\ D' = D /\ B' = B /\ num' = num /\ boot' = boot
  BY <1>1 DEF F, D, B, num, boot
<1>4. PICK e \in EntryAt(pos) :
        /\ root' = Put(root, i, e)
        /\ IF is_entry_free(e)
           THEN phase' = "done" /\ i' = i /\ label' = label
           ELSE /\ phase' = phase
                /\ i' = i + 1
                /\ label' = IF is_volume_label(e) THEN i ELSE label
  BY DEF ReadEntry
<1>5. /\ D \in Nat /\ image.len \in Nat /\ boot.maxRoot \in Nat
      /\ base_address(boot) = D + 32 * boot.maxRoot
  BY <1>2, Layout
<1>6. e \in DirEntries
  <2>1. CASE e \in GarbageEntries
    BY <2>1, GarbageAssumption
  <2>2. CASE e \notin GarbageEntries
    <3> DEFINE at == pos - KernelDirStart(boot)
    <3>1. /\ at \in {DIR_ENTRY_MEMBER_SIZE * k : k \in 0..(boot.maxRoot - 1)}
          /\ e = image.root[at \div DIR_ENTRY_MEMBER_SIZE]
      BY <2>2 DEF EntryAt
    <3>2. PICK k \in 0..(boot.maxRoot - 1) : at = 32 * k
      BY <3>1 DEF DIR_ENTRY_MEMBER_SIZE
    <3> HIDE DEF at
    <3>3. at \div 32 = k
      BY <1>5, <3>2
    <3>4. image.root[k] \in DirEntries
      BY <1>2, ImageAssumption DEF boot
    <3> QED
      BY <3>1, <3>3, <3>4 DEF DIR_ENTRY_MEMBER_SIZE
  <2> QED
    BY <2>1, <2>2
<1>7. /\ DOMAIN root' = DOMAIN root \cup {i}
      /\ \A k \in DOMAIN root' : root'[k] = IF k = i THEN e ELSE root[k]
  BY <1>4 DEF Put
<1>8. phase' \in {"root", "done"} /\ i' \in Nat /\ label' \in Int
  BY <1>1, <1>2, <1>4 DEF TypeOK
<1>9. TypeOK'
  <2>1. pos' \in Nat
    BY <1>1, <1>2, ReadMoves
  <2>2. DOMAIN root' \subseteq Nat
    BY <1>2, <1>7 DEF TypeOK
  <2>3. \A k \in DOMAIN root' : root'[k] \in DirEntries
    BY <1>2, <1>6, <1>7 DEF TypeOK
  <2> QED
    BY <1>1, <1>2, <1>8, <2>1, <2>2, <2>3 DEF TypeOK, Reading
<1>10. CountInv'
  <2>1. phase' = "root" => i' = i + 1
    BY <1>1, <1>4
  <2>2. phase' = "root" => i' <= boot.maxRoot
    BY <1>1, <1>2, <1>5, <2>1
  <2> QED
    BY <1>3, <1>8, <2>2 DEF CountInv
<1>11. PosInv'
  <2> SUFFICES ASSUME phase' = "root", B % 3 = 0, image.len >= base_address(boot),
                      image.len >= D
               PROVE  pos' = D + 32 * i'
    BY <1>1, <1>3, <1>8 DEF PosInv
  <2>1. i' = i + 1
    BY <1>1, <1>4
  <2>2. pos = D + 32 * i
    BY <1>1, <1>2 DEF PosInv
  <2>3. pos + 32 <= image.len
    BY <1>1, <1>2, <1>5, <2>2
  <2>4. pos' = pos + 32
    BY <1>1, <1>2, <2>3, ReadMoves
  <2> QED
    BY <1>2, <1>5, <2>1, <2>2, <2>4
<1>12. ArraysInBounds'
  <2>1. i \in 0..(boot.maxRoot - 1)
    BY <1>1, <1>2, <1>5
  <2>2. Pairs(boot)' = Pairs(boot)
    BY <1>1 DEF Pairs, boot
  <2> QED
    BY <1>1, <1>2, <1>3, <1>7, <2>1, <2>2 DEF ArraysInBounds
<1>13. TableDecoded'
  BY <1>1, <1>2 DEF TableDecoded, boot, num, KernelEntry
<1>14. PtrInv'
  BY <1>1, <1>2, <1>8 DEF PtrInv, Reading
<1> QED
  BY <1>1, <1>2, <1>9, <1>10, <1>11, <1>12, <1>13, <1>14 DEF IInv

\* A step outside the two loops' bodies.
LEMMA OtherStepInv ==
    ASSUME IInv, Start \/ ReadBoot \/ SkipReserved \/ ReadMarkers \/ AllocTable
                 \/ TableDone \/ SkipCopies \/ AllocRoot \/ RootFull \/ Fail \/ Free
    PROVE  IInv'
<1>1. image' = image /\ table' = table /\ root' = root /\ label' = label
  BY DEF Start, ReadBoot, SkipReserved, ReadMarkers, AllocTable, TableDone, SkipCopies,
         AllocRoot, RootFull, Fail, Free
<1>2. ArraysInBounds' /\ TableDecoded'
  BY <1>1, ArraysSame
<1>3. /\ image \in Images /\ pos \in Nat /\ i \in Nat /\ eof \in Nat
      /\ TypeOK /\ PosInv /\ CountInv /\ PtrInv
  BY DEF IInv, TypeOK
<1>4. /\ F' = F /\ D' = D /\ B' = B /\ num' = num /\ boot' = boot
  BY <1>1 DEF F, D, B, num, boot
<1>5. /\ F \in Nat /\ D \in Nat /\ B \in Nat /\ num \in Nat /\ num = (B * 2) \div 3 - 2
      /\ B >= 3 /\ BootSize \in Nat /\ boot.bps \in Nat /\ boot.maxRoot \in Nat
      /\ boot.bps >= BootSize /\ image.len \in Nat
      /\ (boot.reserved - 1) * boot.bps \in Nat
      /\ boot.bps + (boot.reserved - 1) * boot.bps = F
      /\ (boot.copies - 1) * bytes_per_fat(boot) \in Nat
      /\ D = F + B + (boot.copies - 1) * bytes_per_fat(boot)
  BY <1>3, Layout
<1>typ. ptr \in [Arrays -> {"stack", "null", "heap", "free"}]
  BY <1>3 DEF TypeOK
<1> DEFINE Rest == pos' \in Nat /\ i' \in Nat /\ eof' \in Nat
                   /\ ptr' \in [Arrays -> {"stack", "null", "heap", "free"}]
                   /\ phase' \in {"start", "done", "failed", "freed"} \cup Reading
<1>6. Rest => TypeOK'
  BY <1>1, <1>3 DEF TypeOK
<1>7. SUFFICES Rest /\ PosInv' /\ CountInv' /\ PtrInv'
  BY <1>1, <1>2, <1>3, <1>6 DEF IInv
<1>8. CASE Start
  <2>1. phase = "start" /\ phase' = "boot" /\ pos' = pos /\ i' = i /\ eof' = eof
        /\ ptr' = [a \in Arrays |-> "null"]
    BY <1>8 DEF Start
  <2>2. Rest
    BY <1>3, <2>1 DEF Reading
  <2>3. PosInv' /\ CountInv'
    BY <1>1, <1>3, <1>4, <2>1 DEF PosInv, CountInv
  <2>4. PtrInv'
    BY <2>1 DEF PtrInv
  <2> QED
    BY <2>2, <2>3, <2>4
<1>9. CASE ReadBoot
  <2>1. phase = "boot" /\ phase' = "reserved" /\ i' = i /\ eof' = eof /\ ptr' = ptr
        /\ pos' = ReadTo(BootSize) + (boot.bps - BootSize)
    BY <1>9 DEF ReadBoot
  <2>2. ReadTo(BootSize) \in Nat
        /\ (pos + BootSize <= image.len => ReadTo(BootSize) = pos + BootSize)
    BY <1>3, <1>5, ReadMoves
  <2>3. pos' \in Nat
    BY <1>5, <2>1, <2>2
  <2>4. Rest
    BY <1>3, <2>1, <2>3 DEF Reading, TypeOK
  <2>5. image.len >= D => pos' = boot.bps
    <3> SUFFICES ASSUME image.len >= D PROVE pos' = boot.bps
      OBVIOUS
    <3>1. pos = 0
      BY <1>3, <2>1 DEF PosInv
    <3> QED
      BY <1>5, <2>1, <2>2, <3>1
  <2>6. PosInv' /\ CountInv'
    BY <1>1, <1>4, <2>1, <2>5 DEF PosInv, CountInv
  <2>7. PtrInv'
    BY <1>3, <2>1 DEF PtrInv, Reading
  <2> QED
    BY <2>4, <2>6, <2>7
<1>10. CASE SkipReserved
  <2>1. phase = "reserved" /\ phase' = "markers" /\ i' = i /\ eof' = eof /\ ptr' = ptr
        /\ pos' = pos + (boot.reserved - 1) * boot.bps
    BY <1>10 DEF SkipReserved
  <2>2. pos' \in Nat
    BY <1>3, <1>5, <2>1
  <2>3. Rest
    BY <1>3, <2>1, <2>2 DEF Reading, TypeOK
  <2>4. image.len >= D => pos' = F
    BY <1>3, <1>5, <2>1 DEF PosInv
  <2>5. PosInv' /\ CountInv'
    BY <1>1, <1>4, <2>1, <2>4 DEF PosInv, CountInv
  <2>6. PtrInv'
    BY <1>3, <2>1 DEF PtrInv, Reading
  <2> QED
    BY <2>3, <2>5, <2>6
<1>11. CASE ReadMarkers
  <2>1. phase = "markers" /\ phase' = "table_alloc" /\ i' = i /\ ptr' = ptr
        /\ pos' = ReadTo(3)
    BY <1>11 DEF ReadMarkers
  <2>2. ReadTo(3) \in Nat /\ (pos + 3 <= image.len => ReadTo(3) = pos + 3)
    BY <1>3, ReadMoves
  <2>3. eof' \in Nat
    <3>1. PICK t \in ByteAt(pos) \X ByteAt(pos + 1) \X ByteAt(pos + 2) :
            eof' = Unpack(t)[2]
      BY <1>11 DEF ReadMarkers
    <3>2. PICK t1 \in ByteAt(pos), t2 \in ByteAt(pos + 1), t3 \in ByteAt(pos + 2) :
            t = <<t1, t2, t3>>
      BY <3>1
    <3>3. t1 \in Byte /\ t2 \in Byte /\ t3 \in Byte
      BY <1>3, <3>2, BytesAreBytes
    <3>4. Unpack(t)[2] = t3 * 16 + t2 \div 16
      BY <3>2 DEF Unpack
    <3>5. t3 * 16 + t2 \div 16 \in Nat
      BY <3>3 DEF Byte
    <3> QED
      BY <3>1, <3>4, <3>5, Zenon
  <2>4. Rest
    BY <1>3, <2>1, <2>2, <2>3 DEF Reading, TypeOK
  <2>5. image.len >= D => pos' = F + 3
    BY <1>3, <1>5, <2>1, <2>2 DEF PosInv
  <2>6. PosInv' /\ CountInv'
    BY <1>1, <1>4, <2>1, <2>5 DEF PosInv, CountInv
  <2>7. PtrInv'
    BY <1>3, <2>1 DEF PtrInv, Reading
  <2> QED
    BY <2>4, <2>6, <2>7
<1>12. CASE AllocTable
  <2>1. phase = "table_alloc" /\ phase' = "table" /\ i' = 0 /\ pos' = pos /\ eof' = eof
        /\ ptr' = [ptr EXCEPT !["fat_entries"] = "heap"]
    BY <1>12 DEF AllocTable
  <2>2. Rest
    <3>1. ptr' \in [Arrays -> {"stack", "null", "heap", "free"}]
      BY <1>typ, <2>1
    <3>2. phase' \in Reading
      BY <2>1 DEF Reading
    <3> QED
      BY <1>3, <2>1, <3>1, <3>2
  <2>3. image.len >= D => pos' = F + 3 + 3 * (i' \div 2)
    BY <1>3, <1>5, <2>1 DEF PosInv
  <2>4. PosInv' /\ CountInv'
    BY <1>1, <1>4, <1>5, <2>1, <2>3 DEF PosInv, CountInv
  <2>5. PtrInv'
    BY <1>3, <2>1 DEF PtrInv, Reading, TypeOK
  <2> QED
    BY <2>2, <2>4, <2>5
<1>13. CASE TableDone
  <2>1. phase = "table" /\ i >= num /\ phase' = "copies" /\ i' = i /\ pos' = pos
        /\ eof' = eof /\ ptr' = ptr
    BY <1>13 DEF TableDone
  <2>2. Rest
    BY <1>3, <2>1 DEF Reading, TypeOK
  <2>3. image.len >= D /\ B % 3 = 0 => pos' = F + B
    <3> SUFFICES ASSUME image.len >= D, B % 3 = 0 PROVE pos' = F + B
      OBVIOUS
    <3>1. i = num /\ pos = F + 3 + 3 * (i \div 2)
      BY <1>3, <1>5, <2>1 DEF PosInv, CountInv
    <3>2. 3 + 3 * (num \div 2) = B
      BY <1>5, Z3
    <3> QED
      BY <1>5, <2>1, <3>1, <3>2
  <2>4. PosInv' /\ CountInv'
    BY <1>1, <1>4, <2>1, <2>3 DEF PosInv, CountInv
  <2>5. PtrInv'
    BY <1>3, <2>1 DEF PtrInv, Reading
  <2> QED
    BY <2>2, <2>4, <2>5
<1>14. CASE SkipCopies
  <2>1. phase = "copies" /\ phase' = "root_alloc" /\ i' = i /\ eof' = eof /\ ptr' = ptr
        /\ pos' = pos + (boot.copies - 1) * bytes_per_fat(boot)
    BY <1>14 DEF SkipCopies
  <2>2. pos' \in Nat
    BY <1>3, <1>5, <2>1
  <2>3. Rest
    BY <1>3, <2>1, <2>2 DEF Reading, TypeOK
  <2>4. image.len >= D /\ B % 3 = 0 => pos' = D
    BY <1>3, <1>5, <2>1 DEF PosInv
  <2>5. PosInv' /\ CountInv'
    BY <1>1, <1>4, <2>1, <2>4 DEF PosInv, CountInv
  <2>6. PtrInv'
    BY <1>3, <2>1 DEF PtrInv, Reading
  <2> QED
    BY <2>3, <2>5, <2>6
<1>15. CASE AllocRoot
  <2>1. phase = "root_alloc" /\ phase' = "root" /\ i' = 0 /\ pos' = pos /\ eof' = eof
        /\ ptr' = [ptr EXCEPT !["root_dir_entries"] = "heap"]
    BY <1>15 DEF AllocRoot
  <2>2. Rest
    <3>1. ptr' \in [Arrays -> {"stack", "null", "heap", "free"}]
      BY <1>typ, <2>1
    <3>2. phase' \in Reading
      BY <2>1 DEF Reading
    <3> QED
      BY <1>3, <2>1, <3>1, <3>2
  <2>3. image.len >= D /\ B % 3 = 0 => pos' = D + 32 * i'
    BY <1>3, <1>5, <2>1 DEF PosInv
  <2>4. PosInv' /\ CountInv'
    BY <1>1, <1>4, <1>5, <2>1, <2>3 DEF PosInv, CountInv
  <2>5. PtrInv'
    BY <1>3, <2>1 DEF PtrInv, Reading, TypeOK
  <2> QED
    BY <2>2, <2>4, <2>5
<1>16. CASE RootFull \/ Fail
  <2>1. phase \in Reading /\ phase' \in {"done", "failed"} /\ pos' = pos /\ i' = i
        /\ eof' = eof /\ ptr' = ptr
    BY <1>16 DEF RootFull, Fail, Reading
  <2>2. Rest
    BY <1>3, <2>1 DEF TypeOK
  <2>3. PosInv' /\ CountInv'
    BY <1>4, <2>1 DEF PosInv, CountInv
  <2>4. PtrInv'
    BY <1>3, <2>1 DEF PtrInv, Reading
  <2> QED
    BY <2>2, <2>3, <2>4
<1>17. CASE Free
  <2>1. phase \in {"done", "failed"} /\ phase' = "freed" /\ pos' = pos /\ i' = i
        /\ eof' = eof
        /\ ptr' = [a \in Arrays |-> IF ptr[a] = "heap" THEN "free" ELSE ptr[a]]
    BY <1>17 DEF Free
  <2>2. Rest
    BY <1>3, <2>1 DEF TypeOK
  <2>3. PosInv' /\ CountInv'
    BY <1>4, <2>1 DEF PosInv, CountInv
  <2>4. PtrInv'
    BY <1>3, <2>1 DEF PtrInv, Reading
  <2> QED
    BY <2>2, <2>3, <2>4
<1> QED
  BY <1>8, <1>9, <1>10, <1>11, <1>12, <1>13, <1>14, <1>15, <1>16, <1>17

LEMMA StutterInv ==
    ASSUME IInv, UNCHANGED vars
    PROVE  IInv'
<1>1. image' = image /\ phase' = phase /\ pos' = pos /\ i' = i /\ eof' = eof
      /\ table' = table /\ root' = root /\ label' = label /\ ptr' = ptr
  BY DEF vars
<1>2. ArraysInBounds' /\ TableDecoded'
  BY <1>1, ArraysSame
<1>3. /\ F' = F /\ D' = D /\ B' = B /\ num' = num /\ boot' = boot
  BY <1>1 DEF F, D, B, num, boot
<1> QED
  BY <1>1, <1>2, <1>3 DEF IInv, TypeOK, PosInv, CountInv, PtrInv

LEMMA ReadInvariant == Spec => []IInv
<1>1. Init => IInv
  BY InitInv
<1>2. IInv /\ [Next]_vars => IInv'
  BY OtherStepInv, ReadPairInv, ReadEntryInv, StutterInv DEF Next, Step
<1> QED
  BY <1>1, <1>2, PTL DEF Spec

-----------------------------------------------------------------------------
\* Every state of read_fat12 (fat12.c:148-251) is well typed.
THEOREM ReadTypeCorrect == Spec => []TypeOK
<1>1. IInv => TypeOK
  BY DEF IInv
<1> QED
  BY <1>1, ReadInvariant, PTL

\* For every boot sector whose FAT is filled by pairs, the reads and relative
\* seeks of read_fat12 arrive at the root directory, and stay aligned with its
\* entries.
THEOREM DirectoryIsAligned == Spec => []RootAligned
<1>1. IInv => RootAligned
  <2> SUFFICES ASSUME IInv, phase = "root", Whole(image), Pairs(boot)
               PROVE  pos = KernelDirStart(boot) + DIR_ENTRY_MEMBER_SIZE * i
    BY DEF RootAligned
  <2>1. /\ image.len >= base_address(boot) /\ B % 3 = 0
    BY DEF Whole, Pairs, B, boot
  <2>2. base_address(boot) = D + 32 * boot.maxRoot /\ D \in Nat /\ boot.maxRoot \in Nat
        /\ image.len \in Nat
    BY Layout DEF IInv
  <2>3. image.len >= D
    BY <2>1, <2>2
  <2> QED
    BY <2>1, <2>3 DEF IInv, PosInv, D, DIR_ENTRY_MEMBER_SIZE
<1> QED
  BY <1>1, ReadInvariant, PTL

\* For the same boot sectors read_file_allocation_tables and
\* read_root_directory write only inside what they allocated, whatever the
\* image holds and however short it is.
THEOREM ArraysAreInBounds == Spec => []ArraysInBounds
<1>1. IInv => ArraysInBounds
  BY DEF IInv
<1> QED
  BY <1>1, ReadInvariant, PTL

\* read_twelve_bits_twice in its loop gives the entries that fat12_ent_get of
\* the kernel gives, for every FAT.
THEOREM TableIsTheKernels == Spec => []TableDecoded
<1>1. IInv => TableDecoded
  BY DEF IInv
<1> QED
  BY <1>1, ReadInvariant, PTL

\* free_fat12 is given NULL or a live block on every path out of read_fat12,
\* and nothing stays allocated.
THEOREM FreesAreValid == Spec => []FreeIsValid
<1>1. IInv => FreeIsValid
  BY DEF IInv, PtrInv, FreeIsValid
<1> QED
  BY <1>1, ReadInvariant, PTL

-----------------------------------------------------------------------------
(* The root directory in memory *)

\* The first n entries of the directory of the image m are not free, are in
\* the array r, and l is the last of them that is a label.
Passed(m, n) == \A k \in 0..(n - 1) : ~ is_entry_free(m.root[k])
Copied(m, r, n) == \A k \in 0..(n - 1) : k \in DOMAIN r /\ r[k] = m.root[k]
LabelIs(m, l, n) ==
    \/ l = -1 /\ \A k \in 0..(n - 1) : ~ is_volume_label(m.root[k])
    \/ /\ l \in 0..(n - 1) /\ is_volume_label(m.root[l])
       /\ \A k \in (l + 1)..(n - 1) : ~ is_volume_label(m.root[k])

RootInv ==
    Whole(image) /\ Pairs(boot) =>
        /\ phase \in Reading \cup {"start"} /\ phase # "root" => label = -1
        /\ phase \in {"root", "done"} =>
             /\ Passed(image, i) /\ Copied(image, root, i) /\ LabelIs(image, label, i)
             /\ i <= boot.maxRoot
        /\ phase = "done" => \/ i = boot.maxRoot
                             \/ is_entry_free(image.root[i]) /\ root[i] = image.root[i]

LEMMA RootReadStep ==
    ASSUME IInv, RootInv, ReadEntry
    PROVE  RootInv'
<1>1. phase = "root" /\ i < boot.maxRoot /\ image' = image
  BY DEF ReadEntry
<1>2. boot' = boot /\ Whole(image') = Whole(image) /\ Pairs(boot') = Pairs(boot)
  BY <1>1 DEF boot
<1> SUFFICES ASSUME Whole(image), Pairs(boot) PROVE RootInv'
  BY <1>2 DEF RootInv
<1>3. /\ Passed(image, i) /\ Copied(image, root, i) /\ LabelIs(image, label, i)
  BY <1>1 DEF RootInv
<1>4. i \in Nat /\ boot.maxRoot \in Nat
  BY Layout DEF IInv, TypeOK
<1>5. EntryAt(pos) = {image.root[i]}
  <2>1. /\ image.len >= base_address(boot) /\ B % 3 = 0
    BY DEF Whole, Pairs, B, boot
  <2>2. base_address(boot) = D + 32 * boot.maxRoot /\ D \in Nat /\ image.len \in Nat
    BY Layout DEF IInv
  <2>3. image.len >= D
    BY <1>4, <2>1, <2>2
  <2>4. pos = D + 32 * i
    BY <1>1, <2>1, <2>3 DEF IInv, PosInv
  <2>5. pos + 32 <= image.len /\ pos - D = 32 * i /\ (32 * i) \div 32 = i
    BY <1>1, <1>4, <2>1, <2>2, <2>4
  <2>6. i \in 0..(boot.maxRoot - 1)
    BY <1>1, <1>4
  <2> QED
    BY <2>5, <2>6 DEF EntryAt, D, DIR_ENTRY_MEMBER_SIZE
<1> DEFINE e == image.root[i]
<1>6. /\ root' = Put(root, i, e)
      /\ IF is_entry_free(e)
         THEN phase' = "done" /\ i' = i /\ label' = label
         ELSE /\ phase' = phase /\ i' = i + 1
              /\ label' = IF is_volume_label(e) THEN i ELSE label
  BY <1>5 DEF ReadEntry
<1> HIDE DEF e
<1>7. Copied(image, root', i) /\ i \in DOMAIN root' /\ root'[i] = e
  BY <1>3, <1>4, <1>6 DEF Copied, Put
<1>8. CASE is_entry_free(e)
  <2>1. phase' = "done" /\ i' = i /\ label' = label
    BY <1>6, <1>8
  <2> QED
    BY <1>1, <1>2, <1>3, <1>4, <1>7, <1>8, <2>1 DEF RootInv, e, Reading
<1>9. CASE ~ is_entry_free(e)
  <2>1. phase' = "root" /\ i' = i + 1 /\ label' = IF is_volume_label(e) THEN i ELSE label
    BY <1>1, <1>6, <1>9
  <2>2. \A k \in 0..((i + 1) - 1) : k \in 0..(i - 1) \/ k = i
    BY <1>4
  <2>3. Passed(image, i + 1)
    BY <1>3, <1>9, <2>2 DEF Passed, e
  <2>4. Copied(image, root', i + 1)
    BY <1>7, <2>2 DEF Copied, e
  <2>5. LabelIs(image, label', i + 1)
    <3>1. CASE is_volume_label(e)
      <4>1. label' = i /\ i \in 0..((i + 1) - 1) /\ (i + 1)..((i + 1) - 1) = {}
        BY <1>4, <2>1, <3>1
      <4> QED
        BY <3>1, <4>1 DEF LabelIs, e
    <3>2. CASE ~ is_volume_label(e)
      <4>1. label' = label
        BY <2>1, <3>2
      <4>2. CASE label = -1 /\ \A k \in 0..(i - 1) : ~ is_volume_label(image.root[k])
        BY <2>2, <3>2, <4>1, <4>2 DEF LabelIs, e
      <4>3. CASE /\ label \in 0..(i - 1) /\ is_volume_label(image.root[label])
                 /\ \A k \in (label + 1)..(i - 1) : ~ is_volume_label(image.root[k])
        <5>1. label \in 0..((i + 1) - 1)
          BY <1>4, <4>3
        <5>2. \A k \in (label + 1)..((i + 1) - 1) : k \in (label + 1)..(i - 1) \/ k = i
          BY <1>4, <4>3
        <5>3. \A k \in (label + 1)..((i + 1) - 1) : ~ is_volume_label(image.root[k])
          BY <3>2, <4>3, <5>2 DEF e
        <5> QED
          BY <4>1, <4>3, <5>1, <5>3 DEF LabelIs
      <4> QED
        BY <1>3, <4>2, <4>3 DEF LabelIs
    <3> QED
      BY <3>1, <3>2
  <2>6. i + 1 <= boot.maxRoot
    BY <1>1, <1>4
  <2> QED
    BY <1>1, <1>2, <2>1, <2>3, <2>4, <2>5, <2>6 DEF RootInv, Reading
<1> QED
  BY <1>8, <1>9

LEMMA RootOtherStep ==
    ASSUME IInv, RootInv, [Next]_vars, ~ ReadEntry
    PROVE  RootInv'
<1>1. image' = image /\ label' = label
  BY DEF Next, Step, Start, ReadBoot, SkipReserved, ReadMarkers, AllocTable, ReadPair, TableDone,
         SkipCopies, AllocRoot, RootFull, Fail, Free, vars
<1>2. boot' = boot /\ Whole(image') = Whole(image) /\ Pairs(boot') = Pairs(boot)
  BY <1>1 DEF boot
<1>3. i \in Nat /\ boot.maxRoot \in Nat
  BY Layout DEF IInv, TypeOK
<1> SUFFICES ASSUME Whole(image), Pairs(boot) PROVE RootInv'
  BY <1>2 DEF RootInv
<1>4. CASE \/ Start \/ ReadBoot \/ SkipReserved \/ ReadMarkers \/ AllocTable \/ ReadPair
           \/ TableDone \/ SkipCopies
  <2>1. phase \in (Reading \cup {"start"}) \ {"root"} /\ phase' \in Reading \ {"root"}
    BY <1>4 DEF Start, ReadBoot, SkipReserved, ReadMarkers, AllocTable, ReadPair, TableDone,
                SkipCopies, Reading
  <2> QED
    BY <1>1, <2>1 DEF RootInv, Reading
<1>5. CASE AllocRoot
  <2>1. phase = "root_alloc" /\ phase' = "root" /\ i' = 0
    BY <1>5 DEF AllocRoot
  <2>2. label = -1
    BY <2>1 DEF RootInv, Reading
  <2>3. 0..(0 - 1) = {}
    OBVIOUS
  <2> QED
    BY <1>1, <1>2, <1>3, <2>1, <2>2, <2>3 DEF RootInv, Passed, Copied, LabelIs
<1>6. CASE RootFull
  <2>1. phase = "root" /\ phase' = "done" /\ i' = i /\ root' = root /\ i >= boot.maxRoot
    BY <1>6 DEF RootFull
  <2>2. i = boot.maxRoot
    BY <1>3, <2>1 DEF RootInv
  <2> QED
    BY <1>1, <1>2, <1>3, <2>1, <2>2 DEF RootInv, Reading
<1>7. CASE Fail \/ Free
  <2>1. phase' \in {"failed", "freed"}
    BY <1>7 DEF Fail, Free
  <2> QED
    BY <2>1 DEF RootInv, Reading
<1>8. CASE UNCHANGED vars
  <2>1. phase' = phase /\ i' = i /\ root' = root
    BY <1>8 DEF vars
  <2> QED
    BY <1>1, <1>2, <2>1 DEF RootInv
<1> QED
  BY <1>4, <1>5, <1>6, <1>7, <1>8 DEF Next, Step

\* The whole read_fat12: after a successful read of an image that holds its
\* directory, the directory in memory is the disk's up to the first free
\* entry, and volume_label is the last label before it (fat12.c:226-251).
THEOREM DirectoryIsRead == Spec => []RootRead
<1>1. Init => RootInv
  BY DEF Init, RootInv
<1>2. IInv /\ RootInv /\ [Next]_vars => RootInv'
  BY RootReadStep, RootOtherStep
<1>3. IInv /\ RootInv => RootRead
  <2> DEFINE free == {k \in DOMAIN image.root : is_entry_free(image.root[k])}
             end == IF free = {} THEN boot.maxRoot ELSE Min(free)
             volumes == {k \in 0..(end - 1) : is_volume_label(image.root[k])}
  <2> SUFFICES ASSUME IInv, RootInv, phase = "done", Whole(image), Pairs(boot)
               PROVE  /\ \A k \in DOMAIN image.root : k <= end => root[k] = image.root[k]
                      /\ label = IF volumes = {} THEN -1 ELSE Max(volumes)
    BY DEF RootRead
  <2>1. /\ Passed(image, i) /\ Copied(image, root, i) /\ LabelIs(image, label, i)
        /\ i <= boot.maxRoot
        /\ \/ i = boot.maxRoot
           \/ is_entry_free(image.root[i]) /\ root[i] = image.root[i]
    BY DEF RootInv
  <2>2. i \in Nat /\ boot.maxRoot \in Nat /\ DOMAIN image.root = 0..(boot.maxRoot - 1)
    <3>1. image \in Images /\ i \in Nat
      BY DEF IInv, TypeOK
    <3>2. boot.maxRoot \in Nat
      BY <3>1, Layout
    <3>3. image.root \in [0..(boot.maxRoot - 1) -> DirEntries]
      BY <3>1, ImageAssumption DEF boot
    <3> QED
      BY <3>1, <3>2, <3>3
  <2>3. \A k \in free : k \in Nat /\ k >= i
    BY <2>1, <2>2 DEF Passed
  <2>4. end = i
    <3>1. CASE i = boot.maxRoot
      <4>1. free = {}
        BY <2>2, <2>3, <3>1
      <4> QED
        BY <3>1, <4>1
    <3>2. CASE i # boot.maxRoot
      <4>1. i \in free
        BY <2>1, <2>2, <3>2
      <4> HIDE DEF free
      <4>2. \A x \in free : (\A y \in free : x <= y) => x = i
        BY <2>2, <2>3, <4>1
      <4>3. \A y \in free : i <= y
        BY <2>2, <2>3
      <4>4. Min(free) = i
        BY <4>1, <4>2, <4>3 DEF Min
      <4> QED
        BY <4>1, <4>4
    <3> QED
      BY <3>1, <3>2
  <2> HIDE DEF end
  <2>5. ASSUME NEW k \in DOMAIN image.root, k <= end PROVE root[k] = image.root[k]
    <3>1. k \in 0..(i - 1) \/ k = i
      BY <2>2, <2>4, <2>5
    <3>2. k < boot.maxRoot
      BY <2>2
    <3>3. CASE k \in 0..(i - 1)
      BY <2>1, <3>3 DEF Copied
    <3>4. CASE k = i
      BY <2>1, <2>2, <3>2, <3>4
    <3> QED
      BY <3>1, <3>3, <3>4
  <2>6. label = IF volumes = {} THEN -1 ELSE Max(volumes)
    <3>1. CASE label = -1 /\ \A k \in 0..(i - 1) : ~ is_volume_label(image.root[k])
      <4>1. volumes = {}
        BY <2>4, <3>1
      <4> QED
        BY <3>1, <4>1
    <3>2. CASE /\ label \in 0..(i - 1) /\ is_volume_label(image.root[label])
               /\ \A k \in (label + 1)..(i - 1) : ~ is_volume_label(image.root[k])
      <4>1. label \in volumes
        BY <2>4, <3>2
      <4>2. \A y \in volumes : y \in Int /\ y <= label
        <5> SUFFICES ASSUME NEW y \in volumes PROVE y \in Int /\ y <= label
          OBVIOUS
        <5>1. y \in 0..(i - 1) /\ is_volume_label(image.root[y])
          BY <2>4
        <5>2. y \notin (label + 1)..(i - 1)
          BY <3>2, <5>1
        <5> QED
          BY <2>2, <3>2, <5>1, <5>2
      <4> HIDE DEF volumes
      <4>3. \A x \in volumes : (\A y \in volumes : x >= y) => x = label
        BY <2>2, <3>2, <4>1, <4>2
      <4>4. Max(volumes) = label
        BY <2>2, <3>2, <4>1, <4>2, <4>3 DEF Max
      <4> QED
        BY <4>1, <4>4
    <3> QED
      BY <2>1, <3>1, <3>2 DEF LabelIs
  <2> QED
    BY <2>5, <2>6
<1> QED
  BY <1>1, <1>2, <1>3, ReadInvariant, PTL DEF Spec
=============================================================================
