---------------------------- MODULE MCFat12Read ----------------------------
(***************************************************************************)
(* Instances of Fat12Read for TLC: sectors of 4 or 8 bytes, FATs of 1 to 3 *)
(* sectors, whole and truncated images.  In a FAT one byte differs from a  *)
(* background that tells all positions apart.                              *)
(***************************************************************************)
EXTENDS Fat12Read

Entry(first, attr, start, size) ==
    [first |-> first, attr |-> attr, time |-> 0, date |-> 0,
     start |-> start, size |-> size]

File == Entry("used", {"archive"}, 2, 3)
Deleted == Entry("deleted", {"archive"}, 3, 3)
Volume == Entry("used", {"volume"}, 0, 0)
FreeEntry == Entry("free", {}, 0, 0)

Boot(bps, reserved, copies, maxRoot, spf) ==
    [bps |-> bps, spc |-> 1, reserved |-> reserved, copies |-> copies,
     maxRoot |-> maxRoot, spf |-> spf]

Fats(b) ==
    {[k \in 0..(bytes_per_fat(b) - 1) |-> IF k = at THEN v ELSE (37 * k + 18) % 256] :
        at \in 0..(bytes_per_fat(b) - 1), v \in {0, 255}}

Roots(b, entries) == [0..(b.maxRoot - 1) -> entries]

Image(b, f, r, l) == [boot |-> b, fat |-> f, root |-> r, len |-> l]

\* Whole images: every FAT with one root directory, every root directory with
\* one FAT.
WholeImages(boots, entries) ==
    UNION {
        {Image(b, f, [k \in 0..(b.maxRoot - 1) |-> FreeEntry], base_address(b)) :
            f \in Fats(b)}
        \cup {Image(b, CHOOSE f \in Fats(b) : TRUE, r, base_address(b)) :
            r \in Roots(b, entries)} : b \in boots}

CutImages(boots, lengths(_)) ==
    UNION {
        {Image(b, CHOOSE f \in Fats(b) : TRUE,
               [k \in 0..(b.maxRoot - 1) |-> File], l) :
            l \in lengths(b)} : b \in boots}

\* Images that end too early: before the FAT, in it and in the directory.
ShortImages(boots) ==
    CutImages(boots, LAMBDA b : {BootSize, KernelFatStart(b) + 4, KernelDirStart(b) + 33})

\* Files that end in the boot sector, or are empty: boot is then what the
\* fields hold by chance.
CutBootImages(boots) == CutImages(boots, LAMBDA b : {0, BootSize - 1})

EvenBoots == {Boot(bps, r, c, n, 3) : bps \in {4, 8}, r \in {1, 2}, c \in {1, 2},
                                      n \in {0, 3}}
OddBoots == {Boot(4, r, c, 2, s) : r \in {1, 2}, c \in {1, 2}, s \in {1, 2, 4}}

ReadImages == WholeImages(EvenBoots \cup OddBoots, {File, Volume, Deleted, FreeEntry})
                \cup ShortImages({Boot(4, 2, 2, 2, 3), Boot(4, 1, 1, 2, 2)})
                \cup CutBootImages({Boot(4, r, c, n, s) :
                        r \in {1, 2}, c \in {1, 2}, n \in {0, 2}, s \in {1, 2, 3}})
OddImages == WholeImages(OddBoots, {File})

Bytes == {0, 255}
Entries == {File, Volume, FreeEntry}
=============================================================================
