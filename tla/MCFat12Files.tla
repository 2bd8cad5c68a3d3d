---------------------------- MODULE MCFat12Files ----------------------------
(***************************************************************************)
(* Instances of Fat12Files for TLC: a table of four entries with every     *)
(* content, sound or not; directories of two entries; stamps that set each *)
(* bit of the time and date words.                                         *)
(***************************************************************************)
EXTENDS Fat12Files, FiniteSetsExt

Eof == 4095
OtherEnd == 4088

Boot(spc, maxRoot) ==
    [bps |-> 3, spc |-> spc, reserved |-> 1, copies |-> 2, maxRoot |-> maxRoot,
     spf |-> 3]

Entry(first, attr, start, size) ==
    [first |-> first, attr |-> attr, time |-> 0, date |-> 0,
     start |-> start, size |-> size]
File(start, size) == Entry("used", {"archive"}, start, size)
Directory(start) == Entry("used", {"directory"}, start, 0)
Deleted == Entry("deleted", {"archive"}, 3, 3)
Volume == Entry("used", {"volume"}, 0, 0)

Tables == [0..3 -> {0, 2, 3, 4, 5, OtherEnd, Eof}]
SoundTable == [k \in 0..3 |-> IF k = 0 THEN 4 ELSE Eof]

\* The label that Fat12Read finds in a directory.
LabelOf(root) ==
    LET before == {k \in DOMAIN root : \A j \in 1..k : root[j].first # "free"}
        labels == {k \in before : is_volume_label(root[k])}
    IN IF labels = {} THEN -1 ELSE Max(labels) - 1

Vol(boot_, table, root) ==
    [boot |-> boot_, table |-> table, eof |-> Eof, label |-> LabelOf(root),
     root |-> [k \in 0..(boot_.maxRoot - 1) |-> root[k + 1]]]

\* One file and every table; every directory and one sound table.
ChainVolumes ==
    {Vol(Boot(1, 2), t, <<File(2, 4), NoEntry>>) : t \in Tables}
DirectoryVolumes ==
    LET some == {File(0, 700), File(2, 5), File(2, 6), File(3, 2), Directory(2), Volume,
                 Deleted, NoEntry}
    IN {Vol(Boot(spc, 3), SoundTable, r) :
           spc \in {1, 2}, r \in some \X some \X some}
         \cup {Vol(Boot(1, 0), SoundTable, <<>>)}
StampVolumes ==
    {Vol(Boot(1, 1), SoundTable,
         <<[File(0, 0) EXCEPT !.time = 2^t, !.date = 2^d]>>) :
        t \in 0..15, d \in 0..15}

AllVolumes == ChainVolumes \cup DirectoryVolumes \cup StampVolumes
MultipleVolumes == {Vol(Boot(1, 2), SoundTable, <<File(2, s), NoEntry>>) : s \in 4..6}

Clusters == {3, 4095}
AfterRoot == {File(2, 4), NoEntry}
=============================================================================
