------------------------------ MODULE Dataset -------------------------------
(***************************************************************************)
(* Parquet datasets (logical/dataset.py, io/arrow.py).  A row range is a   *)
(* file with those of its rows that are in the dataset and all it holds.   *)
(* A dataset starts as a list of files ("files"); once its row ranges are  *)
(* resolved it keeps them, in the order of its paths ("ranges") or, when   *)
(* it was merged from others, in theirs, with its paths sorted ("merged"). *)
(***************************************************************************)
EXTENDS Partitioning, FiniteSets, SequencesExt

CONSTANT
    KeyOf   \* the key of every base row

ASSUME DatasetAssumption == DOMAIN KeyOf \subseteq Nat

\* The partition key in the metadata of a file that has none.
NoKey == -1

\* A row is a tuple of base rows, of several if it was joined.  A path is a pair: the
\* number of the task that wrote the file, or a negative one, and that of the file.
Row == Seq(DOMAIN KeyOf) \ {<<>>}
FileRange == [path : Int \X Int, rows : Seq(Row), file : Seq(Row), part : Int]

\* The row range of a whole file.
RowRange(path, rows, part) == [path |-> path, rows |-> rows, file |-> rows, part |-> part]

Files(ranges) == [ranges |-> ranges, kind |-> "files"]
NoFiles == Files(<<>>)

\* Row ranges are known.
Ranged(d) == d.kind # "files"

RowsOf(ranges) == FlattenSeq([i \in DOMAIN ranges |-> ranges[i].rows])
NumRows(d) == Len(RowsOf(d.ranges))

PathBefore(x, y) == \/ x.path[1] < y.path[1]
                    \/ x.path[1] = y.path[1] /\ x.path[2] < y.path[2]

\* list.sort, which keeps the order of equal paths: the number of ranges that come
\* before a range is its position.
SortedByPath(ranges) ==
    LET before(j, i) == \/ PathBefore(ranges[j], ranges[i])
                        \/ ranges[j].path = ranges[i].path /\ j < i
        rank(i) == Cardinality({j \in DOMAIN ranges : before(j, i)})
    IN  [k \in DOMAIN ranges |-> ranges[CHOOSE i \in DOMAIN ranges : rank(i) = k - 1]]

ResolvedPaths(d)  == SortedByPath(d.ranges)
ResolvedRanges(d) == IF Ranged(d) THEN d.ranges ELSE ResolvedPaths(d)

\* The files that a dataset has rows of, whole: a path as often as ranges have it.
WholeFiles(d) ==
    [i \in DOMAIN d.ranges |->
        LET r == ResolvedPaths(d)[i] IN RowRange(r.path, r.file, r.part)]

\* ParquetDataSet.empty: a quick check, of files unless rows were counted.
Empty(d) == IF Ranged(d) THEN NumRows(d) = 0 ELSE d.ranges = <<>>

\* ParquetDataSet.merge, of a sequence of datasets.
Merge(ds) ==
    IF \E i \in DOMAIN ds : Ranged(ds[i])
    THEN [ranges |-> FlattenSeq([i \in DOMAIN ds |-> ResolvedRanges(ds[i])]),
          kind |-> "merged"]
    ELSE Files(FlattenSeq([i \in DOMAIN ds |-> ds[i].ranges]))

\* The members of a set of numbers in ascending order, and the items of a sequence
\* that stand at them.
Ascending(S) ==
    [k \in 1 .. Cardinality(S) |-> CHOOSE i \in S : Cardinality({j \in S : j < i}) = k - 1]
ItemsAt(s, S) == [k \in 1 .. Cardinality(S) |-> s[Ascending(S)[k]]]

\* The ranges that have rows.
NonEmpty(ranges) == ItemsAt(ranges, {i \in DOMAIN ranges : ranges[i].rows # <<>>})

\* The parts of the ranges that hold the rows at positions a + 1 .. b.
Cut(ranges, a, b) ==
    LET offset[j \in 1 .. Len(ranges) + 1] ==
            IF j = 1 THEN 0 ELSE offset[j - 1] + Len(ranges[j - 1].rows)
        part(j) == [ranges[j] EXCEPT !.rows =
                        SubSeq(@, Greatest(a - offset[j], 0) + 1,
                                  Least(b - offset[j], Len(@)))]
    IN  NonEmpty([j \in DOMAIN ranges |-> part(j)])

PartitionByRows(d, n) ==
    LET total == NumRows(d)
        left  == RowsLeft(total, n)
        part(k) == Cut(ResolvedRanges(d), total - left[k], total - left[k + 1])
    IN  [k \in 1..n |-> [ranges |-> SortedByPath(part(k)), kind |-> "ranges"]]

PartitionByFiles(d, n) ==
    IF Ranged(d) THEN PartitionByRows(d, n)
    ELSE LET groups == SplitIntoRows(ResolvedPaths(d), n)
         IN  [k \in 1..n |-> Files(groups[k])]

\* The partition keys that load_partitioned_datasets pairs with the row ranges:
\* they are read from the files in the order of the paths.
KeysOfPaths(d) ==
    [i \in DOMAIN d.ranges |->
        IF d.kind = "merged" THEN ResolvedPaths(d)[i].part ELSE ResolvedRanges(d)[i].part]

\* load_partitioned_datasets: every range goes to the partition of its key; a
\* file without rows may have no key and is left out.
LoadPartitionedDatasets(d, n) ==
    LET keys == KeysOfPaths(d)
    IN  [k \in 1..n |->
            [ranges |-> ItemsAt(ResolvedRanges(d), {i \in DOMAIN keys : keys[i] = k - 1}),
             kind |-> "ranges"]]

\* remove_empty_files resolves the row ranges and keeps one file at least.
RemoveEmptyFiles(d) ==
    LET all  == ResolvedRanges(d)
        full == NonEmpty(all)
        kept == IF full = <<>> THEN SubSeq(all, 1, Least(1, Len(all))) ELSE full
    IN  [ranges |-> kept,
         kind |-> IF d.kind = "merged" /\ kept = all THEN "merged" ELSE "ranges"]
=============================================================================
