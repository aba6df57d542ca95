---------------------------- MODULE Partitioning ----------------------------
(***************************************************************************)
(* How items and rows are divided into partitions (common.py, io/arrow.py) *)
(* as positions: partition k of n takes the positions after its start, up  *)
(* to the start of partition k + 1.                                        *)
(***************************************************************************)
EXTENDS Integers, Sequences

Least(a, b)    == IF a <= b THEN a ELSE b
Greatest(a, b) == IF a >= b THEN a ELSE b
CeilDiv(a, b)  == (a + b - 1) \div b

\* split_into_rows, numpy.array_split: the first len % n groups get one more.
SplitStart(len, n, k) == (k - 1) * (len \div n) + Least(k - 1, len % n)

SplitIntoRows(items, n) ==
    [k \in 1..n |-> SubSeq(items, SplitStart(Len(items), n, k) + 1,
                                  SplitStart(Len(items), n, k + 1))]

\* get_nth_partition computes the start of a group directly, k counted from 1.
NthPartitionStart(len, n, k) ==
    LET large == CeilDiv(len, n)
        small == len \div n
        numLarge == len - small * n
    IN  IF k - 1 < numLarge THEN (k - 1) * large
        ELSE large * numLarge + (k - 1 - numLarge) * small

\* mutant: every partition but the last takes an equal share, rounded up.
RowsLeftEqual(numRows, n) ==
    [k \in 1 .. n + 1 |-> Greatest(0, numRows - (k - 1) * CeilDiv(numRows, n))]

\* RowRange.partition_by_rows: the rows left when partition k of n is filled.
RowsLeft(numRows, n) ==
    LET left[k \in 1 .. n + 1] ==
            IF k = 1 THEN numRows
            ELSE left[k - 1] - CeilDiv(left[k - 1], n - k + 2)
    IN  left
=============================================================================
