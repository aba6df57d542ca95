--------------------------- MODULE DataflowProofs ---------------------------
(***************************************************************************)
(* What TLAPS proves of the planner and of the tasks of a plan at work:    *)
(* every row is in the partition that its hash or key names, partitions    *)
(* are even, limits hold over all partitions, and a job that fails while   *)
(* it runs has met a consumer without a row to read.                       *)
(***************************************************************************)
EXTENDS Dataflow, DatasetProofs

-----------------------------------------------------------------------------
(* What producers make of a dataset *)

\* Ranges whose rows all belong to partition idx of a node, and ranges of files with
\* a key.
Hashed(node, idx) == {x \in FileRange : \A i \in DOMAIN x.rows : Bucket(x.rows[i], node) = idx}
Keyed(idx) == {x \in FileRange : x.part = idx}
Written(t) == {x \in FileRange : x.path[1] <= t}
WrittenBy(t) == {x \in FileRange : x.path[1] = t}

LEMMA RowRangeIs ==
    ASSUME NEW a \in Int, NEW b \in Int, NEW rows \in Seq(Row), NEW part \in Int
    PROVE  /\ RowRange(<<a, b>>, rows, part) \in FileRange
           /\ RowRange(<<a, b>>, rows, part).path = <<a, b>>
           /\ RowRange(<<a, b>>, rows, part).path[1] = a
           /\ RowRange(<<a, b>>, rows, part).rows = rows
           /\ RowRange(<<a, b>>, rows, part).part = part
    BY DEF RowRange, FileRange

LEMMA WrittenAnyRows ==
    ASSUME NEW t \in Int
    PROVE  Written(t) \in SUBSET FileRange /\ AnyRows(Written(t))
    BY DEF Written, AnyRows, FileRange

LEMMA WrittenGrows ==
    ASSUME NEW t \in Int, NEW u \in Int, t <= u
    PROVE  Written(t) \subseteq Written(u) /\ WrittenBy(u) \subseteq Written(u)
<1>1. \A x \in FileRange : x.path[1] \in Int
    BY DEF FileRange
<1>. QED BY <1>1 DEF Written, WrittenBy

LEMMA NoRowsIs ==
    ASSUME NEW S
    PROVE  <<>> \in Seq(Row) /\ DOMAIN <<>> = {}
    BY EmptyIsSeq

\* Every row goes to its bucket.
LEMMA HashPartitionsIs ==
    ASSUME NEW t \in Int, NEW d \in DatasetsIn(FileRange), plan[tasks[t].node].n \in Nat \ {0}
    PROVE  /\ DOMAIN HashPartitions(t, d) = 1 .. plan[tasks[t].node].n
           /\ \A k \in 1 .. plan[tasks[t].node].n :
                HashPartitions(t, d)[k]
                    \in DatasetsIn(WrittenBy(t) \cap Hashed(plan[tasks[t].node], k - 1))
<1>. DEFINE node == plan[tasks[t].node]
            all == RowsOf(ResolvedRanges(d))
            places(k) == {i \in DOMAIN all : Bucket(all[i], node) = k - 1}
            rows(k) == ItemsAt(all, places(k))
            written(k) == NumRows(d) > 0 /\ (node.duckdb \/ rows(k) # <<>>)
            part(k) == IF written(k) THEN Files(<<RowRange(<<t, k>>, rows(k), k - 1)>>)
                       ELSE NoFiles
            F(k) == WrittenBy(t) \cap Hashed(node, k - 1)
<1>1. HashPartitions(t, d) = [k \in 1 .. node.n |-> part(k)]
    BY DEF HashPartitions
<1>2. all \in Seq(Row)
    BY ResolvedRows
<1>. HIDE DEF all, node
<1>3. ASSUME NEW k \in 1 .. node.n PROVE part(k) \in DatasetsIn(F(k))
  <2>. DEFINE S == places(k)
              w == ItemsAt(all, S)
              x == RowRange(<<t, k>>, w, k - 1)
  <2>1. S \in SUBSET DOMAIN all /\ \A i \in S : Bucket(all[i], node) = k - 1
    OBVIOUS
  <2>. HIDE DEF S
  <2>2. /\ w \in Seq(Row) /\ DOMAIN w = 1 .. Cardinality(S)
        /\ \A j \in 1 .. Cardinality(S) : Ascending(S)[j] \in S /\ w[j] = all[Ascending(S)[j]]
    BY <1>2, <2>1, ItemsAtIs
  <2>3. \A j \in DOMAIN w : Bucket(w[j], node) = k - 1
    BY <2>1, <2>2
  <2>. HIDE DEF w
  <2>4. k \in Int /\ k - 1 \in Int
    OBVIOUS
  <2>5. x \in FileRange /\ x.path[1] = t /\ x.rows = w
    BY <2>2, <2>4, RowRangeIs
  <2>. HIDE DEF x
  <2>6. x \in F(k)
    BY <2>3, <2>5 DEF WrittenBy, Hashed
  <2>. HIDE DEF F
  <2>7. <<x>> \in Seq(F(k)) /\ <<>> \in Seq(F(k))
    BY <2>6
  <2>8. Files(<<x>>) \in DatasetsIn(F(k)) /\ NoFiles \in DatasetsIn(F(k))
    BY <2>7, FilesTyped DEF NoFiles
  <2>. QED BY <2>8 DEF x, w, S
<1>. HIDE DEF part, F
<1>4. /\ DOMAIN HashPartitions(t, d) = 1 .. node.n
      /\ \A k \in 1 .. node.n : HashPartitions(t, d)[k] \in DatasetsIn(F(k))
    BY <1>1, <1>3
<1>. QED BY <1>4 DEF F, node

\* Every range goes to the partition of its key, unless keys and ranges are ordered
\* differently.
LEMMA LoadPartitionsAre ==
    ASSUME NEW F \in SUBSET FileRange, NEW d \in DatasetsIn(F), NEW n \in Nat \ {0}
    PROVE  /\ DOMAIN LoadPartitionedDatasets(d, n) = 1..n
           /\ \A k \in 1..n :
                /\ LoadPartitionedDatasets(d, n)[k] \in DatasetsIn(F)
                /\ d.kind # "merged" =>
                        LoadPartitionedDatasets(d, n)[k] \in DatasetsIn(F \cap Keyed(k - 1))
<1>. DEFINE r == ResolvedRanges(d)
            keys == KeysOfPaths(d)
            at(k) == {i \in DOMAIN keys : keys[i] = k - 1}
            part(k) == [ranges |-> ItemsAt(r, at(k)), kind |-> "ranges"]
<1>1. r \in Seq(F) /\ DOMAIN r = DOMAIN d.ranges
    BY ResolvedIs
<1>2. DOMAIN keys = DOMAIN d.ranges
    BY DEF KeysOfPaths
<1>3. d.kind # "merged" => \A i \in DOMAIN d.ranges : keys[i] = r[i].part
    BY DEF KeysOfPaths
<1>4. LoadPartitionedDatasets(d, n) = [k \in 1..n |-> part(k)]
    BY DEF LoadPartitionedDatasets
<1>. HIDE DEF r, keys
<1>5. ASSUME NEW k \in 1..n, NEW G \in SUBSET F, \A i \in at(k) : r[i] \in G
      PROVE  part(k) \in DatasetsIn(G)
  <2>. DEFINE S == at(k)
              w == ItemsAt(r, S)
  <2>1. S \in SUBSET DOMAIN r
    BY <1>1, <1>2
  <2>. HIDE DEF S
  <2>2. /\ w \in Seq(F) /\ DOMAIN w = 1 .. Cardinality(S) /\ Cardinality(S) \in Nat
        /\ \A j \in 1 .. Cardinality(S) : Ascending(S)[j] \in S /\ w[j] = r[Ascending(S)[j]]
    BY <1>1, <2>1, ItemsAtIs
  <2>3. \A j \in DOMAIN w : w[j] \in G
    BY <1>5, <2>2 DEF S
  <2>4. w \in Seq(G)
    <3>1. w = [j \in DOMAIN w |-> w[j]]
      BY <2>2, SeqIs
    <3>. DEFINE c == Cardinality(S)
    <3>. HIDE DEF w, c
    <3>2. w \in [1..c -> G] /\ c \in Nat
      BY <2>2, <2>3, <3>1 DEF c
    <3>. QED BY <3>2, FunctionIsSeq
  <2>. HIDE DEF w
  <2>5. part(k) = [ranges |-> w, kind |-> "ranges"]
    BY DEF w, S
  <2>. HIDE DEF part
  <2>. QED BY <2>4, <2>5 DEF DatasetsIn
<1>6. ASSUME NEW k \in 1..n PROVE part(k) \in DatasetsIn(F)
  <2>1. \A i \in at(k) : r[i] \in F
    BY <1>1, <1>2, SeqIs
  <2>. HIDE DEF part, at
  <2>. QED BY <1>5, <2>1
<1>7. ASSUME NEW k \in 1..n, d.kind # "merged" PROVE part(k) \in DatasetsIn(F \cap Keyed(k - 1))
  <2>. DEFINE G == F \cap Keyed(k - 1)
  <2>1. \A i \in at(k) : r[i] \in F
    BY <1>1, <1>2, SeqIs
  <2>2. \A i \in at(k) : r[i] \in G
    BY <1>1, <1>2, <1>3, <1>7, <2>1 DEF Keyed
  <2>3. G \in SUBSET F
    OBVIOUS
  <2>. HIDE DEF part, at, G
  <2>4. part(k) \in DatasetsIn(G)
    BY <1>5, <2>2, <2>3
  <2>. QED BY <2>4 DEF G
<1>. HIDE DEF part
<1>. QED BY <1>4, <1>6, <1>7

\* The partitions of user code are ranges of the dataset.
LEMMA UserPartitionsAre ==
    ASSUME NEW F \in SUBSET FileRange, NEW d \in DatasetsIn(F), NEW n \in Nat \ {0},
           NEW parts \in UserPartitions(d, n)
    PROVE  DOMAIN parts = 1..n /\ \A k \in 1..n : parts[k] \in DatasetsIn(F)
<1>. DEFINE r == ResolvedRanges(d)
            at(f, k) == {i \in DOMAIN f : f[i] = k}
            kind == IF d.kind = "files" THEN "files" ELSE "ranges"
            part(f, k) == [ranges |-> ItemsAt(r, at(f, k)), kind |-> kind]
<1>1. r \in Seq(F) /\ DOMAIN r = DOMAIN d.ranges
    BY ResolvedIs
<1>2. PICK f \in [DOMAIN d.ranges -> 1..n] : parts = [k \in 1..n |-> part(f, k)]
    BY DEF UserPartitions
<1>3. kind \in {"files", "ranges", "merged"}
    OBVIOUS
<1>. HIDE DEF r, kind
<1>4. ASSUME NEW k \in 1..n PROVE part(f, k) \in DatasetsIn(F)
  <2>. DEFINE S == at(f, k)
  <2>1. S \in SUBSET DOMAIN r
    BY <1>1
  <2>. HIDE DEF S
  <2>2. ItemsAt(r, S) \in Seq(F)
    BY <1>1, <2>1, ItemsAtIs
  <2>. QED BY <1>3, <2>2 DEF DatasetsIn, S
<1>. HIDE DEF part
<1>. QED BY <1>2, <1>4

LEMMA EmptyHasNoRows ==
    ASSUME NEW d, Empty(d)
    PROVE  NumRows(d) = 0
<1>1. Len(RowsOf(<<>>)) = 0
    BY RowsOfNone, EmptyIsSeq
<1>. QED BY <1>1 DEF Empty, NumRows

\* What finalize leaves of a partition, or puts in its place.
FinalizedPart(t, k, old, new) ==
    \/ new = old
    \/ Empty(old) /\ new = Files(<<RowRange(<<t, k>>, <<>>, k - 1)>>)

LEMMA FinalizedIs ==
    ASSUME NEW t, NEW n, NEW parts, DOMAIN parts = 1..n
    PROVE  /\ DOMAIN Finalized(t, parts) = 1..n
           /\ \A k \in 1..n : FinalizedPart(t, k, parts[k], Finalized(t, parts)[k])
    BY DEF Finalized, FinalizedPart

LEMMA FinalizedPartIs ==
    ASSUME NEW t \in Int, NEW k \in Int, NEW F \in SUBSET FileRange, NEW old \in DatasetsIn(F),
           NEW new, FinalizedPart(t, k, old, new), RowRange(<<t, k>>, <<>>, k - 1) \in F
    PROVE  new \in DatasetsIn(F) /\ NumRows(new) = NumRows(old)
<1>. DEFINE e == <<>>
            x == RowRange(<<t, k>>, e, k - 1)
<1>1. CASE new = old
    BY <1>1
<1>2. CASE Empty(old) /\ new = Files(<<x>>)
  <2>1. e \in Seq(Row) /\ k - 1 \in Int
    BY NoRowsIs
  <2>0. x \in F
    OBVIOUS
  <2>. HIDE DEF e
  <2>2. x \in FileRange /\ x.rows = e /\ x \in F
    BY <2>0, <2>1, RowRangeIs
  <2>. HIDE DEF x
  <2>3. <<x>> \in Seq(F)
    BY <2>2
  <2>. DEFINE s == <<x>>
  <2>4. s \in Seq(F) /\ RowsOf(s) = e
    BY <2>2, <2>3, RowsOfOne
  <2>. HIDE DEF s
  <2>5. new \in DatasetsIn(F) /\ new.ranges = s
    BY <1>2, <2>4, FilesTyped DEF s
  <2>6. NumRows(new) = 0
    BY <2>4, <2>5, EmptyIsSeq DEF NumRows, e
  <2>7. NumRows(old) = 0
    BY <1>2, EmptyHasNoRows
  <2>. QED BY <2>5, <2>6, <2>7
<1>. QED BY <1>1, <1>2 DEF FinalizedPart

-----------------------------------------------------------------------------
(* Queries *)

LEMMA RowConcat ==
    ASSUME NEW r \in Row, NEW s \in Row
    PROVE  r \o s \in Row
<1>1. /\ r \in Seq(DOMAIN KeyOf) /\ s \in Seq(DOMAIN KeyOf) /\ r # <<>>
    BY DEF Row
<1>2. r \o s \in Seq(DOMAIN KeyOf) /\ Len(r \o s) = Len(r) + Len(s)
    BY <1>1, ConcatIs
<1>3. Len(r) \in Nat /\ Len(r) # 0 /\ Len(s) \in Nat
    BY <1>1, SeqIs
<1>4. Len(r \o s) # 0
    BY <1>2, <1>3
<1>5. r \o s # <<>>
    BY <1>2, <1>4, SeqIs
<1>. QED BY <1>2, <1>5 DEF Row

LEMMA JoinedTyped ==
    ASSUME NEW a \in Seq(Row), NEW b \in Seq(Row)
    PROVE  Joined(a, b) \in Seq(Row)
<1>. DEFINE at(i) == {j \in DOMAIN b : Key(b[j]) = Key(a[i])}
            same(i) == ItemsAt(b, at(i))
            with(i) == [j \in DOMAIN same(i) |-> a[i] \o same(i)[j]]
            n == Len(a)
            all == [i \in DOMAIN a |-> with(i)]
<1>1. n \in Nat /\ DOMAIN a = 1..n /\ \A i \in 1..n : a[i] \in Row
    BY SeqIs
<1>2. ASSUME NEW i \in 1..n PROVE with(i) \in Seq(Row)
  <2>. DEFINE S == at(i)
              w == ItemsAt(b, S)
              c == Cardinality(S)
  <2>1. S \in SUBSET DOMAIN b
    OBVIOUS
  <2>. HIDE DEF S
  <2>2. w \in Seq(Row) /\ DOMAIN w = 1 .. c /\ c \in Nat
    BY <2>1, ItemsAtIs
  <2>. HIDE DEF w, c
  <2>3. \A j \in 1..c : w[j] \in Row
    BY <2>2, SeqIs
  <2>4. \A j \in 1..c : a[i] \o w[j] \in Row
    BY <1>1, <2>3, RowConcat
  <2>5. [j \in 1..c |-> a[i] \o w[j]] \in [1..c -> Row]
    BY <2>4
  <2>6. [j \in 1..c |-> a[i] \o w[j]] \in Seq(Row)
    BY <2>2, <2>5, FunctionIsSeq
  <2>. QED BY <2>2, <2>6 DEF w, S
<1>3. Joined(a, b) = FlattenSeq(all)
    BY DEF Joined
<1>. HIDE DEF with, n
<1>4. all \in [1..n -> Seq(Row)]
    BY <1>1, <1>2
<1>. HIDE DEF all
<1>5. all \in Seq(Seq(Row))
    BY <1>1, <1>4, FunctionIsSeq
<1>. QED BY <1>3, <1>5, FlattenTyped

LEMMA JoinIs ==
    ASSUME NEW ins \in Seq(Seq(Row)), ins # <<>>
    PROVE  Join(ins) \in Seq(Row) /\ (Len(ins) = 1 => Join(ins) = ins[1])
<1>. DEFINE T == Seq(Row)
            m == Len(ins) - 1
            G == [i \in 1..m |-> [t \in T |-> Joined(t, ins[i + 1])]]
            Eq(h) == h = [i \in DOMAIN ins |-> IF i = 1 THEN ins[1]
                                              ELSE Joined(h[i - 1], ins[i])]
            join == CHOOSE h : Eq(h)
<1>. HIDE DEF T
<1>1. m \in Nat /\ DOMAIN ins = 1 .. m + 1 /\ \A i \in 1 .. m + 1 : ins[i] \in T
  <2>1. Len(ins) \in Nat /\ Len(ins) # 0 /\ DOMAIN ins = 1 .. Len(ins)
    BY SeqIs
  <2>2. \A i \in DOMAIN ins : ins[i] \in T
    BY SeqIs DEF T
  <2>. DEFINE l == Len(ins)
  <2>3. l \in Nat /\ l # 0 /\ DOMAIN ins = 1..l /\ m = l - 1
    BY <2>1
  <2>. HIDE DEF l, m
  <2>4. m \in Nat /\ l = m + 1
    BY <2>3
  <2>. QED BY <2>2, <2>3, <2>4
<1>. HIDE DEF m
<1>2. \A t \in T : \A i \in 1..m : Joined(t, ins[i + 1]) \in T
  <2>1. ASSUME NEW t \in T, NEW i \in 1..m PROVE Joined(t, ins[i + 1]) \in T
    <3>1. ins[i + 1] \in T
      BY <1>1
    <3>. QED BY <3>1, JoinedTyped DEF T
  <2>. QED BY <2>1
<1>3. G \in [1..m -> [T -> T]] /\ \A i \in 1..m : \A t \in T : G[i][t] = Joined(t, ins[i + 1])
    BY <1>2
<1>4. PICK f : Chain(m, T, ins[1], G, f)
  <2>. HIDE DEF G
  <2>1. ins[1] \in T
    BY <1>1
  <2>. QED BY <1>1, <1>3, <2>1, ChainExists
<1>. HIDE DEF G
<1>5. /\ f \in [0..m -> T] /\ f[0] = ins[1]
      /\ \A i \in 1..m : f[i] = Joined(f[i - 1], ins[i + 1])
  <2>1. f \in [0..m -> T] /\ f[0] = ins[1] /\ \A i \in 1..m : f[i] = G[i][f[i - 1]]
    BY <1>4 DEF Chain
  <2>2. \A i \in 1..m : f[i - 1] \in T
    BY <1>1, <2>1
  <2>. QED BY <1>3, <2>1, <2>2
<1>. DEFINE g == [i \in DOMAIN ins |-> f[i - 1]]
<1>6. Eq(g)
  <2>1. ASSUME NEW i \in DOMAIN ins
        PROVE  g[i] = IF i = 1 THEN ins[1] ELSE Joined(g[i - 1], ins[i])
    <3>1. CASE i = 1
      BY <1>5, <3>1
    <3>2. CASE i # 1
      <4>1. i - 1 \in 1..m /\ (i - 1) + 1 = i /\ i - 1 \in DOMAIN ins
        BY <1>1, <3>2
      <4>2. g[i] = f[i - 1] /\ g[i - 1] = f[(i - 1) - 1]
        BY <4>1
      <4>. HIDE DEF g
      <4>3. f[i - 1] = Joined(f[(i - 1) - 1], ins[(i - 1) + 1])
        BY <1>5, <4>1
      <4>. QED BY <3>2, <4>1, <4>2, <4>3
    <3>. QED BY <3>1, <3>2
  <2>2. g = [i \in DOMAIN ins |-> g[i]]
    OBVIOUS
  <2>. HIDE DEF g
  <2>. QED BY <2>1, <2>2
<1>7. Join(ins) = join[Len(ins)]
    BY DEF Join
<1>8. Eq(join)
  <2>. HIDE DEF Eq, g
  <2>. QED BY <1>6
<1>. HIDE DEF join, g
<1>9. /\ join[1] = ins[1]
      /\ \A i \in 1..m : join[i + 1] = Joined(join[i], ins[i + 1])
  <2>1. \A i \in DOMAIN ins : join[i] = IF i = 1 THEN ins[1] ELSE Joined(join[i - 1], ins[i])
    BY <1>8
  <2>2. 1 \in DOMAIN ins /\ \A i \in 1..m : i + 1 \in DOMAIN ins /\ i + 1 # 1 /\ (i + 1) - 1 = i
    BY <1>1
  <2>. QED BY <2>1, <2>2
<1>. DEFINE P == {i \in 0..m : join[i + 1] \in T}
<1>10. \A i \in 0..m : i \in P
  <2>1. 0 \in P
    BY <1>1, <1>9
  <2>2. ASSUME NEW i \in 1..m, i - 1 \in P PROVE i \in P
    <3>1. i \in 0..m /\ (i - 1) + 1 = i /\ i + 1 \in 1 .. m + 1
      BY <1>1
    <3>2. join[i] \in T /\ ins[i + 1] \in T
      BY <1>1, <2>2, <3>1
    <3>3. Joined(join[i], ins[i + 1]) \in T
      BY <3>2, JoinedTyped DEF T
    <3>. QED BY <1>9, <3>1, <3>3
  <2>. HIDE DEF P
  <2>. QED BY <1>1, <2>1, <2>2, Upto
<1>11. Len(ins) = m + 1
    BY SeqIs DEF m
<1>12. m \in 0..m
    BY <1>1
<1>13. join[Len(ins)] \in T
    BY <1>10, <1>11, <1>12
<1>14. Len(ins) = 1 => Join(ins) = ins[1]
    BY <1>7, <1>9
<1>. QED BY <1>7, <1>13, <1>14 DEF T

\* The least number of a set.
LEMMA LeastOfIs ==
    ASSUME NEW S \in SUBSET Nat, S # {}
    PROVE  LeastOf(S) \in S /\ \A m \in S : LeastOf(S) <= m
<1>1. \E l \in S : \A m \in S : l <= m
    BY LeastNumber
<1>. QED BY <1>1 DEF LeastOf

\* As many of a rows as the limits let pass.
Passed(a, limits) == LeastOf({a} \cup Range(limits))
Cap(limits, m, a) == Passed(a, limits) = IF a <= m THEN a ELSE m

LEMMA PassedIs ==
    ASSUME NEW limits \in Seq(Nat)
    PROVE  \/ \A a \in Nat : Passed(a, limits) = a
           \/ \E m \in Nat : \A a \in Nat : Cap(limits, m, a)
<1>. DEFINE L == Range(limits)
<1>1. L \in SUBSET Nat
    BY SeqIs DEF Range
<1>. HIDE DEF L
<1>2. ASSUME NEW a \in Nat
      PROVE  /\ Passed(a, limits) \in {a} \cup L
             /\ \A x \in {a} \cup L : Passed(a, limits) <= x
  <2>. DEFINE S == {a} \cup L
  <2>1. S \in SUBSET Nat /\ S # {}
    BY <1>1
  <2>. HIDE DEF S
  <2>2. LeastOf(S) \in S /\ \A x \in S : LeastOf(S) <= x
    BY <2>1, LeastOfIs
  <2>. QED BY <2>2 DEF S, Passed, L
<1>3. CASE L = {}
    BY <1>2, <1>3
<1>4. CASE L # {}
  <2>1. PICK m \in L : \A x \in L : m <= x
    BY <1>1, <1>4, LeastNumber
  <2>2. ASSUME NEW a \in Nat PROVE Cap(limits, m, a)
    <3>. DEFINE p == Passed(a, limits)
    <3>1. m \in Nat /\ p \in {a} \cup L /\ p <= a /\ p <= m
      BY <1>1, <1>2, <2>1
    <3>2. p \in Nat /\ (p # a => m <= p)
      BY <1>1, <2>1, <3>1
    <3>. HIDE DEF p
    <3>3. p = IF a <= m THEN a ELSE m
      BY <3>1, <3>2
    <3>. QED BY <3>3 DEF Cap, p
  <2>. QED BY <1>1, <2>1, <2>2
<1>. QED BY <1>3, <1>4

LEMMA PassedSmall ==
    ASSUME NEW limits \in Seq(Nat), NEW a \in Nat
    PROVE  Passed(a, limits) \in 0..a
<1>1. CASE \A x \in Nat : Passed(x, limits) = x
    BY <1>1
<1>2. CASE \E m \in Nat : \A x \in Nat : Cap(limits, m, x)
  <2>1. PICK m \in Nat : \A x \in Nat : Cap(limits, m, x)
    BY <1>2
  <2>. QED BY <2>1 DEF Cap
<1>. QED BY <1>1, <1>2, PassedIs

\* Rows that were limited before are limited again with the others.
LEMMA PassedTwice ==
    ASSUME NEW limits \in Seq(Nat), NEW x \in Nat, NEW y \in Nat, NEW b \in Nat,
           Passed(x, limits) = Passed(y, limits)
    PROVE  Passed(x + Passed(b, limits), limits) = Passed(y + b, limits)
<1>1. CASE \A a \in Nat : Passed(a, limits) = a
    BY <1>1
<1>2. CASE \E m \in Nat : \A a \in Nat : Cap(limits, m, a)
  <2>1. PICK m \in Nat : \A a \in Nat : Cap(limits, m, a)
    BY <1>2
  <2>. DEFINE p == Passed(b, limits)
  <2>2. p = (IF b <= m THEN b ELSE m) /\ p \in Nat
    BY <2>1 DEF Cap
  <2>. HIDE DEF p
  <2>3. (IF x <= m THEN x ELSE m) = (IF y <= m THEN y ELSE m)
    BY <2>1 DEF Cap
  <2>4. /\ Passed(x + p, limits) = IF x + p <= m THEN x + p ELSE m
        /\ Passed(y + b, limits) = IF y + b <= m THEN y + b ELSE m
    <3>1. x + p \in Nat /\ y + b \in Nat
      BY <2>2
    <3>. QED BY <2>1, <3>1 DEF Cap
  <2>. QED BY <2>2, <2>3, <2>4 DEF p
<1>. QED BY <1>1, <1>2, PassedIs

LEMMA PassedSums ==
    ASSUME NEW limits \in Seq(Nat), NEW S, NEW ss \in Seq(Seq(S)), NEW uu \in Seq(Seq(S)),
           Len(ss) = Len(uu),
           \A i \in DOMAIN ss : Len(uu[i]) = Passed(Len(ss[i]), limits)
    PROVE  Passed(Len(FlattenSeq(uu)), limits) = Passed(Len(FlattenSeq(ss)), limits)
<1>1. PICK f : Concats(ss, S, f)
    BY FlattenIs
<1>2. PICK g : Concats(uu, S, g)
    BY FlattenIs
<1>. DEFINE n == Len(ss)
            P == {i \in 0..n : Passed(Len(g[i]), limits) = Passed(Len(f[i]), limits)}
<1>3. n \in Nat
    BY SeqIs
<1>4. 0 \in P
    BY <1>1, <1>2, <1>3 DEF Concats
<1>5. ASSUME NEW i \in 1..n, i - 1 \in P PROVE i \in P
  <2>1. PrefixFacts(ss, S, f, i) /\ PrefixFacts(uu, S, g, i)
    BY <1>1, <1>2, PrefixStep
  <2>. DEFINE a == Len(f[i - 1])
              b == Len(ss[i])
              c == Len(g[i - 1])
              d == Len(uu[i])
  <2>2. /\ a \in Nat /\ b \in Nat /\ c \in Nat /\ d \in Nat
        /\ Len(f[i]) = a + b /\ Len(g[i]) = c + d
    BY <2>1 DEF PrefixFacts
  <2>3. d = Passed(b, limits)
    BY <2>1 DEF PrefixFacts
  <2>4. Passed(c, limits) = Passed(a, limits)
    BY <1>5
  <2>. HIDE DEF a, b, c, d
  <2>5. Passed(c + d, limits) = Passed(a + b, limits)
    BY <2>2, <2>3, <2>4, PassedTwice
  <2>6. i \in 0..n
    BY <1>3
  <2>. QED BY <2>2, <2>5, <2>6
<1>6. \A i \in 0..n : i \in P
  <2>. HIDE DEF P, n
  <2>. QED BY <1>3, <1>4, <1>5, Upto
<1>7. n \in 0..n
    BY <1>3
<1>8. Passed(Len(g[n]), limits) = Passed(Len(f[n]), limits)
    BY <1>6, <1>7
<1>. QED BY <1>1, <1>2, <1>8 DEF Concats

LEMMA LimitedIs ==
    ASSUME NEW rows \in Seq(Row), NEW limits \in Seq(Nat)
    PROVE  /\ Limited(rows, limits) \in Seq(Row)
           /\ Len(Limited(rows, limits)) = Passed(Len(rows), limits)
<1>. DEFINE p == Passed(Len(rows), limits)
<1>1. Len(rows) \in Nat
    BY SeqIs
<1>2. p \in 0 .. Len(rows)
    BY <1>1, PassedSmall
<1>3. Limited(rows, limits) = SubSeq(rows, 0 + 1, p)
    BY DEF Limited, Passed
<1>. HIDE DEF p
<1>4. p \in Int /\ p <= Len(rows) /\ 0 \in Nat
    BY <1>1, <1>2
<1>5. /\ SubSeq(rows, 0 + 1, p) \in Seq(Row)
      /\ Len(SubSeq(rows, 0 + 1, p)) = IF 0 < p THEN p - 0 ELSE 0
    BY <1>4, SubSeqIs
<1>6. Len(SubSeq(rows, 0 + 1, p)) = p
    BY <1>1, <1>2, <1>5
<1>. QED BY <1>3, <1>5, <1>6 DEF p

-----------------------------------------------------------------------------
(* Files of datasets *)

LEMMA WholeFilesTyped ==
    ASSUME NEW t \in Int, NEW d \in DatasetsIn(Written(t))
    PROVE  WholeFiles(d) \in Seq(Written(t))
<1>. DEFINE s == ResolvedPaths(d)
            w(i) == RowRange(s[i].path, s[i].file, s[i].part)
            n == Len(d.ranges)
<1>1. s \in Seq(Written(t)) /\ Len(s) = n /\ DOMAIN s = DOMAIN d.ranges
    BY WrittenAnyRows, ResolvedIs
<1>2. d.ranges \in Seq(Written(t))
    BY WrittenAnyRows, ResolvedIs
<1>3. n \in Nat /\ DOMAIN d.ranges = 1..n
    BY <1>2, SeqIs
<1>4. WholeFiles(d) = [i \in DOMAIN d.ranges |-> w(i)]
    BY DEF WholeFiles
<1>. HIDE DEF s
<1>5. ASSUME NEW i \in 1..n PROVE w(i) \in Written(t)
  <2>1. s[i] \in Written(t)
    BY <1>1, <1>3, SeqIs
  <2>2. w(i) \in FileRange /\ w(i).path = s[i].path
    BY <2>1 DEF Written, FileRange, RowRange
  <2>. HIDE DEF w
  <2>. QED BY <2>1, <2>2 DEF Written
<1>. HIDE DEF w, n
<1>6. [i \in 1..n |-> w(i)] \in [1..n -> Written(t)]
    BY <1>5
<1>. QED BY <1>3, <1>4, <1>6, FunctionIsSeq

-----------------------------------------------------------------------------
(* Plans stay well-formed *)

\* What a well-formed plan says of one node.
NodeOK(p, n) ==
    /\ p[n] \in Nodes
    /\ \A i \in DOMAIN p[n].deps : p[n].deps[i] \in 1 .. n - 1
    /\ p[n].op # "source" => p[n].deps # <<>>
    /\ p[n].op \in {"projection", "consolidate", "limit"} => Len(p[n].deps) = 1
    /\ p[n].op = "source" => \A i \in DOMAIN p[n].files : p[n].files[i].path[1] < 0

LEMMA WellFormedIs ==
    ASSUME NEW p
    PROVE  WellFormed(p) <=> p \in Seq(Nodes) /\ p # <<>> /\ \A n \in DOMAIN p : NodeOK(p, n)
<1>. DEFINE N == Nodes
<1>1. p \in Seq(N) => \A n \in DOMAIN p : p[n] \in N
  <2>. HIDE DEF N
  <2>. QED BY SeqIs
<1>. QED BY <1>1 DEF WellFormed, NodeOK

\* The fields of nodes.
LEMMA NodeIs ==
    ASSUME NEW node \in Nodes
    PROVE  /\ node.deps \in Seq(Nat) /\ node.named \in BOOLEAN
           /\ node.op \in {"root", "union", "projection", "source", "sink", "compute", "sql",
                           "limit", "consolidate", "partition"}
           /\ node.op = "source" => node.files \in Seq(FileRange)
           /\ node.op = "sink" => node.copy \in BOOLEAN
           /\ node.op \in {"compute", "sql", "limit"} => node.limits \in Seq(Nat)
           /\ node.op = "partition" =>
                /\ node.kind \in Kinds /\ node.n \in Nat \ {0} /\ node.dim \in Nat \ {Top}
                /\ node.nested \in BOOLEAN
<1>1. <<>> \in Seq(Nat)
    OBVIOUS
<1>. DEFINE SN == Seq(Nat)
            FR == Seq(FileRange)
<1>2. {<<>>} \subseteq SN
    BY <1>1
<1>. HIDE DEF SN, FR
<1>3. node \in
    [op : {"root", "union", "projection"}, deps : SN, named : BOOLEAN]
    \cup [op : {"source"}, deps : {<<>>}, named : BOOLEAN, files : FR]
    \cup [op : {"sink"}, deps : SN, named : BOOLEAN, copy : BOOLEAN]
    \cup [op : {"compute", "sql", "limit"}, deps : SN, named : BOOLEAN, limits : SN]
    \cup [op : {"consolidate"}, deps : SN, named : BOOLEAN, dims : SUBSET Nat]
    \cup [op : {"partition"}, deps : SN, named : BOOLEAN, kind : Kinds,
          n : Nat \ {0}, dim : Nat \ {Top}, nested : BOOLEAN, duckdb : BOOLEAN]
    BY DEF Nodes, SN, FR
<1>4. CASE node \in [op : {"root", "union", "projection"}, deps : SN, named : BOOLEAN]
    BY <1>4 DEF SN
<1>5. CASE node \in [op : {"source"}, deps : {<<>>}, named : BOOLEAN, files : FR]
    BY <1>2, <1>5 DEF SN, FR
<1>6. CASE node \in [op : {"sink"}, deps : SN, named : BOOLEAN, copy : BOOLEAN]
    BY <1>6 DEF SN
<1>7. CASE node \in [op : {"compute", "sql", "limit"}, deps : SN, named : BOOLEAN, limits : SN]
    BY <1>7 DEF SN
<1>8. CASE node \in [op : {"consolidate"}, deps : SN, named : BOOLEAN, dims : SUBSET Nat]
    BY <1>8 DEF SN
<1>9. CASE node \in [op : {"partition"}, deps : SN, named : BOOLEAN, kind : Kinds,
          n : Nat \ {0}, dim : Nat \ {Top}, nested : BOOLEAN, duckdb : BOOLEAN]
    BY <1>9 DEF SN
<1>. QED BY <1>3, <1>4, <1>5, <1>6, <1>7, <1>8, <1>9

\* A query that is fused with another one is a query.
LEMMA FusedIs ==
    ASSUME NEW node \in Nodes, NEW child \in Nodes, node.op = "sql", IsSql(child)
    PROVE  /\ Fused(node, child) \in Nodes /\ Fused(node, child).op = "sql"
           /\ Fused(node, child).deps = child.deps
           /\ Fused(node, child).limits = child.limits \o node.limits
<1>. DEFINE SN == Seq(Nat)
            f == Fused(node, child)
            Q == [op : {"compute", "sql", "limit"}, deps : SN, named : BOOLEAN, limits : SN]
            l == child.limits \o node.limits
<1>1. node \in Q
    BY DEF Nodes
<1>2. child.deps \in SN /\ child.limits \in SN /\ node.limits \in SN
    BY NodeIs DEF IsSql
<1>3. l \in SN
    BY <1>2, ConcatIs
<1>4. f = [node EXCEPT !.deps = child.deps, !.limits = l]
    BY DEF Fused
<1>. HIDE DEF SN, l, f
<1>5. f \in Q /\ f.op = node.op /\ f.deps = child.deps /\ f.limits = l
    BY <1>1, <1>2, <1>3, <1>4
<1>6. Q \subseteq Nodes
    BY DEF Nodes, SN
<1>. QED BY <1>5, <1>6 DEF f, l

\* No query has limits of its own, and none is fused with a limit that it reads alone.
Unlimited(p) == \A n \in DOMAIN p : p[n].op \in {"sql", "compute"} => p[n].limits = <<>>
ApartIn(p) ==
    /\ Unlimited(p)
    /\ \A n \in DOMAIN p : p[n].op = "sql" /\ Len(p[n].deps) = 1 => p[p[n].deps[1]].op # "limit"

\* Partitioned files are loaded as they were given.
LoadsIn(p) ==
    \A n \in DOMAIN p : p[n].op = "partition" /\ p[n].kind = "load" =>
        \A i \in DOMAIN p[n].deps : p[p[n].deps[i]].op = "source"

\* What the optimizer makes of a node, given what it makes of the nodes below.
Opt(h, n) ==
    IF /\ plan[n].op = "sql"
       /\ Len(plan[n].deps) = 1
       /\ IsSql(h[plan[n].deps[1]])
    THEN Fused(plan[n], h[plan[n].deps[1]])
    ELSE plan[n]

LEMMA OptimizedIs ==
    ASSUME WellFormed(plan)
    PROVE  OptimizedPlan = [n \in DOMAIN plan |-> Opt(OptimizedPlan, n)]
<1>. DEFINE S == DOMAIN plan
            T == Nodes
            M == [n \in S |-> n]
            G == [n \in S |-> [f \in [S -> T] |-> Opt(f, n)]]
            Eq(h) == h = [n \in S |-> Opt(h, n)]
<1>1. \A n \in S : NodeOK(plan, n)
    BY WellFormedIs
<1>2. S \subseteq Nat /\ plan \in Seq(Nodes)
    BY WellFormedIs, SeqIs
<1>3. ASSUME NEW n \in S, plan[n].op = "sql", Len(plan[n].deps) = 1
      PROVE  plan[n].deps[1] \in S /\ plan[n].deps[1] < n
  <2>. DEFINE c == plan[n].deps
  <2>0. n \in S
    OBVIOUS
  <2>. DEFINE N == Nodes
  <2>1. S = 1 .. Len(plan) /\ Len(plan) \in Nat
    <3>1. plan \in Seq(N)
      BY <1>2
    <3>. HIDE DEF N
    <3>. QED BY <3>1, SeqIs
  <2>2. \A i \in DOMAIN c : c[i] \in 1 .. n - 1
    BY <1>1 DEF NodeOK
  <2>3. c \in Seq(Nat)
    BY <1>1, NodeIs DEF NodeOK
  <2>4. Len(c) = 1
    BY <1>3
  <2>. HIDE DEF c, S
  <2>5. 1 \in DOMAIN c
    BY <2>3, <2>4, SeqIs
  <2>6. c[1] \in 1 .. n - 1
    BY <2>2, <2>5
  <2>7. n \in 1 .. Len(plan)
    BY <2>0, <2>1
  <2>8. c[1] \in 1 .. Len(plan) /\ c[1] < n
    BY <2>1, <2>6, <2>7
  <2>. QED BY <2>1, <2>8 DEF c
<1>4. ASSUME NEW n \in S, NEW f \in [S -> T] PROVE Opt(f, n) \in T
  <2>1. plan[n] \in Nodes
    BY <1>1 DEF NodeOK
  <2>2. CASE plan[n].op = "sql" /\ Len(plan[n].deps) = 1 /\ IsSql(f[plan[n].deps[1]])
    <3>. DEFINE child == f[plan[n].deps[1]]
    <3>1. child \in Nodes
      BY <1>3, <2>2
    <3>2. Opt(f, n) = Fused(plan[n], child)
      BY <2>2 DEF Opt
    <3>3. IsSql(child)
      BY <2>2
    <3>. HIDE DEF child
    <3>. QED BY <2>1, <2>2, <3>1, <3>2, <3>3, FusedIs
  <2>3. CASE ~(plan[n].op = "sql" /\ Len(plan[n].deps) = 1 /\ IsSql(f[plan[n].deps[1]]))
    BY <2>1, <2>3 DEF Opt
  <2>. QED BY <2>2, <2>3
<1>. HIDE DEF T
<1>5. Recursion(S, T, M, G)
  <2>1. M \in [S -> Nat]
    BY <1>2
  <2>2. G \in [S -> [[S -> T] -> T]]
    BY <1>4
  <2>3. ASSUME NEW n \in S, NEW f \in [S -> T], NEW g \in [S -> T],
               \A y \in S : M[y] < M[n] => f[y] = g[y]
        PROVE  G[n][f] = G[n][g]
    <3>1. G[n][f] = Opt(f, n) /\ G[n][g] = Opt(g, n)
      OBVIOUS
    <3>2. \A y \in S : y < n => f[y] = g[y]
      BY <2>3
    <3>3. CASE plan[n].op = "sql" /\ Len(plan[n].deps) = 1
      <4>1. f[plan[n].deps[1]] = g[plan[n].deps[1]]
        BY <1>3, <3>2, <3>3
      <4>. HIDE DEF G
      <4>. QED BY <3>1, <4>1 DEF Opt
    <3>4. CASE ~(plan[n].op = "sql" /\ Len(plan[n].deps) = 1)
      <4>. HIDE DEF G
      <4>. QED BY <3>1, <3>4 DEF Opt
    <3>. QED BY <3>3, <3>4
  <2>. HIDE DEF M, G
  <2>. QED BY <2>1, <2>2, <2>3 DEF Recursion
<1>6. T # {}
  <2>1. \E n \in S : TRUE
    <3>1. plan # <<>>
      BY WellFormedIs
    <3>. DEFINE N == Nodes
    <3>2. plan \in Seq(N)
      BY <1>2
    <3>. HIDE DEF N
    <3>3. Len(plan) \in Nat /\ Len(plan) # 0 /\ DOMAIN plan = 1 .. Len(plan)
      BY <3>1, <3>2, SeqIs
    <3>4. 1 \in DOMAIN plan
      BY <3>3
    <3>. QED BY <3>4
  <2>. QED BY <1>1, <2>1 DEF NodeOK, T
<1>7. PICK f \in [S -> T] : \A x \in S : f[x] = G[x][f]
  <2>. HIDE DEF G, M, S
  <2>. QED BY <1>5, <1>6, RecursionExists
<1>8. Eq(f)
  <2>1. \A x \in S : f[x] = Opt(f, x)
    BY <1>7
  <2>2. f = [x \in S |-> f[x]]
    OBVIOUS
  <2>. QED BY <2>1, <2>2
<1>9. OptimizedPlan = CHOOSE h : Eq(h)
    BY DEF OptimizedPlan, Opt
<1>10. Eq(OptimizedPlan)
  <2>. HIDE DEF Eq
  <2>. QED BY <1>8, <1>9
<1>. QED BY <1>10

\* A well-formed plan has nodes at 1 .. Len.
LEMMA PlanIs ==
    ASSUME NEW p, WellFormed(p)
    PROVE  /\ p \in Seq(Nodes) /\ Len(p) \in Nat \ {0} /\ DOMAIN p = 1 .. Len(p)
           /\ \A n \in DOMAIN p : NodeOK(p, n) /\ p[n] \in Nodes
           /\ \A n \in DOMAIN p : \A i \in DOMAIN p[n].deps :
                p[n].deps[i] \in DOMAIN p /\ p[n].deps[i] \in 1 .. n - 1
<1>. DEFINE N == Nodes
<1>1. p \in Seq(N) /\ p # <<>> /\ \A n \in DOMAIN p : NodeOK(p, n)
    BY WellFormedIs
<1>. HIDE DEF N
<1>2. Len(p) \in Nat \ {0} /\ DOMAIN p = 1 .. Len(p)
    BY <1>1, SeqIs
<1>3. \A n \in DOMAIN p : \A i \in DOMAIN p[n].deps : p[n].deps[i] \in 1 .. n - 1
    BY <1>1 DEF NodeOK
<1>4. \A n \in DOMAIN p : \A i \in DOMAIN p[n].deps : p[n].deps[i] \in DOMAIN p
  <2>1. \A n \in 1 .. Len(p) : \A x \in 1 .. n - 1 : x \in 1 .. Len(p)
    BY <1>2
  <2>. QED BY <1>2, <1>3, <2>1
<1>5. \A n \in DOMAIN p : p[n] \in Nodes
    BY <1>1 DEF NodeOK
<1>. QED BY <1>1, <1>2, <1>3, <1>4, <1>5 DEF N

\* The only input of a node that has one.
LEMMA OnlyDep ==
    ASSUME NEW p, WellFormed(p), NEW n \in DOMAIN p, Len(p[n].deps) = 1
    PROVE  /\ p[n].deps[1] \in DOMAIN p /\ p[n].deps[1] \in 1 .. n - 1
           /\ DOMAIN p[n].deps = {1} /\ p[n].deps = <<p[n].deps[1]>>
<1>. DEFINE c == p[n].deps
<1>1. c \in Seq(Nat)
    BY PlanIs, NodeIs
<1>2. \A i \in DOMAIN c : c[i] \in DOMAIN p /\ c[i] \in 1 .. n - 1
    BY PlanIs
<1>. HIDE DEF c
<1>3. Len(c) = 1
    BY DEF c
<1>4. DOMAIN c = 1..1 /\ c = [k \in DOMAIN c |-> c[k]]
    BY <1>1, <1>3, SeqIs
<1>5. DOMAIN c = {1} /\ c = <<c[1]>>
    BY <1>1, <1>3, <1>4
<1>. QED BY <1>2, <1>5 DEF c

OptOK(n) ==
    /\ NodeOK(OptimizedPlan, n)
    /\ OptimizedPlan[n].op = plan[n].op
    /\ plan[n].op # "sql" => OptimizedPlan[n] = plan[n]
    /\ ApartIn(plan) /\ plan[n].op \in {"sql", "compute"} => OptimizedPlan[n].limits = <<>>

\* Optimized, every node is a node of the same kind.
LEMMA OptimizedNodes ==
    ASSUME WellFormed(plan)
    PROVE  \A n \in DOMAIN plan : OptOK(n)
<1>. DEFINE o == OptimizedPlan
            l == Len(plan)
            P == {n \in 0..l : \A m \in 1..n : OptOK(m)}
<1>1. l \in Nat /\ DOMAIN plan = 1..l /\ \A n \in 1..l : NodeOK(plan, n) /\ plan[n] \in Nodes
    BY PlanIs
<1>2. DOMAIN o = 1..l /\ \A n \in 1..l : o[n] = Opt(o, n)
  <2>1. o = [n \in DOMAIN plan |-> Opt(o, n)]
    BY OptimizedIs
  <2>. HIDE DEF o
  <2>. QED BY <1>1, <2>1
<1>. HIDE DEF o, l
<1>3. ASSUME NEW n \in 1..l, \A m \in 1 .. n - 1 : OptOK(m) PROVE OptOK(n)
  <2>0. n \in DOMAIN plan /\ NodeOK(plan, n) /\ plan[n] \in Nodes /\ n \in Nat
    BY <1>1
  <2>1. CASE plan[n].op = "sql" /\ Len(plan[n].deps) = 1 /\ IsSql(o[plan[n].deps[1]])
    <3>. DEFINE c == plan[n].deps[1]
                child == o[c]
                f == Fused(plan[n], child)
    <3>1. c \in DOMAIN plan /\ c \in 1 .. n - 1
      BY <2>0, <2>1, OnlyDep
    <3>2. OptOK(c)
      BY <1>3, <3>1
    <3>3. o[n] = f
      BY <1>2, <2>1 DEF Opt
    <3>4. child \in Nodes /\ IsSql(child) /\ NodeOK(o, c) /\ child.op = plan[c].op
      BY <2>1, <3>2 DEF OptOK, NodeOK, o
    <3>. HIDE DEF c
    <3>5. /\ f \in Nodes /\ f.op = "sql" /\ f.deps = child.deps
          /\ f.limits = child.limits \o plan[n].limits
      BY <2>0, <2>1, <3>4, FusedIs
    <3>. HIDE DEF f
    <3>6. \A i \in DOMAIN child.deps : child.deps[i] \in 1 .. c - 1
      BY <3>4 DEF NodeOK
    <3>7. \A x \in 1 .. c - 1 : x \in 1 .. n - 1
      BY <2>0, <3>1
    <3>8. child.deps # <<>>
      BY <3>4 DEF NodeOK, IsSql
    <3>. HIDE DEF child
    <3>9. NodeOK(o, n)
      BY <3>3, <3>5, <3>6, <3>7, <3>8 DEF NodeOK
    <3>10. ASSUME ApartIn(plan) PROVE o[n].limits = <<>>
      <4>1. plan[n].limits = <<>> /\ plan[c].op # "limit"
        BY <2>0, <2>1, <3>10 DEF ApartIn, Unlimited, c
      <4>2. plan[c].op = "sql"
        BY <3>4, <4>1 DEF IsSql
      <4>3. child.limits = <<>>
        BY <3>2, <3>10, <4>2 DEF OptOK, child, o
      <4>4. <<>> \o <<>> = <<>>
        OBVIOUS
      <4>. QED BY <3>3, <3>5, <4>1, <4>3, <4>4
    <3>. QED BY <2>1, <3>3, <3>5, <3>9, <3>10 DEF OptOK, o
  <2>2. CASE ~(plan[n].op = "sql" /\ Len(plan[n].deps) = 1 /\ IsSql(o[plan[n].deps[1]]))
    <3>1. o[n] = plan[n]
      BY <1>2, <2>2 DEF Opt
    <3>2. NodeOK(o, n)
      BY <2>0, <3>1 DEF NodeOK
    <3>3. ApartIn(plan) /\ plan[n].op \in {"sql", "compute"} => plan[n].limits = <<>>
      BY <2>0 DEF ApartIn, Unlimited
    <3>. QED BY <3>1, <3>2, <3>3 DEF OptOK, o
  <2>. QED BY <2>1, <2>2
<1>4. 0 \in P
    BY <1>1
<1>5. ASSUME NEW n \in 1..l, n - 1 \in P PROVE n \in P
  <2>1. \A m \in 1 .. n - 1 : OptOK(m)
    BY <1>5
  <2>2. OptOK(n)
    BY <1>3, <2>1
  <2>3. \A m \in 1..n : m \in 1 .. n - 1 \/ m = n
    OBVIOUS
  <2>4. n \in 0..l
    BY <1>1
  <2>. QED BY <2>1, <2>2, <2>3, <2>4
<1>6. \A n \in 0..l : n \in P
  <2>. HIDE DEF P
  <2>. QED BY <1>1, <1>4, <1>5, Upto
<1>7. \A n \in 1..l : OptOK(n)
  <2>1. \A n \in 1..l : n \in 0..l /\ n \in 1..n
    BY <1>1
  <2>. QED BY <1>6, <2>1
<1>. QED BY <1>1, <1>7

LEMMA OptimizedWellFormed ==
    ASSUME WellFormed(plan)
    PROVE  /\ WellFormed(OptimizedPlan)
           /\ ApartIn(plan) => Unlimited(OptimizedPlan)
           /\ LoadsIn(plan) => LoadsIn(OptimizedPlan)
<1>. DEFINE o == OptimizedPlan
            l == Len(plan)
<1>1. l \in Nat \ {0} /\ DOMAIN plan = 1..l
    BY PlanIs
<1>2. \A n \in 1..l : OptOK(n)
    BY <1>1, OptimizedNodes
<1>3. o = [n \in 1..l |-> Opt(o, n)]
    BY <1>1, OptimizedIs
<1>4. \A n \in 1..l : NodeOK(o, n) /\ o[n] \in Nodes
    BY <1>2 DEF OptOK, NodeOK
<1>. HIDE DEF o, l
<1>5. DOMAIN o = 1..l
    BY <1>3
<1>6. o \in [1..l -> Nodes]
  <2>1. o = [n \in 1..l |-> o[n]]
    BY <1>3
  <2>. QED BY <1>4, <2>1
<1>7. o \in Seq(Nodes) /\ Len(o) = l
  <2>. DEFINE N == Nodes
  <2>1. o \in [1..l -> N]
    BY <1>6
  <2>. HIDE DEF N
  <2>2. o \in Seq(N) /\ Len(o) = l
    BY <1>1, <2>1, FunctionIsSeq
  <2>. QED BY <2>2 DEF N
<1>8. o # <<>>
    BY <1>1, <1>7, EmptyIsSeq
<1>9. WellFormed(o)
    BY <1>4, <1>5, <1>7, <1>8, WellFormedIs
<1>10. ASSUME ApartIn(plan) PROVE Unlimited(o)
    BY <1>2, <1>5, <1>10 DEF OptOK, Unlimited, o
<1>11. ASSUME LoadsIn(plan) PROVE LoadsIn(o)
  <2>1. \A n \in 1..l : o[n].op = plan[n].op /\ (plan[n].op # "sql" => o[n] = plan[n])
    BY <1>2 DEF OptOK, o
  <2>2. \A n \in 1..l : \A i \in DOMAIN plan[n].deps : plan[n].deps[i] \in 1..l
    BY <1>1, PlanIs
  <2>. QED BY <1>1, <1>5, <1>11, <2>1, <2>2 DEF LoadsIn
<1>. QED BY <1>9, <1>10, <1>11 DEF o

\* A sink or a root of nodes that come before place n.
AppendedAt(node, n) ==
    /\ node \in Nodes /\ node.op \in {"sink", "root"} /\ node.deps # <<>>
    /\ \A i \in DOMAIN node.deps : node.deps[i] \in 1 .. n - 1

LEMMA AppendedAtIs ==
    ASSUME NEW n \in Nat, NEW deps \in Seq(1 .. n - 1), deps # <<>>, NEW copy \in BOOLEAN
    PROVE  AppendedAt(DataSink(deps, copy), n) /\ AppendedAt(RootOf(deps), n)
<1>. DEFINE D == 1 .. n - 1
<1>1. D \subseteq Nat /\ deps \in Seq(D)
    OBVIOUS
<1>. HIDE DEF D
<1>2. deps \in Seq(Nat) /\ \A i \in DOMAIN deps : deps[i] \in D
    BY <1>1, SeqGrows, SeqIs
<1>3. DataSink(deps, copy) \in Nodes /\ RootOf(deps) \in Nodes
    BY <1>2 DEF Nodes, DataSink, RootOf, Node
<1>. QED BY <1>2, <1>3 DEF AppendedAt, DataSink, RootOf, Node, D

LEMMA AppendedOK ==
    ASSUME NEW p, WellFormed(p), NEW s \in Seq(Nodes),
           \A i \in DOMAIN s : AppendedAt(s[i], Len(p) + i)
    PROVE  /\ WellFormed(p \o s) /\ Len(p \o s) = Len(p) + Len(s)
           /\ \A n \in DOMAIN p : (p \o s)[n] = p[n]
           /\ Unlimited(p) => Unlimited(p \o s)
           /\ LoadsIn(p) => LoadsIn(p \o s)
<1>. DEFINE l == Len(p)
            m == Len(s)
            w == p \o s
            N == Nodes
<1>1. p \in Seq(N) /\ l \in Nat \ {0} /\ DOMAIN p = 1..l /\ s \in Seq(N)
    BY PlanIs
<1>2. m \in Nat /\ DOMAIN s = 1..m
    BY <1>1, SeqIs
<1>3. /\ w \in Seq(N) /\ Len(w) = l + m /\ DOMAIN w = 1 .. l + m
      /\ \A k \in DOMAIN p : w[k] = p[k]
      /\ \A k \in DOMAIN s : w[l + k] = s[k]
  <2>. HIDE DEF N
  <2>. QED BY <1>1, ConcatIs
<1>. HIDE DEF w, l, m
<1>4. ASSUME NEW n \in DOMAIN w, n \notin DOMAIN p PROVE AppendedAt(w[n], n)
  <2>1. n - l \in DOMAIN s /\ l + (n - l) = n
    BY <1>1, <1>2, <1>3, <1>4
  <2>2. w[n] = s[n - l]
    BY <1>3, <2>1
  <2>3. AppendedAt(s[n - l], l + (n - l))
    BY <2>1 DEF l
  <2>. QED BY <2>1, <2>2, <2>3
<1>5. ASSUME NEW n \in DOMAIN w PROVE NodeOK(w, n)
  <2>1. CASE n \in DOMAIN p
    <3>1. NodeOK(p, n) /\ w[n] = p[n]
      BY <1>3, <2>1, PlanIs
    <3>. QED BY <3>1 DEF NodeOK
  <2>2. CASE n \notin DOMAIN p
    <3>1. AppendedAt(w[n], n)
      BY <1>4, <2>2
    <3>. QED BY <3>1 DEF NodeOK, AppendedAt
  <2>. QED BY <2>1, <2>2
<1>6. w # <<>>
    BY <1>1, <1>2, <1>3, EmptyIsSeq
<1>7. WellFormed(w)
    BY <1>3, <1>5, <1>6, WellFormedIs
<1>8. ASSUME Unlimited(p) PROVE Unlimited(w)
  <2>1. ASSUME NEW n \in DOMAIN w, w[n].op \in {"sql", "compute"} PROVE w[n].limits = <<>>
    <3>1. n \in DOMAIN p
      BY <1>4, <2>1 DEF AppendedAt
    <3>. QED BY <1>3, <1>8, <2>1, <3>1 DEF Unlimited
  <2>. QED BY <2>1 DEF Unlimited
<1>9. ASSUME LoadsIn(p) PROVE LoadsIn(w)
  <2>1. ASSUME NEW n \in DOMAIN w, w[n].op = "partition", w[n].kind = "load",
               NEW i \in DOMAIN w[n].deps
        PROVE  w[w[n].deps[i]].op = "source"
    <3>1. n \in DOMAIN p
      BY <1>4, <2>1 DEF AppendedAt
    <3>2. w[n] = p[n]
      BY <1>3, <3>1
    <3>3. p[n].deps[i] \in DOMAIN p
      BY <2>1, <3>1, <3>2, PlanIs
    <3>. QED BY <1>3, <1>9, <2>1, <3>1, <3>2, <3>3 DEF LoadsIn
  <2>. QED BY <2>1 DEF LoadsIn
<1>. QED BY <1>3, <1>7, <1>8, <1>9 DEF w, l, m

\* The nodes with an output_name, and the sinks that are made for them.
LEMMA NamedIs ==
    ASSUME WellFormed(plan)
    PROVE  /\ Named \in Seq(1 .. Len(plan)) /\ Len(Named) \in Nat /\ DOMAIN Named = 1 .. Len(Named)
           /\ \A i \in DOMAIN Named : Named[i] \in DOMAIN plan
           /\ \A n \in DOMAIN plan : plan[n].named =>
                SinkOf(n) \in Len(plan) + 1 .. Len(plan) + Len(Named)
<1>. DEFINE S == {n \in DOMAIN plan : plan[n].named}
            l == Len(plan)
            c == Cardinality(S)
<1>1. l \in Nat /\ DOMAIN plan = 1..l
    BY PlanIs
<1>2. S \in SUBSET Nat /\ IsFiniteSet(S) /\ S \subseteq 1..l
  <2>1. IsFiniteSet(1..l)
    BY <1>1, FirstNumbers
  <2>2. S \subseteq 1..l
    BY <1>1
  <2>3. IsFiniteSet(S)
    BY <2>1, <2>2, FS_Subset
  <2>. QED BY <2>2, <2>3
<1>3. Named = Ascending(S)
    BY DEF Named
<1>4. \A n \in S : n \in DOMAIN plan
    OBVIOUS
<1>5. \A n \in DOMAIN plan : plan[n].named => n \in S
    OBVIOUS
<1>. HIDE DEF S, l
<1>6. /\ c \in Nat /\ Ascending(S) \in Bijection(1..c, S) /\ Ascending(S) \in Seq(S)
    BY <1>2, AscendingIs
<1>7. Named \in Seq(1..l)
    BY <1>2, <1>3, <1>6, SeqGrows
<1>8. Named \in [1..c -> S] /\ \A z \in S : \E x \in 1..c : Named[x] = z
  <2>. DEFINE D == 1..c
              N == Named
  <2>1. N \in Bijection(D, S)
    BY <1>3, <1>6
  <2>. HIDE DEF D, N
  <2>2. N \in [D -> S] /\ \A z \in S : \E x \in D : N[x] = z
    BY <2>1, BijectionIs
  <2>. QED BY <2>2 DEF D, N
<1>9. DOMAIN Named = 1..c /\ Len(Named) = c
  <2>. HIDE DEF c
  <2>. QED BY <1>6, <1>8, FunctionIsSeq
<1>10. \A i \in DOMAIN Named : Named[i] \in DOMAIN plan
    BY <1>4, <1>8, <1>9
<1>11. ASSUME NEW n \in DOMAIN plan, plan[n].named PROVE SinkOf(n) \in l + 1 .. l + Len(Named)
  <2>1. \E i \in DOMAIN Named : Named[i] = n
    BY <1>5, <1>8, <1>9, <1>11
  <2>. DEFINE x == CHOOSE i \in DOMAIN Named : Named[i] = n
  <2>2. x \in DOMAIN Named
    BY <2>1
  <2>3. SinkOf(n) = l + x
    BY DEF SinkOf, l
  <2>. HIDE DEF x, c
  <2>4. x \in 1..c
    BY <1>9, <2>2
  <2>. QED BY <1>1, <1>6, <1>9, <2>3, <2>4
<1>. QED BY <1>6, <1>7, <1>9, <1>10, <1>11 DEF l

LEMMA FinalDepsAre ==
    ASSUME WellFormed(plan)
    PROVE  FinalDeps \in Seq(1 .. Len(plan) + Len(Named)) /\ FinalDeps # <<>>
<1>. DEFINE l == Len(plan)
            k == Len(Named)
            D == 1 .. l + k
            root == plan[l]
            below == IF root.op = "consolidate" THEN plan[root.deps[1]] ELSE root
            deps == below.deps
            taken == /\ root.op = "consolidate"
                     /\ below.op = "partition" /\ below.kind \in {"even", "evenrows"}
                     /\ \A i \in DOMAIN deps : plan[deps[i]].named
            sinks == [i \in DOMAIN deps |-> SinkOf(deps[i])]
<1>1. l \in Nat \ {0} /\ k \in Nat /\ l \in DOMAIN plan /\ DOMAIN plan = 1..l
    BY PlanIs, NamedIs
<1>2. \A n \in DOMAIN plan : plan[n].named => SinkOf(n) \in D
  <2>1. \A n \in DOMAIN plan : plan[n].named => SinkOf(n) \in l + 1 .. l + k
    BY NamedIs
  <2>2. \A x \in l + 1 .. l + k : x \in D
    BY <1>1
  <2>. HIDE DEF D, l, k
  <2>. QED BY <2>1, <2>2
<1>3. FinalDeps = IF taken THEN sinks
                  ELSE IF root.named THEN <<SinkOf(l)>> ELSE <<l>>
    BY DEF FinalDeps
<1>4. CASE taken
  <2>1. root.op = "consolidate" /\ NodeOK(plan, l)
    BY <1>1, <1>4, PlanIs
  <2>2. Len(root.deps) = 1
    BY <2>1 DEF NodeOK
  <2>3. root.deps[1] \in DOMAIN plan
    BY <1>1, <2>2, OnlyDep
  <2>4. /\ deps = plan[root.deps[1]].deps /\ plan[root.deps[1]].op = "partition"
        /\ \A i \in DOMAIN deps : plan[deps[i]].named
    BY <1>4, <2>1
  <2>5. deps \in Seq(Nat) /\ deps # <<>> /\ \A i \in DOMAIN deps : deps[i] \in DOMAIN plan
    <3>. DEFINE c == root.deps[1]
    <3>1. c \in DOMAIN plan /\ deps = plan[c].deps /\ plan[c].op = "partition"
      BY <2>3, <2>4
    <3>. HIDE DEF c, deps, root
    <3>2. NodeOK(plan, c) /\ plan[c] \in Nodes
      BY <3>1, PlanIs
    <3>3. plan[c].deps \in Seq(Nat)
      BY <3>2, NodeIs
    <3>4. \A i \in DOMAIN plan[c].deps : plan[c].deps[i] \in DOMAIN plan
      BY <3>1, PlanIs
    <3>5. plan[c].deps # <<>>
      BY <3>1, <3>2 DEF NodeOK
    <3>. QED BY <3>1, <3>3, <3>4, <3>5
  <2>6. FinalDeps = sinks
    BY <1>3, <1>4
  <2>. HIDE DEF deps, D
  <2>7. Len(deps) \in Nat /\ Len(deps) # 0 /\ DOMAIN deps = 1 .. Len(deps)
    BY <2>5, SeqIs
  <2>8. sinks \in [1 .. Len(deps) -> D]
    BY <1>2, <2>4, <2>5, <2>7
  <2>9. sinks \in Seq(D) /\ Len(sinks) = Len(deps)
    <3>. HIDE DEF sinks
    <3>. QED BY <2>7, <2>8, FunctionIsSeq
  <2>10. sinks # <<>>
    <3>. HIDE DEF sinks
    <3>. QED BY <2>7, <2>9, EmptyIsSeq
  <2>. QED BY <2>6, <2>9, <2>10 DEF D
<1>5. CASE ~taken
  <2>. DEFINE x == IF root.named THEN SinkOf(l) ELSE l
  <2>1. FinalDeps = <<x>>
    BY <1>3, <1>5
  <2>2. x \in D
    BY <1>1, <1>2
  <2>. HIDE DEF x, D
  <2>3. <<x>> \in Seq(D) /\ <<x>> # <<>>
    BY <2>2
  <2>. QED BY <2>1, <2>3 DEF D
<1>. QED BY <1>4, <1>5

LEMMA AssembledWellFormed ==
    ASSUME WellFormed(plan), Assemble
    PROVE  /\ WellFormed(plan')
           /\ Unlimited(plan) => Unlimited(plan')
           /\ LoadsIn(plan) => LoadsIn(plan')
<1>1. PICK copy \in BOOLEAN :
        LET sinks == [i \in DOMAIN Named |-> DataSink(<<Named[i]>>, copy)]
            final == DataSink(FinalDeps, copy /\ FinalDeps = <<Len(plan)>>)
        IN  plan' = plan \o sinks \o
                    <<final, RootOf([i \in 1 .. Len(Named) + 1 |-> Len(plan) + i])>>
    BY DEF Assemble
<1>. DEFINE l == Len(plan)
            k == Len(Named)
            sinks == [i \in DOMAIN Named |-> DataSink(<<Named[i]>>, copy)]
            final == DataSink(FinalDeps, copy /\ FinalDeps = <<l>>)
            all == [i \in 1 .. k + 1 |-> l + i]
            root == RootOf(all)
            q == plan \o sinks
            p == q \o <<final, root>>
<1>2. plan' = p
    BY <1>1
<1>3. l \in Nat \ {0} /\ k \in Nat /\ DOMAIN Named = 1..k /\ DOMAIN plan = 1..l
    BY PlanIs, NamedIs
<1>4. \A i \in 1..k : Named[i] \in 1..l
    BY <1>3, NamedIs
<1>5. ASSUME NEW i \in 1..k PROVE AppendedAt(DataSink(<<Named[i]>>, copy), l + i)
  <2>. DEFINE D == 1 .. (l + i) - 1
              x == Named[i]
  <2>1. x \in D /\ l + i \in Nat
    BY <1>3, <1>4
  <2>. HIDE DEF x, D
  <2>2. <<x>> \in Seq(D) /\ <<x>> # <<>>
    BY <2>1
  <2>. QED BY <2>1, <2>2, AppendedAtIs DEF x, D
<1>. HIDE DEF l, k
<1>. DEFINE N == Nodes
<1>6. sinks \in [1..k -> N] /\ \A i \in 1..k : AppendedAt(sinks[i], l + i)
    BY <1>3, <1>5 DEF AppendedAt
<1>. HIDE DEF sinks, N
<1>7. sinks \in Seq(N) /\ Len(sinks) = k /\ DOMAIN sinks = 1..k
    BY <1>3, <1>6, FunctionIsSeq
<1>8. /\ WellFormed(q) /\ Len(q) = l + k
      /\ (Unlimited(plan) => Unlimited(q)) /\ (LoadsIn(plan) => LoadsIn(q))
    BY <1>6, <1>7, AppendedOK DEF N, l
<1>. HIDE DEF q
<1>9. AppendedAt(final, l + k + 1)
  <2>. DEFINE n == l + k + 1
              c == copy /\ FinalDeps = <<l>>
  <2>1. n \in Nat /\ n - 1 = l + k /\ c \in BOOLEAN
    BY <1>3
  <2>2. FinalDeps \in Seq(1 .. n - 1) /\ FinalDeps # <<>>
    BY <2>1, FinalDepsAre DEF l, k
  <2>. HIDE DEF n, c
  <2>3. AppendedAt(DataSink(FinalDeps, c), n)
    BY <2>1, <2>2, AppendedAtIs
  <2>. QED BY <2>3 DEF n, c
<1>10. AppendedAt(root, l + k + 2)
  <2>. DEFINE n == l + k + 2
              D == 1 .. n - 1
              e == k + 1
  <2>1. n \in Nat /\ e \in Nat /\ e # 0 /\ \A i \in 1..e : l + i \in D
    BY <1>3
  <2>2. all = [i \in 1..e |-> l + i]
    OBVIOUS
  <2>. HIDE DEF D, e, all, n
  <2>3. all \in [1..e -> D]
    BY <2>1, <2>2
  <2>4. all \in Seq(D) /\ Len(all) = e
    BY <2>1, <2>3, FunctionIsSeq
  <2>5. all # <<>>
    BY <2>1, <2>4, EmptyIsSeq
  <2>6. TRUE \in BOOLEAN
    OBVIOUS
  <2>. QED BY <2>1, <2>4, <2>5, <2>6, AppendedAtIs DEF D, n
<1>. HIDE DEF final, root
<1>. DEFINE s == <<final, root>>
<1>11. s \in Seq(Nodes) /\ DOMAIN s = {1, 2} /\ s[1] = final /\ s[2] = root /\ Len(s) = 2
  <2>1. final \in N /\ root \in N
    BY <1>9, <1>10 DEF AppendedAt, N
  <2>2. s \in Seq(N) /\ DOMAIN s = {1, 2} /\ s[1] = final /\ s[2] = root /\ Len(s) = 2
    BY <2>1
  <2>. HIDE DEF s
  <2>. QED BY <2>2 DEF N
<1>. HIDE DEF s
<1>12. \A i \in DOMAIN s : AppendedAt(s[i], Len(q) + i)
    BY <1>8, <1>9, <1>10, <1>11
<1>13. /\ WellFormed(q \o s)
       /\ (Unlimited(q) => Unlimited(q \o s)) /\ (LoadsIn(q) => LoadsIn(q \o s))
    BY <1>8, <1>11, <1>12, AppendedOK
<1>. QED BY <1>2, <1>8, <1>13 DEF s

\* What the root needs of a node, given what it needs of those above.
Need(h, n) ==
    \/ n = Len(plan)
    \/ \E m \in n + 1 .. Len(plan) :
            h[m] /\ \E i \in DOMAIN plan[m].deps : plan[m].deps[i] = n

LEMMA NeededIs ==
    ASSUME WellFormed(plan)
    PROVE  /\ Needed \subseteq DOMAIN plan
           /\ \A n \in Needed : \A i \in DOMAIN plan[n].deps : plan[n].deps[i] \in Needed
<1>. DEFINE S == DOMAIN plan
            l == Len(plan)
            M == [n \in S |-> l - n]
            G == [n \in S |-> [f \in [S -> BOOLEAN] |-> Need(f, n)]]
            Eq(h) == h = [n \in S |-> Need(h, n)]
            needed == CHOOSE h : Eq(h)
<1>1. l \in Nat \ {0} /\ S = 1..l
    BY PlanIs
<1>2. Needed = {n \in S : needed[n]}
    BY DEF Needed, Need
<1>. HIDE DEF l
<1>3. Recursion(S, BOOLEAN, M, G)
  <2>1. M \in [S -> Nat]
    BY <1>1
  <2>2. G \in [S -> [[S -> BOOLEAN] -> BOOLEAN]]
    BY DEF Need
  <2>3. ASSUME NEW n \in S, NEW f \in [S -> BOOLEAN], NEW g \in [S -> BOOLEAN],
               \A y \in S : M[y] < M[n] => f[y] = g[y]
        PROVE  G[n][f] = G[n][g]
    <3>1. G[n][f] = Need(f, n) /\ G[n][g] = Need(g, n)
      OBVIOUS
    <3>2. \A m \in n + 1 .. l : f[m] = g[m]
      <4>1. ASSUME NEW m \in n + 1 .. l PROVE f[m] = g[m]
        <5>1. m \in S /\ l - m < l - n
          BY <1>1
        <5>. QED BY <2>3, <5>1
      <4>. QED BY <4>1
    <3>. HIDE DEF G
    <3>. QED BY <3>1, <3>2 DEF Need, l
  <2>. HIDE DEF M, G
  <2>. QED BY <2>1, <2>2, <2>3 DEF Recursion
<1>4. PICK f \in [S -> BOOLEAN] : \A x \in S : f[x] = G[x][f]
  <2>. DEFINE B == BOOLEAN
  <2>1. B # {} /\ Recursion(S, B, M, G)
    BY <1>3
  <2>. HIDE DEF G, M, S, B
  <2>2. \E f \in [S -> B] : \A x \in S : f[x] = G[x][f]
    BY <2>1, RecursionExists
  <2>. QED BY <2>2 DEF B
<1>5. Eq(f)
  <2>1. \A x \in S : f[x] = Need(f, x)
    BY <1>4
  <2>2. f = [x \in S |-> f[x]]
    OBVIOUS
  <2>. QED BY <2>1, <2>2
<1>6. Eq(needed)
  <2>. HIDE DEF Eq
  <2>. QED BY <1>5
<1>. HIDE DEF needed
<1>7. \A n \in S : needed[n] = Need(needed, n)
    BY <1>6
<1>8. ASSUME NEW n \in Needed, NEW i \in DOMAIN plan[n].deps PROVE plan[n].deps[i] \in Needed
  <2>. DEFINE c == plan[n].deps[i]
  <2>1. n \in S /\ needed[n]
    BY <1>2
  <2>2. c \in S /\ c \in 1 .. n - 1
    BY <2>1, PlanIs
  <2>3. n \in c + 1 .. l
    BY <1>1, <2>1, <2>2
  <2>4. \E j \in DOMAIN plan[n].deps : plan[n].deps[j] = c
    OBVIOUS
  <2>. HIDE DEF c
  <2>5. Need(needed, c)
    BY <2>1, <2>3, <2>4 DEF Need, l
  <2>6. needed[c]
    BY <1>7, <2>2, <2>5
  <2>. QED BY <1>2, <2>2, <2>6 DEF c
<1>. QED BY <1>2, <1>8

-----------------------------------------------------------------------------
(* Tasks *)

Infos == UNION {[D -> Nat] : D \in SUBSET Nat}
Types == {"source", "root", "sink", "projection", "compute", "merge", "split", "producer", "consumer"}
TaskRecs == [type : Types, node : Nat, infos : Infos, n : Nat \ {0}, inputs : Seq(Nat)]

\* The tasks with one dataset for an output.
Outs(ts) == {t \in DOMAIN ts : ts[t].type # "producer"}

LEMMA TaskIs ==
    ASSUME NEW type \in Types, NEW n \in Nat, NEW infos \in Infos, NEW np \in Nat \ {0},
           NEW inputs \in Seq(Nat)
    PROVE  /\ Task(type, n, infos, np, inputs) \in TaskRecs
           /\ Task(type, n, infos, np, inputs).type = type
           /\ Task(type, n, infos, np, inputs).node = n
           /\ Task(type, n, infos, np, inputs).infos = infos
           /\ Task(type, n, infos, np, inputs).n = np
           /\ Task(type, n, infos, np, inputs).inputs = inputs
    BY DEF Task, TaskRecs

LEMMA TopInfosIs ==
    ASSUME NEW i \in Nat
    PROVE  TopInfos(i) \in Infos /\ DOMAIN TopInfos(i) = {Top} /\ TopInfos(i)[Top] = i
<1>1. TopInfos(i) \in [{Top} -> Nat]
    BY DEF TopInfos
<1>2. {Top} \in SUBSET Nat
    BY DEF Top
<1>3. TopInfos(i) \in Infos
    BY <1>1, <1>2 DEF Infos
<1>. QED BY <1>3 DEF TopInfos

LEMMA ExtendedIs ==
    ASSUME NEW f, NEW x, NEW v
    PROVE  /\ DOMAIN Extended(f, x, v) = DOMAIN f \cup {x}
           /\ \A y \in DOMAIN f : Extended(f, x, v)[y] = f[y]
           /\ x \notin DOMAIN f => Extended(f, x, v)[x] = v
    BY DEF Extended

LEMMA ExtendedInfos ==
    ASSUME NEW f \in Infos, NEW x \in Nat, NEW v \in Nat
    PROVE  Extended(f, x, v) \in Infos
<1>1. PICK D \in SUBSET Nat : f \in [D -> Nat]
    BY DEF Infos
<1>2. Extended(f, x, v) \in [D \cup {x} -> Nat]
    BY <1>1 DEF Extended
<1>3. D \cup {x} \in SUBSET Nat
    OBVIOUS
<1>. QED BY <1>2, <1>3 DEF Infos

LEMMA RestrictedInfos ==
    ASSUME NEW f \in Infos, NEW S \in SUBSET DOMAIN f
    PROVE  Restrict(f, S) \in Infos
<1>1. PICK D \in SUBSET Nat : f \in [D -> Nat]
    BY DEF Infos
<1>2. Restrict(f, S) \in [S -> Nat] /\ S \in SUBSET Nat
    BY <1>1 DEF Restrict
<1>. QED BY <1>2 DEF Infos

\* A consumer takes one of the partitions that the producers of its node make.
Consumes(p, ts, T) ==
    /\ p[T.node].op = "partition" /\ T.n = p[T.node].n /\ T.inputs # <<>>
    /\ p[T.node].dim \in DOMAIN T.infos /\ T.infos[p[T.node].dim] \in 0 .. T.n - 1
    /\ \A i \in DOMAIN T.inputs :
        ts[T.inputs[i]].type = "producer" /\ ts[T.inputs[i]].node = T.node

\* The tasks that hand the files of data sources on to the producers of node n.
Plain(T, n) == T.type = "source" \/ (T.type \in {"merge", "split"} /\ T.node = n)
IsLoad(p, n) == p[n].op = "partition" /\ p[n].kind = "load"

\* Task T stands at place t among the tasks ts of plan p.
TaskFits(p, ts, t, T) ==
    /\ T \in TaskRecs /\ T.node \in DOMAIN p
    /\ \A i \in DOMAIN T.inputs : T.inputs[i] \in 1 .. t - 1
    /\ T.type = "consumer" => Consumes(p, ts, T)
    /\ T.type # "consumer" => \A i \in DOMAIN T.inputs : ts[T.inputs[i]].type # "producer"
    /\ T.type \in {"producer", "split", "projection"} => Len(T.inputs) = 1
    /\ T.type = "producer" => p[T.node].op = "partition" /\ T.n = p[T.node].n
    /\ T.type = "split" => Top \in DOMAIN T.infos /\ T.infos[Top] \in 0 .. T.n - 1
    /\ T.type = "compute" => T.inputs # <<>> /\ p[T.node].op \in {"sql", "compute", "limit"}
    /\ T.type = "source" => p[T.node].op = "source"
    /\ T.type \in {"producer", "split", "merge"} /\ IsLoad(p, T.node) /\ LoadsIn(p) =>
        \A i \in DOMAIN T.inputs : Plain(ts[T.inputs[i]], T.node)

TaskOK(p, ts, t) == TaskFits(p, ts, t, ts[t])

\* Every input is limited, and all of them together.
LimitShape(ts, n, below, g) ==
    \E T, M \in DOMAIN ts :
        /\ g = <<T>> /\ ts[T].type = "compute" /\ ts[T].node = n /\ ts[T].inputs = <<M>>
        /\ ts[M].type = "merge" /\ Len(ts[M].inputs) = Len(below)
        /\ \A i \in DOMAIN below :
            /\ ts[M].inputs[i] \in DOMAIN ts /\ ts[ts[M].inputs[i]].type = "compute"
            /\ ts[ts[M].inputs[i]].node = n /\ ts[ts[M].inputs[i]].inputs = <<below[i]>>

\* Tasks g stand for node n.
GroupFits(p, ts, gr, n, g) ==
    /\ g \in Seq(Outs(ts))
    /\ p[n].op = "source" => \A i \in DOMAIN g : ts[g[i]].type = "source"
    /\ p[n].op = "partition" => \A i \in DOMAIN g : ts[g[i]].type = "consumer" /\ ts[g[i]].node = n
    /\ p[n].op = "limit" => /\ p[n].deps[1] \in DOMAIN gr
                            /\ LimitShape(ts, n, gr[p[n].deps[1]], g)

\* What is planned so far.
TasksOK == tasks \in Seq(TaskRecs) /\ \A t \in DOMAIN tasks : TaskOK(plan, tasks, t)
GroupsOK ==
    /\ DOMAIN group \subseteq DOMAIN plan
    /\ \A n \in DOMAIN group : GroupFits(plan, tasks, group, n, group[n])

LEMMA TaskStays ==
    ASSUME NEW p, NEW ts, NEW us, NEW t, NEW T, TaskFits(p, ts, t, T),
           \A u \in 1 .. t - 1 : us[u] = ts[u]
    PROVE  TaskFits(p, us, t, T)
<1>1. \A i \in DOMAIN T.inputs : us[T.inputs[i]] = ts[T.inputs[i]]
    BY DEF TaskFits
<1>. QED BY <1>1 DEF TaskFits, Consumes

\* Tasks ts with the new ones after them.
Grown(ts, new, us) ==
    /\ us \in Seq(TaskRecs) /\ DOMAIN us = 1 .. Len(ts) + Len(new)
    /\ Len(us) = Len(ts) + Len(new)
    /\ DOMAIN ts = 1 .. Len(ts) /\ DOMAIN new = 1 .. Len(new)
    /\ Len(ts) \in Nat /\ Len(new) \in Nat
    /\ \A t \in 1 .. Len(ts) : us[t] = ts[t]
    /\ \A k \in 1 .. Len(new) : us[Len(ts) + k] = new[k]

LEMMA GrownIs ==
    ASSUME NEW ts \in Seq(TaskRecs), NEW new \in Seq(TaskRecs)
    PROVE  Grown(ts, new, ts \o new)
<1>. DEFINE N == TaskRecs
            us == ts \o new
<1>1. ts \in Seq(N) /\ new \in Seq(N)
    OBVIOUS
<1>. HIDE DEF N
<1>2. /\ DOMAIN ts = 1 .. Len(ts) /\ DOMAIN new = 1 .. Len(new)
      /\ Len(ts) \in Nat /\ Len(new) \in Nat
    BY <1>1, SeqIs
<1>3. /\ us \in Seq(N) /\ Len(us) = Len(ts) + Len(new) /\ DOMAIN us = 1 .. Len(ts) + Len(new)
      /\ \A k \in DOMAIN ts : us[k] = ts[k]
      /\ \A k \in DOMAIN new : us[Len(ts) + k] = new[k]
    BY <1>1, ConcatIs
<1>. HIDE DEF us
<1>. QED BY <1>2, <1>3 DEF Grown, N, us

LEMMA NewTasksFit ==
    ASSUME TasksOK, NEW new \in Seq(TaskRecs),
           \A k \in DOMAIN new : TaskFits(plan, tasks \o new, Len(tasks) + k, new[k])
    PROVE  \A t \in DOMAIN (tasks \o new) : TaskOK(plan, tasks \o new, t)
<1>. DEFINE us == tasks \o new
            l == Len(tasks)
<1>1. Grown(tasks, new, us)
    BY GrownIs DEF TasksOK
<1>2. ASSUME NEW t \in 1..l PROVE TaskOK(plan, us, t)
  <2>1. TaskFits(plan, tasks, t, tasks[t]) /\ us[t] = tasks[t]
    BY <1>1 DEF Grown, TasksOK, TaskOK
  <2>2. \A u \in 1 .. t - 1 : us[u] = tasks[u]
    <3>1. \A u \in 1 .. t - 1 : u \in 1..l
      BY <1>1 DEF Grown
    <3>. QED BY <1>1, <3>1 DEF Grown
  <2>. HIDE DEF us
  <2>. QED BY <2>1, <2>2, TaskStays DEF TaskOK
<1>3. \A k \in DOMAIN new : TaskFits(plan, us, l + k, new[k])
    OBVIOUS
<1>. HIDE DEF us, l
<1>4. ASSUME NEW t \in DOMAIN us PROVE TaskOK(plan, us, t)
  <2>1. CASE t \in 1..l
    BY <1>2, <2>1
  <2>2. CASE t \notin 1..l
    <3>1. t - l \in DOMAIN new /\ l + (t - l) = t
      BY <1>1, <2>2 DEF Grown, l
    <3>2. us[t] = new[t - l]
      BY <1>1, <3>1 DEF Grown, l
    <3>. QED BY <1>3, <3>1, <3>2 DEF TaskOK
  <2>. QED BY <2>1, <2>2
<1>. QED BY <1>4 DEF us

\* A group stays when tasks and groups are added.
LEMMA GroupStays ==
    ASSUME NEW p, NEW ts, NEW us, NEW gr, NEW hr, NEW n, NEW g, GroupFits(p, ts, gr, n, g),
           DOMAIN ts \subseteq DOMAIN us, \A t \in DOMAIN ts : us[t] = ts[t],
           DOMAIN gr \subseteq DOMAIN hr, \A m \in DOMAIN gr : hr[m] = gr[m]
    PROVE  GroupFits(p, us, hr, n, g)
<1>1. Outs(ts) \subseteq Outs(us)
    BY DEF Outs
<1>2. g \in Seq(Outs(ts))
    BY DEF GroupFits
<1>3. g \in Seq(Outs(us))
    BY <1>1, <1>2, SeqGrows
<1>4. \A i \in DOMAIN g : g[i] \in Outs(ts)
    BY <1>2, SeqIs
<1>5. \A i \in DOMAIN g : us[g[i]] = ts[g[i]]
    BY <1>4 DEF Outs
<1>6. ASSUME NEW below, LimitShape(ts, n, below, g) PROVE LimitShape(us, n, below, g)
    BY <1>6 DEF LimitShape
<1>. QED BY <1>3, <1>5, <1>6 DEF GroupFits

\* The input tasks of a node whose inputs are planned.
LEMMA InputTasksAre ==
    ASSUME WellFormed(plan), GroupsOK, NEW n \in DOMAIN plan,
           \A i \in DOMAIN plan[n].deps : plan[n].deps[i] \in DOMAIN group
    PROVE  /\ InputTasks(n) \in Seq(Outs(tasks))
           /\ \A i \in DOMAIN InputTasks(n) : InputTasks(n)[i] \in Outs(tasks)
           /\ Len(plan[n].deps) = 1 => InputTasks(n) = group[plan[n].deps[1]]
           /\ IsLoad(plan, n) /\ LoadsIn(plan) =>
                \A i \in DOMAIN InputTasks(n) : tasks[InputTasks(n)[i]].type = "source"
<1>. DEFINE deps == plan[n].deps
            O == Outs(tasks)
            gs == [i \in DOMAIN deps |-> group[deps[i]]]
            m == Len(deps)
<1>1. deps \in Seq(Nat) /\ m \in Nat /\ DOMAIN deps = 1..m
  <2>1. deps \in Seq(Nat)
    BY PlanIs, NodeIs
  <2>. HIDE DEF deps
  <2>. QED BY <2>1, SeqIs
<1>2. \A i \in 1..m : deps[i] \in DOMAIN group /\ group[deps[i]] \in Seq(O)
    BY <1>1 DEF GroupsOK, GroupFits
<1>3. InputTasks(n) = FlattenSeq(gs)
    BY DEF InputTasks
<1>. HIDE DEF deps, O, m
<1>4. gs \in [1..m -> Seq(O)] /\ \A i \in 1..m : gs[i] = group[deps[i]]
    BY <1>1, <1>2
<1>. HIDE DEF gs
<1>. DEFINE SO == Seq(O)
<1>5. gs \in Seq(SO) /\ Len(gs) = m /\ DOMAIN gs = 1..m
  <2>1. gs \in [1..m -> SO]
    BY <1>4
  <2>. HIDE DEF SO
  <2>. QED BY <1>1, <2>1, FunctionIsSeq
<1>6. InputTasks(n) \in Seq(O) /\ \A i \in DOMAIN InputTasks(n) : InputTasks(n)[i] \in O
    BY <1>3, <1>5, FlattenTyped, SeqIs
<1>7. ASSUME m = 1 PROVE InputTasks(n) = group[deps[1]]
  <2>. DEFINE s == gs[1]
  <2>1. s \in Seq(O) /\ s = group[deps[1]]
    BY <1>2, <1>4, <1>7
  <2>2. gs = <<s>>
    <3>1. gs \in Seq(SO) /\ Len(gs) = 1
      BY <1>5, <1>7
    <3>. HIDE DEF SO
    <3>. QED BY <3>1
  <2>. HIDE DEF s
  <2>. QED BY <1>3, <2>1, <2>2, FlattenOne
<1>8. ASSUME IsLoad(plan, n), LoadsIn(plan), NEW j \in DOMAIN InputTasks(n)
      PROVE  tasks[InputTasks(n)[j]].type = "source"
  <2>. DEFINE Good == {t \in O : tasks[t].type = "source"}
  <2>1. ASSUME NEW i \in DOMAIN gs, NEW k \in DOMAIN gs[i] PROVE gs[i][k] \in Good
    <3>. DEFINE d == deps[i]
    <3>1. d \in DOMAIN group /\ gs[i] = group[d] /\ group[d] \in Seq(O)
      BY <1>2, <1>4, <1>5
    <3>2. plan[d].op = "source"
      BY <1>1, <1>5, <1>8 DEF LoadsIn, IsLoad, deps
    <3>. HIDE DEF d
    <3>3. tasks[group[d][k]].type = "source"
      BY <2>1, <3>1, <3>2 DEF GroupsOK, GroupFits
    <3>4. group[d][k] \in O
      BY <2>1, <3>1, SeqIs
    <3>. QED BY <3>1, <3>3, <3>4
  <2>. HIDE DEF Good
  <2>2. \A k \in DOMAIN FlattenSeq(gs) : FlattenSeq(gs)[k] \in Good
    BY <1>5, <2>1, FlattenItems
  <2>. QED BY <1>3, <1>8, <2>2 DEF Good
<1>. QED BY <1>6, <1>7, <1>8 DEF deps, O, m

-----------------------------------------------------------------------------
(* The tasks that a visit creates *)

\* Node n can be visited: all of its inputs were.
Visitable(n) ==
    /\ WellFormed(plan) /\ TasksOK /\ GroupsOK /\ n \in DOMAIN plan
    /\ \A i \in DOMAIN plan[n].deps : plan[n].deps[i] \in DOMAIN group

\* What the visit of node n creates fits the plan.
Fits(n, new, g) ==
    /\ new \in Seq(TaskRecs)
    /\ \A k \in DOMAIN new : TaskFits(plan, tasks \o new, Len(tasks) + k, new[k])
    /\ GroupFits(plan, tasks \o new, group, n, g)

\* A task there is, seen from the k-th new one.
OldTask(x, k, us) ==
    /\ x \in Nat /\ x \in 1 .. Len(tasks) + k - 1 /\ us[x] = tasks[x]
    /\ us[x].type # "producer" /\ x \in Outs(us) /\ x \in DOMAIN tasks

LEMMA OldTaskIs ==
    ASSUME NEW us, NEW new, Grown(tasks, new, us), NEW x \in Outs(tasks), NEW k \in Nat \ {0}
    PROVE  OldTask(x, k, us)
<1>1. x \in 1 .. Len(tasks) /\ tasks[x].type # "producer" /\ us[x] = tasks[x]
    BY DEF Outs, Grown
<1>2. Len(tasks) \in Nat /\ Len(new) \in Nat /\ DOMAIN us = 1 .. Len(tasks) + Len(new)
    BY DEF Grown
<1>3. x \in Nat /\ x \in 1 .. Len(tasks) + k - 1 /\ x \in DOMAIN us
    BY <1>1, <1>2
<1>. QED BY <1>1, <1>3 DEF OldTask, Outs, Grown

\* A task of the usual kind, with inputs that hand over a dataset.
LEMMA UsualTaskFits ==
    ASSUME NEW us, NEW t, NEW type \in Types \ {"producer", "consumer", "split"},
           NEW n \in DOMAIN plan, n \in Nat, NEW infos \in Infos, NEW np \in Nat \ {0},
           NEW inputs \in Seq(Nat),
           \A i \in DOMAIN inputs : inputs[i] \in 1 .. t - 1 /\ us[inputs[i]].type # "producer",
           type = "projection" => Len(inputs) = 1,
           type = "compute" => inputs # <<>> /\ plan[n].op \in {"sql", "compute", "limit"},
           type = "source" => plan[n].op = "source",
           type = "merge" /\ IsLoad(plan, n) /\ LoadsIn(plan) =>
                \A i \in DOMAIN inputs : Plain(us[inputs[i]], n)
    PROVE  /\ TaskFits(plan, us, t, Task(type, n, infos, np, inputs))
           /\ Task(type, n, infos, np, inputs) \in TaskRecs
<1>. DEFINE T == Task(type, n, infos, np, inputs)
<1>1. /\ T \in TaskRecs /\ T.type = type /\ T.node = n /\ T.infos = infos /\ T.n = np
      /\ T.inputs = inputs
    BY TaskIs
<1>. HIDE DEF T
<1>2. TaskFits(plan, us, t, T)
    BY <1>1 DEF TaskFits
<1>. QED BY <1>1, <1>2 DEF T

\* The inputs of a visited node.
LEMMA VisitableIs ==
    ASSUME NEW n, Visitable(n)
    PROVE  /\ n \in DOMAIN plan /\ n \in Nat /\ NodeOK(plan, n) /\ plan[n] \in Nodes
           /\ InputTasks(n) \in Seq(Outs(tasks)) /\ InputTasks(n) \in Seq(Nat)
           /\ Len(InputTasks(n)) \in Nat /\ DOMAIN InputTasks(n) = 1 .. Len(InputTasks(n))
           /\ \A i \in 1 .. Len(InputTasks(n)) : InputTasks(n)[i] \in Outs(tasks)
           /\ Len(tasks) \in Nat /\ DOMAIN tasks = 1 .. Len(tasks) /\ tasks \in Seq(TaskRecs)
<1>1. n \in DOMAIN plan /\ n \in Nat /\ NodeOK(plan, n) /\ plan[n] \in Nodes
    BY PlanIs DEF Visitable
<1>. DEFINE N == TaskRecs
<1>2. Len(tasks) \in Nat /\ DOMAIN tasks = 1 .. Len(tasks) /\ tasks \in Seq(N)
  <2>1. tasks \in Seq(N)
    BY DEF Visitable, TasksOK
  <2>. HIDE DEF N
  <2>. QED BY <2>1, SeqIs
<1>. HIDE DEF N
<1>. DEFINE ins == InputTasks(n)
            O == Outs(tasks)
<1>3. O \subseteq Nat
    BY <1>2 DEF Outs
<1>4. ins \in Seq(O)
    BY InputTasksAre DEF Visitable
<1>. HIDE DEF ins, O
<1>5. ins \in Seq(Nat)
    BY <1>3, <1>4, SeqGrows
<1>6. Len(ins) \in Nat /\ DOMAIN ins = 1 .. Len(ins) /\ \A i \in 1 .. Len(ins) : ins[i] \in O
    BY <1>4, SeqIs
<1>. QED BY <1>1, <1>2, <1>4, <1>5, <1>6 DEF ins, O, N

\* One task for a node.
LEMMA OneTaskFits ==
    ASSUME NEW n, Visitable(n), plan[n].op \in {"source", "root", "sink"}
    PROVE  Fits(n, OneTask(n).new, OneTask(n).group)
<1>. DEFINE ins == InputTasks(n)
            l == Len(tasks)
            T == Task(plan[n].op, n, TopInfos(0), 1, ins)
            new == <<T>>
            us == tasks \o new
            g == <<l + 1>>
<1>1. /\ n \in DOMAIN plan /\ n \in Nat /\ ins \in Seq(Nat) /\ DOMAIN ins = 1 .. Len(ins)
      /\ \A i \in 1 .. Len(ins) : ins[i] \in Outs(tasks)
      /\ l \in Nat /\ tasks \in Seq(TaskRecs)
    BY VisitableIs
<1>2. T \in TaskRecs /\ T.type = plan[n].op
  <2>1. plan[n].op \in Types /\ 1 \in Nat \ {0} /\ TopInfos(0) \in Infos
    BY TopInfosIs DEF Types
  <2>. HIDE DEF ins
  <2>. QED BY <1>1, <2>1, TaskIs
<1>3. OneTask(n).new = new /\ OneTask(n).group = g
    BY DEF OneTask, Id
<1>. DEFINE N == TaskRecs
<1>4. new \in Seq(N) /\ Len(new) = 1 /\ new[1] = T /\ DOMAIN new = {1}
  <2>1. T \in N
    BY <1>2
  <2>. HIDE DEF T, N
  <2>. QED BY <2>1
<1>. HIDE DEF T, new
<1>5. Grown(tasks, new, us)
    BY <1>1, <1>4, GrownIs DEF N
<1>. HIDE DEF us, l
<1>6. us[l + 1] = T /\ l + 1 \in DOMAIN us /\ l + 1 \in Nat
    BY <1>1, <1>4, <1>5 DEF Grown, l
<1>7. TaskFits(plan, us, l + 1, T)
  <2>1. /\ plan[n].op \in Types \ {"producer", "consumer", "split"}
        /\ 1 \in Nat \ {0} /\ TopInfos(0) \in Infos
    BY TopInfosIs DEF Types
  <2>2. \A i \in DOMAIN ins : ins[i] \in 1 .. (l + 1) - 1 /\ us[ins[i]].type # "producer"
    <3>1. ASSUME NEW i \in DOMAIN ins PROVE OldTask(ins[i], 1, us)
      <4>1. ins[i] \in Outs(tasks) /\ 1 \in Nat \ {0}
        BY <1>1
      <4>. HIDE DEF ins
      <4>. QED BY <1>5, <4>1, OldTaskIs
    <3>. QED BY <3>1 DEF OldTask, l
  <2>. HIDE DEF ins
  <2>3. TaskFits(plan, us, l + 1, Task(plan[n].op, n, TopInfos(0), 1, ins))
    BY <1>1, <2>1, <2>2, UsualTaskFits
  <2>. QED BY <2>3 DEF T, ins
<1>8. GroupFits(plan, us, group, n, g)
  <2>1. l + 1 \in Outs(us)
    BY <1>2, <1>6 DEF Outs
  <2>. DEFINE x == l + 1
              O == Outs(us)
  <2>2. x \in O /\ us[x].type = plan[n].op
    BY <1>2, <1>6, <2>1
  <2>3. g = <<x>>
    OBVIOUS
  <2>. HIDE DEF x, O, g
  <2>4. g \in Seq(O) /\ DOMAIN g = {1} /\ g[1] = x
    BY <2>2, <2>3
  <2>. QED BY <2>2, <2>4 DEF GroupFits, O
<1>9. \A k \in DOMAIN new : TaskFits(plan, us, l + k, new[k])
    BY <1>4, <1>7
<1>. QED BY <1>3, <1>4, <1>8, <1>9 DEF Fits, us, l, N

\* A function over the first numbers, then a sequence.
Followed(N, m, a, b, w) ==
    /\ w \in Seq(N) /\ Len(w) = m + Len(b) /\ DOMAIN w = 1 .. m + Len(b)
    /\ \A i \in 1..m : w[i] = a[i]
    /\ \A j \in DOMAIN b : w[m + j] = b[j]

LEMMA FollowedIs ==
    ASSUME NEW N, NEW m \in Nat, NEW a \in [1..m -> N], NEW b \in Seq(N)
    PROVE  Followed(N, m, a, b, a \o b) /\ a \in Seq(N) /\ Len(a) = m /\ DOMAIN a = 1..m
<1>1. a \in Seq(N) /\ Len(a) = m /\ DOMAIN a = 1..m
    BY FunctionIsSeq
<1>2. Len(b) \in Nat /\ DOMAIN b = 1 .. Len(b)
    BY SeqIs
<1>. DEFINE w == a \o b
<1>3. Concatenated(a, b, w, N)
    BY <1>1, ConcatIsConcatenated
<1>. HIDE DEF w
<1>4. /\ w \in Seq(N) /\ DOMAIN w = 1 .. m + Len(b)
      /\ \A k \in 1..m : w[k] = a[k]
      /\ \A k \in m + 1 .. m + Len(b) : w[k] = b[k - m]
    BY <1>1, <1>3 DEF Concatenated
<1>5. Len(w) = m + Len(b)
  <2>. DEFINE c == m + Len(b)
              l == Len(w)
  <2>1. c \in Nat /\ l \in Nat /\ 1..l = 1..c
    BY <1>2, <1>4, SeqIs
  <2>. HIDE DEF c, l
  <2>2. l = c
    BY <2>1
  <2>. QED BY <2>2 DEF c, l
<1>6. ASSUME NEW j \in DOMAIN b PROVE w[m + j] = b[j]
  <2>1. m + j \in m + 1 .. m + Len(b) /\ (m + j) - m = j
    BY <1>2
  <2>. QED BY <1>4, <2>1
<1>. QED BY <1>1, <1>4, <1>5, <1>6 DEF Followed, w

\* The ids of the first m new tasks.
NewIds(m) == [i \in 1..m |-> Id(i)]

LEMMA NewIdsAre ==
    ASSUME NEW m \in Nat, Len(tasks) \in Nat
    PROVE  /\ NewIds(m) \in Seq(Nat) /\ Len(NewIds(m)) = m /\ DOMAIN NewIds(m) = 1..m
           /\ \A i \in 1..m : NewIds(m)[i] = Len(tasks) + i
<1>. DEFINE l == Len(tasks)
            w == NewIds(m)
<1>1. w = [i \in 1..m |-> l + i]
    BY DEF NewIds, Id
<1>. HIDE DEF l, w
<1>2. l \in Nat
    BY DEF l
<1>3. w \in [1..m -> Nat] /\ \A i \in 1..m : w[i] = l + i
    BY <1>1, <1>2
<1>4. w \in Seq(Nat) /\ Len(w) = m /\ DOMAIN w = 1..m
    BY <1>3, FunctionIsSeq
<1>. QED BY <1>3, <1>4 DEF l, w

\* A task that reads one input task of the node.
LEMMA OneInputFits ==
    ASSUME NEW n, Visitable(n), NEW us, NEW new, Grown(tasks, new, us), NEW k \in Nat \ {0},
           NEW i \in 1 .. Len(InputTasks(n)), NEW infos \in Infos,
           NEW type \in {"sink", "projection", "compute"},
           type = "compute" => plan[n].op \in {"sql", "compute", "limit"}
    PROVE  /\ TaskFits(plan, us, Len(tasks) + k, Task(type, n, infos, 1, <<InputTasks(n)[i]>>))
           /\ Task(type, n, infos, 1, <<InputTasks(n)[i]>>) \in TaskRecs
<1>. DEFINE x == InputTasks(n)[i]
            s == <<x>>
            t == Len(tasks) + k
<1>1. n \in DOMAIN plan /\ n \in Nat /\ x \in Outs(tasks)
    BY VisitableIs
<1>. HIDE DEF x
<1>2. OldTask(x, k, us)
    BY <1>1, OldTaskIs
<1>3. /\ s \in Seq(Nat) /\ Len(s) = 1 /\ s # <<>>
      /\ \A j \in DOMAIN s : s[j] \in 1 .. t - 1 /\ us[s[j]].type # "producer"
    BY <1>2 DEF OldTask
<1>4. type \in Types \ {"producer", "consumer", "split"} /\ 1 \in Nat \ {0}
    BY DEF Types
<1>. HIDE DEF s, t
<1>5. /\ TaskFits(plan, us, t, Task(type, n, infos, 1, s))
      /\ Task(type, n, infos, 1, s) \in TaskRecs
    BY <1>1, <1>3, <1>4, UsualTaskFits
<1>. QED BY <1>5 DEF s, t, x

\* The task infos of the inputs.
LEMMA InputInfos ==
    ASSUME NEW n, Visitable(n), NEW i \in 1 .. Len(InputTasks(n))
    PROVE  tasks[InputTasks(n)[i]] \in TaskRecs /\ tasks[InputTasks(n)[i]].infos \in Infos
<1>. DEFINE x == InputTasks(n)[i]
            N == TaskRecs
<1>1. x \in Outs(tasks) /\ tasks \in Seq(N)
    BY VisitableIs
<1>. HIDE DEF N, x
<1>2. x \in DOMAIN tasks
    BY <1>1 DEF Outs
<1>3. tasks[x] \in N
    BY <1>1, <1>2, SeqIs
<1>. QED BY <1>3 DEF N, x, TaskRecs

\* A union has the tasks of its inputs.
LEMMA UnionFits ==
    ASSUME NEW n, Visitable(n), plan[n].op = "union"
    PROVE  Fits(n, PlanUnion(n).new, PlanUnion(n).group)
<1>. DEFINE e == <<>>
            us == tasks \o e
            g == InputTasks(n)
<1>1. PlanUnion(n).new = e /\ PlanUnion(n).group = g
    BY DEF PlanUnion
<1>2. e \in Seq(TaskRecs) /\ DOMAIN e = {} /\ Len(e) = 0
    BY EmptyIsSeq
<1>3. g \in Seq(Outs(tasks)) /\ tasks \in Seq(TaskRecs)
    BY VisitableIs
<1>. HIDE DEF e, g
<1>4. Grown(tasks, e, us)
    BY <1>2, <1>3, GrownIs
<1>. HIDE DEF us
<1>5. Outs(tasks) \subseteq Outs(us)
  <2>1. \A t \in DOMAIN tasks : t \in DOMAIN us /\ us[t] = tasks[t]
    BY <1>2, <1>4 DEF Grown
  <2>. QED BY <2>1 DEF Outs
<1>6. g \in Seq(Outs(us))
    BY <1>3, <1>5, SeqGrows
<1>7. GroupFits(plan, us, group, n, g)
    BY <1>6 DEF GroupFits
<1>. QED BY <1>1, <1>2, <1>7 DEF Fits, us

\* A sink that copies.
LEMMA SinkFits ==
    ASSUME NEW n, Visitable(n), plan[n].op = "sink"
    PROVE  Fits(n, PlanSink(n).new, PlanSink(n).group)
<1>1. CASE ~plan[n].copy
    BY <1>1, OneTaskFits DEF PlanSink
<1>2. CASE plan[n].copy
  <2>. DEFINE ins == InputTasks(n)
              m == Len(ins)
              l == Len(tasks)
              a == [i \in 1..m |-> Task("sink", n, TopInfos(i - 1), 1, <<ins[i]>>)]
              X == Task("sink", n, TopInfos(0), 1, NewIds(m))
              b == <<X>>
              new == a \o b
              us == tasks \o new
              x == Id(m + 1)
              g == <<x>>
              N == TaskRecs
  <2>1. PlanSink(n).new = new /\ PlanSink(n).group = g
      BY <1>2 DEF PlanSink, NewIds
  <2>2. m \in Nat /\ l \in Nat /\ n \in DOMAIN plan /\ n \in Nat /\ tasks \in Seq(N)
      BY VisitableIs
  <2>3. NewIds(m) \in Seq(Nat) /\ DOMAIN NewIds(m) = 1..m /\ \A i \in 1..m : NewIds(m)[i] = l + i
      BY <2>2, NewIdsAre
  <2>4. ASSUME NEW i \in 1..m, NEW vs, NEW v, Grown(tasks, v, vs)
        PROVE  /\ TaskFits(plan, vs, l + i, Task("sink", n, TopInfos(i - 1), 1, <<ins[i]>>))
               /\ Task("sink", n, TopInfos(i - 1), 1, <<ins[i]>>) \in N
    <3>1. i \in Nat \ {0} /\ i - 1 \in Nat
      BY <2>2
    <3>2. TopInfos(i - 1) \in Infos
      BY <3>1, TopInfosIs
    <3>. QED BY <2>4, <3>1, <3>2, OneInputFits
  <2>5. a \in [1..m -> N]
    <3>1. Grown(tasks, <<>>, tasks \o <<>>)
      BY <2>2, EmptyIsSeq, GrownIs
    <3>2. \A i \in 1..m : Task("sink", n, TopInfos(i - 1), 1, <<ins[i]>>) \in N
      BY <2>4, <3>1
    <3>. HIDE DEF N
    <3>. QED BY <3>2
  <2>6. X \in N /\ X.type = "sink"
    <3>1. "sink" \in Types /\ 1 \in Nat \ {0} /\ TopInfos(0) \in Infos
      BY TopInfosIs DEF Types
    <3>. QED BY <2>2, <2>3, <3>1, TaskIs
  <2>. HIDE DEF X, N
  <2>7. b \in Seq(N) /\ Len(b) = 1 /\ DOMAIN b = {1} /\ b[1] = X
      BY <2>6
  <2>. HIDE DEF b
  <2>8. /\ new \in Seq(N) /\ Len(new) = m + 1 /\ DOMAIN new = 1 .. m + 1 /\ new[m + 1] = X
        /\ \A i \in 1..m : new[i] = Task("sink", n, TopInfos(i - 1), 1, <<ins[i]>>)
    <3>1. Followed(N, m, a, b, new)
      BY <2>2, <2>5, <2>7, FollowedIs
    <3>. HIDE DEF new
    <3>. QED BY <2>7, <3>1 DEF Followed
  <2>. HIDE DEF new, a
  <2>9. Grown(tasks, new, us)
      BY <2>2, <2>8, GrownIs DEF N
  <2>. HIDE DEF us
  <2>10. \A i \in 1 .. m + 1 : us[l + i] = new[i] /\ l + i \in DOMAIN us
    <3>. HIDE DEF m
    <3>. QED BY <2>2, <2>8, <2>9 DEF Grown, l
  <2>11. x = l + (m + 1)
      BY DEF Id
  <2>12. \A i \in 1..m : new[i].type = "sink"
    <3>1. ASSUME NEW i \in 1..m PROVE new[i].type = "sink"
      <4>1. new[i] = Task("sink", n, TopInfos(i - 1), 1, <<ins[i]>>)
        BY <2>8
      <4>. QED BY <4>1 DEF Task
    <3>. QED BY <3>1
  <2>13. TaskFits(plan, us, l + (m + 1), X)
    <3>1. "sink" \in Types \ {"producer", "consumer", "split"} /\ 1 \in Nat \ {0} /\ TopInfos(0) \in Infos
      BY TopInfosIs DEF Types
    <3>. DEFINE t == l + (m + 1)
                ids == NewIds(m)
    <3>2. ASSUME NEW i \in DOMAIN ids PROVE ids[i] \in 1 .. t - 1 /\ us[ids[i]].type # "producer"
      <4>1. i \in 1..m /\ ids[i] = l + i /\ i \in 1 .. m + 1
        BY <2>2, <2>3
      <4>2. us[ids[i]].type = "sink"
        BY <2>10, <2>12, <4>1
      <4>3. ids[i] \in 1 .. t - 1
        <5>. HIDE DEF ids, m, l
        <5>. QED BY <2>2, <4>1
      <4>. QED BY <4>2, <4>3
    <3>. HIDE DEF t, ids
    <3>3. TaskFits(plan, us, t, Task("sink", n, TopInfos(0), 1, ids))
      BY <2>2, <2>3, <3>1, <3>2, UsualTaskFits DEF ids
    <3>. QED BY <3>3 DEF t, ids, X
  <2>14. ASSUME NEW k \in DOMAIN new PROVE TaskFits(plan, us, l + k, new[k])
    <3>1. CASE k \in 1..m
      <4>1. new[k] = Task("sink", n, TopInfos(k - 1), 1, <<ins[k]>>)
        BY <2>8, <3>1
      <4>. HIDE DEF m, l, ins
      <4>. QED BY <2>4, <2>9, <3>1, <4>1
    <3>2. CASE k = m + 1
      BY <2>8, <2>13, <3>2
    <3>. QED BY <2>2, <2>8, <3>1, <3>2
  <2>15. GroupFits(plan, us, group, n, g)
    <3>1. x \in Outs(us)
      <4>1. m + 1 \in 1 .. m + 1
        BY <2>2
      <4>2. us[x] = X /\ x \in DOMAIN us
        BY <2>8, <2>10, <2>11, <4>1
      <4>. QED BY <2>6, <4>2 DEF Outs
    <3>. DEFINE O == Outs(us)
    <3>2. x \in O
      BY <3>1
    <3>. HIDE DEF x, O
    <3>3. g \in Seq(O)
      BY <3>2
    <3>. QED BY <3>3 DEF GroupFits, O
  <2>. QED BY <2>1, <2>8, <2>14, <2>15 DEF Fits, us, l, N
<1>. QED BY <1>1, <1>2

\* A group of new tasks, all with one dataset for an output.
NewGroup(us, new, off, m, g) ==
    /\ g \in Seq(Outs(us)) /\ Len(g) = m /\ DOMAIN g = 1..m
    /\ \A i \in 1..m : /\ g[i] = Len(tasks) + (off + i) /\ us[g[i]] = new[off + i]
                       /\ g[i] \in Outs(us)

LEMMA NewGroupIs ==
    ASSUME NEW us, NEW new, Grown(tasks, new, us), NEW off \in Nat, NEW m \in Nat,
           off + m <= Len(new), \A i \in 1..m : new[off + i].type # "producer"
    PROVE  NewGroup(us, new, off, m, [i \in 1..m |-> Id(off + i)])
<1>. DEFINE l == Len(tasks)
            g == [i \in 1..m |-> Id(off + i)]
            O == Outs(us)
<1>1. \A i \in 1..m : g[i] = l + (off + i)
    BY DEF Id
<1>2. l \in Nat /\ Len(new) \in Nat /\ DOMAIN us = 1 .. l + Len(new)
    BY DEF Grown
<1>3. ASSUME NEW i \in 1..m PROVE l + (off + i) \in O /\ us[l + (off + i)] = new[off + i]
  <2>1. off + i \in 1 .. Len(new)
    BY <1>2
  <2>2. us[l + (off + i)] = new[off + i]
    BY <2>1 DEF Grown
  <2>3. l + (off + i) \in DOMAIN us
    <3>. HIDE DEF l
    <3>. QED BY <1>2, <2>1
  <2>. QED BY <2>2, <2>3 DEF Outs
<1>4. g \in [1..m -> O]
  <2>1. \A i \in 1..m : g[i] \in O
    BY <1>1, <1>3
  <2>. HIDE DEF O
  <2>. QED BY <2>1
<1>. HIDE DEF g
<1>5. g \in Seq(O) /\ Len(g) = m /\ DOMAIN g = 1..m
  <2>. HIDE DEF O
  <2>. QED BY <1>4, FunctionIsSeq
<1>. QED BY <1>1, <1>3, <1>5 DEF NewGroup, g

\* The new tasks that read one input task each.
LEMMA OnesTyped ==
    ASSUME NEW n, Visitable(n), NEW type \in {"sink", "projection", "compute"},
           type = "compute" => plan[n].op \in {"sql", "compute", "limit"}
    PROVE  [i \in 1 .. Len(InputTasks(n)) |->
              Task(type, n, tasks[InputTasks(n)[i]].infos, 1, <<InputTasks(n)[i]>>)]
                \in [1 .. Len(InputTasks(n)) -> TaskRecs]
<1>. DEFINE ins == InputTasks(n)
            m == Len(ins)
            e == <<>>
            N == TaskRecs
            X(i) == Task(type, n, tasks[ins[i]].infos, 1, <<ins[i]>>)
<1>1. tasks \in Seq(TaskRecs) /\ e \in Seq(TaskRecs) /\ m \in Nat
    BY VisitableIs, EmptyIsSeq
<1>. HIDE DEF e
<1>2. Grown(tasks, e, tasks \o e)
    BY <1>1, GrownIs
<1>3. ASSUME NEW i \in 1..m PROVE X(i) \in N
  <2>1. tasks[ins[i]].infos \in Infos
    BY InputInfos
  <2>2. 1 \in Nat \ {0}
    OBVIOUS
  <2>. QED BY <1>2, <2>1, <2>2, OneInputFits
<1>. HIDE DEF N, X
<1>4. [i \in 1..m |-> X(i)] \in [1..m -> N]
    BY <1>3
<1>. QED BY <1>4 DEF N, X

\* A projection for every input task.
LEMMA ProjectionFits ==
    ASSUME NEW n, Visitable(n), plan[n].op = "projection"
    PROVE  Fits(n, OnePerInput(n).new, OnePerInput(n).group)
<1>. DEFINE ins == InputTasks(n)
            m == Len(ins)
            l == Len(tasks)
            X(i) == Task("projection", n, tasks[ins[i]].infos, 1, <<ins[i]>>)
            new == [i \in 1..m |-> X(i)]
            us == tasks \o new
            g == [i \in 1..m |-> Id(i)]
            N == TaskRecs
<1>1. m \in Nat /\ l \in Nat /\ DOMAIN ins = 1..m /\ tasks \in Seq(N)
    BY VisitableIs
<1>2. OnePerInput(n).new = new /\ OnePerInput(n).group = g
    BY <1>1 DEF OnePerInput
<1>3. new \in [1..m -> N]
    BY OnesTyped
<1>4. \A i \in 1..m : new[i] = X(i)
    OBVIOUS
<1>. HIDE DEF N, new
<1>5. new \in Seq(N) /\ Len(new) = m /\ DOMAIN new = 1..m
    BY <1>1, <1>3, FunctionIsSeq
<1>6. Grown(tasks, new, us)
    BY <1>1, <1>5, GrownIs DEF N
<1>. HIDE DEF us
<1>7. ASSUME NEW k \in DOMAIN new PROVE TaskFits(plan, us, l + k, new[k])
  <2>1. k \in 1..m /\ k \in Nat \ {0} /\ tasks[ins[k]].infos \in Infos
    BY <1>1, <1>5, InputInfos
  <2>2. TaskFits(plan, us, l + k, X(k))
    BY <1>6, <2>1, OneInputFits
  <2>. QED BY <1>4, <2>1, <2>2
<1>8. GroupFits(plan, us, group, n, g)
  <2>1. \A i \in 1..m : new[0 + i].type # "producer"
    <3>1. ASSUME NEW i \in 1..m PROVE new[i].type # "producer"
      <4>1. new[i] = X(i)
        BY <1>4
      <4>2. X(i).type = "projection"
        BY DEF Task
      <4>. QED BY <4>1, <4>2
    <3>. QED BY <1>1, <3>1
  <2>2. NewGroup(us, new, 0, m, [i \in 1..m |-> Id(0 + i)])
    <3>1. 0 \in Nat /\ 0 + m <= Len(new)
      BY <1>1, <1>5
    <3>. HIDE DEF m
    <3>. QED BY <1>1, <1>6, <2>1, <3>1, NewGroupIs
  <2>3. g = [i \in 1..m |-> Id(0 + i)]
    <3>1. \A i \in 1..m : 0 + i = i
      BY <1>1
    <3>. QED BY <3>1
  <2>. HIDE DEF g
  <2>. QED BY <2>2, <2>3 DEF NewGroup, GroupFits
<1>. QED BY <1>2, <1>5, <1>7, <1>8 DEF Fits, us, l, N

\* A limit of every input, and of them all.
LEMMA LimitFits ==
    ASSUME NEW n, Visitable(n), plan[n].op = "limit"
    PROVE  Fits(n, PlanLimit(n).new, PlanLimit(n).group)
<1>. DEFINE ins == InputTasks(n)
            m == Len(ins)
            l == Len(tasks)
            X(i) == Task("compute", n, tasks[ins[i]].infos, 1, <<ins[i]>>)
            a == [i \in 1..m |-> X(i)]
            ids == NewIds(m)
            M == Task("merge", n, TopInfos(0), 1, ids)
            x == Id(m + 1)
            only == <<x>>
            T == Task("compute", n, TopInfos(0), 1, only)
            b == <<M, T>>
            new == a \o b
            us == tasks \o new
            y == Id(m + 2)
            g == <<y>>
            N == TaskRecs
<1>1. m \in Nat /\ l \in Nat /\ DOMAIN ins = 1..m /\ tasks \in Seq(N) /\ n \in DOMAIN plan /\ n \in Nat
    BY VisitableIs
<1>2. PlanLimit(n).new = new /\ PlanLimit(n).group = g
    BY DEF PlanLimit, NewIds
<1>3. x = l + (m + 1) /\ y = l + (m + 2)
    BY DEF Id
<1>4. ids \in Seq(Nat) /\ Len(ids) = m /\ DOMAIN ids = 1..m /\ \A i \in 1..m : ids[i] = l + i
    BY <1>1, NewIdsAre
<1>5. a \in [1..m -> N] /\ \A i \in 1..m : a[i] = X(i)
    BY OnesTyped
<1>. HIDE DEF x, y
<1>6. only \in Seq(Nat) /\ Len(only) = 1 /\ DOMAIN only = {1} /\ only[1] = x /\ only # <<>>
  <2>1. x \in Nat
    BY <1>1, <1>3
  <2>. QED BY <2>1
<1>7. /\ "merge" \in Types \ {"producer", "consumer", "split"}
      /\ "compute" \in Types \ {"producer", "consumer", "split"}
      /\ 1 \in Nat \ {0} /\ TopInfos(0) \in Infos
    BY TopInfosIs DEF Types
<1>8. M \in N /\ M.type = "merge" /\ M.inputs = ids
  <2>. HIDE DEF ids
  <2>. QED BY <1>1, <1>4, <1>7, TaskIs
<1>9. T \in N /\ T.type = "compute" /\ T.node = n /\ T.inputs = only
  <2>. HIDE DEF only
  <2>. QED BY <1>1, <1>6, <1>7, TaskIs
<1>10. T.inputs = <<x>>
    BY <1>9
<1>. HIDE DEF M, T, N, only, ids
<1>11. b \in Seq(N) /\ Len(b) = 2 /\ DOMAIN b = {1, 2} /\ b[1] = M /\ b[2] = T
    BY <1>8, <1>9
<1>. HIDE DEF b, a
<1>12. Followed(N, m, a, b, new)
    BY <1>1, <1>5, <1>11, FollowedIs
<1>. HIDE DEF new
<1>13. /\ new \in Seq(N) /\ Len(new) = m + 2 /\ DOMAIN new = 1 .. m + 2
       /\ \A i \in 1..m : new[i] = X(i)
       /\ new[m + 1] = M /\ new[m + 2] = T
    BY <1>5, <1>11, <1>12 DEF Followed
<1>14. Grown(tasks, new, us)
    BY <1>1, <1>13, GrownIs DEF N
<1>. HIDE DEF us
<1>15. \A i \in 1 .. m + 2 : us[l + i] = new[i] /\ l + i \in DOMAIN us
  <2>. HIDE DEF m
  <2>. QED BY <1>1, <1>13, <1>14 DEF Grown, l
<1>16. us[x] = M /\ us[y] = T /\ x \in DOMAIN us /\ y \in DOMAIN us
  <2>1. m + 1 \in 1 .. m + 2 /\ m + 2 \in 1 .. m + 2
    BY <1>1
  <2>. QED BY <1>3, <1>13, <1>15, <2>1
<1>17. ASSUME NEW i \in 1..m
       PROVE  /\ ids[i] \in DOMAIN us /\ us[ids[i]].type = "compute" /\ us[ids[i]].node = n
              /\ us[ids[i]].inputs = <<ins[i]>> /\ ids[i] \in 1 .. l + m
  <2>1. i \in 1 .. m + 2 /\ l + i \in 1 .. l + m
    BY <1>1
  <2>2. us[ids[i]] = X(i) /\ ids[i] \in DOMAIN us
    BY <1>4, <1>13, <1>15, <2>1
  <2>3. X(i).type = "compute" /\ X(i).node = n /\ X(i).inputs = <<ins[i]>>
    BY DEF Task
  <2>. QED BY <1>4, <2>1, <2>2, <2>3
<1>18. TaskFits(plan, us, l + (m + 1), M)
  <2>. DEFINE t == l + (m + 1)
  <2>1. ASSUME NEW i \in DOMAIN ids PROVE ids[i] \in 1 .. t - 1 /\ us[ids[i]].type # "producer"
    <3>1. 1 .. l + m = 1 .. t - 1
      BY <1>1
    <3>. QED BY <1>4, <1>17, <3>1
  <2>. HIDE DEF t
  <2>2. TaskFits(plan, us, t, Task("merge", n, TopInfos(0), 1, ids))
    <3>1. ~IsLoad(plan, n)
      BY DEF IsLoad
    <3>. QED BY <1>1, <1>4, <1>7, <2>1, <3>1, UsualTaskFits
  <2>. QED BY <2>2 DEF t, M
<1>19. TaskFits(plan, us, l + (m + 2), T)
  <2>. DEFINE t == l + (m + 2)
  <2>1. ASSUME NEW i \in DOMAIN only PROVE only[i] \in 1 .. t - 1 /\ us[only[i]].type # "producer"
    <3>1. l + (m + 1) \in 1 .. t - 1
      BY <1>1
    <3>. QED BY <1>3, <1>6, <1>8, <1>16, <3>1
  <2>. HIDE DEF t
  <2>2. TaskFits(plan, us, t, Task("compute", n, TopInfos(0), 1, only))
    BY <1>1, <1>6, <1>7, <2>1, UsualTaskFits
  <2>. QED BY <2>2 DEF t, T
<1>20. ASSUME NEW k \in DOMAIN new PROVE TaskFits(plan, us, l + k, new[k])
  <2>1. CASE k \in 1..m
    <3>1. k \in Nat \ {0} /\ tasks[ins[k]].infos \in Infos
      BY <1>1, <2>1, InputInfos
    <3>2. TaskFits(plan, us, l + k, X(k))
      BY <1>14, <2>1, <3>1, OneInputFits
    <3>. QED BY <1>13, <2>1, <3>2
  <2>2. CASE k = m + 1
    BY <1>13, <1>18, <2>2
  <2>3. CASE k = m + 2
    BY <1>13, <1>19, <2>3
  <2>. QED BY <1>1, <1>13, <2>1, <2>2, <2>3
<1>21. GroupFits(plan, us, group, n, g)
  <2>1. plan[n].deps[1] \in DOMAIN group /\ group[plan[n].deps[1]] = ins
    <3>1. Len(plan[n].deps) = 1
      BY VisitableIs DEF NodeOK
    <3>2. DOMAIN plan[n].deps = {1}
      BY <1>1, <3>1, OnlyDep DEF Visitable
    <3>. QED BY <1>1, <3>1, <3>2, InputTasksAre DEF Visitable
  <2>2. LimitShape(us, n, ins, g)
    <3>1. g = <<y>>
      OBVIOUS
    <3>. HIDE DEF g, ins
    <3>2. Len(us[x].inputs) = m /\ us[x].inputs = ids /\ us[x].type = "merge"
      BY <1>4, <1>8, <1>16
    <3>. QED BY <1>1, <1>9, <1>10, <1>16, <1>17, <3>1, <3>2 DEF LimitShape, m
  <2>3. g \in Seq(Outs(us))
    <3>. DEFINE O == Outs(us)
    <3>1. y \in O
      BY <1>9, <1>16 DEF Outs
    <3>. HIDE DEF O
    <3>2. g \in Seq(O)
      BY <3>1
    <3>. QED BY <3>2 DEF O
  <2>. QED BY <2>1, <2>2, <2>3 DEF GroupFits
<1>. QED BY <1>2, <1>13, <1>20, <1>21 DEF Fits, us, l, N

\* A task that reads tasks there were.
LEMMA OldInputsFit ==
    ASSUME NEW n, Visitable(n), NEW us, NEW new, Grown(tasks, new, us), NEW k \in Nat \ {0},
           NEW infos \in Infos, NEW type \in {"source", "root", "sink", "compute", "merge"},
           NEW inputs \in Seq(Outs(tasks)), NEW np \in Nat \ {0},
           type = "compute" => inputs # <<>> /\ plan[n].op \in {"sql", "compute", "limit"},
           type = "source" => plan[n].op = "source",
           type = "merge" /\ IsLoad(plan, n) /\ LoadsIn(plan) =>
                \A i \in DOMAIN inputs : tasks[inputs[i]].type = "source"
    PROVE  /\ TaskFits(plan, us, Len(tasks) + k, Task(type, n, infos, np, inputs))
           /\ Task(type, n, infos, np, inputs) \in TaskRecs
<1>. DEFINE O == Outs(tasks)
            t == Len(tasks) + k
<1>1. n \in DOMAIN plan /\ n \in Nat /\ DOMAIN tasks = 1 .. Len(tasks)
    BY VisitableIs
<1>2. O \subseteq Nat
    BY <1>1 DEF Outs
<1>3. inputs \in Seq(O)
    OBVIOUS
<1>. HIDE DEF O
<1>4. inputs \in Seq(Nat) /\ \A i \in DOMAIN inputs : inputs[i] \in O
    BY <1>2, <1>3, SeqGrows, SeqIs
<1>5. ASSUME NEW i \in DOMAIN inputs PROVE OldTask(inputs[i], k, us)
    BY <1>4, OldTaskIs DEF O
<1>6. type \in Types \ {"producer", "consumer", "split"} /\ type # "projection"
    BY DEF Types
<1>7. \A i \in DOMAIN inputs : inputs[i] \in 1 .. t - 1 /\ us[inputs[i]].type # "producer"
    BY <1>5 DEF OldTask
<1>8. type = "merge" /\ IsLoad(plan, n) /\ LoadsIn(plan) =>
        \A i \in DOMAIN inputs : Plain(us[inputs[i]], n)
    BY <1>5 DEF OldTask, Plain
<1>. HIDE DEF t
<1>9. /\ TaskFits(plan, us, t, Task(type, n, infos, np, inputs))
      /\ Task(type, n, infos, np, inputs) \in TaskRecs
    BY <1>1, <1>4, <1>6, <1>7, <1>8, UsualTaskFits
<1>. QED BY <1>9 DEF t

\* Every new task stands for the node.
LEMMA AllFit ==
    ASSUME NEW n, Visitable(n), plan[n].op \notin {"source", "partition", "limit"},
           NEW m \in Nat, NEW f \in [1..m -> TaskRecs], \A i \in 1..m : f[i].type # "producer",
           \A us : Grown(tasks, f, us) =>
                        \A i \in 1..m : TaskFits(plan, us, Len(tasks) + i, f[i])
    PROVE  Fits(n, f, [i \in 1..m |-> Id(i)])
<1>. DEFINE us == tasks \o f
            g == [i \in 1..m |-> Id(i)]
            N == TaskRecs
<1>1. tasks \in Seq(N)
    BY VisitableIs
<1>2. f \in [1..m -> N]
    OBVIOUS
<1>. HIDE DEF N
<1>3. f \in Seq(N) /\ Len(f) = m /\ DOMAIN f = 1..m
    BY <1>2, FunctionIsSeq
<1>4. Grown(tasks, f, us)
    BY <1>1, <1>3, GrownIs DEF N
<1>. HIDE DEF us
<1>5. \A i \in DOMAIN f : TaskFits(plan, us, Len(tasks) + i, f[i])
    BY <1>3, <1>4
<1>6. NewGroup(us, f, 0, m, [i \in 1..m |-> Id(0 + i)])
  <2>1. 0 \in Nat /\ 0 + m <= Len(f) /\ \A i \in 1..m : f[0 + i].type # "producer"
    BY <1>3
  <2>. QED BY <1>4, <2>1, NewGroupIs
<1>7. g = [i \in 1..m |-> Id(0 + i)]
  <2>1. \A i \in 1..m : 0 + i = i
    OBVIOUS
  <2>. QED BY <2>1
<1>. HIDE DEF g
<1>8. GroupFits(plan, us, group, n, g)
    BY <1>6, <1>7 DEF NewGroup, GroupFits
<1>. QED BY <1>3, <1>5, <1>8 DEF Fits, us, N, g

\* Partitions that agree in the dimensions kept are merged.
LEMMA ConsolidateFits ==
    ASSUME NEW n, Visitable(n), plan[n].op = "consolidate"
    PROVE  Fits(n, PlanConsolidate(n).new, PlanConsolidate(n).group)
<1>. DEFINE ins == InputTasks(n)
            m == Len(ins)
            kept(i) == Restrict(tasks[ins[i]].infos, plan[n].dims \cap Dims(ins[i]))
            ks == [i \in DOMAIN ins |-> kept(i)]
            keys == Distinct(ks)
            of(k) == ItemsAt(ins, {i \in DOMAIN ins : kept(i) = keys[k]})
            new == [k \in DOMAIN keys |-> Task("merge", n, keys[k], 1, of(k))]
            g == [k \in DOMAIN keys |-> Id(k)]
            c == Len(keys)
            O == Outs(tasks)
            I == Infos
            N == TaskRecs
<1>1. m \in Nat /\ DOMAIN ins = 1..m /\ ins \in Seq(O)
    BY VisitableIs
<1>2. PlanConsolidate(n).new = new /\ PlanConsolidate(n).group = g
    BY DEF PlanConsolidate
<1>3. ASSUME NEW i \in 1..m PROVE kept(i) \in I
  <2>1. tasks[ins[i]].infos \in I
    BY InputInfos
  <2>2. plan[n].dims \cap Dims(ins[i]) \in SUBSET DOMAIN tasks[ins[i]].infos
    BY DEF Dims
  <2>. QED BY <2>1, <2>2, RestrictedInfos
<1>. HIDE DEF kept, O, I, ins
<1>4. ks \in Seq(I) /\ DOMAIN ks = 1..m
  <2>1. ks \in [1..m -> I]
    BY <1>1, <1>3
  <2>. HIDE DEF ks
  <2>. QED BY <1>1, <2>1, FunctionIsSeq
<1>. HIDE DEF ks
<1>5. keys \in Seq(I) /\ c \in Nat /\ DOMAIN keys = 1..c
  <2>. DEFINE S == {i \in DOMAIN ks : \A j \in 1 .. i - 1 : ks[j] # ks[i]}
  <2>1. keys = ItemsAt(ks, S) /\ S \in SUBSET DOMAIN ks
    BY DEF Distinct
  <2>. HIDE DEF S, keys
  <2>. QED BY <1>4, <2>1, ItemsAtIs, SeqIs
<1>. HIDE DEF keys, c
<1>6. ASSUME NEW k \in 1..c PROVE keys[k] \in I /\ of(k) \in Seq(O)
  <2>. DEFINE S == {i \in DOMAIN ins : kept(i) = keys[k]}
  <2>1. of(k) = ItemsAt(ins, S) /\ S \in SUBSET DOMAIN ins
    OBVIOUS
  <2>. HIDE DEF S, of
  <2>. QED BY <1>1, <1>5, <2>1, ItemsAtIs, SeqIs
<1>. HIDE DEF of
<1>7. ASSUME NEW us, NEW v, Grown(tasks, v, us), NEW k \in 1..c
      PROVE  /\ TaskFits(plan, us, Len(tasks) + k, Task("merge", n, keys[k], 1, of(k)))
             /\ Task("merge", n, keys[k], 1, of(k)) \in N
  <2>1. ~IsLoad(plan, n) /\ k \in Nat \ {0} /\ 1 \in Nat \ {0}
    BY <1>5 DEF IsLoad
  <2>. QED BY <1>6, <1>7, <2>1, OldInputsFit DEF O, I
<1>8. new \in [1..c -> N] /\ \A k \in 1..c : new[k] = Task("merge", n, keys[k], 1, of(k))
  <2>1. Grown(tasks, <<>>, tasks \o <<>>)
    <3>1. tasks \in Seq(TaskRecs) /\ <<>> \in Seq(TaskRecs)
      BY VisitableIs, EmptyIsSeq
    <3>. QED BY <3>1, GrownIs
  <2>2. \A k \in 1..c : Task("merge", n, keys[k], 1, of(k)) \in N
    BY <1>7, <2>1
  <2>. HIDE DEF N
  <2>. QED BY <1>5, <2>2
<1>9. g = [k \in 1..c |-> Id(k)]
    BY <1>5
<1>. HIDE DEF new, g, N
<1>10. \A k \in 1..c : new[k].type # "producer"
  <2>1. ASSUME NEW k \in 1..c PROVE new[k].type # "producer"
    <3>1. Task("merge", n, keys[k], 1, of(k)).type = "merge"
      BY DEF Task
    <3>. QED BY <1>8, <3>1
  <2>. QED BY <2>1
<1>11. \A us : Grown(tasks, new, us) =>
            \A k \in 1..c : TaskFits(plan, us, Len(tasks) + k, new[k])
    BY <1>7, <1>8
<1>12. Fits(n, new, [k \in 1..c |-> Id(k)])
    BY <1>5, <1>8, <1>10, <1>11, AllFit DEF N
<1>. QED BY <1>2, <1>9, <1>12

LEMMA PositionOfMaxIs ==
    ASSUME NEW m \in Nat \ {0}, NEW less
    PROVE  PositionOfMax(m, less) \in 1..m
<1>. DEFINE S == 1..m
            M == [i \in S |-> i]
            Step(f, i) == IF i = 1 THEN 1 ELSE IF <<f[i - 1], i>> \in less THEN i ELSE f[i - 1]
            G == [i \in S |-> [f \in [S -> S] |-> Step(f, i)]]
            Eq(h) == h = [i \in S |-> Step(h, i)]
            best == CHOOSE h : Eq(h)
<1>1. PositionOfMax(m, less) = best[m]
    BY DEF PositionOfMax
<1>2. 1 \in S /\ m \in S /\ S # {} /\ \A i \in S : i \in Nat /\ (i # 1 => i - 1 \in S)
    OBVIOUS
<1>3. Recursion(S, S, M, G)
  <2>1. M \in [S -> Nat] /\ \A i \in S : M[i] = i
    BY <1>2
  <2>2. ASSUME NEW i \in S, NEW f \in [S -> S] PROVE Step(f, i) \in S
    <3>1. i # 1 => f[i - 1] \in S
      BY <1>2
    <3>. HIDE DEF S
    <3>. QED BY <1>2, <3>1
  <2>3. G \in [S -> [[S -> S] -> S]]
    <3>. HIDE DEF S, Step
    <3>. QED BY <2>2
  <2>4. ASSUME NEW i \in S, NEW f \in [S -> S], NEW h \in [S -> S],
               \A y \in S : M[y] < M[i] => f[y] = h[y]
        PROVE  G[i][f] = G[i][h]
    <3>1. i # 1 => f[i - 1] = h[i - 1]
      <4>1. i # 1 => i - 1 \in S /\ i - 1 < i
        BY <1>2
      <4>. HIDE DEF M, S
      <4>. QED BY <2>1, <2>4, <4>1
    <3>2. G[i][f] = Step(f, i) /\ G[i][h] = Step(h, i)
      <4>. HIDE DEF Step, S
      <4>. QED OBVIOUS
    <3>3. Step(f, i) = Step(h, i)
      BY <3>1
    <3>. HIDE DEF G
    <3>. QED BY <3>2, <3>3
  <2>. HIDE DEF M, G, S
  <2>. QED BY <2>1, <2>3, <2>4 DEF Recursion
<1>4. PICK f \in [S -> S] : \A x \in S : f[x] = G[x][f]
  <2>. HIDE DEF M, G, S
  <2>. QED BY <1>2, <1>3, RecursionExists
<1>5. Eq(f)
  <2>. HIDE DEF Step, S
  <2>1. \A x \in S : f[x] = Step(f, x)
    BY <1>4
  <2>2. f = [x \in S |-> f[x]]
    OBVIOUS
  <2>. QED BY <2>1, <2>2
<1>6. Eq(best)
  <2>. HIDE DEF Eq
  <2>. QED BY <1>5
<1>. HIDE DEF best
<1>7. best \in [S -> S]
  <2>1. DOMAIN best = S /\ \A i \in S : best[i] = Step(best, i)
    <3>. HIDE DEF Step, S
    <3>. QED BY <1>6
  <2>. DEFINE Good == {i \in S : best[i] \in S}
              Bad == S \ Good
  <2>2. ASSUME Bad # {} PROVE FALSE
    <3>1. Bad \in SUBSET Nat
      OBVIOUS
    <3>2. PICK x \in Bad : \A y \in Bad : x <= y
      <4>. HIDE DEF Bad
      <4>. QED BY <2>2, <3>1, LeastNumber
    <3>3. x # 1 => best[x - 1] \in S
      BY <1>2, <3>2
    <3>4. best[x] = Step(best, x)
      BY <2>1, <3>2
    <3>5. Step(best, x) \in S
      <4>. HIDE DEF S
      <4>1. x \in S
        BY <3>2
      <4>. QED BY <1>2, <3>3, <4>1
    <3>. QED BY <3>2, <3>4, <3>5
  <2>3. \A i \in S : best[i] \in S
    BY <2>2
  <2>4. best = [i \in S |-> best[i]]
    <3>. HIDE DEF Step, S
    <3>. QED BY <1>6
  <2>. HIDE DEF S, Eq
  <2>. QED BY <2>3, <2>4
<1>. QED BY <1>1, <1>2, <1>7

\* The greatest of some numbers up to a bound.
LEMMA GreatestNumber ==
    ASSUME NEW l \in Nat, NEW S \in SUBSET (1..l), S # {}
    PROVE  \E x \in S : \A y \in S : y <= x
<1>. DEFINE T == {l - x : x \in S}
<1>1. T \in SUBSET Nat /\ T # {}
  <2>1. PICK x \in S : TRUE
    OBVIOUS
  <2>2. l - x \in T
    BY <2>1
  <2>3. ASSUME NEW z \in T PROVE z \in Nat
    <3>1. PICK y \in S : z = l - y
      OBVIOUS
    <3>2. y \in 1..l
      OBVIOUS
    <3>. QED BY <3>1, <3>2
  <2>. QED BY <2>2, <2>3
<1>2. PICK z \in T : \A y \in T : z <= y
  <2>. HIDE DEF T
  <2>. QED BY <1>1, LeastNumber
<1>3. PICK x \in S : z = l - x
    OBVIOUS
<1>4. ASSUME NEW y \in S PROVE y <= x
  <2>1. z <= l - y
    BY <1>2
  <2>. QED BY <1>3, <2>1
<1>. QED BY <1>4

LEMMA LastMatchIs ==
    ASSUME NEW T, NEW g \in Seq(T), NEW infos, Matching(g, infos) # {}
    PROVE  LastMatch(g, infos) \in T
<1>. DEFINE S == Matching(g, infos)
            last == CHOOSE k \in S : \A j \in S : j <= k
            l == Len(g)
<1>1. l \in Nat /\ DOMAIN g = 1..l /\ \A k \in DOMAIN g : g[k] \in T
    BY SeqIs
<1>2. S \in SUBSET (1..l) /\ S # {}
    BY <1>1 DEF Matching
<1>. HIDE DEF S, l
<1>3. \E k \in S : \A j \in S : j <= k
    BY <1>1, <1>2, GreatestNumber
<1>4. last \in S
    BY <1>3
<1>5. LastMatch(g, infos) = g[last]
    BY DEF LastMatch, S
<1>. HIDE DEF last
<1>. QED BY <1>1, <1>2, <1>4, <1>5

\* A task for every partition of the input that decides, with the partitions of the
\* other inputs that match it.
LEMMA ComputeFits ==
    ASSUME NEW n, Visitable(n), plan[n].op \in {"sql", "compute"}, Compatible(n)
    PROVE  Fits(n, PlanCompute(n).new, PlanCompute(n).group)
<1>. DEFINE deps == plan[n].deps
            m == Len(deps)
            main == MainInput(n)
            inputs(i) == [d \in DOMAIN deps |-> LastMatch(group[deps[d]], tasks[main[i]].infos)]
            new == [i \in DOMAIN main |-> Task("compute", n, tasks[main[i]].infos, 1, inputs(i))]
            g == [i \in DOMAIN main |-> Id(i)]
            c == Len(main)
            O == Outs(tasks)
            N == TaskRecs
            SO == Seq(O)
<1>1. PlanCompute(n).new = new /\ PlanCompute(n).group = g
    BY DEF PlanCompute
<1>2. deps \in Seq(Nat) /\ m \in Nat \ {0} /\ DOMAIN deps = 1..m
  <2>1. deps \in Seq(Nat) /\ deps # <<>>
    BY VisitableIs, NodeIs DEF NodeOK
  <2>. HIDE DEF deps
  <2>. QED BY <2>1, SeqIs
<1>3. \A d \in 1..m : group[deps[d]] \in SO
    BY <1>2 DEF Visitable, GroupsOK, GroupFits
<1>4. main \in SO
  <2>. DEFINE gs == [i \in DOMAIN deps |-> group[deps[i]]]
              inf(i) == [k \in DOMAIN gs[i] |-> tasks[gs[i][k]].infos]
              lower(i) == {p \in (DOMAIN gs[i]) \X (DOMAIN gs[i]) :
                              InfosBefore(inf(i)[p[1]], inf(i)[p[2]])}
              top(i) == inf(i)[PositionOfMax(Len(gs[i]), lower(i))]
              ndims(i) == Cardinality(Dims(gs[i][1]))
              less == {p \in (DOMAIN gs) \X (DOMAIN gs) :
                          \/ ndims(p[1]) < ndims(p[2])
                          \/ ndims(p[1]) = ndims(p[2]) /\ InfosBefore(top(p[1]), top(p[2]))}
  <2>1. main = gs[PositionOfMax(Len(gs), less)]
    BY DEF MainInput
  <2>. HIDE DEF less, SO, deps, m
  <2>2. gs \in [1..m -> SO] /\ \A d \in 1..m : gs[d] \in SO
    BY <1>2, <1>3
  <2>. HIDE DEF gs
  <2>3. Len(gs) = m
    BY <1>2, <2>2, FunctionIsSeq
  <2>4. PositionOfMax(m, less) \in 1..m
    BY <1>2, PositionOfMaxIs
  <2>. HIDE DEF main
  <2>. QED BY <2>1, <2>2, <2>3, <2>4
<1>5. \A i \in DOMAIN main : \A d \in 1..m :
            Matching(group[deps[d]], tasks[main[i]].infos) # {}
    BY <1>2 DEF Compatible
<1>. HIDE DEF main
<1>6. c \in Nat /\ DOMAIN main = 1..c /\ \A i \in 1..c : main[i] \in O
  <2>. HIDE DEF O
  <2>. QED BY <1>4, SeqIs
<1>7. ASSUME NEW i \in 1..c PROVE inputs(i) \in Seq(O) /\ inputs(i) # <<>>
  <2>1. \A d \in 1..m : LastMatch(group[deps[d]], tasks[main[i]].infos) \in O
    <3>1. ASSUME NEW d \in 1..m PROVE LastMatch(group[deps[d]], tasks[main[i]].infos) \in O
      <4>. HIDE DEF O, deps
      <4>. QED BY <1>3, <1>5, <1>6, LastMatchIs
    <3>. QED BY <3>1
  <2>. DEFINE f == inputs(i)
  <2>. HIDE DEF O, deps, m
  <2>2. f \in [1..m -> O]
    BY <1>2, <2>1
  <2>. HIDE DEF f
  <2>3. f \in Seq(O) /\ Len(f) = m
    BY <1>2, <2>2, FunctionIsSeq
  <2>4. f # <<>>
    BY <1>2, <2>3, SeqIs
  <2>. QED BY <2>3, <2>4 DEF f
<1>8. ASSUME NEW i \in 1..c PROVE tasks[main[i]].infos \in Infos
  <2>. DEFINE x == main[i]
  <2>1. tasks \in Seq(N) /\ x \in DOMAIN tasks
    BY <1>6, VisitableIs DEF Outs
  <2>. HIDE DEF N, x
  <2>2. tasks[x] \in N
    BY <2>1, SeqIs
  <2>. QED BY <2>2 DEF N, TaskRecs, x
<1>. HIDE DEF inputs
<1>9. ASSUME NEW us, NEW v, Grown(tasks, v, us), NEW i \in 1..c
      PROVE  /\ TaskFits(plan, us, Len(tasks) + i,
                         Task("compute", n, tasks[main[i]].infos, 1, inputs(i)))
             /\ Task("compute", n, tasks[main[i]].infos, 1, inputs(i)) \in N
  <2>1. i \in Nat \ {0} /\ 1 \in Nat \ {0}
    BY <1>6
  <2>. QED BY <1>7, <1>8, <1>9, <2>1, OldInputsFit
<1>. DEFINE X(i) == Task("compute", n, tasks[main[i]].infos, 1, inputs(i))
<1>10. new \in [1..c -> N] /\ \A i \in 1..c : new[i] = X(i)
  <2>1. Grown(tasks, <<>>, tasks \o <<>>)
    <3>1. tasks \in Seq(TaskRecs) /\ <<>> \in Seq(TaskRecs)
      BY VisitableIs, EmptyIsSeq
    <3>. QED BY <3>1, GrownIs
  <2>2. \A i \in 1..c : X(i) \in N
    BY <1>9, <2>1
  <2>. HIDE DEF N
  <2>. QED BY <1>6, <2>2
<1>11. g = [i \in 1..c |-> Id(i)]
    BY <1>6
<1>. HIDE DEF new, g, N
<1>12. \A i \in 1..c : new[i].type # "producer"
  <2>1. ASSUME NEW i \in 1..c PROVE new[i].type # "producer"
    <3>1. X(i).type = "compute"
      BY DEF Task
    <3>. QED BY <1>10, <3>1
  <2>. QED BY <2>1
<1>13. \A us : Grown(tasks, new, us) =>
            \A i \in 1..c : TaskFits(plan, us, Len(tasks) + i, new[i])
    BY <1>9, <1>10
<1>14. Fits(n, new, [i \in 1..c |-> Id(i)])
    BY <1>6, <1>10, <1>12, <1>13, AllFit DEF N
<1>. QED BY <1>1, <1>11, <1>14

-----------------------------------------------------------------------------
(* The tasks of a partition node *)

LEMMA ProducerFits ==
    ASSUME NEW us, NEW t, NEW n \in DOMAIN plan, n \in Nat, plan[n] \in Nodes,
           plan[n].op = "partition", NEW infos \in Infos, NEW x \in Nat,
           x \in 1 .. t - 1, us[x].type # "producer",
           IsLoad(plan, n) /\ LoadsIn(plan) => Plain(us[x], n)
    PROVE  /\ TaskFits(plan, us, t, Task("producer", n, infos, plan[n].n, <<x>>))
           /\ Task("producer", n, infos, plan[n].n, <<x>>) \in TaskRecs
<1>. DEFINE s == <<x>>
            T == Task("producer", n, infos, plan[n].n, s)
<1>1. s \in Seq(Nat) /\ Len(s) = 1 /\ DOMAIN s = {1} /\ s[1] = x
    OBVIOUS
<1>. HIDE DEF s
<1>2. "producer" \in Types /\ plan[n].n \in Nat \ {0}
    BY NodeIs DEF Types
<1>3. /\ T \in TaskRecs /\ T.type = "producer" /\ T.node = n /\ T.n = plan[n].n
      /\ T.inputs = s
    BY <1>1, <1>2, TaskIs
<1>. HIDE DEF T
<1>4. TaskFits(plan, us, t, T)
    BY <1>1, <1>3 DEF TaskFits
<1>. QED BY <1>3, <1>4 DEF T, s

LEMMA SplitFits ==
    ASSUME NEW us, NEW t, NEW n \in DOMAIN plan, n \in Nat, NEW np \in Nat \ {0}, NEW k \in 1..np,
           NEW x \in Nat, x \in 1 .. t - 1, us[x].type # "producer", Plain(us[x], n)
    PROVE  /\ TaskFits(plan, us, t, Task("split", n, TopInfos(k - 1), np, <<x>>))
           /\ Task("split", n, TopInfos(k - 1), np, <<x>>) \in TaskRecs
<1>. DEFINE s == <<x>>
            infos == TopInfos(k - 1)
            T == Task("split", n, infos, np, s)
<1>1. s \in Seq(Nat) /\ Len(s) = 1 /\ DOMAIN s = {1} /\ s[1] = x
    OBVIOUS
<1>. HIDE DEF s
<1>2. "split" \in Types /\ k - 1 \in Nat /\ k - 1 \in 0 .. np - 1
    BY DEF Types
<1>3. infos \in Infos /\ Top \in DOMAIN infos /\ infos[Top] = k - 1
    BY <1>2, TopInfosIs
<1>. HIDE DEF infos
<1>4. /\ T \in TaskRecs /\ T.type = "split" /\ T.node = n /\ T.n = np /\ T.infos = infos
      /\ T.inputs = s
    BY <1>1, <1>2, <1>3, TaskIs
<1>. HIDE DEF T
<1>5. TaskFits(plan, us, t, T)
    BY <1>1, <1>2, <1>3, <1>4 DEF TaskFits
<1>. QED BY <1>4, <1>5 DEF T, s, infos

LEMMA ConsumerFits ==
    ASSUME NEW us, NEW t, NEW n \in DOMAIN plan, n \in Nat, plan[n] \in Nodes,
           plan[n].op = "partition", NEW f \in Infos, plan[n].dim \notin DOMAIN f,
           NEW v \in 0 .. plan[n].n - 1, NEW inputs \in Seq(Nat), inputs # <<>>,
           \A i \in DOMAIN inputs : /\ inputs[i] \in 1 .. t - 1
                                    /\ us[inputs[i]].type = "producer" /\ us[inputs[i]].node = n
    PROVE  /\ TaskFits(plan, us, t,
                       Task("consumer", n, Extended(f, plan[n].dim, v), plan[n].n, inputs))
           /\ Task("consumer", n, Extended(f, plan[n].dim, v), plan[n].n, inputs) \in TaskRecs
<1>. DEFINE d == plan[n].dim
            infos == Extended(f, d, v)
            T == Task("consumer", n, infos, plan[n].n, inputs)
<1>1. "consumer" \in Types /\ plan[n].n \in Nat \ {0} /\ d \in Nat /\ v \in Nat /\ d \notin DOMAIN f
    BY NodeIs DEF Types
<1>2. infos \in Infos /\ d \in DOMAIN infos /\ infos[d] = v
  <2>. HIDE DEF d
  <2>1. infos \in Infos
    BY <1>1, ExtendedInfos
  <2>2. DOMAIN infos = DOMAIN f \cup {d} /\ infos[d] = v
    BY <1>1, ExtendedIs
  <2>. QED BY <2>1, <2>2
<1>. HIDE DEF infos
<1>3. /\ T \in TaskRecs /\ T.type = "consumer" /\ T.node = n /\ T.n = plan[n].n
      /\ T.infos = infos /\ T.inputs = inputs
    BY <1>1, <1>2, TaskIs
<1>. HIDE DEF T
<1>4. TaskFits(plan, us, t, T)
    BY <1>2, <1>3 DEF TaskFits, Consumes
<1>. QED BY <1>3, <1>4 DEF T, infos

LEMMA NumProducersIs ==
    ASSUME NEW n, plan[n] \in Nodes, plan[n].op = "partition"
    PROVE  NumProducers(n) \in Nat \ {0}
<1>. DEFINE a == MaxProducers[plan[n].kind]
            b == CeilDiv(MaxCard, plan[n].n)
<1>1. plan[n].kind \in Kinds /\ plan[n].n \in Nat \ {0}
    BY NodeIs
<1>2. a \in Nat \ {0} /\ MaxCard \in Nat \ {0} /\ NumParallel \in Nat
    BY <1>1, PlannerAssumption
<1>3. b \in Int
    BY <1>1, <1>2, CeilDivSmall
<1>4. NumProducers(n) = Greatest(1, Least(Least(a, b), NumParallel))
    BY DEF NumProducers
<1>. HIDE DEF a, b
<1>. QED BY <1>2, <1>3, <1>4 DEF Greatest, Least

\* The input tasks of the producers of a partition node that is not nested.
SplitsOK(n, splits, s) ==
    /\ splits \in Seq(TaskRecs) /\ Len(splits) = s /\ DOMAIN splits = 1..s
    /\ s \in Nat /\ s >= NumProducers(n)
    /\ \A k \in 1..s : splits[k].type \in {"merge", "split"} /\ splits[k].node = n
    /\ \A us, new : Grown(tasks, new, us) /\ Len(new) >= s /\ (\A k \in 1..s : new[k] = splits[k])
            => \A k \in 1..s : TaskFits(plan, us, Len(tasks) + k, splits[k])

LEMMA FewInputsSplit ==
    ASSUME NEW n, Visitable(n), plan[n].op = "partition", Len(InputTasks(n)) < NumProducers(n)
    PROVE  SplitsOK(n, SplitTasks(n), NumProducers(n) + 1)
<1>. DEFINE ins == InputTasks(n)
            p == NumProducers(n)
            l == Len(tasks)
            x == Id(1)
            X(k) == Task("split", n, TopInfos(k - 1), p, <<x>>)
            M == Task("merge", n, TopInfos(0), 1, ins)
            a == <<M>>
            b == [k \in 1..p |-> X(k)]
            N == TaskRecs
            O == Outs(tasks)
            splits == a \o b
<1>1. n \in DOMAIN plan /\ n \in Nat /\ plan[n] \in Nodes /\ l \in Nat /\ ins \in Seq(O)
    BY VisitableIs
<1>2. p \in Nat \ {0}
    BY <1>1, NumProducersIs
<1>3. SplitTasks(n) = splits
    BY DEF SplitTasks
<1>4. x = l + 1 /\ x \in Nat
    BY <1>1 DEF Id
<1>5. IsLoad(plan, n) /\ LoadsIn(plan) => \A i \in DOMAIN ins : tasks[ins[i]].type = "source"
    BY InputTasksAre DEF Visitable
<1>6. Grown(tasks, <<>>, tasks \o <<>>)
  <2>1. tasks \in Seq(TaskRecs) /\ <<>> \in Seq(TaskRecs)
      BY VisitableIs, EmptyIsSeq
  <2>. QED BY <2>1, GrownIs
<1>. HIDE DEF p, x, ins
<1>7. ASSUME NEW us, NEW new, Grown(tasks, new, us)
      PROVE  TaskFits(plan, us, l + 1, M) /\ M \in N
  <2>1. TopInfos(0) \in Infos /\ 1 \in Nat \ {0}
    BY TopInfosIs
  <2>. QED BY <1>1, <1>5, <1>7, <2>1, OldInputsFit
<1>8. M \in N /\ M.type = "merge" /\ M.node = n
    BY <1>6, <1>7 DEF Task
<1>9. ASSUME NEW us, us[x] = M, NEW k \in 1..p
      PROVE  TaskFits(plan, us, l + (k + 1), X(k)) /\ X(k) \in N
  <2>. DEFINE t == l + (k + 1)
  <2>1. x \in 1 .. t - 1 /\ Plain(us[x], n) /\ us[x].type # "producer"
    <3>1. x \in 1 .. t - 1
      BY <1>1, <1>2, <1>4
    <3>. HIDE DEF M
    <3>. QED BY <1>8, <1>9, <3>1 DEF Plain
  <2>. HIDE DEF t
  <2>2. TaskFits(plan, us, t, X(k)) /\ X(k) \in N
    BY <1>1, <1>2, <1>4, <2>1, SplitFits
  <2>. QED BY <2>2 DEF t
<1>. HIDE DEF M
<1>10. b \in [1..p -> N]
  <2>1. \A k \in 1..p : X(k) \in N
    <3>1. ASSUME NEW k \in 1..p PROVE X(k) \in N
      <4>. DEFINE us == [y \in {x} |-> M]
      <4>1. us[x] = M
        OBVIOUS
      <4>. QED BY <1>9, <4>1
    <3>. QED BY <3>1
  <2>. HIDE DEF N, X
  <2>. QED BY <2>1
<1>11. \A k \in 1..p : X(k).type = "split" /\ X(k).node = n
    BY DEF Task
<1>12. \A k \in 1..p : b[k] = X(k)
    OBVIOUS
<1>. HIDE DEF N, b, X
<1>13. b \in Seq(N) /\ Len(b) = p /\ DOMAIN b = 1..p
    BY <1>2, <1>10, FunctionIsSeq
<1>14. a \in [1..1 -> N] /\ a[1] = M
  <2>1. a = [i \in 1..1 |-> M]
    OBVIOUS
  <2>. QED BY <1>8, <2>1
<1>. HIDE DEF a
<1>15. Followed(N, 1, a, b, splits)
    BY <1>13, <1>14, FollowedIs
<1>. HIDE DEF splits
<1>16. /\ splits \in Seq(N) /\ Len(splits) = p + 1 /\ DOMAIN splits = 1 .. p + 1
       /\ splits[1] = M /\ \A k \in 1..p : splits[k + 1] = X(k)
  <2>1. 1 + p = p + 1 /\ 1 \in 1..1 /\ \A k \in 1..p : 1 + k = k + 1
    BY <1>2
  <2>2. splits[1] = M
    BY <1>14, <1>15, <2>1 DEF Followed
  <2>3. ASSUME NEW k \in 1..p PROVE splits[k + 1] = X(k)
    BY <1>12, <1>13, <1>15, <2>1 DEF Followed
  <2>. QED BY <1>13, <1>15, <2>1, <2>2, <2>3 DEF Followed
<1>17. \A k \in 1 .. p + 1 : k = 1 \/ (k - 1 \in 1..p /\ (k - 1) + 1 = k)
    BY <1>2
<1>18. ASSUME NEW k \in 1 .. p + 1
       PROVE  splits[k].type \in {"merge", "split"} /\ splits[k].node = n
    BY <1>8, <1>11, <1>16, <1>17
<1>19. ASSUME NEW us, NEW new, Grown(tasks, new, us), Len(new) >= p + 1,
              \A k \in 1 .. p + 1 : new[k] = splits[k], NEW k \in 1 .. p + 1
       PROVE  TaskFits(plan, us, l + k, splits[k])
  <2>1. 1 \in 1 .. p + 1 /\ 1 \in 1 .. Len(new)
    BY <1>2, <1>19 DEF Grown
  <2>2. us[x] = M
    BY <1>4, <1>16, <1>19, <2>1 DEF Grown, l
  <2>3. CASE k = 1
    BY <1>7, <1>16, <1>19, <2>3
  <2>4. CASE k # 1
    <3>1. k - 1 \in 1..p /\ (k - 1) + 1 = k
      BY <1>17, <2>4
    <3>2. TaskFits(plan, us, l + ((k - 1) + 1), X(k - 1)) /\ splits[(k - 1) + 1] = X(k - 1)
      BY <1>9, <1>16, <2>2, <3>1
    <3>. QED BY <3>1, <3>2
  <2>. QED BY <2>3, <2>4
<1>20. p + 1 \in Nat /\ p + 1 >= p
    BY <1>2
<1>21. SplitsOK(n, splits, p + 1)
    BY <1>16, <1>18, <1>19, <1>20 DEF SplitsOK, N, l, p
<1>. QED BY <1>3, <1>21 DEF p

LEMMA ManyInputsSplit ==
    ASSUME NEW n, Visitable(n), plan[n].op = "partition", ~(Len(InputTasks(n)) < NumProducers(n))
    PROVE  SplitsOK(n, SplitTasks(n), NumProducers(n))
<1>. DEFINE ins == InputTasks(n)
            p == NumProducers(n)
            l == Len(tasks)
            shares == SplitIntoRows(ins, p)
            X(k) == Task("merge", n, TopInfos(k - 1), p, shares[k])
            splits == [k \in 1..p |-> X(k)]
            N == TaskRecs
            O == Outs(tasks)
            Good == {t \in O : IsLoad(plan, n) /\ LoadsIn(plan) => tasks[t].type = "source"}
<1>1. n \in DOMAIN plan /\ n \in Nat /\ plan[n] \in Nodes /\ l \in Nat /\ ins \in Seq(O)
      /\ DOMAIN ins = 1 .. Len(ins)
      /\ \A i \in 1 .. Len(ins) : ins[i] \in O
    BY VisitableIs
<1>2. p \in Nat \ {0}
    BY <1>1, NumProducersIs
<1>3. SplitTasks(n) = splits
    BY DEF SplitTasks
<1>4. IsLoad(plan, n) /\ LoadsIn(plan) => \A i \in DOMAIN ins : tasks[ins[i]].type = "source"
    BY InputTasksAre DEF Visitable
<1>5. \A i \in 1 .. Len(ins) : ins[i] \in Good
    BY <1>1, <1>4
<1>6. Good \subseteq O /\ \A t \in Good : IsLoad(plan, n) /\ LoadsIn(plan) => tasks[t].type = "source"
    OBVIOUS
<1>7. Grown(tasks, <<>>, tasks \o <<>>)
  <2>1. tasks \in Seq(TaskRecs) /\ <<>> \in Seq(TaskRecs)
      BY VisitableIs, EmptyIsSeq
  <2>. QED BY <2>1, GrownIs
<1>. HIDE DEF p, ins, Good, O, N
<1>8. ins \in Seq(Good)
  <2>1. Len(ins) \in Nat /\ ins \in [1 .. Len(ins) -> Good]
    <3>1. Len(ins) \in Nat /\ ins = [i \in DOMAIN ins |-> ins[i]]
      BY <1>1, SeqIs
    <3>. QED BY <1>1, <1>5, <3>1
  <2>. QED BY <2>1, FunctionIsSeq
<1>9. shares \in [1..p -> Seq(Good)]
    BY <1>2, <1>8, SplitIntoRowsIs
<1>. HIDE DEF shares
<1>10. ASSUME NEW k \in 1..p
       PROVE  shares[k] \in Seq(O) /\ \A i \in DOMAIN shares[k] : shares[k][i] \in Good
  <2>. DEFINE w == shares[k]
  <2>1. w \in Seq(Good)
    BY <1>9
  <2>. HIDE DEF w
  <2>2. w \in Seq(O) /\ \A i \in DOMAIN w : w[i] \in Good
    BY <1>6, <2>1, SeqGrows, SeqIs
  <2>. QED BY <2>2 DEF w
<1>11. ASSUME NEW us, NEW new, Grown(tasks, new, us), NEW k \in 1..p
       PROVE  TaskFits(plan, us, l + k, X(k)) /\ X(k) \in N
  <2>1. k - 1 \in Nat /\ k \in Nat \ {0}
    BY <1>2
  <2>2. TopInfos(k - 1) \in Infos
    BY <2>1, TopInfosIs
  <2>. DEFINE w == shares[k]
  <2>3. w \in Seq(O) /\ (IsLoad(plan, n) /\ LoadsIn(plan) => \A i \in DOMAIN w : tasks[w[i]].type = "source")
    BY <1>6, <1>10
  <2>. HIDE DEF w
  <2>4. /\ TaskFits(plan, us, l + k, Task("merge", n, TopInfos(k - 1), p, w))
        /\ Task("merge", n, TopInfos(k - 1), p, w) \in N
    BY <1>2, <1>11, <2>1, <2>2, <2>3, OldInputsFit DEF O, N
  <2>. QED BY <2>4 DEF w
<1>12. \A k \in 1..p : X(k) \in N
    BY <1>7, <1>11
<1>13. \A k \in 1..p : X(k).type = "merge" /\ X(k).node = n
    BY DEF Task
<1>. HIDE DEF X
<1>14. splits \in [1..p -> N] /\ \A k \in 1..p : splits[k] = X(k)
    BY <1>12
<1>. HIDE DEF splits
<1>15. splits \in Seq(N) /\ Len(splits) = p /\ DOMAIN splits = 1..p
    BY <1>2, <1>14, FunctionIsSeq
<1>16. p \in Nat /\ p >= p
    BY <1>2
<1>17. ASSUME NEW us, NEW new, Grown(tasks, new, us), NEW k \in 1..p
       PROVE  TaskFits(plan, us, l + k, splits[k])
    BY <1>11, <1>14, <1>17
<1>18. SplitsOK(n, splits, p)
    BY <1>13, <1>14, <1>15, <1>16, <1>17 DEF SplitsOK, N, l, p
<1>. QED BY <1>3, <1>18 DEF p

\* The quotient of a number below a product.
LEMMA DivBelow ==
    ASSUME NEW m \in Nat, NEW np \in Nat \ {0}, NEW c \in 1 .. m * np
    PROVE  (c - 1) % np \in 0 .. np - 1 /\ (c - 1) \div np + 1 \in 1..m
<1>. DEFINE q == (c - 1) \div np
            r == (c - 1) % np
            nq == np * q
            mn == m * np
<1>1. mn \in Nat /\ c \in 1 .. mn
    OBVIOUS
<1>2. q \in Nat /\ r \in 0 .. np - 1 /\ c - 1 = nq + r
  <2>. DEFINE x == c - 1
  <2>1. x \in Nat
    BY <1>1
  <2>. HIDE DEF x
  <2>2. x \div np \in Nat /\ x % np \in 0 .. np - 1 /\ x = np * (x \div np) + (x % np)
    BY <2>1, DivMod
  <2>. QED BY <2>2 DEF x
<1>. HIDE DEF q, r
<1>3. ASSUME q >= m PROVE FALSE
  <2>1. np * q >= np * m
    BY <1>2, <1>3
  <2>2. np * m = m * np
    OBVIOUS
  <2>. HIDE DEF nq, mn
  <2>3. nq >= mn
    BY <2>1, <2>2 DEF nq, mn
  <2>4. nq \in Int
    BY <1>2 DEF nq
  <2>. QED BY <1>1, <1>2, <2>3, <2>4
<1>4. q + 1 \in 1..m
    BY <1>2, <1>3
<1>. QED BY <1>2, <1>4 DEF q, r

\* A number of producers, then a number of consumers of a node, after some tasks.
LEMMA PartitionGroup ==
    ASSUME NEW us, NEW new, Grown(tasks, new, us), NEW n, plan[n].op = "partition",
           NEW off \in Nat, NEW m \in Nat, off + m <= Len(new),
           \A c \in 1..m : new[off + c].type = "consumer" /\ new[off + c].node = n
    PROVE  GroupFits(plan, us, group, n, [c \in 1..m |-> Id(off + c)])
<1>. DEFINE g == [c \in 1..m |-> Id(off + c)]
<1>1. NewGroup(us, new, off, m, g)
    BY NewGroupIs
<1>. HIDE DEF g
<1>2. g \in Seq(Outs(us)) /\ DOMAIN g = 1..m /\ \A i \in 1..m : us[g[i]] = new[off + i]
    BY <1>1 DEF NewGroup
<1>3. \A i \in DOMAIN g : us[g[i]].type = "consumer" /\ us[g[i]].node = n
  <2>1. ASSUME NEW i \in 1..m PROVE us[g[i]].type = "consumer" /\ us[g[i]].node = n
    BY <1>2
  <2>. QED BY <1>2, <2>1
<1>. QED BY <1>2, <1>3 DEF GroupFits, g

LEMMA NestedFits ==
    ASSUME NEW n, Visitable(n), plan[n].op = "partition", SameDims(InputTasks(n)),
           plan[n].dim \notin Dims(InputTasks(n)[1])
    PROVE  Fits(n, PlanNested(n).new, PlanNested(n).group)
<1>. DEFINE ins == InputTasks(n)
            np == plan[n].n
            m == Len(ins)
            l == Len(tasks)
            mn == m * np
            in(c) == (c - 1) \div np + 1
            nth(c) == (c - 1) % np
            P(i) == Task("producer", n, tasks[ins[i]].infos, np, <<ins[i]>>)
            C(c) == Task("consumer", n, Extended(tasks[ins[in(c)]].infos, plan[n].dim, nth(c)),
                         np, <<Id(in(c))>>)
            a == [i \in 1..m |-> P(i)]
            b == [c \in 1..mn |-> C(c)]
            new == a \o b
            us == tasks \o new
            g == [c \in 1..mn |-> Id(m + c)]
            N == TaskRecs
            O == Outs(tasks)
<1>1. /\ n \in DOMAIN plan /\ n \in Nat /\ plan[n] \in Nodes /\ l \in Nat /\ m \in Nat
      /\ DOMAIN ins = 1..m /\ tasks \in Seq(N) /\ \A i \in 1..m : ins[i] \in O
    BY VisitableIs
<1>2. np \in Nat \ {0}
    BY <1>1, NodeIs
<1>3. PlanNested(n).new = new /\ PlanNested(n).group = g
    BY DEF PlanNested
<1>4. mn \in Nat /\ \A c \in 1..mn : nth(c) \in 0 .. np - 1 /\ in(c) \in 1..m
  <2>1. mn \in Nat
    <3>. HIDE DEF np, m
    <3>. QED BY <1>1, <1>2
  <2>2. ASSUME NEW c \in 1..mn PROVE nth(c) \in 0 .. np - 1 /\ in(c) \in 1..m
    <3>. HIDE DEF np, m
    <3>. QED BY <1>1, <1>2, DivBelow
  <2>. QED BY <2>1, <2>2
<1>5. \A i \in 1..m : plan[n].dim \notin DOMAIN tasks[ins[i]].infos
  <2>1. ASSUME NEW i \in 1..m PROVE plan[n].dim \notin Dims(ins[i])
    <3>1. 1 \in DOMAIN ins /\ i \in DOMAIN ins
      BY <1>1
    <3>2. Dims(ins[i]) = Dims(ins[1])
      BY <3>1 DEF SameDims
    <3>. QED BY <3>2
  <2>. QED BY <2>1 DEF Dims
<1>6. \A i \in 1..m : tasks[ins[i]].infos \in Infos
    BY InputInfos
<1>7. \A i \in DOMAIN ins : IsLoad(plan, n) /\ LoadsIn(plan) => tasks[ins[i]].type = "source"
    BY InputTasksAre DEF Visitable
<1>. HIDE DEF mn, in, nth, ins, m
<1>8. ASSUME NEW us1, NEW v, Grown(tasks, v, us1), NEW i \in 1..m
      PROVE  TaskFits(plan, us1, l + i, P(i)) /\ P(i) \in N
  <2>. DEFINE x == ins[i]
              t == l + i
  <2>1. x \in O /\ i \in Nat \ {0} /\ tasks[x].infos \in Infos
    BY <1>1, <1>6
  <2>2. OldTask(x, i, us1)
    BY <1>8, <2>1, OldTaskIs
  <2>3. x \in Nat /\ x \in 1 .. t - 1 /\ us1[x].type # "producer" /\ us1[x] = tasks[x]
    BY <2>2 DEF OldTask
  <2>4. IsLoad(plan, n) /\ LoadsIn(plan) => Plain(us1[x], n)
    BY <1>1, <1>7, <2>3 DEF Plain
  <2>. HIDE DEF t, x
  <2>5. /\ TaskFits(plan, us1, t, Task("producer", n, tasks[x].infos, np, <<x>>))
        /\ Task("producer", n, tasks[x].infos, np, <<x>>) \in N
    BY <1>1, <2>1, <2>3, <2>4, ProducerFits
  <2>. QED BY <2>5 DEF x, t
<1>9. \A i \in 1..m : P(i).type = "producer" /\ P(i).node = n
    BY DEF Task
<1>10. ASSUME NEW us1, NEW c \in 1..mn, us1[l + in(c)] = P(in(c))
       PROVE  TaskFits(plan, us1, l + (m + c), C(c)) /\ C(c) \in N
  <2>. DEFINE t == l + (m + c)
              x == Id(in(c))
              s == <<x>>
              f == tasks[ins[in(c)]].infos
  <2>1. x = l + in(c) /\ x \in Nat /\ x \in 1 .. t - 1
    <3>1. x = l + in(c)
      BY DEF Id
    <3>2. in(c) \in 1..m /\ c \in Nat \ {0}
      BY <1>4
    <3>. QED BY <1>1, <3>1, <3>2
  <2>2. s \in Seq(Nat) /\ DOMAIN s = {1} /\ s[1] = x /\ s # <<>>
    BY <2>1
  <2>3. us1[x].type = "producer" /\ us1[x].node = n
    BY <1>4, <1>9, <1>10, <2>1
  <2>4. f \in Infos /\ plan[n].dim \notin DOMAIN f /\ nth(c) \in 0 .. np - 1
    BY <1>4, <1>5, <1>6
  <2>5. \A i \in DOMAIN s : s[i] \in 1 .. t - 1 /\ us1[s[i]].type = "producer" /\ us1[s[i]].node = n
    BY <2>1, <2>2, <2>3
  <2>. HIDE DEF t, s, f
  <2>6. /\ TaskFits(plan, us1, t, Task("consumer", n, Extended(f, plan[n].dim, nth(c)), np, s))
        /\ Task("consumer", n, Extended(f, plan[n].dim, nth(c)), np, s) \in N
    BY <1>1, <2>2, <2>4, <2>5, ConsumerFits
  <2>. QED BY <2>6 DEF t, s, f
<1>11. \A c \in 1..mn : C(c).type = "consumer" /\ C(c).node = n
    BY DEF Task
<1>12. Grown(tasks, <<>>, tasks \o <<>>)
  <2>1. tasks \in Seq(TaskRecs) /\ <<>> \in Seq(TaskRecs)
      BY VisitableIs, EmptyIsSeq
  <2>. QED BY <2>1, GrownIs
<1>13. \A i \in 1..m : P(i) \in N
    BY <1>8, <1>12
<1>14. \A c \in 1..mn : C(c) \in N
  <2>1. ASSUME NEW c \in 1..mn PROVE C(c) \in N
    <3>. DEFINE us1 == [y \in {l + in(c)} |-> P(in(c))]
    <3>1. us1[l + in(c)] = P(in(c))
      OBVIOUS
    <3>. HIDE DEF us1, P, C
    <3>. QED BY <1>10, <3>1
  <2>. QED BY <2>1
<1>. HIDE DEF N, P, C
<1>15. a \in [1..m -> N] /\ \A i \in 1..m : a[i] = P(i)
    BY <1>13
<1>16. b \in [1..mn -> N] /\ \A c \in 1..mn : b[c] = C(c)
    BY <1>14
<1>. HIDE DEF a, b
<1>17. b \in Seq(N) /\ Len(b) = mn /\ DOMAIN b = 1..mn
    BY <1>4, <1>16, FunctionIsSeq
<1>18. Followed(N, m, a, b, new)
    BY <1>1, <1>15, <1>17, FollowedIs
<1>. HIDE DEF new
<1>19. /\ new \in Seq(N) /\ Len(new) = m + mn /\ DOMAIN new = 1 .. m + mn
       /\ \A i \in 1..m : new[i] = P(i)
       /\ \A c \in 1..mn : new[m + c] = C(c)
    BY <1>15, <1>16, <1>17, <1>18 DEF Followed
<1>20. Grown(tasks, new, us)
    BY <1>1, <1>19, GrownIs DEF N
<1>. HIDE DEF us, l
<1>21. \A k \in 1 .. m + mn : us[l + k] = new[k]
    BY <1>19, <1>20 DEF Grown, l
<1>22. ASSUME NEW k \in DOMAIN new PROVE TaskFits(plan, us, l + k, new[k])
  <2>1. CASE k \in 1..m
    BY <1>8, <1>19, <1>20, <2>1
  <2>2. CASE k \notin 1..m
    <3>. DEFINE c == k - m
    <3>1. c \in 1..mn /\ m + c = k
      BY <1>1, <1>4, <1>19, <2>2
    <3>. HIDE DEF c
    <3>2. in(c) \in 1..m /\ in(c) \in 1 .. m + mn
      BY <1>1, <1>4, <3>1
    <3>3. us[l + in(c)] = P(in(c))
      BY <1>19, <1>21, <3>2
    <3>4. TaskFits(plan, us, l + (m + c), C(c))
      BY <1>10, <3>1, <3>3
    <3>. QED BY <1>19, <3>1, <3>4
  <2>. QED BY <2>1, <2>2
<1>23. GroupFits(plan, us, group, n, g)
  <2>1. m + mn <= Len(new)
    BY <1>1, <1>4, <1>19
  <2>2. \A c \in 1..mn : new[m + c].type = "consumer" /\ new[m + c].node = n
    <3>1. ASSUME NEW c \in 1..mn PROVE new[m + c].type = "consumer" /\ new[m + c].node = n
      <4>1. new[m + c] = C(c)
        BY <1>19
      <4>. QED BY <1>11, <4>1
    <3>. QED BY <3>1
  <2>. QED BY <1>1, <1>4, <1>20, <2>1, <2>2, PartitionGroup
<1>. QED BY <1>3, <1>19, <1>22, <1>23 DEF Fits, us, l, N

LEMMA SplitsAre ==
    ASSUME NEW n, Visitable(n), plan[n].op = "partition"
    PROVE  SplitsOK(n, SplitTasks(n), Len(SplitTasks(n)))
<1>. DEFINE p == NumProducers(n)
            sp == SplitTasks(n)
<1>. HIDE DEF p, sp
<1>1. CASE Len(InputTasks(n)) < NumProducers(n)
  <2>1. SplitsOK(n, sp, p + 1)
    BY <1>1, FewInputsSplit DEF p, sp
  <2>2. Len(sp) = p + 1
    BY <2>1 DEF SplitsOK
  <2>. QED BY <2>1, <2>2 DEF sp
<1>2. CASE ~(Len(InputTasks(n)) < NumProducers(n))
  <2>1. SplitsOK(n, sp, p)
    BY <1>2, ManyInputsSplit DEF p, sp
  <2>2. Len(sp) = p
    BY <2>1 DEF SplitsOK
  <2>. QED BY <2>1, <2>2 DEF sp
<1>. QED BY <1>1, <1>2

LEMMA FlatFits ==
    ASSUME NEW n, Visitable(n), plan[n].op = "partition"
    PROVE  Fits(n, PlanFlat(n).new, PlanFlat(n).group)
<1>. DEFINE splits == SplitTasks(n)
            s == Len(splits)
            p == NumProducers(n)
            np == plan[n].n
            l == Len(tasks)
            ids == [k \in 1..p |-> Id(s + k)]
            P(k) == Task("producer", n, TopInfos(k - 1), np, <<Id(s - p + k)>>)
            C(c) == Task("consumer", n, Extended(TopInfos(0), plan[n].dim, c - 1), np, ids)
            b == [k \in 1..p |-> P(k)]
            d == [c \in 1..np |-> C(c)]
            bd == splits \o b
            new == bd \o d
            us == tasks \o new
            g == [c \in 1..np |-> Id(s + p + c)]
            N == TaskRecs
<1>1. /\ n \in DOMAIN plan /\ n \in Nat /\ plan[n] \in Nodes /\ l \in Nat /\ tasks \in Seq(N)
    BY VisitableIs
<1>2. np \in Nat \ {0} /\ p \in Nat \ {0} /\ plan[n].dim \in Nat \ {Top}
    BY <1>1, NodeIs, NumProducersIs
<1>3. PlanFlat(n).new = new /\ PlanFlat(n).group = g
    BY DEF PlanFlat
<1>4. SplitsOK(n, splits, s)
    BY SplitsAre
<1>. HIDE DEF splits, s, p, N
<1>5. /\ splits \in Seq(N) /\ Len(splits) = s /\ DOMAIN splits = 1..s /\ s \in Nat /\ s >= p
      /\ \A k \in 1..s : splits[k].type \in {"merge", "split"} /\ splits[k].node = n
    BY <1>4 DEF SplitsOK, N, p
<1>6. ids \in Seq(Nat) /\ DOMAIN ids = 1..p /\ ids # <<>> /\ \A k \in 1..p : ids[k] = l + (s + k)
  <2>1. \A k \in 1..p : ids[k] = l + (s + k)
    BY DEF Id
  <2>2. \A k \in 1..p : l + (s + k) \in Nat
    BY <1>1, <1>5
  <2>3. ids \in [1..p -> Nat]
    BY <2>1, <2>2
  <2>. HIDE DEF ids
  <2>4. ids \in Seq(Nat) /\ DOMAIN ids = 1..p /\ Len(ids) = p
    BY <1>2, <2>3, FunctionIsSeq
  <2>5. ids # <<>>
    BY <1>2, <2>4, EmptyIsSeq
  <2>. QED BY <2>1, <2>4, <2>5
<1>7. ASSUME NEW us1, NEW k \in 1..p, us1[l + (s - p + k)] = splits[s - p + k]
      PROVE  TaskFits(plan, us1, l + (s + k), P(k)) /\ P(k) \in N
  <2>. DEFINE x == Id(s - p + k)
              t == l + (s + k)
              infos == TopInfos(k - 1)
  <2>1. x = l + (s - p + k) /\ s - p + k \in 1..s /\ k - 1 \in Nat /\ x \in Nat /\ x \in 1 .. t - 1
    <3>1. x = l + (s - p + k)
      BY DEF Id
    <3>. QED BY <1>1, <1>2, <1>5, <3>1
  <2>2. infos \in Infos
    BY <2>1, TopInfosIs
  <2>3. us1[x].type \in {"merge", "split"} /\ us1[x].node = n
    BY <1>5, <1>7, <2>1
  <2>4. us1[x].type # "producer" /\ Plain(us1[x], n)
    BY <2>3 DEF Plain
  <2>. HIDE DEF x, t, infos
  <2>5. /\ TaskFits(plan, us1, t, Task("producer", n, infos, np, <<x>>))
        /\ Task("producer", n, infos, np, <<x>>) \in N
    BY <1>1, <2>1, <2>2, <2>4, ProducerFits DEF N
  <2>. QED BY <2>5 DEF x, t, infos
<1>8. \A k \in 1..p : P(k).type = "producer" /\ P(k).node = n
    BY DEF Task
<1>. HIDE DEF ids
<1>9. ASSUME NEW us1, NEW c \in 1..np, \A k \in 1..p : us1[l + (s + k)] = P(k)
      PROVE  TaskFits(plan, us1, l + (s + p + c), C(c)) /\ C(c) \in N
  <2>. DEFINE t == l + (s + p + c)
              f == TopInfos(0)
  <2>1. f \in Infos /\ plan[n].dim \notin DOMAIN f
    BY <1>2, TopInfosIs
  <2>2. c - 1 \in 0 .. np - 1 /\ \A k \in 1..p : l + (s + k) \in 1 .. t - 1
    BY <1>1, <1>2, <1>5, SMTT(30)
  <2>3. ASSUME NEW i \in DOMAIN ids
        PROVE  ids[i] \in 1 .. t - 1 /\ us1[ids[i]].type = "producer" /\ us1[ids[i]].node = n
    <3>1. i \in 1..p /\ ids[i] = l + (s + i)
      BY <1>6
    <3>2. us1[ids[i]] = P(i) /\ ids[i] \in 1 .. t - 1
      BY <1>9, <2>2, <3>1
    <3>. HIDE DEF P
    <3>. QED BY <1>8, <3>1, <3>2
  <2>. HIDE DEF t, f
  <2>4. /\ TaskFits(plan, us1, t, Task("consumer", n, Extended(f, plan[n].dim, c - 1), np, ids))
        /\ Task("consumer", n, Extended(f, plan[n].dim, c - 1), np, ids) \in N
    BY <1>1, <1>6, <2>1, <2>2, <2>3, ConsumerFits DEF N
  <2>. QED BY <2>4 DEF t, f
<1>10. \A c \in 1..np : C(c).type = "consumer" /\ C(c).node = n
    BY DEF Task
<1>11. ASSUME NEW k \in 1..p PROVE P(k) \in N
  <2>. DEFINE us1 == [y \in {l + (s - p + k)} |-> splits[s - p + k]]
  <2>1. us1[l + (s - p + k)] = splits[s - p + k]
    OBVIOUS
  <2>. HIDE DEF us1, P
  <2>. QED BY <1>7, <2>1
<1>. HIDE DEF P
<1>12. ASSUME NEW c \in 1..np PROVE C(c) \in N
  <2>. DEFINE us1 == [y \in {l + (s + k) : k \in 1..p} |-> P(y - l - s)]
  <2>1. \A k \in 1..p : us1[l + (s + k)] = P(k)
    <3>1. ASSUME NEW k \in 1..p PROVE us1[l + (s + k)] = P(k)
      <4>. DEFINE y == l + (s + k)
      <4>1. y - l - s = k
        BY <1>1, <1>5
      <4>2. y \in {l + (s + j) : j \in 1..p}
        OBVIOUS
      <4>. HIDE DEF y
      <4>3. us1[y] = P(y - l - s)
        BY <4>2
      <4>. QED BY <4>1, <4>3 DEF y
    <3>. QED BY <3>1
  <2>. HIDE DEF us1, C
  <2>. QED BY <1>9, <2>1
<1>. HIDE DEF C, np
<1>13. b \in [1..p -> N] /\ \A k \in 1..p : b[k] = P(k)
    BY <1>11
<1>14. d \in [1..np -> N] /\ \A c \in 1..np : d[c] = C(c)
    BY <1>12
<1>. HIDE DEF b, d
<1>15. b \in Seq(N) /\ Len(b) = p /\ DOMAIN b = 1..p
    BY <1>2, <1>13, FunctionIsSeq
<1>16. d \in Seq(N) /\ Len(d) = np /\ DOMAIN d = 1..np
    BY <1>2, <1>14, FunctionIsSeq
<1>17. splits \in [1..s -> N]
    BY <1>5, SeqIs
<1>18. Followed(N, s, splits, b, bd)
    BY <1>5, <1>15, <1>17, FollowedIs
<1>. HIDE DEF bd
<1>19. /\ bd \in Seq(N) /\ Len(bd) = s + p /\ DOMAIN bd = 1 .. s + p
       /\ \A k \in 1..s : bd[k] = splits[k]
       /\ \A k \in 1..p : bd[s + k] = P(k)
    BY <1>13, <1>15, <1>18 DEF Followed
<1>20. s + p \in Nat /\ bd \in [1 .. s + p -> N]
    BY <1>2, <1>5, <1>19, SeqIs
<1>21. Followed(N, s + p, bd, d, new)
    BY <1>16, <1>20, FollowedIs
<1>. HIDE DEF new
<1>22. /\ new \in Seq(N) /\ Len(new) = s + p + np /\ DOMAIN new = 1 .. s + p + np
       /\ \A k \in 1..s : new[k] = splits[k]
       /\ \A k \in 1..p : new[s + k] = P(k)
       /\ \A c \in 1..np : new[s + p + c] = C(c)
  <2>1. \A k \in 1..s : k \in 1 .. s + p
    BY <1>2, <1>5
  <2>2. \A k \in 1..p : s + k \in 1 .. s + p
    BY <1>2, <1>5
  <2>. QED BY <1>14, <1>16, <1>19, <1>21, <2>1, <2>2 DEF Followed
<1>23. Grown(tasks, new, us)
    BY <1>1, <1>22, GrownIs DEF N
<1>. HIDE DEF us, l
<1>24. \A k \in 1 .. s + p + np : us[l + k] = new[k]
    BY <1>22, <1>23 DEF Grown, l
<1>25. ASSUME NEW k \in 1..s PROVE TaskFits(plan, us, l + k, new[k])
  <2>1. Len(new) >= s
    BY <1>2, <1>5, <1>22
  <2>. QED BY <1>4, <1>22, <1>23, <2>1 DEF SplitsOK, l
<1>26. ASSUME NEW k \in 1..p PROVE TaskFits(plan, us, l + (s + k), new[s + k])
  <2>1. s - p + k \in 1..s /\ s - p + k \in 1 .. s + p + np
    BY <1>2, <1>5
  <2>2. us[l + (s - p + k)] = splits[s - p + k]
    BY <1>22, <1>24, <2>1
  <2>. QED BY <1>7, <1>22, <2>2
<1>27. ASSUME NEW c \in 1..np PROVE TaskFits(plan, us, l + (s + p + c), new[s + p + c])
  <2>1. \A k \in 1..p : s + k \in 1 .. s + p + np
    BY <1>2, <1>5
  <2>2. \A k \in 1..p : us[l + (s + k)] = P(k)
    BY <1>22, <1>24, <2>1
  <2>. QED BY <1>9, <1>22, <2>2
<1>28. ASSUME NEW k \in DOMAIN new PROVE TaskFits(plan, us, l + k, new[k])
  <2>1. CASE k \in 1..s
    BY <1>25, <2>1
  <2>2. CASE k - s \in 1..p
    <3>. DEFINE j == k - s
    <3>1. j \in 1..p /\ s + j = k
      BY <1>5, <1>22, <2>2
    <3>. HIDE DEF j
    <3>. QED BY <1>26, <3>1
  <2>3. CASE k - s - p \in 1..np
    <3>. DEFINE j == k - s - p
    <3>1. j \in 1..np /\ s + p + j = k
      BY <1>2, <1>5, <1>22, <2>3
    <3>. HIDE DEF j
    <3>. QED BY <1>27, <3>1
  <2>4. k \in 1..s \/ k - s \in 1..p \/ k - s - p \in 1..np
    BY <1>2, <1>5, <1>22, SMTT(30)
  <2>. QED BY <2>1, <2>2, <2>3, <2>4
<1>29. GroupFits(plan, us, group, n, g)
  <2>1. s + p + np <= Len(new) /\ s + p \in Nat /\ np \in Nat
    BY <1>2, <1>5, <1>22
  <2>2. \A c \in 1..np : new[s + p + c].type = "consumer" /\ new[s + p + c].node = n
    BY <1>10, <1>22
  <2>. QED BY <1>23, <2>1, <2>2, PartitionGroup
<1>. QED BY <1>3, <1>22, <1>28, <1>29 DEF Fits, us, l, N

\* Whatever a visit creates fits.
LEMMA PlannedFits ==
    ASSUME NEW n, Visitable(n), Plannable(n)
    PROVE  Fits(n, Planned(n).new, Planned(n).group)
<1>. DEFINE op == plan[n].op
<1>1. op \in {"root", "union", "projection", "source", "sink", "compute", "sql", "limit",
              "consolidate", "partition"}
    BY VisitableIs, NodeIs
<1>2. CASE op \in {"source", "root"}
  <2>1. Planned(n) = OneTask(n)
    BY <1>2 DEF Planned
  <2>. QED BY <1>2, <2>1, OneTaskFits
<1>3. CASE op = "sink"
  <2>1. Planned(n) = PlanSink(n)
    BY <1>3 DEF Planned
  <2>. QED BY <1>3, <2>1, SinkFits
<1>4. CASE op = "union"
  <2>1. Planned(n) = PlanUnion(n)
    BY <1>4 DEF Planned
  <2>. QED BY <1>4, <2>1, UnionFits
<1>5. CASE op = "projection"
  <2>1. Planned(n) = OnePerInput(n)
    BY <1>5 DEF Planned
  <2>. QED BY <1>5, <2>1, ProjectionFits
<1>6. CASE op = "consolidate"
  <2>1. Planned(n) = PlanConsolidate(n)
    BY <1>6 DEF Planned
  <2>. QED BY <1>6, <2>1, ConsolidateFits
<1>7. CASE op = "partition"
  <2>1. Planned(n) = PlanPartition(n)
    BY <1>7 DEF Planned
  <2>2. CASE plan[n].nested
    <3>1. PlanPartition(n) = PlanNested(n)
      BY <2>2 DEF PlanPartition
    <3>2. SameDims(InputTasks(n)) /\ plan[n].dim \notin Dims(InputTasks(n)[1])
      BY <1>7, <2>2 DEF Plannable
    <3>. QED BY <1>7, <2>1, <3>1, <3>2, NestedFits
  <2>3. CASE ~plan[n].nested
    <3>1. PlanPartition(n) = PlanFlat(n)
      BY <2>3 DEF PlanPartition
    <3>. QED BY <1>7, <2>1, <3>1, FlatFits
  <2>. QED BY <2>2, <2>3
<1>8. CASE op \in {"sql", "compute"}
  <2>1. Planned(n) = PlanCompute(n)
    BY <1>8 DEF Planned
  <2>2. Compatible(n)
    BY <1>8 DEF Plannable
  <2>. QED BY <1>8, <2>1, <2>2, ComputeFits
<1>9. CASE op = "limit"
  <2>1. Planned(n) = PlanLimit(n)
    BY <1>9 DEF Planned
  <2>. QED BY <1>9, <2>1, LimitFits
<1>. QED BY <1>1, <1>2, <1>3, <1>4, <1>5, <1>6, <1>7, <1>8, <1>9

\* The next node to visit has all its inputs.
LEMMA NextIsVisitable ==
    ASSUME WellFormed(plan), TasksOK, GroupsOK, NEW n \in Needed \ DOMAIN group,
           \A m \in Needed \ DOMAIN group : n <= m
    PROVE  Visitable(n)
<1>1. n \in DOMAIN plan /\ n \in Nat /\ \A i \in DOMAIN plan[n].deps :
                plan[n].deps[i] \in Needed /\ plan[n].deps[i] \in 1 .. n - 1
    BY NeededIs, PlanIs
<1>2. ASSUME NEW i \in DOMAIN plan[n].deps PROVE plan[n].deps[i] \in DOMAIN group
  <2>. DEFINE d == plan[n].deps[i]
  <2>1. d \in Needed /\ d \in 1 .. n - 1
    BY <1>1
  <2>2. d \notin DOMAIN group => n <= d
    BY <2>1
  <2>. HIDE DEF d
  <2>3. d \in DOMAIN group
    BY <1>1, <2>1, <2>2
  <2>. QED BY <2>3 DEF d
<1>. QED BY <1>1, <1>2 DEF Visitable

LEMMA VisitKeeps ==
    ASSUME WellFormed(plan), TasksOK, GroupsOK, NEW n, Visit(n)
    PROVE  TasksOK' /\ GroupsOK'
<1>1. n \in Needed \ DOMAIN group /\ \A m \in Needed \ DOMAIN group : n <= m
    BY DEF Visit
<1>2. Visitable(n)
    BY <1>1, NextIsVisitable
<1>3. plan' = plan
    BY DEF Visit
<1>4. CASE ~Plannable(n)
  <2>1. tasks' = tasks /\ group' = group
    BY <1>4 DEF Visit
  <2>2. TasksOK' <=> tasks' \in Seq(TaskRecs) /\ \A t \in DOMAIN tasks' : TaskOK(plan', tasks', t)
    BY DEF TasksOK
  <2>3. GroupsOK' <=> /\ DOMAIN group' \subseteq DOMAIN plan'
                      /\ \A m \in DOMAIN group' : GroupFits(plan', tasks', group', m, group'[m])
    BY DEF GroupsOK
  <2>4. TasksOK'
    BY <1>3, <2>1, <2>2 DEF TasksOK
  <2>5. GroupsOK'
    BY <1>3, <2>1, <2>3 DEF GroupsOK
  <2>. QED BY <2>4, <2>5
<1>5. CASE Plannable(n)
  <2>. DEFINE new == Planned(n).new
              g == Planned(n).group
              us == tasks \o new
  <2>1. tasks' = us /\ group' = Extended(group, n, g)
    BY <1>5 DEF Visit
  <2>2. Fits(n, new, g)
    BY <1>2, <1>5, PlannedFits
  <2>. HIDE DEF new, g
  <2>3. /\ new \in Seq(TaskRecs) /\ \A k \in DOMAIN new : TaskFits(plan, us, Len(tasks) + k, new[k])
        /\ GroupFits(plan, us, group, n, g)
    BY <2>2 DEF Fits
  <2>4. \A t \in DOMAIN us : TaskOK(plan, us, t)
    BY <2>3, NewTasksFit
  <2>5. Grown(tasks, new, us)
    BY <2>3, GrownIs DEF TasksOK
  <2>. HIDE DEF us
  <2>6. TasksOK'
    <3>1. us \in Seq(TaskRecs) /\ \A t \in DOMAIN us : TaskOK(plan, us, t)
      BY <2>4, <2>5 DEF Grown
    <3>2. TasksOK' <=> tasks' \in Seq(TaskRecs) /\ \A t \in DOMAIN tasks' : TaskOK(plan', tasks', t)
      BY DEF TasksOK
    <3>. QED BY <1>3, <2>1, <3>1, <3>2
  <2>. DEFINE hr == Extended(group, n, g)
  <2>7. /\ DOMAIN hr = DOMAIN group \cup {n} /\ hr[n] = g
        /\ \A m \in DOMAIN group : hr[m] = group[m]
    BY <1>1, ExtendedIs
  <2>8. DOMAIN tasks \subseteq DOMAIN us /\ \A t \in DOMAIN tasks : us[t] = tasks[t]
    <3>1. DOMAIN us = 1 .. Len(tasks) + Len(new) /\ DOMAIN tasks = 1 .. Len(tasks)
          /\ Len(tasks) \in Nat /\ Len(new) \in Nat
      BY <2>5 DEF Grown
    <3>2. \A t \in 1 .. Len(tasks) : us[t] = tasks[t]
      BY <2>5 DEF Grown
    <3>. QED BY <3>1, <3>2
  <2>. HIDE DEF hr
  <2>9. ASSUME NEW m \in DOMAIN hr PROVE GroupFits(plan, us, hr, m, hr[m])
    <3>1. CASE m \in DOMAIN group
      <4>1. GroupFits(plan, tasks, group, m, group[m])
        BY <3>1 DEF GroupsOK
      <4>2. GroupFits(plan, us, hr, m, group[m])
        BY <2>7, <2>8, <4>1, GroupStays
      <4>. QED BY <2>7, <3>1, <4>2
    <3>2. CASE m = n
      <4>1. GroupFits(plan, us, hr, n, g)
        BY <2>3, <2>7, GroupStays
      <4>. QED BY <2>7, <3>2, <4>1
    <3>. QED BY <2>7, <3>1, <3>2
  <2>10. DOMAIN hr \subseteq DOMAIN plan
    BY <1>1, <2>7, NeededIs DEF GroupsOK
  <2>11. GroupsOK'
    <3>1. GroupsOK' <=> /\ DOMAIN group' \subseteq DOMAIN plan'
                        /\ \A m \in DOMAIN group' : GroupFits(plan', tasks', group', m, group'[m])
      BY DEF GroupsOK
    <3>. QED BY <1>3, <2>1, <2>9, <2>10, <3>1 DEF hr
  <2>. QED BY <2>6, <2>11
<1>. QED BY <1>4, <1>5

-----------------------------------------------------------------------------
(* The planner *)

\* Plans, and what is planned of them.
PlannedOK ==
    /\ phase \in {"logical", "planning", "running", "failed"}
    /\ WellFormed(plan) /\ TasksOK /\ GroupsOK
    /\ phase = "logical" => tasks = <<>> /\ DOMAIN group = {}
    /\ phase \in {"logical", "planning"} => output = << >>
    /\ LoadsSources => LoadsIn(plan)
    /\ LimitsApart => IF phase = "logical" THEN ApartIn(plan) ELSE Unlimited(plan)

\* Nothing is planned yet.
LEMMA NothingPlanned ==
    ASSUME tasks = <<>>, DOMAIN group = {}
    PROVE  TasksOK /\ GroupsOK
<1>. DEFINE N == TaskRecs
            e == <<>>
<1>1. e \in Seq(N) /\ DOMAIN e = {}
    BY EmptyIsSeq
<1>2. tasks = e
    OBVIOUS
<1>. HIDE DEF N, e
<1>3. tasks \in Seq(N) /\ DOMAIN tasks = {}
    BY <1>1, <1>2
<1>. QED BY <1>3 DEF TasksOK, GroupsOK, N

LEMMA PlannedInit ==
    ASSUME Init
    PROVE  PlannedOK
<1>1. /\ plan \in Plans /\ phase = "logical" /\ tasks = <<>> /\ DOMAIN group = {} /\ output = << >>
    BY DEF Init, PlannerInit
<1>2. WellFormed(plan)
    BY <1>1, PlannerAssumption
<1>3. LoadsSources => LoadsIn(plan)
    BY <1>1 DEF LoadsSources, LoadsIn
<1>4. LimitsApart => ApartIn(plan)
    BY <1>1 DEF LimitsApart, ApartIn, Unlimited
<1>. QED BY <1>1, <1>2, <1>3, <1>4, NothingPlanned DEF PlannedOK

LEMMA NothingPlannedNext ==
    ASSUME tasks' = <<>>, DOMAIN group' = {}
    PROVE  TasksOK' /\ GroupsOK'
<1>. DEFINE N == TaskRecs
            e == <<>>
<1>1. e \in Seq(N) /\ DOMAIN e = {}
    BY EmptyIsSeq
<1>2. tasks' = e
    OBVIOUS
<1>. HIDE DEF N, e
<1>3. tasks' \in Seq(N) /\ DOMAIN tasks' = {}
    BY <1>1, <1>2
<1>. QED BY <1>3 DEF TasksOK, GroupsOK, N

LEMMA PlannedNext ==
    ASSUME PlannedOK, PlannerNext, output' = output
    PROVE  PlannedOK'
<1>1. CASE Optimize
  <2>1. /\ phase = "logical" /\ plan' = OptimizedPlan /\ phase' = "planning"
        /\ tasks' = <<>> /\ DOMAIN group' = {} /\ output' = << >>
    BY <1>1 DEF Optimize, PlannedOK
  <2>2. /\ WellFormed(plan') /\ (ApartIn(plan) => Unlimited(plan'))
        /\ (LoadsIn(plan) => LoadsIn(plan'))
    BY <2>1, OptimizedWellFormed DEF PlannedOK
  <2>3. TasksOK' /\ GroupsOK'
    BY <2>1, NothingPlannedNext
  <2>. QED BY <2>1, <2>2, <2>3 DEF PlannedOK
<1>2. CASE Assemble
  <2>1. /\ phase = "logical" /\ phase' = "planning"
        /\ tasks' = <<>> /\ DOMAIN group' = {} /\ output' = << >>
    BY <1>2 DEF Assemble, PlannedOK
  <2>2. /\ WellFormed(plan') /\ (Unlimited(plan) => Unlimited(plan'))
        /\ (LoadsIn(plan) => LoadsIn(plan'))
    BY <1>2, AssembledWellFormed DEF PlannedOK
  <2>3. TasksOK' /\ GroupsOK'
    BY <2>1, NothingPlannedNext
  <2>. QED BY <2>1, <2>2, <2>3 DEF PlannedOK, ApartIn
<1>3. ASSUME NEW n \in DOMAIN plan, Visit(n) PROVE PlannedOK'
  <2>1. phase = "planning" /\ plan' = plan /\ phase' \in {"planning", "running", "failed"}
    BY <1>3 DEF Visit
  <2>2. TasksOK' /\ GroupsOK'
    BY <1>3, VisitKeeps DEF PlannedOK
  <2>. QED BY <2>1, <2>2 DEF PlannedOK
<1>. QED BY <1>1, <1>2, <1>3 DEF PlannerNext

-----------------------------------------------------------------------------
(* What tasks make of their inputs *)

\* Hashed, for a hash function that is given.
HashedBy(h, node, idx) ==
    {x \in FileRange : \A i \in DOMAIN x.rows :
        (IF node.kind = "shuffle" THEN x.rows[i][1] % node.n
         ELSE h[node.duckdb][Key(x.rows[i])] % node.n) = idx}

\* The ranges that may be in partition idx of node n, up to task t.
Marked(p, h, n, t, idx) ==
    Written(t) \cap
        IF p[n].kind \in {"hash", "shuffle"} THEN HashedBy(h, p[n], idx)
        ELSE IF p[n].kind = "load" /\ LoadsIn(p) THEN Keyed(idx)
        ELSE FileRange

\* The size of a partition that producer t made, without the file it added.
PartSize(t, byRows, d) ==
    IF byRows \/ Ranged(d) THEN NumRows(d)
    ELSE Cardinality({j \in DOMAIN d.ranges : d.ranges[j].path[1] # t})
EvenOK(t, byRows, parts) ==
    \A j, k \in DOMAIN parts : PartSize(t, byRows, parts[j]) <= PartSize(t, byRows, parts[k]) + 1

PartsOK(p, h, n, t, parts) ==
    /\ parts \in [1 .. p[n].n -> DatasetsIn(Written(t))]
    /\ \A k \in 1 .. p[n].n : parts[k] \in DatasetsIn(Marked(p, h, n, t, k - 1))

\* What producer t of node n may put out.
ProducedOK(p, h, n, t, parts) ==
    /\ PartsOK(p, h, n, t, parts)
    /\ p[n].kind \in {"even", "evenrows"} => EvenOK(t, p[n].kind = "evenrows", parts)
    /\ \A j, k \in 1 .. p[n].n : Empty(parts[j]) => NumRows(parts[k]) = 0

\* What task t may put out, given its inputs.
ResultOK(p, ts, h, t, ins, out) ==
    IF ts[t].type = "producer" THEN ProducedOK(p, h, ts[t].node, t, out)
    ELSE /\ out \in DatasetsIn(Written(t))
         /\ ts[t].type = "consumer" =>
                out \in DatasetsIn(Marked(p, h, ts[t].node, t, ts[t].infos[p[ts[t].node].dim]))
         /\ \/ ts[t].type = "source"
            \/ ts[t].type \in {"merge", "split"} /\ IsLoad(p, ts[t].node) /\ LoadsIn(p)
            => out.kind = "files"
         /\ ts[t].type = "compute" /\ Len(ts[t].inputs) = 1 =>
                NumRows(out) = Passed(NumRows(ins[1]), p[ts[t].node].limits)
         /\ ts[t].type = "merge" => NumRows(out) = Len(FlattenSeq(RowsOfEach(ins)))

InputsOf(ts, o, t) == [i \in DOMAIN ts[t].inputs |-> o[ts[t].inputs[i]]]

\* What has run so far.
OutputsOK ==
    \A t \in DOMAIN output :
        /\ t \in DOMAIN tasks /\ \A i \in DOMAIN tasks[t].inputs : tasks[t].inputs[i] \in DOMAIN output
        /\ ResultOK(plan, tasks, hash, t, InputsOf(tasks, output, t), output[t])

LEMMA HashedByIs ==
    ASSUME NEW node, NEW idx
    PROVE  Hashed(node, idx) = HashedBy(hash, node, idx)
    BY DEF Hashed, HashedBy, Bucket

LEMMA MarkedIs ==
    ASSUME NEW p, NEW h, NEW n, NEW t \in Int, NEW idx
    PROVE  /\ Marked(p, h, n, t, idx) \in SUBSET FileRange
           /\ Marked(p, h, n, t, idx) \subseteq Written(t)
    BY DEF Marked, Written

LEMMA MarkedGrows ==
    ASSUME NEW p, NEW h, NEW n, NEW t \in Int, NEW u \in Int, t <= u, NEW idx
    PROVE  Marked(p, h, n, t, idx) \subseteq Marked(p, h, n, u, idx)
<1>1. Written(t) \subseteq Written(u)
    BY WrittenGrows
<1>. HIDE DEF Written
<1>. QED BY <1>1 DEF Marked

\* The file that is added to an empty partition.
LEMMA AddedFile ==
    ASSUME NEW p, NEW h, NEW n, NEW t \in Int, NEW k \in Int
    PROVE  RowRange(<<t, k>>, <<>>, k - 1) \in Marked(p, h, n, t, k - 1)
<1>. DEFINE e == <<>>
            x == RowRange(<<t, k>>, e, k - 1)
<1>1. e \in Seq(Row) /\ DOMAIN e = {}
    BY EmptyIsSeq
<1>. HIDE DEF e
<1>3. x \in FileRange /\ x.path[1] = t /\ x.rows = e /\ x.part = k - 1
    BY <1>1 DEF RowRange, FileRange
<1>. HIDE DEF x
<1>4. x \in Written(t) /\ x \in HashedBy(h, p[n], k - 1) /\ x \in Keyed(k - 1)
    BY <1>1, <1>3 DEF Written, HashedBy, Keyed
<1>. QED BY <1>3, <1>4 DEF Marked, x, e

\* A task that is ready.
Runs(t) ==
    /\ PlannedOK /\ OutputsOK /\ t \in DOMAIN tasks /\ TaskOK(plan, tasks, t)
    /\ t \in Nat /\ tasks[t] \in TaskRecs
    /\ t \notin DOMAIN output
    /\ \A i \in DOMAIN tasks[t].inputs : tasks[t].inputs[i] \in DOMAIN output

LEMMA RunsIs ==
    ASSUME PlannedOK, OutputsOK, NEW t \in DOMAIN tasks, Ready(t)
    PROVE  Runs(t)
<1>. DEFINE N == TaskRecs
<1>1. tasks \in Seq(N) /\ TaskOK(plan, tasks, t)
    BY DEF PlannedOK, TasksOK
<1>. HIDE DEF N
<1>2. t \in Nat /\ tasks[t] \in N
    BY <1>1, SeqIs
<1>. QED BY <1>1, <1>2 DEF Runs, Ready, N

\* The node of a task, and its inputs.
LEMMA RunsNode ==
    ASSUME NEW t, Runs(t)
    PROVE  /\ tasks[t].node \in DOMAIN plan /\ plan[tasks[t].node] \in Nodes
           /\ NodeOK(plan, tasks[t].node)
           /\ tasks[t].inputs \in Seq(Nat) /\ Len(tasks[t].inputs) \in Nat
           /\ DOMAIN tasks[t].inputs = 1 .. Len(tasks[t].inputs)
<1>1. tasks[t].node \in DOMAIN plan /\ tasks[t] \in TaskRecs
    BY DEF Runs, TaskOK, TaskFits
<1>2. plan[tasks[t].node] \in Nodes /\ NodeOK(plan, tasks[t].node)
    BY <1>1, PlanIs DEF Runs, PlannedOK
<1>. DEFINE s == tasks[t].inputs
<1>3. s \in Seq(Nat)
    BY <1>1 DEF TaskRecs
<1>. HIDE DEF s
<1>4. Len(s) \in Nat /\ DOMAIN s = 1 .. Len(s)
    BY <1>3, SeqIs
<1>. QED BY <1>1, <1>2, <1>3, <1>4 DEF s

\* A task, not a consumer, reads datasets whose files earlier tasks wrote.
LEMMA InputsAre ==
    ASSUME NEW t, Runs(t), tasks[t].type # "consumer"
    PROVE  /\ Inputs(t) \in Seq(DatasetsIn(Written(t - 1)))
           /\ Inputs(t) \in Seq(DatasetsIn(Written(t)))
           /\ Len(Inputs(t)) = Len(tasks[t].inputs)
           /\ DOMAIN Inputs(t) = 1 .. Len(tasks[t].inputs)
           /\ Inputs(t) = InputsOf(tasks, output, t)
           /\ \A i \in 1 .. Len(tasks[t].inputs) :
                Inputs(t)[i] \in DatasetsIn(Written(t - 1)) /\ Inputs(t)[i] \in DatasetsIn(Written(t))
<1>. DEFINE s == tasks[t].inputs
            m == Len(s)
            ins == [i \in DOMAIN s |-> output[s[i]]]
            A == DatasetsIn(Written(t - 1))
            B == DatasetsIn(Written(t))
<1>1. m \in Nat /\ DOMAIN s = 1..m /\ t \in Nat
    BY RunsNode DEF Runs
<1>2. A \subseteq B
  <2>1. Written(t - 1) \subseteq Written(t)
    BY <1>1, WrittenGrows
  <2>. QED BY <2>1, DatasetsGrow
<1>3. ASSUME NEW i \in 1..m PROVE output[s[i]] \in A
  <2>. DEFINE u == s[i]
  <2>1. u \in 1 .. t - 1 /\ tasks[u].type # "producer" /\ u \in DOMAIN output
    BY <1>1 DEF Runs, TaskOK, TaskFits
  <2>2. output[u] \in DatasetsIn(Written(u))
    BY <2>1 DEF Runs, OutputsOK, ResultOK
  <2>3. Written(u) \subseteq Written(t - 1)
    <3>1. u \in Int /\ t - 1 \in Int /\ u <= t - 1
      BY <1>1, <2>1
    <3>. HIDE DEF u
    <3>. QED BY <3>1, WrittenGrows
  <2>. QED BY <2>2, <2>3, DatasetsGrow
<1>4. Inputs(t) = ins /\ InputsOf(tasks, output, t) = ins
    BY DEF Inputs, InputsOf
<1>. HIDE DEF s, m, A, B
<1>5. ins \in [1..m -> A] /\ ins \in [1..m -> B] /\ \A i \in 1..m : ins[i] \in A /\ ins[i] \in B
    BY <1>1, <1>2, <1>3
<1>. HIDE DEF ins
<1>6. ins \in Seq(A) /\ ins \in Seq(B) /\ Len(ins) = m /\ DOMAIN ins = 1..m
    BY <1>1, <1>5, FunctionIsSeq
<1>. QED BY <1>4, <1>5, <1>6 DEF A, B, m, s

\* Removing empty files changes neither.
LEMMA TrimmedAre ==
    ASSUME NEW t, Runs(t), tasks[t].type # "consumer"
    PROVE  /\ Len(TrimmedInputs(t)) = Len(tasks[t].inputs)
           /\ DOMAIN TrimmedInputs(t) = 1 .. Len(tasks[t].inputs)
           /\ \A i \in 1 .. Len(tasks[t].inputs) :
                /\ TrimmedInputs(t)[i] \in DatasetsIn(Written(t))
                /\ TrimmedInputs(t)[i].kind = "merged" => Inputs(t)[i].kind = "merged"
                /\ NumRows(TrimmedInputs(t)[i]) = NumRows(Inputs(t)[i])
<1>. DEFINE m == Len(tasks[t].inputs)
            B == DatasetsIn(Written(t))
            x(i) == IF trim THEN RemoveEmptyFiles(Inputs(t)[i]) ELSE Inputs(t)[i]
            ins == TrimmedInputs(t)
<1>1. m \in Nat /\ t \in Nat /\ DOMAIN Inputs(t) = 1..m /\ \A i \in 1..m : Inputs(t)[i] \in B
    BY RunsNode, InputsAre DEF Runs
<1>2. Written(t) \in SUBSET FileRange
    BY DEF Written
<1>3. ASSUME NEW i \in 1..m
      PROVE  /\ x(i) \in B /\ (x(i).kind = "merged" => Inputs(t)[i].kind = "merged")
             /\ NumRows(x(i)) = NumRows(Inputs(t)[i])
  <2>. DEFINE d == Inputs(t)[i]
  <2>1. d \in B
    BY <1>1
  <2>. HIDE DEF d
  <2>2. /\ RemoveEmptyFiles(d) \in B
        /\ RemoveEmptyFiles(d).kind = "merged" => d.kind = "merged"
        /\ NumRows(RemoveEmptyFiles(d)) = NumRows(d)
    BY <1>2, <2>1, RemoveEmptyIs
  <2>. QED BY <2>1, <2>2 DEF d
<1>4. ins = [i \in 1..m |-> x(i)]
    BY <1>1 DEF TrimmedInputs
<1>. HIDE DEF x, m, ins, B
<1>5. \A i \in 1..m : ins[i] = x(i)
    BY <1>4
<1>6. ins \in [1..m -> B]
    BY <1>3, <1>4
<1>7. Len(ins) = m /\ DOMAIN ins = 1..m
    BY <1>1, <1>6, FunctionIsSeq
<1>. QED BY <1>3, <1>5, <1>7 DEF m, ins, B

-----------------------------------------------------------------------------
(* Producers *)

ProducerInput(t) ==
    IF plan[tasks[t].node].kind \in {"even", "evenrows", "repeat"} THEN Inputs(t)[1]
    ELSE TrimmedInputs(t)[1]

LEMMA ProducerNode ==
    ASSUME NEW t, Runs(t), tasks[t].type = "producer"
    PROVE  /\ plan[tasks[t].node].op = "partition" /\ plan[tasks[t].node].kind \in Kinds
           /\ plan[tasks[t].node].n \in Nat \ {0} /\ tasks[t].n = plan[tasks[t].node].n
           /\ Len(tasks[t].inputs) = 1 /\ tasks[t].type # "consumer" /\ t \in Nat
           /\ 1 \in 1 .. Len(tasks[t].inputs)
<1>1. /\ plan[tasks[t].node].op = "partition" /\ tasks[t].n = plan[tasks[t].node].n
      /\ Len(tasks[t].inputs) = 1 /\ t \in Nat
    BY DEF Runs, TaskOK, TaskFits
<1>2. plan[tasks[t].node].kind \in Kinds /\ plan[tasks[t].node].n \in Nat \ {0}
    BY <1>1, RunsNode, NodeIs
<1>. QED BY <1>1, <1>2

LEMMA ProducerInputIs ==
    ASSUME NEW t, Runs(t), tasks[t].type = "producer"
    PROVE  /\ ProducerInput(t) \in DatasetsIn(Written(t))
           /\ plan[tasks[t].node].kind \in {"even", "evenrows"} =>
                ProducerInput(t) \in DatasetsIn(Written(t - 1))
           /\ plan[tasks[t].node].kind = "load" /\ LoadsIn(plan) => ProducerInput(t).kind # "merged"
<1>. DEFINE n == tasks[t].node
<1>1. /\ Len(tasks[t].inputs) = 1 /\ tasks[t].type # "consumer" /\ 1 \in 1 .. Len(tasks[t].inputs)
      /\ plan[n].op = "partition"
    BY ProducerNode
<1>2. /\ Inputs(t)[1] \in DatasetsIn(Written(t - 1)) /\ Inputs(t)[1] \in DatasetsIn(Written(t))
    BY <1>1, InputsAre
<1>3. /\ TrimmedInputs(t)[1] \in DatasetsIn(Written(t))
      /\ TrimmedInputs(t)[1].kind = "merged" => Inputs(t)[1].kind = "merged"
    BY <1>1, TrimmedAre
<1>4. ASSUME plan[n].kind = "load", LoadsIn(plan) PROVE Inputs(t)[1].kind = "files"
  <2>. DEFINE u == tasks[t].inputs[1]
  <2>1. 1 \in DOMAIN tasks[t].inputs
    BY <1>1, RunsNode
  <2>2. u \in DOMAIN output /\ tasks[u].type # "producer" /\ Plain(tasks[u], n)
    BY <1>1, <1>4, <2>1 DEF Runs, TaskOK, TaskFits, IsLoad
  <2>3. output[u].kind = "files"
    BY <1>1, <1>4, <2>2 DEF Runs, OutputsOK, ResultOK, Plain, IsLoad
  <2>4. Inputs(t)[1] = output[u]
    BY <2>1 DEF Inputs
  <2>. QED BY <2>3, <2>4
<1>. QED BY <1>2, <1>3, <1>4 DEF ProducerInput

\* Functions with domain 1 .. n, by their items.
LEMMA PartsTyped ==
    ASSUME NEW p, NEW h, NEW n, NEW t \in Int, NEW parts, parts = [k \in 1 .. p[n].n |-> parts[k]],
           \A k \in 1 .. p[n].n : parts[k] \in DatasetsIn(Marked(p, h, n, t, k - 1))
    PROVE  PartsOK(p, h, n, t, parts)
<1>1. ASSUME NEW k \in 1 .. p[n].n PROVE parts[k] \in DatasetsIn(Written(t))
  <2>1. Marked(p, h, n, t, k - 1) \subseteq Written(t)
    BY MarkedIs
  <2>. QED BY <2>1, DatasetsGrow
<1>. DEFINE D == DatasetsIn(Written(t))
<1>2. parts \in [1 .. p[n].n -> D]
  <2>. HIDE DEF D
  <2>. QED BY <1>1 DEF D
<1>. QED BY <1>2 DEF PartsOK

LEMMA PartitionsAre ==
    ASSUME NEW t, Runs(t), tasks[t].type = "producer", plan[tasks[t].node].kind # "user"
    PROVE  PartsOK(plan, hash, tasks[t].node, t, Partitions(t, ProducerInput(t)))
<1>. DEFINE n == tasks[t].node
            node == plan[n]
            np == node.n
            d == ProducerInput(t)
            F == Written(t)
            parts == Partitions(t, d)
<1>1. /\ node.kind \in Kinds /\ np \in Nat \ {0} /\ t \in Nat /\ t \in Int
    BY ProducerNode
<1>2. d \in DatasetsIn(F) /\ (node.kind = "load" /\ LoadsIn(plan) => d.kind # "merged")
    BY ProducerInputIs
<1>3. F \in SUBSET FileRange /\ AnyRows(F)
    BY <1>1, WrittenAnyRows
<1>. HIDE DEF d
<1>4. ASSUME node.kind \in {"hash", "shuffle"} PROVE PartsOK(plan, hash, n, t, parts)
  <2>1. parts = HashPartitions(t, d)
    BY <1>4 DEF Partitions
  <2>2. d \in DatasetsIn(FileRange)
    BY <1>2, <1>3, DatasetsGrow
  <2>3. \A k \in 1..np : parts[k] \in DatasetsIn(WrittenBy(t) \cap Hashed(node, k - 1))
    BY <1>1, <2>1, <2>2, HashPartitionsIs
  <2>4. ASSUME NEW k \in 1..np PROVE parts[k] \in DatasetsIn(Marked(plan, hash, n, t, k - 1))
    <3>1. Hashed(node, k - 1) = HashedBy(hash, node, k - 1)
      BY HashedByIs
    <3>2. WrittenBy(t) \subseteq Written(t)
      BY <1>1, WrittenGrows
    <3>3. Marked(plan, hash, n, t, k - 1) = Written(t) \cap HashedBy(hash, node, k - 1)
      BY <1>4 DEF Marked
    <3>4. WrittenBy(t) \cap Hashed(node, k - 1) \subseteq Marked(plan, hash, n, t, k - 1)
      BY <3>1, <3>2, <3>3
    <3>. DEFINE A == WrittenBy(t) \cap Hashed(node, k - 1)
                B == Marked(plan, hash, n, t, k - 1)
                x == parts[k]
    <3>5. x \in DatasetsIn(A) /\ A \subseteq B
      BY <2>3, <3>4
    <3>. HIDE DEF A, B, x
    <3>6. x \in DatasetsIn(B)
      BY <3>5, DatasetsGrow
    <3>. QED BY <3>6 DEF x, B
  <2>5. parts = [k \in 1..np |-> parts[k]]
    BY <2>1 DEF HashPartitions
  <2>. HIDE DEF parts
  <2>. QED BY <1>1, <2>4, <2>5, PartsTyped
<1>5. ASSUME node.kind = "load" PROVE PartsOK(plan, hash, n, t, parts)
  <2>1. parts = LoadPartitionedDatasets(d, np)
    BY <1>5 DEF Partitions
  <2>2. ASSUME NEW k \in 1..np PROVE parts[k] \in DatasetsIn(Marked(plan, hash, n, t, k - 1))
    <3>1. CASE LoadsIn(plan)
      <4>1. Marked(plan, hash, n, t, k - 1) = F \cap Keyed(k - 1)
        BY <1>5, <3>1 DEF Marked
      <4>. HIDE DEF F
      <4>2. d.kind # "merged" /\ np \in Nat \ {0}
        BY <1>1, <1>2, <1>5, <3>1
      <4>. HIDE DEF np
      <4>3. LoadPartitionedDatasets(d, np)[k] \in DatasetsIn(F \cap Keyed(k - 1))
        BY <1>2, <1>3, <4>2, LoadPartitionsAre
      <4>. HIDE DEF parts
      <4>. QED BY <2>1, <4>1, <4>3
    <3>2. CASE ~LoadsIn(plan)
      <4>1. Marked(plan, hash, n, t, k - 1) = F \cap FileRange
        BY <1>5, <3>2 DEF Marked
      <4>2. F \cap FileRange = F
        BY <1>3
      <4>. HIDE DEF F
      <4>3. np \in Nat \ {0}
        BY <1>1
      <4>. HIDE DEF np
      <4>4. LoadPartitionedDatasets(d, np)[k] \in DatasetsIn(F)
        BY <1>2, <1>3, <4>3, LoadPartitionsAre
      <4>. HIDE DEF parts
      <4>. QED BY <2>1, <4>1, <4>2, <4>4
    <3>. QED BY <3>1, <3>2
  <2>3. parts = [k \in 1..np |-> parts[k]]
    BY <2>1 DEF LoadPartitionedDatasets
  <2>. HIDE DEF parts
  <2>. QED BY <1>1, <2>2, <2>3, PartsTyped
<1>6. ASSUME node.kind \in {"even", "evenrows", "repeat"} PROVE PartsOK(plan, hash, n, t, parts)
  <2>1. parts \in [1..np -> DatasetsIn(F)]
    <3>1. CASE node.kind = "even"
      <4>1. parts = PartitionByFiles(d, np)
        BY <3>1 DEF Partitions
      <4>. HIDE DEF parts, F
      <4>. QED BY <1>1, <1>2, <1>3, <4>1, PartitionByFilesIs
    <3>2. CASE node.kind = "evenrows"
      <4>1. parts = PartitionByRows(d, np)
        BY <3>2 DEF Partitions
      <4>. HIDE DEF parts, F
      <4>. QED BY <1>1, <1>2, <1>3, <4>1, PartitionByRowsIs
    <3>3. CASE node.kind = "repeat"
      <4>1. parts = [k \in 1..np |-> d]
        BY <3>3 DEF Partitions
      <4>. HIDE DEF parts, F
      <4>. QED BY <1>2, <4>1
    <3>. QED BY <1>6, <3>1, <3>2, <3>3
  <2>2. ASSUME NEW k \in 1..np PROVE Marked(plan, hash, n, t, k - 1) = F
    <3>1. F \cap FileRange = F
      BY <1>3
    <3>. HIDE DEF F
    <3>. QED BY <1>6, <3>1 DEF Marked, F
  <2>. HIDE DEF parts
  <2>3. \A k \in 1..np : parts[k] \in DatasetsIn(Marked(plan, hash, n, t, k - 1))
    BY <2>1, <2>2
  <2>. HIDE DEF F
  <2>4. parts = [k \in 1..np |-> parts[k]]
    BY <2>1
  <2>. QED BY <1>1, <2>3, <2>4, PartsTyped
<1>. QED BY <1>1, <1>4, <1>5, <1>6 DEF Kinds, d

LEMMA UserPartsAre ==
    ASSUME NEW t, Runs(t), tasks[t].type = "producer", plan[tasks[t].node].kind = "user",
           NEW parts \in UserPartitions(ProducerInput(t), plan[tasks[t].node].n)
    PROVE  PartsOK(plan, hash, tasks[t].node, t, parts)
<1>. DEFINE n == tasks[t].node
            np == plan[n].n
            d == ProducerInput(t)
            F == Written(t)
<1>1. np \in Nat \ {0} /\ t \in Nat /\ t \in Int
    BY ProducerNode
<1>2. d \in DatasetsIn(F)
    BY ProducerInputIs
<1>3. F \in SUBSET FileRange
    BY DEF Written
<1>. HIDE DEF d
<1>4. parts \in UserPartitions(d, np)
    BY DEF d
<1>5. \A k \in 1..np : parts[k] \in DatasetsIn(F)
  <2>. HIDE DEF F
  <2>. QED BY <1>1, <1>2, <1>3, <1>4, UserPartitionsAre
<1>6. parts = [k \in 1..np |-> parts[k]]
    BY <1>4 DEF UserPartitions
<1>7. ASSUME NEW k \in 1..np PROVE parts[k] \in DatasetsIn(Marked(plan, hash, n, t, k - 1))
  <2>1. Marked(plan, hash, n, t, k - 1) = F \cap FileRange
    BY DEF Marked
  <2>2. F \cap FileRange = F
    BY <1>3
  <2>. QED BY <1>5, <2>1, <2>2
<1>. QED BY <1>1, <1>6, <1>7, PartsTyped

\* Files are added to empty partitions.
LEMMA FinalizedAre ==
    ASSUME NEW p, NEW h, NEW n, NEW t \in Int, p[n].n \in Nat \ {0}, NEW parts,
           PartsOK(p, h, n, t, parts)
    PROVE  /\ PartsOK(p, h, n, t, Finalized(t, parts))
           /\ \A k \in 1 .. p[n].n : /\ FinalizedPart(t, k, parts[k], Finalized(t, parts)[k])
                                     /\ NumRows(Finalized(t, parts)[k]) = NumRows(parts[k])
           /\ \A j, k \in 1 .. p[n].n :
                Empty(Finalized(t, parts)[j]) => NumRows(Finalized(t, parts)[k]) = 0
<1>. DEFINE np == p[n].n
            f == Finalized(t, parts)
<1>1. /\ parts \in [1..np -> DatasetsIn(Written(t))] /\ DOMAIN parts = 1..np
      /\ \A k \in 1..np : parts[k] \in DatasetsIn(Marked(p, h, n, t, k - 1))
    BY DEF PartsOK
<1>2. DOMAIN f = 1..np /\ \A k \in 1..np : FinalizedPart(t, k, parts[k], f[k])
    BY <1>1, FinalizedIs
<1>3. f = [k \in 1..np |-> f[k]]
    BY <1>1 DEF Finalized
<1>4. \A j, k \in 1..np : Empty(f[j]) => Empty(parts[k])
  <2>1. CASE \A k \in DOMAIN parts : Empty(parts[k])
    BY <1>1, <2>1
  <2>2. CASE ~(\A k \in DOMAIN parts : Empty(parts[k]))
    <3>1. ASSUME NEW j \in 1..np PROVE ~Empty(f[j])
      <4>. DEFINE x == RowRange(<<t, j>>, <<>>, j - 1)
                  r == <<x>>
      <4>1. f[j] = IF Empty(parts[j]) THEN Files(r) ELSE parts[j]
        BY <1>1, <2>2 DEF Finalized
      <4>2. ~Empty(Files(r))
        <5>1. r # <<>>
          OBVIOUS
        <5>. HIDE DEF r
        <5>. QED BY <5>1 DEF Empty, Files, Ranged
      <4>. QED BY <4>1, <4>2
    <3>. QED BY <3>1
  <2>. QED BY <2>1, <2>2
<1>. HIDE DEF f
<1>5. ASSUME NEW k \in 1..np
      PROVE  f[k] \in DatasetsIn(Marked(p, h, n, t, k - 1)) /\ NumRows(f[k]) = NumRows(parts[k])
  <2>. DEFINE F == Marked(p, h, n, t, k - 1)
  <2>1. F \in SUBSET FileRange /\ RowRange(<<t, k>>, <<>>, k - 1) \in F
    BY MarkedIs, AddedFile
  <2>2. parts[k] \in DatasetsIn(F) /\ FinalizedPart(t, k, parts[k], f[k]) /\ k \in Int
    BY <1>1, <1>2
  <2>. HIDE DEF F
  <2>. QED BY <2>1, <2>2, FinalizedPartIs DEF F
<1>6. PartsOK(p, h, n, t, f)
    BY <1>3, <1>5, PartsTyped
<1>7. ASSUME NEW j \in 1..np, NEW k \in 1..np, Empty(f[j]) PROVE NumRows(f[k]) = 0
  <2>1. NumRows(parts[k]) = 0
    BY <1>4, <1>7, EmptyHasNoRows
  <2>. QED BY <1>5, <2>1
<1>. QED BY <1>2, <1>5, <1>6, <1>7 DEF f

\* Parts of a number of rows, after empty ones got a file.
LEMMA EvenByRows ==
    ASSUME NEW t \in Int, NEW n \in Nat \ {0}, NEW byRows \in BOOLEAN, NEW parts, NEW f,
           DOMAIN f = 1..n, NEW q \in Nat,
           \A k \in 1..n : /\ Ranged(parts[k]) /\ NumRows(parts[k]) \in {q, q + 1}
                           /\ FinalizedPart(t, k, parts[k], f[k])
                           /\ NumRows(f[k]) = NumRows(parts[k])
    PROVE  EvenOK(t, byRows, f)
<1>1. ASSUME NEW k \in 1..n PROVE PartSize(t, byRows, f[k]) \in {q, q + 1}
  <2>1. CASE byRows \/ Ranged(f[k])
    BY <2>1 DEF PartSize
  <2>2. CASE ~(byRows \/ Ranged(f[k]))
    <3>. DEFINE x == RowRange(<<t, k>>, <<>>, k - 1)
                r == <<x>>
    <3>1. f[k] = Files(r) /\ Empty(parts[k])
      BY <2>2 DEF FinalizedPart
    <3>2. f[k].ranges = r /\ DOMAIN r = {1} /\ r[1].path[1] = t
      BY <3>1 DEF Files, RowRange
    <3>3. {j \in DOMAIN f[k].ranges : f[k].ranges[j].path[1] # t} = {}
      <4>. HIDE DEF r
      <4>. QED BY <3>2
    <3>4. PartSize(t, byRows, f[k]) = 0
      BY <2>2, <3>3, FS_EmptySet DEF PartSize
    <3>5. NumRows(parts[k]) = 0
      BY <3>1, EmptyHasNoRows
    <3>. QED BY <3>4, <3>5
  <2>. QED BY <2>1, <2>2
<1>2. ASSUME NEW j \in 1..n, NEW k \in 1..n
      PROVE  PartSize(t, byRows, f[j]) <= PartSize(t, byRows, f[k]) + 1
    BY <1>1
<1>. QED BY <1>2 DEF EvenOK

\* Parts of a number of files, after empty ones got a file.
LEMMA EvenByFiles ==
    ASSUME NEW t \in Nat, NEW n \in Nat \ {0}, NEW parts, NEW f, DOMAIN f = 1..n, NEW l \in Nat,
           \A k \in 1..n : /\ parts[k] \in DatasetsIn(Written(t - 1)) /\ parts[k].kind = "files"
                           /\ Len(parts[k].ranges) = SplitSize(l, n, k)
                           /\ FinalizedPart(t, k, parts[k], f[k])
    PROVE  EvenOK(t, FALSE, f)
<1>1. ASSUME NEW k \in 1..n PROVE PartSize(t, FALSE, f[k]) = SplitSize(l, n, k)
  <2>. DEFINE s == parts[k].ranges
              m == Len(s)
              F == Written(t - 1)
  <2>1. s \in Seq(F)
    BY DEF DatasetsIn
  <2>. HIDE DEF s, F
  <2>2. m \in Nat /\ DOMAIN s = 1..m /\ (\A j \in 1..m : s[j] \in F) /\ (s = <<>> <=> m = 0)
    BY <2>1, SeqIs
  <2>3. CASE f[k] = parts[k]
    <3>1. {j \in DOMAIN s : s[j].path[1] # t} = 1..m
      <4>1. ASSUME NEW j \in 1..m PROVE s[j].path[1] # t
        <5>1. s[j].path[1] \in Int /\ s[j].path[1] <= t - 1
          BY <2>2 DEF F, Written, FileRange
        <5>. QED BY <5>1
      <4>. QED BY <2>2, <4>1
    <3>2. Cardinality(1..m) = m
      BY <2>2, FirstNumbers
    <3>. QED BY <2>3, <3>1, <3>2 DEF PartSize, Ranged, s
  <2>4. CASE f[k] # parts[k]
    <3>. DEFINE x == RowRange(<<t, k>>, <<>>, k - 1)
                r == <<x>>
    <3>1. f[k] = Files(r) /\ Empty(parts[k])
      BY <2>4 DEF FinalizedPart
    <3>2. f[k].ranges = r /\ DOMAIN r = {1} /\ r[1].path[1] = t /\ ~Ranged(f[k])
      BY <3>1 DEF Files, RowRange, Ranged
    <3>3. {j \in DOMAIN f[k].ranges : f[k].ranges[j].path[1] # t} = {}
      <4>. HIDE DEF r
      <4>. QED BY <3>2
    <3>4. PartSize(t, FALSE, f[k]) = 0
      BY <3>2, <3>3, FS_EmptySet DEF PartSize
    <3>5. m = 0
      BY <2>2, <3>1 DEF Empty, Ranged, s
    <3>. QED BY <3>4, <3>5 DEF s
  <2>. QED BY <2>3, <2>4
<1>2. ASSUME NEW j \in 1..n, NEW k \in 1..n
      PROVE  PartSize(t, FALSE, f[j]) <= PartSize(t, FALSE, f[k]) + 1
    BY <1>1, SplitIsEven
<1>. QED BY <1>2 DEF EvenOK

LEMMA EvenMade ==
    ASSUME NEW t, Runs(t), tasks[t].type = "producer",
           plan[tasks[t].node].kind \in {"even", "evenrows"}
    PROVE  EvenOK(t, plan[tasks[t].node].kind = "evenrows",
                  Finalized(t, Partitions(t, ProducerInput(t))))
<1>. DEFINE n == tasks[t].node
            kind == plan[n].kind
            np == plan[n].n
            d == ProducerInput(t)
            F == Written(t - 1)
            parts == Partitions(t, d)
            f == Finalized(t, parts)
<1>1. np \in Nat \ {0} /\ t \in Nat /\ t \in Int
    BY ProducerNode
<1>2. d \in DatasetsIn(F)
    BY ProducerInputIs
<1>3. F \in SUBSET FileRange /\ AnyRows(F)
    BY <1>1, WrittenAnyRows
<1>4. PartsOK(plan, hash, n, t, parts)
    BY PartitionsAre
<1>5. /\ DOMAIN f = 1..np
      /\ \A k \in 1..np : FinalizedPart(t, k, parts[k], f[k]) /\ NumRows(f[k]) = NumRows(parts[k])
  <2>. HIDE DEF parts
  <2>1. /\ PartsOK(plan, hash, n, t, f)
        /\ \A k \in 1..np : FinalizedPart(t, k, parts[k], f[k]) /\ NumRows(f[k]) = NumRows(parts[k])
    BY <1>1, <1>4, FinalizedAre
  <2>. QED BY <2>1 DEF PartsOK
<1>6. parts = IF kind = "even" THEN PartitionByFiles(d, np) ELSE PartitionByRows(d, np)
    BY DEF Partitions
<1>. HIDE DEF d, parts, f, F, np
<1>7. CASE kind = "evenrows" \/ Ranged(d)
  <2>. DEFINE q == NumRows(d) \div np
  <2>1. parts = PartitionByRows(d, np)
    BY <1>1, <1>2, <1>3, <1>6, <1>7, PartitionByFilesIs
  <2>2. NumRows(d) \in Nat
    BY <1>2, <1>3, ResolvedRows
  <2>3. q \in Nat
    BY <1>1, <2>2, DivMod
  <2>4. \A k \in 1..np : parts[k].kind = "ranges" /\ NumRows(parts[k]) \in {q, q + 1}
    BY <1>1, <1>2, <1>3, <2>1, PartitionByRowsIs
  <2>5. \A k \in 1..np : Ranged(parts[k])
    BY <2>4 DEF Ranged
  <2>. HIDE DEF q
  <2>. DEFINE b == kind = "evenrows"
  <2>6. b \in BOOLEAN
    OBVIOUS
  <2>. HIDE DEF b
  <2>7. \A k \in 1..np : /\ Ranged(parts[k]) /\ NumRows(parts[k]) \in {q, q + 1}
                         /\ FinalizedPart(t, k, parts[k], f[k])
                         /\ NumRows(f[k]) = NumRows(parts[k])
    BY <1>5, <2>4, <2>5
  <2>8. EvenOK(t, b, f)
    BY <1>1, <1>5, <2>3, <2>6, <2>7, EvenByRows, ZenonT(60)
  <2>. QED BY <2>8 DEF f, parts, d, b
<1>8. CASE ~(kind = "evenrows" \/ Ranged(d))
  <2>. DEFINE l == Len(d.ranges)
  <2>1. parts = PartitionByFiles(d, np)
    BY <1>6, <1>8
  <2>2. \A k \in 1..np : /\ parts[k].kind = "files" /\ Len(parts[k].ranges) = SplitSize(l, np, k)
    BY <1>1, <1>2, <1>3, <1>8, <2>1, PartitionByFilesIs
  <2>3. \A k \in 1..np : parts[k] \in DatasetsIn(F)
    <3>1. parts \in [1..np -> DatasetsIn(F)]
      BY <1>1, <1>2, <1>3, <2>1, PartitionByFilesIs
    <3>. QED BY <3>1
  <2>4. l \in Nat
    <3>. DEFINE r == d.ranges
    <3>1. r \in Seq(F)
      BY <1>2 DEF DatasetsIn
    <3>. HIDE DEF r
    <3>2. Len(r) \in Nat
      BY <3>1, SeqIs
    <3>. QED BY <3>2 DEF r
  <2>. HIDE DEF l
  <2>5. EvenOK(t, FALSE, f)
    BY <1>1, <1>5, <2>2, <2>3, <2>4, EvenByFiles DEF F
  <2>6. (kind = "evenrows") = FALSE
    BY <1>8
  <2>. QED BY <2>5, <2>6 DEF f, parts, d
<1>. QED BY <1>7, <1>8

\* What a producer puts out.
LEMMA ProducerRuns ==
    ASSUME NEW t, Runs(t), RunProducer(t)
    PROVE  \E out : Produce(t, out) /\ ProducedOK(plan, hash, tasks[t].node, t, out)
<1>. DEFINE n == tasks[t].node
            np == plan[n].n
            d == ProducerInput(t)
            good(parts) == PartsOK(plan, hash, n, t, parts)
                           /\ (plan[n].kind \in {"even", "evenrows"} => parts = Partitions(t, d))
<1>1. tasks[t].type = "producer"
    BY DEF RunProducer
<1>2. PICK parts \in IF plan[n].kind = "user" THEN UserPartitions(d, np) ELSE {Partitions(t, d)} :
            Produce(t, Finalized(t, parts))
    BY DEF RunProducer, ProducerInput
<1>3. good(parts)
  <2>1. CASE plan[n].kind = "user"
    <3>1. parts \in UserPartitions(ProducerInput(t), plan[tasks[t].node].n)
      BY <1>2, <2>1
    <3>. QED BY <1>1, <2>1, <3>1, UserPartsAre
  <2>2. CASE plan[n].kind # "user"
    <3>1. parts = Partitions(t, d)
      BY <1>2, <2>2
    <3>. QED BY <1>1, <2>2, <3>1, PartitionsAre
  <2>. QED BY <2>1, <2>2
<1>4. t \in Int /\ np \in Nat \ {0}
    BY <1>1, ProducerNode
<1>. DEFINE f == Finalized(t, parts)
<1>5. /\ PartsOK(plan, hash, n, t, f)
      /\ \A j, k \in 1..np : Empty(f[j]) => NumRows(f[k]) = 0
    BY <1>3, <1>4, FinalizedAre
<1>6. plan[n].kind \in {"even", "evenrows"} => EvenOK(t, plan[n].kind = "evenrows", f)
    BY <1>1, <1>3, EvenMade
<1>7. ProducedOK(plan, hash, n, t, f)
    BY <1>5, <1>6 DEF ProducedOK
<1>. QED BY <1>2, <1>7

-----------------------------------------------------------------------------
(* Consumers *)

LEMMA FlattenNothing ==
    ASSUME NEW S, NEW ss \in Seq(Seq(S)), Len(FlattenSeq(ss)) = 0
    PROVE  \A i \in 1 .. Len(ss) : Len(ss[i]) = 0
<1>. DEFINE n == Len(ss)
<1>1. PICK f : Concats(ss, S, f)
    BY FlattenIs
<1>2. n \in Nat /\ Len(f[n]) = 0
  <2>. DEFINE SS == Seq(S)
  <2>1. ss \in Seq(SS)
    OBVIOUS
  <2>. HIDE DEF SS
  <2>2. n \in Nat
    BY <2>1, SeqIs
  <2>. QED BY <1>1, <2>2 DEF Concats
<1>3. ASSUME NEW i \in 1..n PROVE Len(ss[i]) = 0
  <2>1. PrefixFacts(ss, S, f, i)
    BY <1>1, <1>3, PrefixStep
  <2>2. /\ Len(ss[i]) \in Nat /\ Len(f[i - 1]) \in Nat /\ Len(f[i]) = Len(f[i - 1]) + Len(ss[i])
        /\ i \in 0..n
    BY <2>1 DEF PrefixFacts
  <2>3. n \in 0..n /\ i <= n
    BY <1>2, <1>3
  <2>4. Len(f[i]) <= Len(f[n])
    BY <1>1, <2>2, <2>3, PrefixGrows
  <2>. DEFINE a == Len(f[i - 1])
              b == Len(ss[i])
              c == Len(f[i])
  <2>5. a \in Nat /\ b \in Nat /\ c = a + b /\ c <= 0
    BY <1>2, <2>2, <2>4
  <2>. HIDE DEF a, b, c
  <2>6. b = 0
    BY <2>5
  <2>. QED BY <2>6 DEF b
<1>. QED BY <1>3

\* A merged dataset is only empty if one of the merged ones is.
LEMMA MergeEmpty ==
    ASSUME NEW F \in SUBSET FileRange, NEW ds \in Seq(DatasetsIn(F)), ds # <<>>, Empty(Merge(ds))
    PROVE  \E i \in DOMAIN ds : Empty(ds[i])
<1>. DEFINE D == DatasetsIn(F)
            n == Len(ds)
            rows == RowsOfEach(ds)
            plain == [i \in DOMAIN ds |-> ds[i].ranges]
<1>1. n \in Nat \ {0} /\ DOMAIN ds = 1..n /\ \A i \in 1..n : ds[i] \in D
  <2>1. ds \in Seq(D)
    OBVIOUS
  <2>. HIDE DEF D
  <2>. QED BY <2>1, SeqIs
<1>2. /\ rows \in Seq(Seq(Row)) /\ Len(rows) = n
      /\ NumRows(Merge(ds)) = Len(FlattenSeq(rows))
    BY MergeIs
<1>3. \A i \in 1..n : rows[i] = RowsOf(ds[i].ranges)
    BY <1>1 DEF RowsOfEach
<1>. HIDE DEF D, n, rows
<1>4. CASE \E i \in DOMAIN ds : Ranged(ds[i])
  <2>1. PICK i \in 1..n : Ranged(ds[i])
    BY <1>1, <1>4
  <2>2. NumRows(Merge(ds)) = 0
    BY EmptyHasNoRows
  <2>3. Len(rows[i]) = 0
    BY <1>2, <2>2, FlattenNothing
  <2>. QED BY <1>1, <1>3, <2>1, <2>3 DEF Empty, NumRows
<1>5. CASE ~(\E i \in DOMAIN ds : Ranged(ds[i]))
  <2>1. Merge(ds) = Files(FlattenSeq(plain))
    BY <1>5 DEF Merge
  <2>2. FlattenSeq(plain) = <<>>
    BY <2>1 DEF Empty, Files, Ranged
  <2>3. \A i \in 1..n : plain[i] = ds[i].ranges /\ ds[i].ranges \in Seq(F)
    BY <1>1 DEF D, DatasetsIn
  <2>4. plain \in [1..n -> Seq(F)]
    BY <1>1, <2>3
  <2>. HIDE DEF plain
  <2>. DEFINE SF == Seq(F)
  <2>5. plain \in Seq(SF) /\ Len(plain) = n
    <3>1. plain \in [1..n -> SF]
      BY <2>4
    <3>. HIDE DEF SF
    <3>. QED BY <1>1, <3>1, FunctionIsSeq
  <2>6. Len(FlattenSeq(plain)) = 0
    BY <2>2, EmptyIsSeq
  <2>7. Len(plain[1]) = 0
    <3>1. 1 \in 1 .. Len(plain) /\ plain \in Seq(Seq(F))
      BY <1>1, <2>5
    <3>. QED BY <2>6, <3>1, FlattenNothing
  <2>8. 1 \in 1..n
    BY <1>1
  <2>9. ds[1].ranges \in Seq(F) /\ Len(ds[1].ranges) = 0
    BY <2>3, <2>7, <2>8
  <2>10. ds[1].ranges = <<>>
    BY <2>9, SeqIs
  <2>. QED BY <1>1, <1>5, <2>8, <2>10 DEF Empty
<1>. QED BY <1>4, <1>5

\* The partition that a consumer takes, of each of its inputs.
Taken(t) == [i \in DOMAIN tasks[t].inputs |->
                output[tasks[t].inputs[i]][tasks[t].infos[plan[tasks[t].node].dim] + 1]]

\* Partition idx of node n is one that consumer t can take.
TakenOK(t, n, idx, ds) ==
    /\ n \in DOMAIN plan /\ plan[n].n \in Nat \ {0} /\ idx \in 0 .. plan[n].n - 1
    /\ t \in Nat /\ ds # <<>>
    /\ DOMAIN ds = DOMAIN tasks[t].inputs
    /\ Marked(plan, hash, n, t, idx) \in SUBSET FileRange
    /\ ds \in Seq(DatasetsIn(Marked(plan, hash, n, t, idx)))
    /\ \A i \in DOMAIN ds : Empty(ds[i]) =>
        \A k \in DOMAIN Inputs(t)[i] : NumRows(Inputs(t)[i][k]) = 0

LEMMA TakenIs ==
    ASSUME NEW t, Runs(t), tasks[t].type = "consumer"
    PROVE  TakenOK(t, tasks[t].node, tasks[t].infos[plan[tasks[t].node].dim], Taken(t))
<1>. DEFINE n == tasks[t].node
            idx == tasks[t].infos[plan[n].dim]
            s == tasks[t].inputs
            m == Len(s)
            ds == Taken(t)
            F == Marked(plan, hash, n, t, idx)
            np == plan[n].n
<1>1. /\ n \in DOMAIN plan /\ m \in Nat /\ DOMAIN s = 1..m /\ s \in Seq(Nat)
      /\ plan[n] \in Nodes
    BY RunsNode
<1>2. /\ plan[n].op = "partition" /\ tasks[t].n = np /\ idx \in 0 .. np - 1 /\ s # <<>>
      /\ t \in Nat
      /\ \A i \in DOMAIN s : /\ tasks[s[i]].type = "producer" /\ tasks[s[i]].node = n
                             /\ s[i] \in 1 .. t - 1 /\ s[i] \in DOMAIN output
    BY DEF Runs, TaskOK, TaskFits, Consumes
<1>3. np \in Nat \ {0}
    BY <1>1, <1>2, NodeIs
<1>4. F \in SUBSET FileRange
    BY <1>2, MarkedIs
<1>5. idx + 1 \in 1..np /\ idx \in Int
    BY <1>2, <1>3
<1>6. ASSUME NEW i \in 1..m
      PROVE  /\ output[s[i]][idx + 1] \in DatasetsIn(F)
             /\ DOMAIN output[s[i]] = 1..np
             /\ \A k \in 1..np : Empty(output[s[i]][idx + 1]) => NumRows(output[s[i]][k]) = 0
  <2>. DEFINE u == s[i]
              c == idx + 1
              G == Marked(plan, hash, n, u, c - 1)
  <2>1. u \in DOMAIN output /\ tasks[u].type = "producer" /\ tasks[u].node = n /\ u \in 1 .. t - 1
    BY <1>1, <1>2
  <2>2. ProducedOK(plan, hash, n, u, output[u])
    BY <2>1 DEF Runs, OutputsOK, ResultOK
  <2>. HIDE DEF u
  <2>3. c \in 1..np /\ c - 1 = idx
    BY <1>5
  <2>4. u \in Int /\ t \in Int /\ u <= t
    BY <1>2, <2>1
  <2>5. Marked(plan, hash, n, u, idx) \subseteq F
    BY <2>4, MarkedGrows
  <2>6. G \subseteq F
    BY <2>3, <2>5
  <2>7. output[u][c] \in DatasetsIn(G)
    BY <2>2, <2>3 DEF ProducedOK, PartsOK
  <2>8. DOMAIN output[u] = 1..np
    BY <2>2 DEF ProducedOK, PartsOK
  <2>9. \A k \in 1..np : Empty(output[u][c]) => NumRows(output[u][k]) = 0
    BY <2>2, <2>3 DEF ProducedOK
  <2>. HIDE DEF F, G
  <2>10. output[u][c] \in DatasetsIn(F)
    BY <2>6, <2>7, DatasetsGrow
  <2>. QED BY <2>8, <2>9, <2>10 DEF u
<1>7. ds = [i \in 1..m |-> output[s[i]][idx + 1]]
    BY <1>1 DEF Taken
<1>8. Inputs(t) = [i \in 1..m |-> output[s[i]]]
    BY <1>1 DEF Inputs
<1>. HIDE DEF ds, m, F, n, idx, np
<1>. DEFINE D == DatasetsIn(F)
<1>9. ds \in [1..m -> D]
    BY <1>6, <1>7
<1>10. ds \in Seq(D) /\ DOMAIN ds = 1..m /\ Len(ds) = m
  <2>. HIDE DEF D
  <2>. QED BY <1>1, <1>9, FunctionIsSeq
<1>11. ds # <<>>
  <2>1. m # 0
    BY <1>1, <1>2, SeqIs DEF m
  <2>. QED BY <1>10, <2>1, EmptyIsSeq
<1>12. ASSUME NEW i \in 1..m, Empty(ds[i])
       PROVE  \A k \in DOMAIN Inputs(t)[i] : NumRows(Inputs(t)[i][k]) = 0
    BY <1>6, <1>7, <1>8, <1>12, ZenonT(60)
<1>13. TakenOK(t, n, idx, ds)
    BY <1>1, <1>2, <1>3, <1>4, <1>10, <1>11, <1>12 DEF TakenOK, F, np, n, m
<1>. QED BY <1>13 DEF ds, n, idx

LEMMA ConsumerRuns ==
    ASSUME NEW t, Runs(t), Ready(t), RunConsumer(t)
    PROVE  \/ Produce(t, Consumed(t)) /\ ResultOK(plan, tasks, hash, t, InputsOf(tasks, output, t), Consumed(t))
           \/ /\ ~skip /\ NothingToTake(t) /\ phase' = "failed"
              /\ UNCHANGED <<plan, tasks, group, hash, skip, trim, output>>
<1>. DEFINE n == tasks[t].node
            idx == tasks[t].infos[plan[n].dim]
            ds == Taken(t)
            F == Marked(plan, hash, n, t, idx)
            all == Merge(ds)
            out == Consumed(t)
<1>1. tasks[t].type = "consumer"
    BY DEF RunConsumer
<1>2. TakenOK(t, n, idx, ds)
    BY <1>1, TakenIs
<1>3. /\ t \in Nat /\ ds # <<>> /\ F \in SUBSET FileRange /\ ds \in Seq(DatasetsIn(F))
      /\ DOMAIN ds = DOMAIN tasks[t].inputs
      /\ \A i \in DOMAIN ds : Empty(ds[i]) =>
            \A k \in DOMAIN Inputs(t)[i] : NumRows(Inputs(t)[i][k]) = 0
    BY <1>2 DEF TakenOK
<1>4. out = IF trim THEN RemoveEmptyFiles(all) ELSE all
    BY DEF Consumed, Taken
<1>5. F \subseteq Written(t)
    BY <1>3, MarkedIs
<1>. HIDE DEF ds, F, out
<1>6. all \in DatasetsIn(F)
    BY <1>3, MergeIs
<1>7. Empty(all) => \E i \in DOMAIN ds : Empty(ds[i])
    BY <1>3, MergeEmpty
<1>. HIDE DEF all
<1>8. RemoveEmptyFiles(all) \in DatasetsIn(F)
    BY <1>3, <1>6, RemoveEmptyIs
<1>9. out \in DatasetsIn(F)
    BY <1>4, <1>6, <1>8
<1>10. out \in DatasetsIn(Written(t))
    BY <1>5, <1>9, DatasetsGrow
<1>11. ResultOK(plan, tasks, hash, t, InputsOf(tasks, output, t), out)
  <2>1. out \in DatasetsIn(Marked(plan, hash, n, t, idx))
    BY <1>9 DEF F
  <2>. QED BY <1>1, <1>10, <2>1 DEF ResultOK
<1>12. ASSUME ~(skip \/ ~Empty(out)) PROVE NothingToTake(t)
  <2>1. NumRows(out) = 0
    BY <1>12, EmptyHasNoRows
  <2>2. DOMAIN Inputs(t) = DOMAIN ds
    BY <1>3 DEF Inputs
  <2>3. ~trim => \E i \in DOMAIN Inputs(t) : \A k \in DOMAIN Inputs(t)[i] : NumRows(Inputs(t)[i][k]) = 0
    BY <1>3, <1>4, <1>7, <1>12, <2>2
  <2>. QED BY <1>1, <1>12, <2>1, <2>3 DEF NothingToTake, out
<1>13. CASE skip \/ ~Empty(out)
    BY <1>11, <1>13 DEF RunConsumer, out
<1>14. CASE ~(skip \/ ~Empty(out))
  <2>1. phase' = "failed" /\ UNCHANGED <<plan, tasks, group, hash, skip, trim, output>>
    BY <1>14 DEF RunConsumer, out
  <2>. QED BY <1>12, <1>14, <2>1
<1>. QED BY <1>13, <1>14 DEF out

-----------------------------------------------------------------------------
(* The other tasks *)

\* Task t puts out what it may.
Makes(t, out) ==
    Produce(t, out) /\ ResultOK(plan, tasks, hash, t, InputsOf(tasks, output, t), out)

LEMMA TaskWrites ==
    ASSUME NEW t, Runs(t)
    PROVE  /\ t \in Nat /\ t \in Int /\ Written(t) \in SUBSET FileRange /\ AnyRows(Written(t))
<1>1. t \in Nat /\ t \in Int
    BY DEF Runs
<1>. QED BY <1>1, WrittenAnyRows

\* What is partitioned by the keys of its files is a list of files.
LEMMA PlainInputs ==
    ASSUME NEW t, Runs(t), tasks[t].type \in {"merge", "split"}, IsLoad(plan, tasks[t].node),
           LoadsIn(plan)
    PROVE  \A i \in DOMAIN Inputs(t) : Inputs(t)[i].kind = "files"
<1>1. ASSUME NEW i \in DOMAIN tasks[t].inputs PROVE output[tasks[t].inputs[i]].kind = "files"
  <2>. DEFINE u == tasks[t].inputs[i]
  <2>1. u \in DOMAIN output /\ Plain(tasks[u], tasks[t].node)
    BY DEF Runs, TaskOK, TaskFits
  <2>. HIDE DEF u
  <2>2. /\ tasks[u].type # "producer"
        /\ \/ tasks[u].type = "source"
           \/ tasks[u].type \in {"merge", "split"} /\ IsLoad(plan, tasks[u].node)
    BY <2>1 DEF Plain
  <2>3. output[u].kind = "files"
    BY <2>1, <2>2 DEF Runs, OutputsOK, ResultOK
  <2>. QED BY <2>3 DEF u
<1>. QED BY <1>1 DEF Inputs

LEMMA MergeRuns ==
    ASSUME NEW t, Runs(t), RunMerge(t)
    PROVE  Makes(t, Merge(Inputs(t)))
<1>. DEFINE ins == Inputs(t)
            F == Written(t)
            out == Merge(ins)
<1>1. tasks[t].type = "merge" /\ Produce(t, out)
    BY DEF RunMerge
<1>2. ins \in Seq(DatasetsIn(F)) /\ ins = InputsOf(tasks, output, t)
    BY <1>1, InputsAre
<1>3. F \in SUBSET FileRange
    BY TaskWrites
<1>4. IsLoad(plan, tasks[t].node) /\ LoadsIn(plan) => \A i \in DOMAIN ins : ins[i].kind = "files"
    BY <1>1, PlainInputs
<1>. HIDE DEF ins, F
<1>5. /\ out \in DatasetsIn(F) /\ NumRows(out) = Len(FlattenSeq(RowsOfEach(ins)))
      /\ (\A i \in DOMAIN ins : ins[i].kind = "files") => out.kind = "files"
    BY <1>2, <1>3, MergeIs
<1>. HIDE DEF out
<1>6. ResultOK(plan, tasks, hash, t, InputsOf(tasks, output, t), out)
    BY <1>1, <1>2, <1>4, <1>5 DEF ResultOK, F
<1>. QED BY <1>1, <1>6 DEF Makes, out, ins

LEMMA SinkRuns ==
    ASSUME NEW t, Runs(t), RunSink(t)
    PROVE  \E out : Makes(t, out)
<1>. DEFINE ins == Inputs(t)
            F == Written(t)
            m == Len(tasks[t].inputs)
            whole == [i \in DOMAIN ins |-> WholeFiles(ins[i])]
            out == Files(FlattenSeq(whole))
<1>1. tasks[t].type = "sink" /\ Produce(t, out)
    BY DEF RunSink
<1>2. DOMAIN ins = 1..m /\ \A i \in 1..m : ins[i] \in DatasetsIn(F)
    BY <1>1, InputsAre
<1>3. m \in Nat /\ t \in Int
    BY RunsNode, TaskWrites
<1>. DEFINE SF == Seq(F)
<1>4. \A i \in 1..m : WholeFiles(ins[i]) \in SF
    BY <1>2, <1>3, WholeFilesTyped
<1>5. whole \in [1..m -> SF]
  <2>. HIDE DEF SF, ins, F, m
  <2>. QED BY <1>2, <1>4
<1>. HIDE DEF whole, m
<1>6. whole \in Seq(SF)
  <2>. HIDE DEF SF
  <2>. QED BY <1>3, <1>5, FunctionIsSeq
<1>7. FlattenSeq(whole) \in Seq(F)
  <2>. HIDE DEF F
  <2>. QED BY <1>6, FlattenTyped
<1>8. out \in DatasetsIn(F)
    BY <1>7, FilesTyped
<1>. HIDE DEF out
<1>9. ResultOK(plan, tasks, hash, t, InputsOf(tasks, output, t), out)
    BY <1>1, <1>8 DEF ResultOK, F
<1>. QED BY <1>1, <1>9 DEF Makes

LEMMA SplitRuns ==
    ASSUME NEW t, Runs(t), RunSplit(t)
    PROVE  \E out : Makes(t, out)
<1>. DEFINE d == Inputs(t)[1]
            F == Written(t)
            np == tasks[t].n
            k == tasks[t].infos[Top] + 1
            parts == PartitionByFiles(d, np)
            out == parts[k]
<1>1. tasks[t].type = "split" /\ Produce(t, out)
    BY DEF RunSplit
<1>2. /\ Len(tasks[t].inputs) = 1 /\ tasks[t].infos[Top] \in 0 .. np - 1 /\ np \in Nat \ {0}
    BY <1>1 DEF Runs, TaskOK, TaskFits, TaskRecs
<1>3. k \in 1..np
    BY <1>2
<1>4. 1 \in 1 .. Len(tasks[t].inputs) /\ tasks[t].type # "consumer"
    BY <1>1, <1>2
<1>5. d \in DatasetsIn(F) /\ 1 \in DOMAIN Inputs(t)
    BY <1>4, InputsAre
<1>6. F \in SUBSET FileRange /\ AnyRows(F)
    BY TaskWrites
<1>7. IsLoad(plan, tasks[t].node) /\ LoadsIn(plan) => d.kind = "files"
    BY <1>1, <1>5, PlainInputs
<1>. HIDE DEF d, F, np, k
<1>8. /\ parts \in [1..np -> DatasetsIn(F)]
      /\ ~Ranged(d) => \A j \in 1..np : parts[j].kind = "files"
    BY <1>2, <1>5, <1>6, PartitionByFilesIs
<1>. HIDE DEF parts
<1>9. /\ out \in DatasetsIn(F)
      /\ IsLoad(plan, tasks[t].node) /\ LoadsIn(plan) => out.kind = "files"
    BY <1>3, <1>7, <1>8 DEF Ranged
<1>. HIDE DEF out
<1>10. ResultOK(plan, tasks, hash, t, InputsOf(tasks, output, t), out)
    BY <1>1, <1>9 DEF ResultOK, F
<1>. QED BY <1>1, <1>10 DEF Makes

LEMMA OtherRuns ==
    ASSUME NEW t, Runs(t), RunOther(t)
    PROVE  \E out : Makes(t, out)
<1>. DEFINE F == Written(t)
            n == tasks[t].node
<1>1. t \in Nat /\ t \in Int /\ F \in SUBSET FileRange
    BY TaskWrites
<1>2. CASE tasks[t].type = "source" /\ Produce(t, Files(plan[n].files))
  <2>. DEFINE fs == plan[n].files
              out == Files(fs)
  <2>1. plan[n].op = "source" /\ plan[n] \in Nodes /\ NodeOK(plan, n)
    BY <1>2, RunsNode DEF Runs, TaskOK, TaskFits
  <2>2. fs \in Seq(FileRange) /\ \A i \in DOMAIN fs : fs[i].path[1] < 0
    BY <2>1, NodeIs DEF NodeOK
  <2>. HIDE DEF fs
  <2>3. fs \in Seq(F)
    <3>1. /\ fs = [i \in DOMAIN fs |-> fs[i]] /\ DOMAIN fs = 1 .. Len(fs) /\ Len(fs) \in Nat
          /\ \A i \in DOMAIN fs : fs[i] \in FileRange
      BY <2>2, SeqIs
    <3>2. ASSUME NEW i \in DOMAIN fs PROVE fs[i] \in F
      <4>1. fs[i].path[1] \in Int
        BY <3>1 DEF FileRange
      <4>2. fs[i].path[1] <= t
        BY <1>1, <2>2, <4>1
      <4>. QED BY <3>1, <4>2 DEF Written
    <3>. HIDE DEF F
    <3>3. fs \in [1 .. Len(fs) -> F]
      BY <3>1, <3>2
    <3>. QED BY <3>1, <3>3, FunctionIsSeq
  <2>4. out \in DatasetsIn(F) /\ out.kind = "files"
    BY <2>3, FilesTyped
  <2>. HIDE DEF out
  <2>5. ResultOK(plan, tasks, hash, t, InputsOf(tasks, output, t), out)
    BY <1>2, <2>4 DEF ResultOK
  <2>. QED BY <1>2, <2>5 DEF Makes, out, fs
<1>3. CASE tasks[t].type = "projection" /\ Produce(t, Inputs(t)[1])
  <2>1. Len(tasks[t].inputs) = 1
    BY <1>3 DEF Runs, TaskOK, TaskFits
  <2>2. 1 \in 1 .. Len(tasks[t].inputs) /\ tasks[t].type # "consumer"
    BY <1>3, <2>1
  <2>3. Inputs(t)[1] \in DatasetsIn(F)
    BY <2>2, InputsAre
  <2>4. ResultOK(plan, tasks, hash, t, InputsOf(tasks, output, t), Inputs(t)[1])
    BY <1>3, <2>3 DEF ResultOK
  <2>. QED BY <1>3, <2>4 DEF Makes
<1>4. CASE tasks[t].type = "root" /\ Produce(t, NoFiles)
  <2>1. NoFiles \in DatasetsIn(F)
    BY EmptyIsSeq, FilesTyped DEF NoFiles
  <2>. HIDE DEF NoFiles
  <2>2. ResultOK(plan, tasks, hash, t, InputsOf(tasks, output, t), NoFiles)
    BY <1>4, <2>1 DEF ResultOK
  <2>. QED BY <1>4, <2>2 DEF Makes
<1>. QED BY <1>2, <1>3, <1>4 DEF RunOther

\* The rows of a file that a query writes.
LEMMA QueryFile ==
    ASSUME NEW t \in Int, NEW rows \in Seq(Row)
    PROVE  /\ Files(<<RowRange(<<t, 1>>, rows, NoKey)>>) \in DatasetsIn(Written(t))
           /\ NumRows(Files(<<RowRange(<<t, 1>>, rows, NoKey)>>)) = Len(rows)
<1>. DEFINE x == RowRange(<<t, 1>>, rows, NoKey)
            r == <<x>>
            F == Written(t)
<1>1. x \in FileRange /\ x.path[1] = t /\ x.rows = rows
    BY RowRangeIs DEF NoKey
<1>2. x \in F
    BY <1>1 DEF Written
<1>. HIDE DEF x, F
<1>3. r \in Seq(F)
    BY <1>2
<1>4. RowsOf(r) = rows
    BY <1>1, RowsOfOne
<1>. HIDE DEF r
<1>5. Files(r) \in DatasetsIn(F) /\ Files(r).ranges = r
    BY <1>3, FilesTyped
<1>. QED BY <1>4, <1>5 DEF NumRows, r, x, F

\* No files, no rows.
LEMMA NoFilesIs ==
    ASSUME NEW t
    PROVE  NoFiles \in DatasetsIn(Written(t)) /\ NumRows(NoFiles) = 0
<1>. DEFINE e == <<>>
<1>1. e \in Seq(Written(t)) /\ Len(e) = 0 /\ RowsOf(e) = e
    BY EmptyIsSeq, RowsOfNone
<1>. HIDE DEF e
<1>2. Files(e) \in DatasetsIn(Written(t)) /\ Files(e).ranges = e
    BY <1>1, FilesTyped
<1>. QED BY <1>1, <1>2 DEF NoFiles, NumRows, e

\* The rows that the query of task t gives.
QueryRows(t) ==
    Limited(Join([i \in DOMAIN TrimmedInputs(t) |-> RowsOf(ResolvedRanges(TrimmedInputs(t)[i]))]),
            plan[tasks[t].node].limits)

LEMMA QueryRowsAre ==
    ASSUME NEW t, Runs(t), tasks[t].type = "compute"
    PROVE  /\ QueryRows(t) \in Seq(Row) /\ plan[tasks[t].node].limits \in Seq(Nat)
           /\ Len(tasks[t].inputs) = 1 =>
                /\ NumRows(Inputs(t)[1]) \in Nat
                /\ NumRows(TrimmedInputs(t)[1]) = NumRows(Inputs(t)[1])
                /\ Len(QueryRows(t)) = Passed(NumRows(Inputs(t)[1]), plan[tasks[t].node].limits)
<1>. DEFINE ins == TrimmedInputs(t)
            m == Len(tasks[t].inputs)
            rows(i) == RowsOf(ResolvedRanges(ins[i]))
            all == [i \in DOMAIN ins |-> rows(i)]
            limits == plan[tasks[t].node].limits
            F == Written(t)
<1>1. /\ m \in Nat /\ tasks[t].inputs # <<>> /\ tasks[t].inputs \in Seq(Nat)
      /\ plan[tasks[t].node].op \in {"sql", "compute", "limit"}
      /\ plan[tasks[t].node] \in Nodes
    BY RunsNode DEF Runs, TaskOK, TaskFits
<1>2. limits \in Seq(Nat)
    BY <1>1, NodeIs
<1>3. m \in Nat \ {0}
    BY <1>1, SeqIs
<1>4. /\ DOMAIN ins = 1..m
      /\ \A i \in 1..m : ins[i] \in DatasetsIn(F) /\ NumRows(ins[i]) = NumRows(Inputs(t)[i])
    BY TrimmedAre
<1>5. F \in SUBSET FileRange
    BY TaskWrites
<1>. HIDE DEF ins, limits, F
<1>6. ASSUME NEW i \in 1..m
      PROVE  rows(i) \in Seq(Row) /\ Len(rows(i)) = NumRows(ins[i]) /\ NumRows(ins[i]) \in Nat
    BY <1>4, <1>5, ResolvedRows
<1>7. all = [i \in 1..m |-> rows(i)]
    BY <1>4
<1>. HIDE DEF rows, all, m
<1>. DEFINE SR == Seq(Row)
<1>8. all \in [1..m -> SR] /\ \A i \in 1..m : all[i] = rows(i)
    BY <1>6, <1>7
<1>9. all \in Seq(SR) /\ Len(all) = m
  <2>. HIDE DEF SR
  <2>. QED BY <1>3, <1>8, FunctionIsSeq
<1>10. all # <<>>
    BY <1>3, <1>9, EmptyIsSeq
<1>11. Join(all) \in Seq(Row) /\ (Len(all) = 1 => Join(all) = all[1])
    BY <1>9, <1>10, JoinIs
<1>12. QueryRows(t) = Limited(Join(all), limits)
    BY DEF QueryRows, all, ins, limits, rows
<1>13. /\ QueryRows(t) \in Seq(Row)
       /\ Len(QueryRows(t)) = Passed(Len(Join(all)), limits)
    BY <1>2, <1>11, <1>12, LimitedIs
<1>14. ASSUME m = 1
       PROVE  /\ NumRows(Inputs(t)[1]) \in Nat /\ NumRows(ins[1]) = NumRows(Inputs(t)[1])
              /\ Len(QueryRows(t)) = Passed(NumRows(Inputs(t)[1]), limits)
  <2>1. 1 \in 1..m
    BY <1>14
  <2>2. Len(Join(all)) = NumRows(ins[1])
    BY <1>6, <1>8, <1>9, <1>11, <1>14, <2>1
  <2>. QED BY <1>4, <1>6, <1>13, <2>1, <2>2
<1>. QED BY <1>2, <1>13, <1>14 DEF m, ins, limits

LEMMA ComputeRuns ==
    ASSUME NEW t, Runs(t), RunCompute(t)
    PROVE  \E out : Makes(t, out)
<1>. DEFINE ins == InputsOf(tasks, output, t)
            limits == plan[tasks[t].node].limits
            m == Len(tasks[t].inputs)
            one == Files(<<RowRange(<<t, 1>>, QueryRows(t), NoKey)>>)
<1>1. tasks[t].type = "compute"
    BY DEF RunCompute
<1>2. /\ QueryRows(t) \in Seq(Row) /\ limits \in Seq(Nat)
      /\ m = 1 => /\ NumRows(Inputs(t)[1]) \in Nat
                  /\ NumRows(TrimmedInputs(t)[1]) = NumRows(Inputs(t)[1])
                  /\ Len(QueryRows(t)) = Passed(NumRows(Inputs(t)[1]), limits)
    BY <1>1, QueryRowsAre
<1>3. /\ Inputs(t) = ins /\ DOMAIN TrimmedInputs(t) = 1..m
    BY <1>1, InputsAre, TrimmedAre
<1>4. t \in Int
    BY TaskWrites
<1>5. one \in DatasetsIn(Written(t)) /\ NumRows(one) = Len(QueryRows(t))
    BY <1>2, <1>4, QueryFile
<1>6. NoFiles \in DatasetsIn(Written(t)) /\ NumRows(NoFiles) = 0
    BY NoFilesIs
<1>. HIDE DEF ins, limits, m, one, NoFiles
<1>7. ResultOK(plan, tasks, hash, t, InputsOf(tasks, output, t), one)
  <2>1. m = 1 => NumRows(one) = Passed(NumRows(ins[1]), limits)
    BY <1>2, <1>3, <1>5
  <2>. QED BY <1>1, <1>5, <2>1 DEF ResultOK, ins, limits, m
<1>8. ASSUME m = 1 => Passed(NumRows(ins[1]), limits) = 0
      PROVE  ResultOK(plan, tasks, hash, t, InputsOf(tasks, output, t), NoFiles)
  <2>1. m = 1 => NumRows(NoFiles) = Passed(NumRows(ins[1]), limits)
    BY <1>6, <1>8
  <2>. QED BY <1>1, <1>6, <2>1 DEF ResultOK, ins, limits, m
<1>9. \/ (\E i \in DOMAIN TrimmedInputs(t) : Empty(TrimmedInputs(t)[i])) /\ Produce(t, NoFiles)
      \/ Produce(t, one)
      \/ QueryRows(t) = <<>> /\ Produce(t, NoFiles)
    BY DEF RunCompute, QueryRows, one
<1>10. CASE (\E i \in DOMAIN TrimmedInputs(t) : Empty(TrimmedInputs(t)[i])) /\ Produce(t, NoFiles)
  <2>1. ASSUME m = 1 PROVE Passed(NumRows(ins[1]), limits) = 0
    <3>1. PICK i \in 1..m : Empty(TrimmedInputs(t)[i])
      BY <1>3, <1>10
    <3>2. i = 1
      BY <2>1
    <3>3. NumRows(TrimmedInputs(t)[1]) = 0
      BY <3>1, <3>2, EmptyHasNoRows
    <3>4. NumRows(ins[1]) = 0
      BY <1>2, <1>3, <2>1, <3>3
    <3>5. 0 \in Nat
      OBVIOUS
    <3>6. Passed(0, limits) \in 0..0
      BY <1>2, <3>5, PassedSmall
    <3>. QED BY <3>4, <3>6
  <2>. QED BY <1>8, <1>10, <2>1 DEF Makes
<1>11. CASE Produce(t, one)
    BY <1>7, <1>11 DEF Makes
<1>12. CASE QueryRows(t) = <<>> /\ Produce(t, NoFiles)
  <2>1. m = 1 => Passed(NumRows(ins[1]), limits) = 0
    BY <1>2, <1>3, <1>12, EmptyIsSeq
  <2>. QED BY <1>8, <1>12, <2>1 DEF Makes
<1>. QED BY <1>9, <1>10, <1>11, <1>12

-----------------------------------------------------------------------------
(* The steps of the specification *)

Fails(t) ==
    /\ ~skip /\ NothingToTake(t) /\ phase' = "failed"
    /\ UNCHANGED <<plan, tasks, group, hash, skip, trim, output>>

LEMMA RunMakes ==
    ASSUME NEW t, Runs(t), Run(t)
    PROVE  (\E out : Makes(t, out)) \/ Fails(t)
<1>1. Ready(t) /\ (\/ RunCompute(t) \/ RunProducer(t) \/ RunConsumer(t)
                   \/ RunMerge(t) \/ RunSink(t) \/ RunSplit(t) \/ RunOther(t))
    BY DEF Run
<1>2. CASE RunProducer(t)
  <2>1. tasks[t].type = "producer"
    BY <1>2 DEF RunProducer
  <2>2. PICK out : Produce(t, out) /\ ProducedOK(plan, hash, tasks[t].node, t, out)
    BY <1>2, ProducerRuns
  <2>. QED BY <2>1, <2>2 DEF Makes, ResultOK
<1>3. CASE RunConsumer(t)
    BY <1>1, <1>3, ConsumerRuns DEF Makes, Fails
<1>. QED BY <1>1, <1>2, <1>3, ComputeRuns, MergeRuns, SinkRuns, SplitRuns, OtherRuns

\* The result of a task depends on the plan, its inputs and the hash function only.
OutputOK(p, ts, h, o) ==
    \A t \in DOMAIN o :
        /\ t \in DOMAIN ts /\ \A i \in DOMAIN ts[t].inputs : ts[t].inputs[i] \in DOMAIN o
        /\ ResultOK(p, ts, h, t, InputsOf(ts, o, t), o[t])

LEMMA OutputsIs == OutputsOK <=> OutputOK(plan, tasks, hash, output)
    BY DEF OutputsOK, OutputOK

LEMMA OutputsIsNext == OutputsOK' <=> OutputOK(plan', tasks', hash', output')
    BY DEF OutputsOK, OutputOK

LEMMA OneMoreOutput ==
    ASSUME NEW p, NEW ts, NEW h, NEW o, OutputOK(p, ts, h, o), NEW t \in DOMAIN ts,
           t \notin DOMAIN o, \A i \in DOMAIN ts[t].inputs : ts[t].inputs[i] \in DOMAIN o,
           NEW out, ResultOK(p, ts, h, t, InputsOf(ts, o, t), out)
    PROVE  OutputOK(p, ts, h, Extended(o, t, out))
<1>. DEFINE q == Extended(o, t, out)
<1>1. DOMAIN q = DOMAIN o \cup {t} /\ q[t] = out /\ \A x \in DOMAIN o : q[x] = o[x]
    BY ExtendedIs
<1>. HIDE DEF q
<1>2. ASSUME NEW u, \A i \in DOMAIN ts[u].inputs : ts[u].inputs[i] \in DOMAIN o
      PROVE  InputsOf(ts, q, u) = InputsOf(ts, o, u)
    BY <1>1, <1>2 DEF InputsOf
<1>3. ASSUME NEW u \in DOMAIN q
      PROVE  /\ u \in DOMAIN ts /\ \A i \in DOMAIN ts[u].inputs : ts[u].inputs[i] \in DOMAIN q
             /\ ResultOK(p, ts, h, u, InputsOf(ts, q, u), q[u])
  <2>1. CASE u \in DOMAIN o
    <3>1. /\ u \in DOMAIN ts /\ \A i \in DOMAIN ts[u].inputs : ts[u].inputs[i] \in DOMAIN o
          /\ ResultOK(p, ts, h, u, InputsOf(ts, o, u), o[u])
      BY <2>1 DEF OutputOK
    <3>2. InputsOf(ts, q, u) = InputsOf(ts, o, u) /\ q[u] = o[u]
      BY <1>1, <1>2, <2>1, <3>1
    <3>. QED BY <1>1, <3>1, <3>2
  <2>2. CASE u = t
    <3>1. InputsOf(ts, q, u) = InputsOf(ts, o, u) /\ q[u] = out
      BY <1>1, <1>2, <2>2
    <3>. QED BY <1>1, <2>2, <3>1
  <2>. QED BY <1>1, <2>1, <2>2
<1>. QED BY <1>3 DEF OutputOK, q

\* The inductive invariant.
IInv == PlannedOK /\ OutputsOK /\ RunFailureHasReason

\* What is planned stays.
LEMMA PlanStays ==
    ASSUME TasksOK, GroupsOK, UNCHANGED <<plan, tasks, group>>
    PROVE  TasksOK' /\ GroupsOK'
<1>. DEFINE good(p, ts) ==
              ts \in Seq(TaskRecs) /\ \A t \in DOMAIN ts : TaskOK(p, ts, t)
            ok(p, ts, gr) ==
              /\ DOMAIN gr \subseteq DOMAIN p
              /\ \A n \in DOMAIN gr : GroupFits(p, ts, gr, n, gr[n])
<1>1. good(plan, tasks) /\ ok(plan, tasks, group)
    BY DEF TasksOK, GroupsOK
<1>2. good(plan', tasks') /\ ok(plan', tasks', group')
    BY <1>1
<1>. QED BY <1>2 DEF TasksOK, GroupsOK

LEMMA PlannedKept ==
    ASSUME PlannedOK, UNCHANGED <<plan, tasks, group>>, phase \in {"running", "failed"},
           phase' \in {"running", "failed"}
    PROVE  PlannedOK'
<1>1. TasksOK' /\ GroupsOK'
    BY PlanStays DEF PlannedOK
<1>2. WellFormed(plan') /\ (LoadsSources => LoadsIn(plan')) /\ (LimitsApart => Unlimited(plan'))
    BY DEF PlannedOK
<1>. QED BY <1>1, <1>2 DEF PlannedOK

LEMMA StaysNothing ==
    ASSUME UNCHANGED <<plan, tasks, skip, trim, output>>, NEW t
    PROVE  NothingToTake(t)' <=> NothingToTake(t)
<1>1. Consumed(t)' = Consumed(t)
    BY DEF Consumed
<1>2. Inputs(t)' = Inputs(t)
    BY DEF Inputs
<1>3. Ready(t)' <=> Ready(t)
    BY DEF Ready
<1>. QED BY <1>1, <1>2, <1>3 DEF NothingToTake

LEMMA IInvInit ==
    ASSUME Init
    PROVE  IInv
<1>1. phase = "logical" /\ output = << >>
    BY DEF Init, PlannerInit
<1>2. DOMAIN << >> = {}
    OBVIOUS
<1>3. OutputsOK
    BY <1>1, <1>2 DEF OutputsOK
<1>. QED BY <1>1, <1>3, PlannedInit DEF IInv, RunFailureHasReason

LEMMA IInvRun ==
    ASSUME IInv, NEW t \in DOMAIN tasks, Run(t)
    PROVE  IInv'
<1>1. phase = "running" /\ Ready(t)
    BY DEF Run
<1>2. Runs(t)
    BY <1>1, RunsIs DEF IInv
<1>3. ASSUME NEW out, Makes(t, out) PROVE IInv'
  <2>1. /\ output' = Extended(output, t, out)
        /\ UNCHANGED <<phase, plan, tasks, group>> /\ hash' = hash
    BY <1>3 DEF Makes, Produce, planVars
  <2>2. PlannedOK'
    BY <1>1, <2>1, PlannedKept DEF IInv
  <2>3. ResultOK(plan, tasks, hash, t, InputsOf(tasks, output, t), out)
    BY <1>3 DEF Makes
  <2>4. OutputOK(plan, tasks, hash, output)
    BY OutputsIs DEF IInv
  <2>5. OutputOK(plan, tasks, hash, Extended(output, t, out))
    BY <1>2, <2>3, <2>4, OneMoreOutput DEF Runs
  <2>6. OutputsOK'
    BY <2>1, <2>5, OutputsIsNext
  <2>. QED BY <1>1, <2>1, <2>2, <2>6 DEF IInv, RunFailureHasReason
<1>4. ASSUME Fails(t) PROVE IInv'
  <2>1. /\ phase' = "failed" /\ UNCHANGED <<plan, tasks, group, hash, skip, trim, output>>
    BY <1>4 DEF Fails
  <2>2. PlannedOK'
    BY <1>1, <2>1, PlannedKept DEF IInv
  <2>3. OutputsOK'
    BY <2>1, OutputsIs, OutputsIsNext DEF IInv
  <2>4. NothingToTake(t)' /\ ~skip'
    BY <1>4, <2>1, StaysNothing DEF Fails
  <2>. QED BY <2>1, <2>2, <2>3, <2>4 DEF IInv, RunFailureHasReason
<1>. QED BY <1>2, <1>3, <1>4, RunMakes

LEMMA IInvPlanner ==
    ASSUME IInv, PlannerNext, UNCHANGED <<hash, skip, trim, output>>
    PROVE  IInv'
<1>1. phase \in {"logical", "planning"}
    BY DEF PlannerNext, Optimize, Assemble, Visit
<1>2. output = << >>
    BY <1>1 DEF IInv, PlannedOK
<1>3. output' = << >> /\ DOMAIN << >> = {}
    BY <1>2
<1>4. PlannedOK'
    BY PlannedNext DEF IInv
<1>5. OutputsOK'
    BY <1>3 DEF OutputsOK
<1>. QED BY <1>3, <1>4, <1>5 DEF IInv, RunFailureHasReason

LEMMA IInvNext ==
    ASSUME IInv, [Next]_vars
    PROVE  IInv'
<1>1. ASSUME UNCHANGED vars PROVE IInv'
  <2>1. UNCHANGED <<phase, plan, tasks, group, hash, skip, trim, output>>
    BY <1>1 DEF vars, planVars
  <2>2. OutputsOK'
    BY <2>1, OutputsIs, OutputsIsNext DEF IInv
  <2>3. PlannedOK'
    <3>1. CASE phase \in {"running", "failed"}
      BY <2>1, <3>1, PlannedKept DEF IInv
    <3>2. CASE phase \notin {"running", "failed"}
      <4>1. TasksOK' /\ GroupsOK'
        BY <2>1, PlanStays DEF IInv, PlannedOK
      <4>. QED BY <2>1, <4>1 DEF IInv, PlannedOK
    <3>. QED BY <3>1, <3>2
  <2>4. \A t : NothingToTake(t)' <=> NothingToTake(t)
    BY <2>1, StaysNothing
  <2>. QED BY <2>1, <2>2, <2>3, <2>4 DEF IInv, RunFailureHasReason
<1>2. ASSUME PlannerNext, UNCHANGED <<hash, skip, trim, output>> PROVE IInv'
    BY <1>2, IInvPlanner
<1>3. ASSUME NEW t \in DOMAIN tasks, Run(t) PROVE IInv'
    BY <1>3, IInvRun
<1>. QED BY <1>1, <1>2, <1>3 DEF Next

-----------------------------------------------------------------------------
(* Theorems *)

\* Whatever plan is optimized and expanded (planner.py) and in whatever order its
\* tasks run (task.py): the tasks made so far fit the plan, every task depends only on
\* tasks created before it, and what each task has left on disk is what its kind of task
\* may leave, given what its inputs left.
THEOREM AlwaysIInv == Spec => []IInv
<1>1. Init => IInv
    BY IInvInit
<1>2. IInv /\ [Next]_vars => IInv'
    BY IInvNext
<1>. QED BY <1>1, <1>2, PTL DEF Spec

LEMMA TypedOutput ==
    ASSUME PlannedOK, OutputsOK, NEW t \in DOMAIN output
    PROVE  IF tasks[t].type = "producer"
           THEN Len(output[t]) = tasks[t].n /\ \A k \in 1 .. tasks[t].n : DatasetOK(output[t][k])
           ELSE DatasetOK(output[t])
<1>1. t \in DOMAIN tasks /\ ResultOK(plan, tasks, hash, t, InputsOf(tasks, output, t), output[t])
    BY DEF OutputsOK
<1>2. CASE tasks[t].type = "producer"
  <2>. DEFINE D == DatasetsIn(Written(t))
              np == tasks[t].n
              parts == output[t]
  <2>1. plan[tasks[t].node].n = np /\ np \in Nat \ {0}
    BY <1>1, <1>2 DEF PlannedOK, TasksOK, TaskOK, TaskFits, TaskRecs
  <2>2. parts \in [1..np -> D]
    BY <1>1, <1>2, <2>1 DEF ResultOK, ProducedOK, PartsOK
  <2>3. \A k \in 1..np : DatasetOK(parts[k])
    BY <2>2 DEF DatasetOK, DatasetsIn
  <2>. HIDE DEF D, np, parts
  <2>4. Len(parts) = np
    BY <2>1, <2>2, FunctionIsSeq
  <2>. QED BY <1>2, <2>3, <2>4 DEF np, parts
<1>3. CASE tasks[t].type # "producer"
  <2>1. output[t] \in DatasetsIn(Written(t))
    BY <1>1, <1>3 DEF ResultOK
  <2>. QED BY <1>3, <2>1 DEF DatasetOK, DatasetsIn
<1>. QED BY <1>2, <1>3

\* Tasks stand for nodes of the plan and read what earlier tasks made; a producer leaves
\* one dataset for each of its partitions and every other task one dataset
\* (the output of Task.run).
THEOREM Typed == Spec => []TypeOK
<1>1. IInv => TypeOK
  <2>. SUFFICES ASSUME IInv PROVE TypeOK
    OBVIOUS
  <2>1. \A t \in DOMAIN tasks :
            /\ tasks[t].node \in DOMAIN plan
            /\ \A i \in DOMAIN tasks[t].inputs : tasks[t].inputs[i] \in 1 .. t - 1
    BY DEF IInv, PlannedOK, TasksOK, TaskOK, TaskFits
  <2>2. ASSUME NEW n \in DOMAIN group, NEW i \in DOMAIN group[n] PROVE group[n][i] \in DOMAIN tasks
    <3>1. group[n] \in Seq(Outs(tasks))
      BY DEF IInv, PlannedOK, GroupsOK, GroupFits
    <3>2. group[n][i] \in Outs(tasks)
      BY <3>1, SeqIs
    <3>. QED BY <3>2 DEF Outs
  <2>3. DOMAIN group \subseteq DOMAIN plan /\ phase \in {"logical", "planning", "running", "failed"}
    BY DEF IInv, PlannedOK, GroupsOK
  <2>4. \A t \in DOMAIN output :
            IF tasks[t].type = "producer"
            THEN Len(output[t]) = tasks[t].n /\ \A k \in 1 .. tasks[t].n : DatasetOK(output[t][k])
            ELSE DatasetOK(output[t])
    BY TypedOutput DEF IInv
  <2>. QED BY <2>1, <2>2, <2>3, <2>4 DEF TypeOK
<1>. QED BY <1>1, AlwaysIInv, PTL

\* EvenlyDistributedPartitionProducerTask, by files or by rows: the partitions that one
\* producer makes differ by one row, or one file, at most, for every plan, every dataset
\* that reaches the producer and every number of partitions.
THEOREM Even == Spec => []EvenParts
<1>1. IInv => EvenParts
  <2>. SUFFICES ASSUME IInv PROVE EvenParts
    OBVIOUS
  <2>. DEFINE even(t) == plan[tasks[t].node].kind \in {"even", "evenrows"}
              size(t, k) ==
                IF plan[tasks[t].node].kind = "evenrows" \/ Ranged(output[t][k])
                THEN NumRows(output[t][k])
                ELSE Cardinality({j \in DOMAIN output[t][k].ranges : output[t][k].ranges[j].path[1] # t})
  <2>1. ASSUME NEW t \in DOMAIN output, tasks[t].type = "producer", even(t)
        PROVE  \A j, k \in DOMAIN output[t] : size(t, j) <= size(t, k) + 1
    <3>1. ProducedOK(plan, hash, tasks[t].node, t, output[t])
      BY <2>1 DEF IInv, OutputsOK, ResultOK
    <3>2. EvenOK(t, plan[tasks[t].node].kind = "evenrows", output[t])
      BY <2>1, <3>1 DEF ProducedOK
    <3>3. \A k \in DOMAIN output[t] :
            size(t, k) = PartSize(t, plan[tasks[t].node].kind = "evenrows", output[t][k])
      BY DEF PartSize
    <3>. HIDE DEF size
    <3>. QED BY <3>2, <3>3 DEF EvenOK
  <2>. QED BY <2>1 DEF EvenParts
<1>. QED BY <1>1, AlwaysIInv, PTL

\* PartitionConsumerTask fails a running job only for a partition without rows: never
\* when skip_task_with_empty_input is set, and, unless remove_empty_parquet is, only if some
\* producer had no row for any partition, so that its finalize wrote no empty files.
THEOREM FailsForReason == Spec => []RunFailureHasReason
<1>1. IInv => RunFailureHasReason
    BY DEF IInv
<1>. QED BY <1>1, AlwaysIInv, PTL

\* HashPartitionTask, ShuffleNode and LoadPartitionedDataSetProducerTask: what a partition
\* consumer gives holds only rows whose hash, or files whose key, is the number of its
\* partition. Files must be loaded as they were given: a merged dataset pairs the keys
\* and the row ranges of its files in different orders.
THEOREM InRightPartition ==
    ASSUME LoadsSources
    PROVE  Spec => []RightPartition
<1>1. IInv => RightPartition
  <2>. SUFFICES ASSUME IInv PROVE RightPartition
    OBVIOUS
  <2>1. ASSUME NEW n \in Done, plan[n].op = "partition", NEW i \in DOMAIN group[n]
        PROVE  LET t == group[n][i]
                   idx == tasks[t].infos[plan[n].dim]
                   ranges == output[t].ranges
               IN  \A j \in DOMAIN ranges :
                        IF plan[n].kind \in {"hash", "shuffle"}
                        THEN \A r \in DOMAIN ranges[j].rows :
                                Bucket(ranges[j].rows[r], plan[n]) = idx
                        ELSE plan[n].kind = "load" => ranges[j].part = idx
    <3>. DEFINE t == group[n][i]
                idx == tasks[t].infos[plan[n].dim]
                s == output[t].ranges
                F == Marked(plan, hash, n, t, idx)
    <3>1. n \in DOMAIN group /\ t \in DOMAIN output
      BY DEF Done, Ran
    <3>2. tasks[t].type = "consumer" /\ tasks[t].node = n
      BY <2>1, <3>1 DEF IInv, PlannedOK, GroupsOK, GroupFits
    <3>3. output[t] \in DatasetsIn(F)
      BY <3>1, <3>2 DEF IInv, OutputsOK, ResultOK
    <3>4. s \in Seq(F)
      BY <3>3 DEF DatasetsIn
    <3>5. LoadsIn(plan)
      BY DEF IInv, PlannedOK
    <3>. HIDE DEF t, idx
    <3>6. \A j \in DOMAIN s : s[j] \in F
      <4>. HIDE DEF F, s
      <4>. QED BY <3>4, SeqIs
    <3>. HIDE DEF s
    <3>7. ASSUME plan[n].kind \in {"hash", "shuffle"}, NEW j \in DOMAIN s, NEW r \in DOMAIN s[j].rows
          PROVE  Bucket(s[j].rows[r], plan[n]) = idx
      <4>1. s[j] \in HashedBy(hash, plan[n], idx)
        BY <3>6, <3>7 DEF Marked
      <4>2. s[j] \in Hashed(plan[n], idx)
        BY <4>1, HashedByIs
      <4>. QED BY <3>7, <4>2 DEF Hashed
    <3>8. ASSUME plan[n].kind = "load", NEW j \in DOMAIN s PROVE s[j].part = idx
      <4>1. s[j] \in Keyed(idx)
        BY <3>5, <3>6, <3>8 DEF Marked
      <4>. QED BY <4>1 DEF Keyed
    <3>9. \A j \in DOMAIN s :
            IF plan[n].kind \in {"hash", "shuffle"}
            THEN \A r \in DOMAIN s[j].rows : Bucket(s[j].rows[r], plan[n]) = idx
            ELSE plan[n].kind = "load" => s[j].part = idx
      BY <3>7, <3>8
    <3>. QED BY <3>9 DEF s, t, idx
  <2>. QED BY <2>1 DEF RightPartition
<1>. QED BY <1>1, AlwaysIInv, PTL

\* The rows of a node are those of its tasks, one after the other.
LEMMA NodeRowsAre ==
    ASSUME PlannedOK, OutputsOK, NEW n \in Ran
    PROVE  /\ group[n] \in Seq(Outs(tasks)) /\ Len(group[n]) \in Nat
           /\ DOMAIN group[n] = 1 .. Len(group[n])
           /\ \A i \in 1 .. Len(group[n]) :
                /\ group[n][i] \in DOMAIN output /\ tasks[group[n][i]].type # "producer"
                /\ RowsOf(output[group[n][i]].ranges) \in Seq(Row)
           /\ NodeRows(n) \in Seq(Row)
<1>. DEFINE O == Outs(tasks)
            g == group[n]
            m == Len(g)
            rows(i) == RowsOf(output[g[i]].ranges)
            all == [i \in DOMAIN g |-> rows(i)]
            SR == Seq(Row)
<1>1. n \in DOMAIN group /\ \A i \in DOMAIN g : g[i] \in DOMAIN output
    BY DEF Ran
<1>2. g \in Seq(O)
    BY <1>1 DEF PlannedOK, GroupsOK, GroupFits
<1>3. m \in Nat /\ DOMAIN g = 1..m /\ \A i \in 1..m : g[i] \in O
  <2>. HIDE DEF O, g
  <2>. QED BY <1>2, SeqIs
<1>4. ASSUME NEW i \in 1..m PROVE rows(i) \in SR /\ tasks[g[i]].type # "producer"
  <2>. DEFINE t == g[i]
  <2>1. t \in DOMAIN output /\ tasks[t].type # "producer" /\ t \in DOMAIN tasks
    BY <1>1, <1>3 DEF Outs
  <2>. HIDE DEF t
  <2>2. output[t] \in DatasetsIn(Written(t))
    BY <2>1 DEF OutputsOK, ResultOK
  <2>3. output[t].ranges \in Seq(Written(t)) /\ Written(t) \subseteq FileRange
    BY <2>2 DEF DatasetsIn, Written
  <2>4. output[t].ranges \in Seq(FileRange)
    BY <2>3, SeqGrows
  <2>5. RowsOf(output[t].ranges) \in Seq(Row)
    BY <2>4, RowsOfIs
  <2>. QED BY <2>1, <2>5 DEF t
<1>5. NodeRows(n) = FlattenSeq(all)
    BY DEF NodeRows
<1>6. all \in [1..m -> SR]
    BY <1>3, <1>4
<1>. HIDE DEF all
<1>7. all \in Seq(SR)
  <2>. HIDE DEF SR, m
  <2>. QED BY <1>3, <1>6, FunctionIsSeq
<1>8. NodeRows(n) \in Seq(Row)
    BY <1>5, <1>7, FlattenTyped
<1>. QED BY <1>1, <1>2, <1>3, <1>4, <1>8

\* The rows that the tasks of a limit let pass.
LEMMA LimitedNode ==
    ASSUME PlannedOK, OutputsOK, NEW n \in Done, plan[n].op = "limit"
    PROVE  Len(NodeRows(n)) = Passed(Len(NodeRows(plan[n].deps[1])), plan[n].limits)
<1>. DEFINE d == plan[n].deps[1]
            below == group[d]
            limits == plan[n].limits
            b == Len(below)
<1>1. /\ n \in DOMAIN group /\ n \in DOMAIN plan /\ n \in Ran
      /\ \A i \in DOMAIN group[n] : group[n][i] \in DOMAIN output
      /\ \A i \in DOMAIN plan[n].deps : plan[n].deps[i] \in Ran
    BY DEF Done, Ran, PlannedOK, GroupsOK
<1>2. plan[n] \in Nodes /\ NodeOK(plan, n)
    BY <1>1, PlanIs DEF PlannedOK
<1>3. limits \in Seq(Nat) /\ plan[n].deps \in Seq(Nat) /\ Len(plan[n].deps) = 1
    BY <1>2, NodeIs DEF NodeOK
<1>4. 1 \in DOMAIN plan[n].deps
  <2>. DEFINE s == plan[n].deps
  <2>1. s \in Seq(Nat) /\ Len(s) = 1
    BY <1>3
  <2>. HIDE DEF s
  <2>2. DOMAIN s = 1 .. 1
    BY <2>1, SeqIs
  <2>. QED BY <2>2 DEF s
<1>5. d \in Ran
    BY <1>1, <1>4
<1>6. /\ b \in Nat /\ DOMAIN below = 1..b
      /\ \A i \in 1..b : /\ below[i] \in DOMAIN output /\ tasks[below[i]].type # "producer"
                         /\ RowsOf(output[below[i]].ranges) \in Seq(Row)
    BY <1>5, NodeRowsAre
<1>7. LimitShape(tasks, n, below, group[n])
    BY <1>1 DEF PlannedOK, GroupsOK, GroupFits
<1>8. PICK T \in DOMAIN tasks, M \in DOMAIN tasks :
        /\ group[n] = <<T>> /\ tasks[T].type = "compute" /\ tasks[T].node = n
        /\ tasks[T].inputs = <<M>>
        /\ tasks[M].type = "merge" /\ Len(tasks[M].inputs) = b
        /\ \A i \in DOMAIN below :
            /\ tasks[M].inputs[i] \in DOMAIN tasks /\ tasks[tasks[M].inputs[i]].type = "compute"
            /\ tasks[tasks[M].inputs[i]].node = n
            /\ tasks[tasks[M].inputs[i]].inputs = <<below[i]>>
    BY <1>7 DEF LimitShape
<1>. DEFINE one(t, u) == NumRows(output[t]) = Passed(NumRows(output[u]), limits)
\* A task of the limit that reads one other.
<1>9. ASSUME NEW t \in DOMAIN output, NEW u, tasks[t].type = "compute", tasks[t].node = n,
             tasks[t].inputs = <<u>>
      PROVE  one(t, u) /\ u \in DOMAIN output
  <2>. DEFINE ins == InputsOf(tasks, output, t)
  <2>1. /\ ResultOK(plan, tasks, hash, t, ins, output[t])
        /\ \A i \in DOMAIN tasks[t].inputs : tasks[t].inputs[i] \in DOMAIN output
    BY DEF OutputsOK
  <2>2. Len(tasks[t].inputs) = 1 /\ 1 \in DOMAIN tasks[t].inputs /\ tasks[t].inputs[1] = u
    BY <1>9
  <2>3. ins[1] = output[u]
    BY <2>2 DEF InputsOf
  <2>. HIDE DEF ins
  <2>4. NumRows(output[t]) = Passed(NumRows(ins[1]), plan[tasks[t].node].limits)
    BY <1>9, <2>1, <2>2 DEF ResultOK
  <2>. QED BY <1>9, <2>1, <2>2, <2>3, <2>4
<1>10. T \in DOMAIN output
  <2>1. 1 \in DOMAIN group[n] /\ group[n][1] = T
    BY <1>8
  <2>. QED BY <1>1, <2>1
<1>11. one(T, M) /\ M \in DOMAIN output
    BY <1>8, <1>9, <1>10
<1>. DEFINE ins == InputsOf(tasks, output, M)
            s == tasks[M].inputs
<1>12. /\ ResultOK(plan, tasks, hash, M, ins, output[M])
       /\ \A i \in DOMAIN s : s[i] \in DOMAIN output
    BY <1>11 DEF OutputsOK
<1>13. s \in Seq(Nat)
    BY <1>8 DEF PlannedOK, TasksOK, TaskOK, TaskFits, TaskRecs
<1>14. Len(s) = b /\ DOMAIN s = 1..b
  <2>1. Len(s) = b
    BY <1>8
  <2>. HIDE DEF s, b
  <2>. QED BY <1>13, <2>1, SeqIs
<1>15. NumRows(output[M]) = Len(FlattenSeq(RowsOfEach(ins)))
    BY <1>8, <1>12 DEF ResultOK
<1>16. DOMAIN ins = 1..b /\ \A i \in 1..b : ins[i] = output[s[i]]
    BY <1>14 DEF InputsOf
<1>17. ASSUME NEW i \in 1..b
       PROVE  /\ one(s[i], below[i])
              /\ RowsOf(output[s[i]].ranges) \in Seq(Row)
  <2>1. s[i] \in DOMAIN output
    BY <1>12, <1>14
  <2>2. i \in DOMAIN below
    BY <1>6
  <2>3. /\ tasks[s[i]].type = "compute" /\ tasks[s[i]].node = n
        /\ tasks[s[i]].inputs = <<below[i]>>
    BY <1>8, <2>2
  <2>4. one(s[i], below[i])
    BY <1>9, <2>1, <2>3
  <2>. DEFINE u == s[i]
  <2>5. output[u] \in DatasetsIn(Written(u))
    BY <2>1, <2>3 DEF OutputsOK, ResultOK
  <2>. HIDE DEF u
  <2>6. output[u].ranges \in Seq(Written(u)) /\ Written(u) \subseteq FileRange
    BY <2>5 DEF DatasetsIn, Written
  <2>7. output[u].ranges \in Seq(FileRange)
    BY <2>6, SeqGrows
  <2>8. RowsOf(output[u].ranges) \in Seq(Row)
    BY <2>7, RowsOfIs
  <2>. QED BY <2>4, <2>8 DEF u
<1>. DEFINE uu == RowsOfEach(ins)
            ss == [i \in DOMAIN below |-> RowsOf(output[below[i]].ranges)]
            SR == Seq(Row)
<1>18. /\ uu \in [1..b -> SR] /\ ss \in [1..b -> SR]
       /\ \A i \in 1..b : uu[i] = RowsOf(output[s[i]].ranges)
       /\ \A i \in 1..b : ss[i] = RowsOf(output[below[i]].ranges)
    BY <1>6, <1>16, <1>17 DEF RowsOfEach
<1>19. NodeRows(d) = FlattenSeq(ss)
    BY DEF NodeRows
<1>. HIDE DEF uu, ss, s, ins, b, d, limits, below
<1>20. uu \in Seq(SR) /\ ss \in Seq(SR) /\ Len(uu) = b /\ Len(ss) = b /\ DOMAIN ss = 1..b
  <2>. HIDE DEF SR
  <2>. QED BY <1>6, <1>18, FunctionIsSeq
<1>21. \A i \in 1..b : Len(uu[i]) = Passed(Len(ss[i]), limits)
    BY <1>17, <1>18 DEF NumRows
<1>22. Passed(Len(FlattenSeq(uu)), limits) = Passed(Len(FlattenSeq(ss)), limits)
    BY <1>3, <1>20, <1>21, PassedSums
<1>23. NumRows(output[T]) = Passed(Len(NodeRows(d)), limits)
    BY <1>11, <1>15, <1>19, <1>22 DEF uu
<1>24. NodeRows(n) = RowsOf(output[T].ranges)
  <2>. DEFINE r == RowsOf(output[T].ranges)
  <2>1. r \in Seq(Row)
    <3>1. 1 \in DOMAIN group[n] /\ group[n][1] = T
      BY <1>8
    <3>. QED BY <1>1, <3>1, NodeRowsAre
  <2>2. NodeRows(n) = FlattenSeq(<<r>>)
    <3>1. [i \in DOMAIN <<T>> |-> RowsOf(output[<<T>>[i]].ranges)] = <<r>>
      OBVIOUS
    <3>. QED BY <1>8, <3>1 DEF NodeRows
  <2>. HIDE DEF r
  <2>3. FlattenSeq(<<r>>) = r
    BY <2>1, FlattenOne
  <2>. QED BY <2>2, <2>3 DEF r
<1>. QED BY <1>23, <1>24 DEF NumRows, d, limits

\* The only input of a limit is what it stands for.
LEMMA LimitMeans ==
    ASSUME PlannedOK, OutputsOK, NEW n \in Done, plan[n].op = "limit"
    PROVE  Meaning(n) = NodeRows(plan[n].deps[1])
<1>. DEFINE d == plan[n].deps[1]
            r == NodeRows(d)
            s == plan[n].deps
<1>1. /\ n \in DOMAIN group /\ n \in DOMAIN plan
      /\ \A i \in DOMAIN plan[n].deps : plan[n].deps[i] \in Ran
    BY DEF Done, Ran, PlannedOK, GroupsOK
<1>2. plan[n] \in Nodes /\ NodeOK(plan, n)
    BY <1>1, PlanIs DEF PlannedOK
<1>3. s \in Seq(Nat) /\ Len(s) = 1
    BY <1>2, NodeIs DEF NodeOK
<1>4. DOMAIN s = 1..1
  <2>. HIDE DEF s
  <2>. QED BY <1>3, SeqIs
<1>5. d \in Ran
    BY <1>1, <1>4
<1>6. r \in Seq(Row)
    BY <1>5, NodeRowsAre
<1>7. DepRows(n) = [i \in 1..1 |-> r]
  <2>1. DepRows(n) = [i \in DOMAIN s |-> NodeRows(s[i])]
    BY DEF DepRows
  <2>. QED BY <1>4, <2>1
<1>. HIDE DEF r
<1>. DEFINE ins == [i \in 1..1 |-> r]
            SR == Seq(Row)
<1>8. ins \in [1..1 -> SR] /\ ins[1] = r
    BY <1>6
<1>. HIDE DEF ins
<1>9. ins \in Seq(SR) /\ Len(ins) = 1
  <2>. HIDE DEF SR
  <2>1. 1 \in Nat
    OBVIOUS
  <2>. QED BY <1>8, <2>1, FunctionIsSeq
<1>10. ins # <<>>
  <2>. HIDE DEF SR
  <2>1. Len(<<>>) = 0
    BY EmptyIsSeq
  <2>. QED BY <1>9, <2>1
<1>11. Join(ins) = r
    BY <1>8, <1>9, <1>10, JoinIs
<1>12. Meaning(n) = Join(DepRows(n))
    BY DEF Meaning, Means
<1>. QED BY <1>7, <1>11, <1>12 DEF ins, r, d

\* A LimitNode, planned as a limit of each partition, a merge and a limit of the whole,
\* gives as many rows as its input has, up to the limit, however the input is cut. The plan must
\* not contain a query that the optimizer fuses with the limit it reads.
THEOREM LimitsHold ==
    ASSUME LimitsApart
    PROVE  Spec => []LimitHolds
<1>1. IInv => LimitHolds
  <2>. SUFFICES ASSUME IInv,
                       NEW n \in Done, plan[n].op \in {"sql", "compute", "limit"},
                       plan[n].limits # <<>>
                PROVE  Len(NodeRows(n)) = LeastOf({Len(Meaning(n))} \cup Range(plan[n].limits))
    BY DEF LimitHolds
  <2>1. n \in DOMAIN group /\ n \in DOMAIN plan
    BY DEF Done, Ran, IInv, PlannedOK, GroupsOK
  <2>2. phase # "logical"
    BY <2>1 DEF IInv, PlannedOK
  <2>3. Unlimited(plan)
    BY <2>2 DEF IInv, PlannedOK
  <2>4. plan[n].op = "limit"
    BY <2>1, <2>3 DEF Unlimited
  <2>5. Len(NodeRows(n)) = Passed(Len(Meaning(n)), plan[n].limits)
    BY <2>4, LimitedNode, LimitMeans DEF IInv
  <2>. QED BY <2>5 DEF Passed
<1>. QED BY <1>1, AlwaysIInv, PTL

-----------------------------------------------------------------------------
(* Producers keep every row *)

HashOK(h) == h \in [BOOLEAN -> [{KeyOf[r] : r \in DOMAIN KeyOf} -> 0 .. MaxHash]]

\* Every row has a partition.
LEMMA BucketIs ==
    ASSUME HashOK(hash), NEW node, node.n \in Nat \ {0}, node.duckdb \in BOOLEAN, NEW row \in Row
    PROVE  Bucket(row, node) \in 0 .. node.n - 1
<1>1. row[1] \in DOMAIN KeyOf
  <2>1. row \in Seq(DOMAIN KeyOf) /\ row # <<>>
    BY DEF Row
  <2>2. Len(row) \in Nat /\ DOMAIN row = 1 .. Len(row) /\ Len(row) # 0
        /\ \A k \in DOMAIN row : row[k] \in DOMAIN KeyOf
    BY <2>1, SeqIs
  <2>3. 1 \in DOMAIN row
    BY <2>2
  <2>. QED BY <2>2, <2>3
<1>2. row[1] \in Nat /\ Key(row) \in {KeyOf[r] : r \in DOMAIN KeyOf}
    BY <1>1, DatasetAssumption DEF Key
<1>3. hash[node.duckdb] \in [{KeyOf[r] : r \in DOMAIN KeyOf} -> 0 .. MaxHash]
    BY DEF HashOK
<1>. DEFINE a == IF node.kind = "shuffle" THEN row[1] ELSE hash[node.duckdb][Key(row)]
<1>4. a \in Nat
  <2>1. hash[node.duckdb][Key(row)] \in 0 .. MaxHash
    BY <1>2, <1>3
  <2>. QED BY <1>2, <2>1, DataflowAssumption
<1>5. Bucket(row, node) = a % node.n
    BY DEF Bucket
<1>. HIDE DEF a
<1>. QED BY <1>4, <1>5, DivMod

LEMMA ItemsAtNone ==
    ASSUME NEW T, NEW S \in SUBSET DOMAIN <<>>
    PROVE  ItemsAt(<<>>, S) = <<>>
<1>. DEFINE e == <<>>
<1>1. e \in Seq(T) /\ DOMAIN e = {} /\ S \in SUBSET DOMAIN e
    BY EmptyIsSeq
<1>. HIDE DEF e
<1>2. ItemsAt(e, S) \in Seq(T) /\ Len(ItemsAt(e, S)) = Cardinality(S)
    BY <1>1, ItemsAtIs
<1>3. S = {}
    BY <1>1
<1>4. Cardinality(S) = 0
    BY <1>3, FS_EmptySet
<1>5. ItemsAt(e, S) = <<>>
    BY <1>2, <1>4, SeqIs
<1>. QED BY <1>5 DEF e

LEMMA HashKeeps ==
    ASSUME HashOK(hash), NEW t \in Int, NEW d \in DatasetsIn(FileRange),
           plan[tasks[t].node].n \in Nat \ {0}, plan[tasks[t].node].duckdb \in BOOLEAN
    PROVE  Shuffled(FlattenSeq(RowsOfEach(HashPartitions(t, d))), RowsOf(d.ranges))
<1>. DEFINE node == plan[tasks[t].node]
            n == node.n
            all == RowsOf(ResolvedRanges(d))
            places(k) == {i \in DOMAIN all : Bucket(all[i], node) = k - 1}
            rows(k) == ItemsAt(all, places(k))
            written(k) == NumRows(d) > 0 /\ (node.duckdb \/ rows(k) # <<>>)
            part(k) == IF written(k) THEN Files(<<RowRange(<<t, k>>, rows(k), k - 1)>>)
                       ELSE NoFiles
            parts == HashPartitions(t, d)
            e == RowsOfEach(parts)
            f == [i \in DOMAIN all |-> Bucket(all[i], node) + 1]
            T == Seq(Row)
<1>1. parts = [k \in 1..n |-> part(k)]
    BY DEF HashPartitions
<1>2. /\ all \in Seq(Row) /\ Shuffled(all, RowsOf(d.ranges)) /\ NumRows(d) = Len(all)
    BY ResolvedRows
<1>3. /\ n \in Nat \ {0}
      /\ \A i \in DOMAIN all : Bucket(all[i], node) \in 0 .. n - 1
  <2>1. \A i \in DOMAIN all : all[i] \in Row
    BY <1>2, SeqIs
  <2>. HIDE DEF all
  <2>. QED BY <2>1, BucketIs
<1>. HIDE DEF node, n, all
<1>0. NumRows(d) \in Nat /\ (NumRows(d) = 0 => all = <<>>)
    BY <1>2, SeqIs
<1>4. f \in [DOMAIN all -> 1..n] /\ \A i \in DOMAIN all : f[i] = Bucket(all[i], node) + 1
  <2>1. \A i \in DOMAIN all : Bucket(all[i], node) + 1 \in 1..n
    BY <1>3
  <2>. QED BY <2>1
<1>5. \A k \in 1..n : places(k) = ClassOf(all, f, k)
  <2>1. \A i \in DOMAIN all : Bucket(all[i], node) \in Int
    BY <1>3
  <2>2. \A k \in 1..n : \A i \in DOMAIN all : Bucket(all[i], node) = k - 1 <=> f[i] = k
    BY <1>4, <2>1
  <2>. HIDE DEF f
  <2>. QED BY <2>2 DEF ClassOf
<1>. HIDE DEF f
<1>6. ASSUME NEW k \in 1..n
      PROVE  RowsOf(part(k).ranges) = rows(k) /\ rows(k) \in T
  <2>. DEFINE S == places(k)
              w == ItemsAt(all, S)
              x == RowRange(<<t, k>>, w, k - 1)
  <2>1. S \in SUBSET DOMAIN all
    OBVIOUS
  <2>. HIDE DEF S
  <2>2. w \in Seq(Row)
    BY <1>2, <2>1, ItemsAtIs
  <2>3. NumRows(d) = 0 => w = <<>>
    <3>. QED BY <1>0, <2>1, ItemsAtNone
  <2>4. k \in Int /\ k - 1 \in Int
    OBVIOUS
  <2>. HIDE DEF w
  <2>5. x \in FileRange /\ x.rows = w
    BY <2>2, <2>4, RowRangeIs
  <2>. HIDE DEF x
  <2>6. RowsOf(<<x>>) = w /\ Files(<<x>>).ranges = <<x>>
    BY <2>5, RowsOfOne DEF Files
  <2>7. RowsOf(NoFiles.ranges) = <<>>
    BY RowsOfNone DEF NoFiles, Files
  <2>8. NumRows(d) \in Nat
    BY <1>0
  <2>9. CASE written(k)
    <3>1. part(k) = Files(<<x>>)
      BY <2>9 DEF x, w, S
    <3>2. rows(k) = w
      BY DEF w, S
    <3>. HIDE DEF part
    <3>. QED BY <2>2, <2>6, <3>1, <3>2
  <2>10. CASE ~written(k)
    <3>1. part(k) = NoFiles
      BY <2>10
    <3>2. rows(k) = w
      BY DEF w, S
    <3>3. w = <<>>
      BY <2>3, <2>8, <2>10, <3>2
    <3>. HIDE DEF part
    <3>. QED BY <2>2, <2>7, <3>1, <3>2, <3>3
  <2>. QED BY <2>9, <2>10
<1>7. \A k \in 1..n : rows(k) = ItemsAt(all, ClassOf(all, f, k))
    BY <1>5
<1>. HIDE DEF part, rows, places, parts
<1>8. e = [k \in 1..n |-> rows(k)]
    BY <1>1, <1>6 DEF RowsOfEach
<1>. HIDE DEF e, T
<1>9. e \in [1..n -> T] /\ \A k \in 1..n : e[k] = rows(k)
    BY <1>6, <1>8
<1>10. e \in Seq(T) /\ DOMAIN e = 1..n
    BY <1>3, <1>9, FunctionIsSeq
<1>11. e \in Seq(Seq(Row))
    BY <1>10 DEF T
<1>12. Shuffled(FlattenSeq(e), all)
  <2>1. f \in [DOMAIN all -> DOMAIN e]
    BY <1>4, <1>10
  <2>2. \A k \in DOMAIN e : e[k] = ItemsAt(all, ClassOf(all, f, k))
    BY <1>7, <1>9, <1>10
  <2>. QED BY <1>2, <1>11, <2>1, <2>2, ClassesKeep
<1>13. Shuffled(FlattenSeq(e), RowsOf(d.ranges))
    BY <1>2, <1>12, ShuffledTwice
<1>. QED BY <1>13 DEF e, parts

\* partition_func puts every file somewhere.
LEMMA UserKeeps ==
    ASSUME NEW F \in SUBSET FileRange, NEW d \in DatasetsIn(F), NEW n \in Nat \ {0},
           NEW parts \in UserPartitions(d, n)
    PROVE  Shuffled(FlattenSeq(RowsOfEach(parts)), RowsOf(d.ranges))
<1>. DEFINE r == ResolvedRanges(d)
            at(f, k) == {i \in DOMAIN f : f[i] = k}
            kind == IF d.kind = "files" THEN "files" ELSE "ranges"
            part(f, k) == [ranges |-> ItemsAt(r, at(f, k)), kind |-> kind]
            e == RowsOfEach(parts)
            T == Seq(FileRange)
<1>1. r \in Seq(F) /\ DOMAIN r = DOMAIN d.ranges /\ Shuffled(RowsOf(r), RowsOf(d.ranges))
    BY ResolvedIs, ResolvedRows
<1>2. PICK f \in [DOMAIN d.ranges -> 1..n] : parts = [k \in 1..n |-> part(f, k)]
    BY DEF UserPartitions
<1>. HIDE DEF r, kind
<1>3. \A k \in 1..n : at(f, k) = ClassOf(r, f, k)
    BY <1>1 DEF ClassOf
<1>4. r \in Seq(FileRange)
    BY <1>1, SeqGrows
<1>. DEFINE ps == [k \in 1..n |-> ItemsAt(r, ClassOf(r, f, k))]
<1>5. \A k \in 1..n : ps[k] = ItemsAt(r, ClassOf(r, f, k)) /\ parts[k].ranges = ps[k]
    BY <1>2, <1>3
<1>6. parts \in [1..n -> DatasetsIn(F)]
  <2>1. DOMAIN parts = 1..n /\ \A k \in 1..n : parts[k] \in DatasetsIn(F)
    BY UserPartitionsAre
  <2>2. parts = [k \in 1..n |-> parts[k]]
    BY <1>2
  <2>. HIDE DEF part
  <2>. QED BY <2>1, <2>2
<1>. HIDE DEF e
<1>7. /\ e \in Seq(Seq(Row)) /\ Len(e) = n /\ \A k \in 1..n : e[k] = RowsOf(parts[k].ranges)
  <2>1. n \in Nat
    OBVIOUS
  <2>. QED BY <1>6, <2>1, EachTyped DEF e
<1>8. ps \in Seq(T) /\ Len(ps) = n
  <2>1. \A k \in 1..n : ClassOf(r, f, k) \in SUBSET DOMAIN r
    BY DEF ClassOf
  <2>2. \A k \in 1..n : ItemsAt(r, ClassOf(r, f, k)) \in T
    BY <1>4, <2>1, ItemsAtIs
  <2>. HIDE DEF T
  <2>3. ps \in [1..n -> T]
    BY <2>2
  <2>. HIDE DEF ps
  <2>. QED BY <2>3, FunctionIsSeq
<1>9. Shuffled(FlattenSeq(e), RowsOf(r))
  <2>1. f \in [DOMAIN r -> 1..n] /\ n \in Nat
    BY <1>1
  <2>2. ps \in Seq(Seq(FileRange))
    BY <1>8
  <2>3. \A k \in 1..n : e[k] = RowsOf(ps[k])
    BY <1>5, <1>7
  <2>4. \A k \in 1..n : ps[k] = ItemsAt(r, ClassOf(r, f, k))
    BY <1>5
  <2>. HIDE DEF T, ps, part
  <2>. QED BY <1>4, <1>7, <1>8, <2>1, <2>2, <2>3, <2>4, RangesKeep
<1>. QED BY <1>1, <1>9, ShuffledTwice DEF e

\* What finalize puts in the place of a partition has the same rows.
LEMMA FinalizedRows ==
    ASSUME NEW t \in Int, NEW k \in Int, NEW F \in SUBSET FileRange, NEW old \in DatasetsIn(F),
           NEW new, FinalizedPart(t, k, old, new), RowRange(<<t, k>>, <<>>, k - 1) \in F
    PROVE  RowsOf(new.ranges) = RowsOf(old.ranges)
<1>1. CASE new = old
    BY <1>1
<1>2. CASE Empty(old)
  <2>1. NumRows(old) = 0
    BY <1>2, EmptyHasNoRows
  <2>2. new \in DatasetsIn(F) /\ NumRows(new) = 0
    BY <2>1, FinalizedPartIs
  <2>3. RowsOf(new.ranges) \in Seq(Row) /\ RowsOf(old.ranges) \in Seq(Row)
    BY <2>2, ResolvedRows
  <2>4. RowsOf(new.ranges) = <<>> /\ RowsOf(old.ranges) = <<>>
    BY <2>1, <2>2, <2>3, SeqIs DEF NumRows
  <2>. QED BY <2>4
<1>. QED BY <1>1, <1>2 DEF FinalizedPart

LEMMA EngineIs ==
    ASSUME NEW node \in Nodes, node.op = "partition"
    PROVE  node.duckdb \in BOOLEAN
<1>. DEFINE SN == Seq(Nat)
            FR == Seq(FileRange)
<1>. HIDE DEF SN, FR
<1>1. node \in
    [op : {"root", "union", "projection"}, deps : SN, named : BOOLEAN]
    \cup [op : {"source"}, deps : {<<>>}, named : BOOLEAN, files : FR]
    \cup [op : {"sink"}, deps : SN, named : BOOLEAN, copy : BOOLEAN]
    \cup [op : {"compute", "sql", "limit"}, deps : SN, named : BOOLEAN, limits : SN]
    \cup [op : {"consolidate"}, deps : SN, named : BOOLEAN, dims : SUBSET Nat]
    \cup [op : {"partition"}, deps : SN, named : BOOLEAN, kind : Kinds,
          n : Nat \ {0}, dim : Nat \ {Top}, nested : BOOLEAN, duckdb : BOOLEAN]
    BY DEF Nodes, SN, FR
<1>. QED BY <1>1

\* Parts of a dataset with the rows of dataset d: a repeated one has them in every part.
PartsKeep(kind, parts, d) ==
    IF kind = "repeat"
    THEN \A k \in DOMAIN parts : Shuffled(RowsOf(parts[k].ranges), RowsOf(d.ranges))
    ELSE kind # "load" => Shuffled(FlattenSeq(RowsOfEach(parts)), RowsOf(d.ranges))

LEMMA PartitionsKeep ==
    ASSUME HashOK(hash), NEW t, Runs(t), tasks[t].type = "producer",
           NEW parts \in IF plan[tasks[t].node].kind = "user"
                         THEN UserPartitions(ProducerInput(t), plan[tasks[t].node].n)
                         ELSE {Partitions(t, ProducerInput(t))}
    PROVE  PartsKeep(plan[tasks[t].node].kind, parts, ProducerInput(t))
<1>. DEFINE n == tasks[t].node
            node == plan[n]
            np == node.n
            d == ProducerInput(t)
            F == Written(t)
<1>1. /\ node.kind \in Kinds /\ np \in Nat \ {0} /\ t \in Nat /\ t \in Int /\ node.op = "partition"
    BY ProducerNode
<1>2. d \in DatasetsIn(F)
    BY ProducerInputIs
<1>3. F \in SUBSET FileRange /\ AnyRows(F)
    BY <1>1, WrittenAnyRows
<1>4. node.duckdb \in BOOLEAN
    BY <1>1, RunsNode, EngineIs
<1>5. d \in DatasetsIn(FileRange)
    BY <1>2, <1>3, DatasetsGrow
<1>. HIDE DEF d, F
<1>6. node.kind # "user" => parts = Partitions(t, d)
    BY DEF d
<1>7. CASE node.kind \in {"hash", "shuffle"}
  <2>1. parts = HashPartitions(t, d)
    BY <1>6, <1>7 DEF Partitions
  <2>2. Shuffled(FlattenSeq(RowsOfEach(HashPartitions(t, d))), RowsOf(d.ranges))
    BY <1>1, <1>4, <1>5, HashKeeps
  <2>. QED BY <1>7, <2>1, <2>2 DEF PartsKeep, d
<1>8. CASE node.kind = "even"
  <2>1. parts = PartitionByFiles(d, np)
    BY <1>6, <1>8 DEF Partitions
  <2>2. Shuffled(FlattenSeq(RowsOfEach(PartitionByFiles(d, np))), RowsOf(d.ranges))
    BY <1>1, <1>2, <1>3, PartitionByFilesKeeps
  <2>. QED BY <1>8, <2>1, <2>2 DEF PartsKeep, d
<1>9. CASE node.kind = "evenrows"
  <2>1. parts = PartitionByRows(d, np)
    BY <1>6, <1>9 DEF Partitions
  <2>2. Shuffled(FlattenSeq(RowsOfEach(PartitionByRows(d, np))), RowsOf(d.ranges))
    BY <1>1, <1>2, <1>3, PartitionByRowsKeeps
  <2>. QED BY <1>9, <2>1, <2>2 DEF PartsKeep, d
<1>10. CASE node.kind = "repeat"
  <2>1. parts = [k \in 1..np |-> d]
    BY <1>6, <1>10 DEF Partitions
  <2>2. \A k \in DOMAIN parts : parts[k] = d
    BY <2>1
  <2>3. Shuffled(RowsOf(d.ranges), RowsOf(d.ranges))
    BY ShuffledSame
  <2>. QED BY <1>10, <2>2, <2>3 DEF PartsKeep, d
<1>11. CASE node.kind = "user"
  <2>1. parts \in UserPartitions(d, np)
    BY <1>11 DEF d
  <2>2. Shuffled(FlattenSeq(RowsOfEach(parts)), RowsOf(d.ranges))
    BY <1>1, <1>2, <1>3, <2>1, UserKeeps
  <2>. QED BY <1>11, <2>2 DEF PartsKeep, d
<1>12. CASE node.kind = "load"
    BY <1>12 DEF PartsKeep
<1>. QED BY <1>1, <1>7, <1>8, <1>9, <1>10, <1>11, <1>12 DEF Kinds

\* What producers read is what their input has.
LEMMA ProducerReads ==
    ASSUME NEW t, Runs(t), tasks[t].type = "producer"
    PROVE  Shuffled(RowsOf(ProducerInput(t).ranges), RowsOf(Inputs(t)[1].ranges))
<1>. DEFINE x == Inputs(t)[1]
            F == Written(t)
<1>1. 1 \in 1 .. Len(tasks[t].inputs) /\ tasks[t].type # "consumer" /\ t \in Int
    BY ProducerNode
<1>2. x \in DatasetsIn(F) /\ F \in SUBSET FileRange /\ 1 \in DOMAIN Inputs(t)
    BY <1>1, InputsAre, WrittenAnyRows
<1>. HIDE DEF F
<1>3. ProducerInput(t) = x \/ ProducerInput(t) = RemoveEmptyFiles(x)
    BY <1>2 DEF ProducerInput, TrimmedInputs
<1>. HIDE DEF x
<1>4. Shuffled(RowsOf(RemoveEmptyFiles(x).ranges), RowsOf(x.ranges))
    BY <1>2, RemoveEmptyIs
<1>5. Shuffled(RowsOf(x.ranges), RowsOf(x.ranges))
    BY ShuffledSame
<1>. QED BY <1>3, <1>4, <1>5 DEF x

\* What every task keeps of the rows of its inputs.
Keeps(p, ts, t, ins, out) ==
    /\ ts[t].type = "source" => out = Files(p[ts[t].node].files)
    /\ ts[t].type = "projection" => out = ins[1]
    /\ ts[t].type = "merge" => Shuffled(RowsOf(out.ranges), FlattenSeq(RowsOfEach(ins)))
    /\ ts[t].type = "split" => out = PartitionByFiles(ins[1], ts[t].n)[ts[t].infos[Top] + 1]
    /\ ts[t].type = "producer" => PartsKeep(p[ts[t].node].kind, out, ins[1])
    /\ ts[t].type = "consumer" =>
        Shuffled(RowsOf(out.ranges),
                 FlattenSeq([i \in DOMAIN ins |->
                                RowsOf(ins[i][ts[t].infos[p[ts[t].node].dim] + 1].ranges)]))

LEMMA ProducerKeeps ==
    ASSUME HashOK(hash), NEW t, Runs(t), RunProducer(t)
    PROVE  \E out : Produce(t, out) /\ PartsKeep(plan[tasks[t].node].kind, out, Inputs(t)[1])
<1>. DEFINE n == tasks[t].node
            kind == plan[n].kind
            np == plan[n].n
            d == ProducerInput(t)
            x == Inputs(t)[1]
            F == Written(t)
<1>1. tasks[t].type = "producer"
    BY DEF RunProducer
<1>2. PICK parts \in IF kind = "user" THEN UserPartitions(d, np) ELSE {Partitions(t, d)} :
            Produce(t, Finalized(t, parts))
    BY DEF RunProducer, ProducerInput
<1>3. PartsKeep(kind, parts, d)
    BY <1>1, <1>2, PartitionsKeep
<1>4. PartsOK(plan, hash, n, t, parts)
  <2>1. CASE kind = "user"
    <3>1. parts \in UserPartitions(ProducerInput(t), plan[tasks[t].node].n)
      BY <1>2, <2>1
    <3>. QED BY <1>1, <2>1, <3>1, UserPartsAre
  <2>2. CASE kind # "user"
    <3>1. parts = Partitions(t, d)
      BY <1>2, <2>2
    <3>. QED BY <1>1, <2>2, <3>1, PartitionsAre
  <2>. QED BY <2>1, <2>2
<1>5. t \in Int /\ np \in Nat \ {0}
    BY <1>1, ProducerNode
<1>. DEFINE f == Finalized(t, parts)
<1>6. /\ PartsOK(plan, hash, n, t, f)
      /\ \A k \in 1..np : FinalizedPart(t, k, parts[k], f[k])
    BY <1>4, <1>5, FinalizedAre
<1>7. Shuffled(RowsOf(d.ranges), RowsOf(x.ranges))
    BY <1>1, ProducerReads
<1>8. F \in SUBSET FileRange
    BY <1>5, WrittenAnyRows
<1>9. /\ DOMAIN parts = 1..np /\ \A k \in 1..np : parts[k] \in DatasetsIn(F)
      /\ DOMAIN f = 1..np
    BY <1>4, <1>6 DEF PartsOK
<1>10. ASSUME NEW k \in 1..np PROVE RowsOf(f[k].ranges) = RowsOf(parts[k].ranges)
  <2>1. k \in Int
    OBVIOUS
  <2>2. RowRange(<<t, k>>, <<>>, k - 1) \in F
    BY <1>5, <2>1, AddedFile, MarkedIs
  <2>3. parts[k] \in DatasetsIn(F) /\ FinalizedPart(t, k, parts[k], f[k])
    BY <1>6, <1>9
  <2>. HIDE DEF F, f
  <2>. QED BY <1>5, <1>8, <2>1, <2>2, <2>3, FinalizedRows
<1>. HIDE DEF f, d, x
<1>11. RowsOfEach(f) = RowsOfEach(parts)
    BY <1>9, <1>10 DEF RowsOfEach
<1>12. PartsKeep(kind, f, x)
  <2>1. CASE kind = "repeat"
    <3>1. ASSUME NEW k \in 1..np PROVE Shuffled(RowsOf(f[k].ranges), RowsOf(x.ranges))
      <4>1. Shuffled(RowsOf(parts[k].ranges), RowsOf(d.ranges))
        BY <1>3, <1>9, <2>1 DEF PartsKeep
      <4>2. Shuffled(RowsOf(parts[k].ranges), RowsOf(x.ranges))
        BY <1>7, <4>1, ShuffledTwice
      <4>. QED BY <1>10, <4>2
    <3>. QED BY <1>9, <2>1, <3>1 DEF PartsKeep
  <2>2. CASE kind # "repeat" /\ kind # "load"
    <3>1. Shuffled(FlattenSeq(RowsOfEach(f)), RowsOf(d.ranges))
      BY <1>3, <1>11, <2>2 DEF PartsKeep
    <3>2. Shuffled(FlattenSeq(RowsOfEach(f)), RowsOf(x.ranges))
      BY <1>7, <3>1, ShuffledTwice
    <3>. QED BY <2>2, <3>2 DEF PartsKeep
  <2>3. CASE kind = "load"
    BY <2>3 DEF PartsKeep
  <2>. QED BY <2>1, <2>2, <2>3
<1>. QED BY <1>2, <1>12 DEF f, x

\* Task t puts out what it may, and keeps the rows.
MakesRows(t, out) == Produce(t, out) /\ Keeps(plan, tasks, t, InputsOf(tasks, output, t), out)

LEMMA ConsumerKeeps ==
    ASSUME NEW t, Runs(t), tasks[t].type = "consumer", Produce(t, Consumed(t))
    PROVE  MakesRows(t, Consumed(t))
<1>. DEFINE n == tasks[t].node
            idx == tasks[t].infos[plan[n].dim]
            ds == Taken(t)
            F == Marked(plan, hash, n, t, idx)
            all == Merge(ds)
            out == Consumed(t)
            ins == InputsOf(tasks, output, t)
            taken == [i \in DOMAIN ins |-> RowsOf(ins[i][idx + 1].ranges)]
<1>1. TakenOK(t, n, idx, ds)
    BY TakenIs
<1>2. F \in SUBSET FileRange /\ ds \in Seq(DatasetsIn(F))
    BY <1>1 DEF TakenOK
<1>3. out = IF trim THEN RemoveEmptyFiles(all) ELSE all
    BY DEF Consumed, Taken
<1>4. taken = RowsOfEach(ds)
    BY DEF InputsOf, Taken, RowsOfEach
<1>. HIDE DEF ds, F, out, taken
<1>5. all \in DatasetsIn(F) /\ Shuffled(RowsOf(all.ranges), FlattenSeq(RowsOfEach(ds)))
    BY <1>2, MergeIs
<1>. HIDE DEF all
<1>6. Shuffled(RowsOf(RemoveEmptyFiles(all).ranges), RowsOf(all.ranges))
    BY <1>2, <1>5, RemoveEmptyIs
<1>7. Shuffled(RowsOf(out.ranges), FlattenSeq(taken))
    BY <1>3, <1>4, <1>5, <1>6, ShuffledTwice
<1>8. Keeps(plan, tasks, t, ins, out)
    BY <1>7 DEF Keeps, taken
<1>. QED BY <1>8 DEF MakesRows, out

LEMMA RunKeeps ==
    ASSUME HashOK(hash), NEW t, Runs(t), Run(t)
    PROVE  (\E out : MakesRows(t, out)) \/ Fails(t)
<1>. DEFINE ins == InputsOf(tasks, output, t)
<1>0. ins = Inputs(t)
    BY DEF InputsOf, Inputs
<1>1. Ready(t) /\ (\/ RunCompute(t) \/ RunProducer(t) \/ RunConsumer(t)
                   \/ RunMerge(t) \/ RunSink(t) \/ RunSplit(t) \/ RunOther(t))
    BY DEF Run
<1>2. CASE RunProducer(t)
  <2>1. tasks[t].type = "producer"
    BY <1>2 DEF RunProducer
  <2>2. PICK out : Produce(t, out) /\ PartsKeep(plan[tasks[t].node].kind, out, Inputs(t)[1])
    BY <1>2, ProducerKeeps
  <2>3. Keeps(plan, tasks, t, ins, out)
    BY <1>0, <2>1, <2>2 DEF Keeps
  <2>. QED BY <2>2, <2>3 DEF MakesRows
<1>3. CASE RunConsumer(t)
  <2>1. tasks[t].type = "consumer"
    BY <1>3 DEF RunConsumer
  <2>2. Produce(t, Consumed(t)) \/ Fails(t)
    BY <1>1, <1>3, ConsumerRuns DEF Fails
  <2>. QED BY <2>1, <2>2, ConsumerKeeps
<1>4. CASE RunMerge(t)
  <2>. DEFINE out == Merge(Inputs(t))
  <2>1. tasks[t].type = "merge" /\ Produce(t, out)
    BY <1>4 DEF RunMerge
  <2>2. Inputs(t) \in Seq(DatasetsIn(Written(t)))
    BY <2>1, InputsAre
  <2>3. Written(t) \in SUBSET FileRange
    BY TaskWrites
  <2>4. Shuffled(RowsOf(out.ranges), FlattenSeq(RowsOfEach(Inputs(t))))
    BY <2>2, <2>3, MergeIs
  <2>. HIDE DEF out
  <2>5. Keeps(plan, tasks, t, ins, out)
    BY <1>0, <2>1, <2>4 DEF Keeps
  <2>. QED BY <2>1, <2>5 DEF MakesRows
<1>5. CASE RunSplit(t)
  <2>. DEFINE out == PartitionByFiles(Inputs(t)[1], tasks[t].n)[tasks[t].infos[Top] + 1]
  <2>1. tasks[t].type = "split" /\ Produce(t, out)
    BY <1>5 DEF RunSplit
  <2>2. Keeps(plan, tasks, t, ins, out)
    BY <1>0, <2>1 DEF Keeps
  <2>. QED BY <2>1, <2>2 DEF MakesRows
<1>6. ASSUME NEW out, Produce(t, out), tasks[t].type \in {"compute", "sink", "root"}
      PROVE  MakesRows(t, out)
    BY <1>6 DEF MakesRows, Keeps
<1>7. CASE RunCompute(t)
    BY <1>6, <1>7 DEF RunCompute
<1>8. CASE RunSink(t)
    BY <1>6, <1>8 DEF RunSink
<1>9. CASE RunOther(t)
  <2>1. CASE tasks[t].type = "source" /\ Produce(t, Files(plan[tasks[t].node].files))
    BY <2>1 DEF MakesRows, Keeps
  <2>2. CASE tasks[t].type = "projection" /\ Produce(t, Inputs(t)[1])
    BY <1>0, <2>2 DEF MakesRows, Keeps
  <2>. QED BY <1>6, <1>9, <2>1, <2>2 DEF RunOther
<1>. QED BY <1>1, <1>2, <1>3, <1>4, <1>5, <1>7, <1>8, <1>9

\* What has run so far kept the rows.
KeptBy(p, ts, o) == \A t \in DOMAIN o : Keeps(p, ts, t, InputsOf(ts, o, t), o[t])
KeptSoFar == HashOK(hash) /\ KeptBy(plan, tasks, output)

LEMMA OneMoreKept ==
    ASSUME NEW p, NEW ts, NEW o, KeptBy(p, ts, o), NEW t, t \notin DOMAIN o,
           \A u \in DOMAIN o \cup {t} : \A i \in DOMAIN ts[u].inputs : ts[u].inputs[i] \in DOMAIN o,
           NEW out, Keeps(p, ts, t, InputsOf(ts, o, t), out)
    PROVE  KeptBy(p, ts, Extended(o, t, out))
<1>. DEFINE q == Extended(o, t, out)
<1>1. DOMAIN q = DOMAIN o \cup {t} /\ q[t] = out /\ \A x \in DOMAIN o : q[x] = o[x]
    BY ExtendedIs
<1>. HIDE DEF q
<1>2. ASSUME NEW u \in DOMAIN q PROVE InputsOf(ts, q, u) = InputsOf(ts, o, u)
    BY <1>1 DEF InputsOf
<1>3. ASSUME NEW u \in DOMAIN q PROVE Keeps(p, ts, u, InputsOf(ts, q, u), q[u])
  <2>1. CASE u \in DOMAIN o
    <3>1. Keeps(p, ts, u, InputsOf(ts, o, u), o[u])
      BY <2>1 DEF KeptBy
    <3>. QED BY <1>1, <1>2, <2>1, <3>1
  <2>2. CASE u = t
    <3>1. InputsOf(ts, q, u) = InputsOf(ts, o, u) /\ q[u] = out
      BY <1>1, <1>2, <2>2
    <3>. QED BY <2>2, <3>1
  <2>. QED BY <1>1, <2>1, <2>2
<1>. QED BY <1>3 DEF KeptBy, q

LEMMA KeptIsNext == KeptSoFar' <=> HashOK(hash') /\ KeptBy(plan', tasks', output')
    BY DEF KeptSoFar, HashOK, KeptBy, Keeps, PartsKeep, InputsOf

LEMMA KeptInit ==
    ASSUME Init
    PROVE  KeptSoFar
<1>1. HashOK(hash) /\ output = << >>
    BY DEF Init, HashOK
<1>2. DOMAIN << >> = {}
    OBVIOUS
<1>. QED BY <1>1, <1>2 DEF KeptSoFar, KeptBy

LEMMA KeptNext ==
    ASSUME IInv, KeptSoFar, [Next]_vars
    PROVE  KeptSoFar'
<1>1. ASSUME UNCHANGED <<plan, tasks, hash, output>> PROVE KeptSoFar'
    BY <1>1, KeptIsNext DEF KeptSoFar
<1>2. CASE UNCHANGED vars
    BY <1>1, <1>2 DEF vars, planVars
<1>3. CASE PlannerNext /\ UNCHANGED <<hash, skip, trim, output>>
  <2>1. phase \in {"logical", "planning"}
    BY <1>3 DEF PlannerNext, Optimize, Assemble, Visit
  <2>2. output' = << >> /\ DOMAIN << >> = {}
    BY <1>3, <2>1 DEF IInv, PlannedOK
  <2>3. HashOK(hash')
    BY <1>3 DEF KeptSoFar
  <2>. QED BY <2>2, <2>3, KeptIsNext DEF KeptBy
<1>4. ASSUME NEW t \in DOMAIN tasks, Run(t) PROVE KeptSoFar'
  <2>1. Ready(t) /\ Runs(t)
    BY <1>4, RunsIs DEF Run, IInv
  <2>2. HashOK(hash)
    BY DEF KeptSoFar
  <2>3. ASSUME NEW out, MakesRows(t, out) PROVE KeptSoFar'
    <3>1. output' = Extended(output, t, out) /\ UNCHANGED <<plan, tasks, hash>>
      BY <2>3 DEF MakesRows, Produce, planVars
    <3>2. Keeps(plan, tasks, t, InputsOf(tasks, output, t), out)
      BY <2>3 DEF MakesRows
    <3>3. \A u \in DOMAIN output \cup {t} : \A i \in DOMAIN tasks[u].inputs :
                tasks[u].inputs[i] \in DOMAIN output
      BY <2>1 DEF Runs, OutputsOK
    <3>4. t \notin DOMAIN output /\ KeptBy(plan, tasks, output)
      BY <2>1 DEF Runs, KeptSoFar
    <3>5. KeptBy(plan, tasks, Extended(output, t, out))
      BY <3>2, <3>3, <3>4, OneMoreKept
    <3>. QED BY <2>2, <3>1, <3>5, KeptIsNext
  <2>4. CASE Fails(t)
    BY <1>1, <2>4 DEF Fails
  <2>. QED BY <1>4, <2>1, <2>2, <2>3, <2>4, RunKeeps
<1>. QED BY <1>2, <1>3, <1>4, <1>1 DEF Next

-----------------------------------------------------------------------------
(* How the tasks of a node that moves rows fit together *)

Is(ts, t, type, n, inputs) ==
    t \in DOMAIN ts /\ ts[t].type = type /\ ts[t].node = n /\ ts[t].inputs = inputs

\* Tasks q have together what the tasks below have.
Shared(ts, n, below, q) ==
    \E shares \in Seq(Seq(Nat)) :
        /\ FlattenSeq(shares) = below /\ Len(shares) = Len(q)
        /\ \A k \in DOMAIN q : Is(ts, q[k], "merge", n, shares[k])
Split(ts, n, below, q) ==
    /\ q # <<>>
    /\ \E M \in DOMAIN ts :
        /\ Is(ts, M, "merge", n, below)
        /\ \A k \in DOMAIN q : /\ Is(ts, q[k], "split", n, <<M>>)
                               /\ ts[q[k]].n = Len(q) /\ ts[q[k]].infos[Top] = k - 1
Feeds(ts, n, below, q) ==
    /\ q \in Seq(Nat)
    /\ q = below \/ Split(ts, n, below, q) \/ Shared(ts, n, below, q)

\* There is a producer for each of the tasks q.
Produces(ts, n, q, pr) ==
    /\ pr \in Seq(Nat) /\ Len(pr) = Len(q)
    /\ \A k \in DOMAIN pr : Is(ts, pr[k], "producer", n, <<q[k]>>)

\* Partition k - 1 of node n, of the producers pr, is read by task t.
Takes(p, ts, n, t, k, pr) == Is(ts, t, "consumer", n, pr) /\ ts[t].infos[p[n].dim] = k - 1

TakesAll(p, ts, n, pr, g) ==
    Len(g) = p[n].n /\ \A k \in 1 .. p[n].n : Takes(p, ts, n, g[k], k, pr)
TakesOne(p, ts, n, pr, g) ==
    /\ Len(g) = Len(pr) * p[n].n
    /\ \A j \in 1 .. Len(pr) : \A k \in 1 .. p[n].n :
            Takes(p, ts, n, g[Place(p[n].n, j, k)], k, <<pr[j]>>)

PartitionShape(p, ts, n, below, g) ==
    \E q, pr : /\ Feeds(ts, n, below, q) /\ Produces(ts, n, q, pr)
               /\ TakesAll(p, ts, n, pr, g) \/ TakesOne(p, ts, n, pr, g)

SourceShape(ts, n, g) == \E t \in DOMAIN ts : g = <<t>> /\ ts[t].type = "source" /\ ts[t].node = n
ProjectionShape(ts, n, below, g) ==
    Len(g) = Len(below) /\ \A i \in DOMAIN g : Is(ts, g[i], "projection", n, <<below[i]>>)
ConsolidateShape(ts, n, below, g) ==
    \E f \in [DOMAIN below -> DOMAIN g] : \A k \in DOMAIN g :
        Is(ts, g[k], "merge", n, ItemsAt(below, ClassOf(below, f, k)))

Shape(p, ts, n, below, g) ==
    /\ p[n].op = "source" => SourceShape(ts, n, g)
    /\ p[n].op = "union" => g = below
    /\ p[n].op = "projection" => ProjectionShape(ts, n, below, g)
    /\ p[n].op = "consolidate" => ConsolidateShape(ts, n, below, g)
    /\ p[n].op = "partition" => PartitionShape(p, ts, n, below, g)

LEMMA ShapeStays ==
    ASSUME NEW p, NEW ts, NEW us, NEW n, NEW below, NEW g, Shape(p, ts, n, below, g),
           DOMAIN ts \subseteq DOMAIN us, \A t \in DOMAIN ts : us[t] = ts[t]
    PROVE  Shape(p, us, n, below, g)
<1>1. ASSUME NEW t, NEW type, NEW inputs, Is(ts, t, type, n, inputs)
      PROVE  Is(us, t, type, n, inputs) /\ us[t] = ts[t]
    BY <1>1 DEF Is
<1>2. SourceShape(ts, n, g) => SourceShape(us, n, g)
    BY DEF SourceShape
<1>3. ProjectionShape(ts, n, below, g) => ProjectionShape(us, n, below, g)
    BY <1>1 DEF ProjectionShape
<1>4. ConsolidateShape(ts, n, below, g) => ConsolidateShape(us, n, below, g)
    BY <1>1 DEF ConsolidateShape
<1>5. ASSUME NEW q PROVE Feeds(ts, n, below, q) => Feeds(us, n, below, q)
  <2>1. Split(ts, n, below, q) => Split(us, n, below, q)
    BY <1>1 DEF Split
  <2>2. Shared(ts, n, below, q) => Shared(us, n, below, q)
    BY <1>1 DEF Shared
  <2>. QED BY <2>1, <2>2 DEF Feeds
<1>6. ASSUME NEW q, NEW pr PROVE Produces(ts, n, q, pr) => Produces(us, n, q, pr)
    BY <1>1 DEF Produces
<1>7. ASSUME NEW t, NEW k, NEW pr PROVE Takes(p, ts, n, t, k, pr) => Takes(p, us, n, t, k, pr)
    BY <1>1 DEF Takes
<1>8. ASSUME NEW pr PROVE TakesAll(p, ts, n, pr, g) => TakesAll(p, us, n, pr, g)
    BY <1>7 DEF TakesAll
<1>9. ASSUME NEW pr PROVE TakesOne(p, ts, n, pr, g) => TakesOne(p, us, n, pr, g)
    BY <1>7 DEF TakesOne
<1>10. PartitionShape(p, ts, n, below, g) => PartitionShape(p, us, n, below, g)
    BY <1>5, <1>6, <1>8, <1>9 DEF PartitionShape
<1>. QED BY <1>2, <1>3, <1>4, <1>10 DEF Shape

\* The tasks of the inputs of a node.
TasksBelow(p, gr, n) == FlattenSeq([i \in DOMAIN p[n].deps |-> gr[p[n].deps[i]]])

ShapesIn(p, ts, gr) ==
    \A n \in DOMAIN gr : /\ \A i \in DOMAIN p[n].deps : p[n].deps[i] \in DOMAIN gr
                         /\ Shape(p, ts, n, TasksBelow(p, gr, n), gr[n])
ShapesOK == ShapesIn(plan, tasks, group)

LEMMA ShapesIsNext == ShapesOK' <=> ShapesIn(plan', tasks', group')
    BY DEF ShapesOK, ShapesIn, Shape, TasksBelow, SourceShape, ProjectionShape, ConsolidateShape,
           PartitionShape, Feeds, Split, Shared, Produces, TakesAll, TakesOne, Takes, Is

\* The items of two functions over the first numbers, one after the other.
LEMMA JoinedItems ==
    ASSUME NEW m \in Nat, NEW k \in Nat, NEW a, NEW b,
           a = [i \in 1..m |-> a[i]], b = [i \in 1..k |-> b[i]]
    PROVE  /\ Len(a \o b) = m + k
           /\ \A i \in 1..m : (a \o b)[i] = a[i]
           /\ \A j \in 1..k : (a \o b)[m + j] = b[j]
<1>. DEFINE N == {a[i] : i \in 1..m} \cup {b[j] : j \in 1..k}
<1>1. (\A i \in 1..m : a[i] \in N) /\ (\A j \in 1..k : b[j] \in N)
    OBVIOUS
<1>. HIDE DEF N
<1>2. a \in [1..m -> N] /\ b \in [1..k -> N]
    BY <1>1
<1>3. b \in Seq(N) /\ Len(b) = k /\ DOMAIN b = 1..k
    BY <1>2, FunctionIsSeq
<1>4. Followed(N, m, a, b, a \o b)
    BY <1>2, <1>3, FollowedIs
<1>. QED BY <1>3, <1>4 DEF Followed

\* What the visit created stands after what there was.
LEMMA NewTaskIs ==
    ASSUME NEW n, Visitable(n), NEW new, NEW g, Fits(n, new, g), NEW k \in 1 .. Len(new)
    PROVE  /\ Id(k) \in DOMAIN (tasks \o new) /\ (tasks \o new)[Id(k)] = new[k]
           /\ Id(k) \in Nat
<1>1. Grown(tasks, new, tasks \o new)
    BY GrownIs DEF Fits, Visitable, TasksOK
<1>. DEFINE us == tasks \o new
            l == Len(tasks)
<1>. HIDE DEF us
<1>2. Id(k) = l + k
    BY DEF Id
<1>3. l \in Nat /\ Len(new) \in Nat /\ DOMAIN us = 1 .. l + Len(new) /\ us[l + k] = new[k]
    BY <1>1 DEF Grown, us
<1>. HIDE DEF l
<1>4. l + k \in DOMAIN us /\ l + k \in Nat
    BY <1>3
<1>. QED BY <1>2, <1>3, <1>4 DEF us

\* The place of sub-partition k of partition j.
LEMMA PlaceIs ==
    ASSUME NEW m \in Nat, NEW np \in Nat, NEW j \in 1..m, NEW k \in 1..np
    PROVE  /\ Place(np, j, k) \in 1 .. m * np
           /\ (Place(np, j, k) - 1) \div np + 1 = j
           /\ (Place(np, j, k) - 1) % np = k - 1
<1>. DEFINE c == Place(np, j, k)
            i == (c - 1) \div np + 1
            x == ((c - 1) % np) + 1
<1>1. c \in 1 .. m * np
    BY RowwisePlaces
<1>. HIDE DEF c
<1>2. /\ i \in 1..m /\ x \in 1..np
      /\ ((c - 1) \div np) * np + ((c - 1) % np) + 1 = c /\ np # 0
    BY <1>1, RowwiseFound
<1>. DEFINE d == (c - 1) \div np
            r == (c - 1) % np
<1>3. c - 1 \in Nat /\ np \in Nat \ {0}
    BY <1>1, <1>2
<1>4. d \in Nat /\ r \in Nat
  <2>. DEFINE y == c - 1
  <2>1. y \in Nat
    BY <1>3
  <2>. HIDE DEF y
  <2>2. y \div np \in Nat /\ y % np \in 0 .. np - 1
    BY <1>3, <2>1, DivMod
  <2>3. y % np \in Nat
    BY <1>3, <2>2
  <2>. QED BY <2>2, <2>3 DEF y
<1>5. d * np + r + 1 = c /\ i = d + 1 /\ x = r + 1 /\ i \in 1..m /\ x \in 1..np
    BY <1>2
<1>. HIDE DEF d, r, i, x
<1>6. i - 1 = d
    BY <1>4, <1>5
<1>7. d * np \in Int
    BY <1>4
<1>8. (i - 1) * np + x = c
    <2>. DEFINE z == d * np
    <2>1. z + r + 1 = c /\ z \in Int
      BY <1>5, <1>7
    <2>2. (i - 1) * np = z
      BY <1>6
    <2>. HIDE DEF z
    <2>. QED BY <1>4, <1>5, <2>1, <2>2
<1>9. Place(np, i, x) = Place(np, j, k)
    BY <1>8 DEF Place, c
<1>10. i = j /\ x = k
  <2>1. \A i2, k2 \in 1..m : \A j2, l2 \in 1..np :
            Place(np, i2, j2) = Place(np, k2, l2) => i2 = k2 /\ j2 = l2
    BY RowwisePlaces
  <2>2. i \in 1..m /\ x \in 1..np
    BY <1>5
  <2>. QED BY <1>9, <2>1, <2>2
<1>11. r = k - 1
    BY <1>4, <1>5, <1>10
<1>. QED BY <1>1, <1>10, <1>11 DEF c, i, r

LEMMA PlacesAre ==
    ASSUME NEW m \in Nat, NEW np \in Nat
    PROVE  \A j \in 1..m : \A k \in 1..np :
                /\ Place(np, j, k) \in 1 .. m * np
                /\ (Place(np, j, k) - 1) \div np + 1 = j
                /\ (Place(np, j, k) - 1) % np = k - 1
    BY PlaceIs

LEMMA NestedShape ==
    ASSUME NEW n, Visitable(n), plan[n].op = "partition", SameDims(InputTasks(n)),
           plan[n].dim \notin Dims(InputTasks(n)[1])
    PROVE  PartitionShape(plan, tasks \o PlanNested(n).new, n, InputTasks(n), PlanNested(n).group)
<1>. DEFINE ins == InputTasks(n)
            np == plan[n].n
            m == Len(ins)
            mn == m * np
            in(c) == (c - 1) \div np + 1
            nth(c) == (c - 1) % np
            P(i) == Task("producer", n, tasks[ins[i]].infos, np, <<ins[i]>>)
            C(c) == Task("consumer", n, Extended(tasks[ins[in(c)]].infos, plan[n].dim, nth(c)),
                         np, <<Id(in(c))>>)
            a == [i \in 1..m |-> P(i)]
            b == [c \in 1..mn |-> C(c)]
            new == PlanNested(n).new
            us == tasks \o new
            g == PlanNested(n).group
            pr == NewIds(m)
<1>1. /\ plan[n] \in Nodes /\ m \in Nat /\ DOMAIN ins = 1..m /\ ins \in Seq(Nat)
      /\ Len(tasks) \in Nat
    BY VisitableIs
<1>2. np \in Nat /\ np \in Nat \ {0}
    BY <1>1, NodeIs
<1>3. new = a \o b /\ g = [c \in 1..mn |-> Id(m + c)]
    BY DEF PlanNested
<1>4. Fits(n, new, g)
    BY NestedFits
<1>5. mn \in Nat
    BY <1>1, <1>2
<1>6. /\ Len(new) = m + mn
      /\ \A i \in 1..m : new[i] = P(i)
      /\ \A c \in 1..mn : new[m + c] = C(c)
  <2>1. a = [i \in 1..m |-> a[i]] /\ b = [c \in 1..mn |-> b[c]]
    OBVIOUS
  <2>2. (\A i \in 1..m : a[i] = P(i)) /\ (\A c \in 1..mn : b[c] = C(c))
    OBVIOUS
  <2>. HIDE DEF a, b, mn, m, P, C, new
  <2>3. /\ Len(a \o b) = m + mn /\ \A i \in 1..m : (a \o b)[i] = a[i]
        /\ \A c \in 1..mn : (a \o b)[m + c] = b[c]
    BY <1>1, <1>5, <2>1, JoinedItems
  <2>. QED BY <1>3, <2>2, <2>3
<1>7. ASSUME NEW i \in 1..m PROVE plan[n].dim \notin DOMAIN tasks[ins[i]].infos
  <2>1. 1 \in DOMAIN ins /\ i \in DOMAIN ins
    BY <1>1
  <2>2. Dims(ins[i]) = Dims(ins[1])
    BY <2>1 DEF SameDims
  <2>. QED BY <2>2 DEF Dims
<1>8. g \in Seq(Outs(us)) /\ Len(g) = mn /\ \A c \in 1..mn : g[c] = Id(m + c)
  <2>1. g \in Seq(Outs(us))
    BY <1>4 DEF Fits, GroupFits
  <2>. HIDE DEF mn, m, us, g
  <2>2. DOMAIN g = 1..mn /\ \A c \in 1..mn : g[c] = Id(m + c)
    BY <1>3
  <2>3. Len(g) \in Nat /\ DOMAIN g = 1 .. Len(g)
    BY <2>1, SeqIs
  <2>4. Len(g) = mn
    BY <1>5, <2>2, <2>3
  <2>. QED BY <2>1, <2>2, <2>4
<1>9. pr \in Seq(Nat) /\ Len(pr) = m /\ DOMAIN pr = 1..m /\ \A i \in 1..m : pr[i] = Id(i)
    BY <1>1, NewIdsAre DEF Id
<1>. HIDE DEF mn, m, ins, new, g, us, pr, a, b
<1>10. ASSUME NEW i \in 1..m PROVE Is(us, pr[i], "producer", n, <<ins[i]>>)
  <2>1. i \in 1 .. Len(new)
    BY <1>1, <1>5, <1>6
  <2>2. Id(i) \in DOMAIN us /\ us[Id(i)] = P(i)
    BY <1>4, <1>6, <2>1, NewTaskIs DEF us
  <2>3. P(i).type = "producer" /\ P(i).node = n /\ P(i).inputs = <<ins[i]>>
    BY DEF Task
  <2>. QED BY <1>9, <2>2, <2>3 DEF Is
<1>11. ASSUME NEW j \in 1..m, NEW k \in 1..np
       PROVE  Takes(plan, us, n, g[Place(np, j, k)], k, <<pr[j]>>)
  <2>. DEFINE c == Place(np, j, k)
              infos == Extended(tasks[ins[j]].infos, plan[n].dim, k - 1)
  <2>. HIDE DEF C, infos
  <2>1. c \in 1..mn /\ in(c) = j /\ nth(c) = k - 1
    <3>1. /\ Place(np, j, k) \in 1 .. m * np
          /\ (Place(np, j, k) - 1) \div np + 1 = j
          /\ (Place(np, j, k) - 1) % np = k - 1
      <4>1. m \in Nat /\ np \in Nat
        BY <1>1, <1>2
      <4>. HIDE DEF np
      <4>2. \A jj \in 1..m : \A kk \in 1..np :
                /\ Place(np, jj, kk) \in 1 .. m * np
                /\ (Place(np, jj, kk) - 1) \div np + 1 = jj
                /\ (Place(np, jj, kk) - 1) % np = kk - 1
        BY <4>1, PlacesAre
      <4>3. j \in 1..m /\ k \in 1..np
        BY DEF np
      <4>. QED BY <4>2, <4>3
    <3>. QED BY <3>1 DEF mn
  <2>. HIDE DEF c, in, nth
  <2>2. C(c) = Task("consumer", n, infos, np, <<Id(j)>>)
    BY <2>1 DEF C, infos
  <2>3. infos[plan[n].dim] = k - 1
    <3>. DEFINE f == tasks[ins[j]].infos
    <3>1. plan[n].dim \notin DOMAIN f
      BY <1>7
    <3>. HIDE DEF f
    <3>2. Extended(f, plan[n].dim, k - 1)[plan[n].dim] = k - 1
      BY <3>1, ExtendedIs
    <3>. QED BY <3>2 DEF f, infos
  <2>4. /\ C(c).type = "consumer" /\ C(c).node = n /\ C(c).inputs = <<pr[j]>>
        /\ C(c).infos[plan[n].dim] = k - 1
    BY <1>9, <2>2, <2>3 DEF Task
  <2>5. m + c \in 1 .. Len(new) /\ new[m + c] = C(c)
    BY <1>1, <1>5, <1>6, <2>1
  <2>6. Id(m + c) \in DOMAIN us /\ us[Id(m + c)] = C(c)
    BY <1>4, <2>5, NewTaskIs DEF us
  <2>7. g[c] = Id(m + c)
    BY <1>8, <2>1
  <2>8. Takes(plan, us, n, g[c], k, <<pr[j]>>)
    BY <2>4, <2>6, <2>7 DEF Takes, Is
  <2>. QED BY <2>8 DEF c
<1>12. Feeds(us, n, ins, ins)
    BY <1>1 DEF Feeds
<1>13. Produces(us, n, ins, pr)
    BY <1>9, <1>10 DEF Produces, m
<1>14. TakesOne(plan, us, n, pr, g)
    BY <1>8, <1>9, <1>11 DEF TakesOne, mn
<1>15. PartitionShape(plan, us, n, ins, g)
    BY <1>12, <1>13, <1>14 DEF PartitionShape
<1>. QED BY <1>15 DEF us, new, ins, g

\* The tasks that producers of a node read have together what its inputs have.
LEMMA FlatShape ==
    ASSUME NEW n, Visitable(n), plan[n].op = "partition"
    PROVE  PartitionShape(plan, tasks \o PlanFlat(n).new, n, InputTasks(n), PlanFlat(n).group)
<1>. DEFINE ins == InputTasks(n)
            splits == SplitTasks(n)
            s == Len(splits)
            p == NumProducers(n)
            np == plan[n].n
            l == Len(tasks)
            ids == [k \in 1..p |-> Id(s + k)]
            P(k) == Task("producer", n, TopInfos(k - 1), np, <<Id(s - p + k)>>)
            C(c) == Task("consumer", n, Extended(TopInfos(0), plan[n].dim, c - 1), np, ids)
            b == [k \in 1..p |-> P(k)]
            d == [c \in 1..np |-> C(c)]
            bd == splits \o b
            new == PlanFlat(n).new
            us == tasks \o new
            g == PlanFlat(n).group
            q == [k \in 1..p |-> Id(s - p + k)]
            N == TaskRecs
<1>1. /\ plan[n] \in Nodes /\ Len(ins) \in Nat /\ DOMAIN ins = 1 .. Len(ins) /\ ins \in Seq(Nat)
      /\ l \in Nat
    BY VisitableIs
<1>2. np \in Nat \ {0} /\ p \in Nat \ {0} /\ plan[n].dim \in Nat \ {Top}
    BY <1>1, NodeIs, NumProducersIs
<1>3. new = bd \o d /\ g = [c \in 1..np |-> Id(s + p + c)]
    BY DEF PlanFlat
<1>4. SplitsOK(n, splits, s)
    BY SplitsAre
<1>5. Fits(n, new, g)
    BY FlatFits
<1>6. /\ splits \in Seq(N) /\ DOMAIN splits = 1..s /\ s \in Nat /\ s >= p
    BY <1>4 DEF SplitsOK
<1>7. splits = [k \in 1..s |-> splits[k]]
  <2>. HIDE DEF splits, s, N
  <2>. QED BY <1>6, SeqIs
<1>8. \A k \in 1..p : b[k] = P(k) /\ b = [j \in 1..p |-> b[j]]
    OBVIOUS
<1>9. \A c \in 1..np : d[c] = C(c) /\ d = [j \in 1..np |-> d[j]]
    OBVIOUS
<1>10. b = [j \in 1..p |-> b[j]] /\ d = [j \in 1..np |-> d[j]]
    OBVIOUS
<1>. HIDE DEF splits, b, d, new, g, us, P, C, np, p, s
<1>11. /\ Len(bd) = s + p /\ \A k \in 1..s : bd[k] = splits[k]
       /\ \A k \in 1..p : bd[s + k] = P(k)
    BY <1>2, <1>6, <1>7, <1>8, <1>10, JoinedItems
<1>12. bd = [k \in 1 .. s + p |-> bd[k]] /\ s + p \in Nat
  <2>. DEFINE M == {splits[k] : k \in 1..s} \cup {b[j] : j \in 1..p}
  <2>1. (\A k \in 1..s : splits[k] \in M) /\ (\A j \in 1..p : b[j] \in M)
    OBVIOUS
  <2>. HIDE DEF M
  <2>2. splits \in [1..s -> M] /\ b \in [1..p -> M]
    BY <1>7, <1>10, <2>1
  <2>3. splits \in Seq(M) /\ b \in Seq(M)
    BY <1>2, <1>6, <2>2, FunctionIsSeq
  <2>4. bd \in Seq(M)
    BY <2>3, ConcatIs
  <2>. HIDE DEF bd
  <2>5. bd = [k \in DOMAIN bd |-> bd[k]] /\ DOMAIN bd = 1 .. Len(bd)
    BY <2>4, SeqIs
  <2>. QED BY <1>2, <1>6, <1>11, <2>5
<1>. HIDE DEF bd
<1>13. /\ Len(new) = s + p + np
       /\ \A k \in 1 .. s + p : new[k] = bd[k]
       /\ \A c \in 1..np : new[s + p + c] = d[c]
  <2>1. np \in Nat
    BY <1>2
  <2>. QED BY <1>3, <1>10, <1>12, <2>1, JoinedItems
<1>14. ASSUME NEW k \in 1 .. s + p + np
       PROVE  Id(k) \in DOMAIN us /\ us[Id(k)] = new[k] /\ Id(k) \in Nat
  <2>1. k \in 1 .. Len(new)
    BY <1>13
  <2>. QED BY <1>5, <2>1, NewTaskIs DEF us
<1>15. ASSUME NEW k \in 1..s
       PROVE  Id(k) \in DOMAIN us /\ us[Id(k)] = splits[k] /\ Id(k) \in Nat
  <2>1. k \in 1 .. s + p + np /\ k \in 1 .. s + p
    BY <1>2, <1>6
  <2>. QED BY <1>11, <1>13, <1>14, <2>1
<1>16. ASSUME NEW k \in 1..p
       PROVE  Id(s + k) \in DOMAIN us /\ us[Id(s + k)] = P(k) /\ Id(s + k) \in Nat
  <2>1. s + k \in 1 .. s + p + np /\ s + k \in 1 .. s + p
    BY <1>2, <1>6
  <2>. QED BY <1>11, <1>13, <1>14, <2>1
<1>17. ASSUME NEW c \in 1..np
       PROVE  Id(s + p + c) \in DOMAIN us /\ us[Id(s + p + c)] = C(c)
  <2>1. s + p + c \in 1 .. s + p + np
    BY <1>2, <1>6
  <2>. QED BY <1>9, <1>13, <1>14, <2>1
<1>18. ids \in Seq(Nat) /\ Len(ids) = p /\ DOMAIN ids = 1..p /\ \A k \in 1..p : ids[k] = Id(s + k)
  <2>1. ids \in [1..p -> Nat]
    BY <1>16
  <2>. QED BY <1>2, <2>1, FunctionIsSeq
<1>19. \A k \in 1..p : s - p + k \in 1..s
    BY <1>2, <1>6
<1>20. q \in Seq(Nat) /\ Len(q) = p /\ DOMAIN q = 1..p /\ \A k \in 1..p : q[k] = Id(s - p + k)
  <2>1. q \in [1..p -> Nat]
    BY <1>15, <1>19
  <2>. QED BY <1>2, <2>1, FunctionIsSeq
<1>. HIDE DEF q, ids
<1>21. Produces(us, n, q, ids)
  <2>1. ASSUME NEW k \in 1..p PROVE Is(us, ids[k], "producer", n, <<q[k]>>)
    <3>1. P(k).type = "producer" /\ P(k).node = n /\ P(k).inputs = <<q[k]>>
      BY <1>20 DEF P, Task
    <3>. QED BY <1>16, <1>18, <3>1 DEF Is
  <2>. QED BY <1>18, <1>20, <2>1 DEF Produces
<1>22. g \in Seq(Outs(us)) /\ Len(g) = np /\ \A c \in 1..np : g[c] = Id(s + p + c)
  <2>1. g \in Seq(Outs(us))
    BY <1>5 DEF Fits, GroupFits, us
  <2>2. DOMAIN g = 1..np /\ \A c \in 1..np : g[c] = Id(s + p + c)
    BY <1>3
  <2>3. Len(g) \in Nat /\ DOMAIN g = 1 .. Len(g)
    BY <2>1, SeqIs
  <2>4. Len(g) = np
    BY <1>2, <2>2, <2>3
  <2>. QED BY <2>1, <2>2, <2>4
<1>23. TakesAll(plan, us, n, ids, g)
  <2>1. ASSUME NEW c \in 1..np PROVE Takes(plan, us, n, g[c], c, ids)
    <3>. DEFINE infos == Extended(TopInfos(0), plan[n].dim, c - 1)
    <3>1. infos[plan[n].dim] = c - 1
      <4>1. plan[n].dim \notin DOMAIN TopInfos(0)
        BY <1>2, TopInfosIs
      <4>. QED BY <4>1, ExtendedIs
    <3>. HIDE DEF infos
    <3>2. /\ C(c).type = "consumer" /\ C(c).node = n /\ C(c).inputs = ids
          /\ C(c).infos[plan[n].dim] = c - 1
      BY <3>1 DEF C, Task, infos
    <3>. QED BY <1>17, <1>22, <3>2 DEF Takes, Is
  <2>. QED BY <1>22, <2>1 DEF TakesAll, np
<1>24. CASE Len(ins) < p
  <2>. DEFINE M == Task("merge", n, TopInfos(0), 1, ins)
              X(k) == Task("split", n, TopInfos(k - 1), p, <<Id(1)>>)
              x == [i \in 1..1 |-> M]
              y == [k \in 1..p |-> X(k)]
  <2>1. splits = x \o y
    <3>1. x = <<M>>
      OBVIOUS
    <3>. QED BY <1>24, <3>1 DEF splits, SplitTasks, p
  <2>2. x = [i \in 1..1 |-> x[i]] /\ y = [k \in 1..p |-> y[k]] /\ x[1] = M /\ \A k \in 1..p : y[k] = X(k)
    OBVIOUS
  <2>. HIDE DEF x, y, M, X
  <2>3. /\ Len(splits) = 1 + p /\ splits[1] = M /\ \A k \in 1..p : splits[1 + k] = X(k)
    <3>1. 1 \in Nat /\ p \in Nat /\ 1 \in 1..1
      BY <1>2
    <3>. QED BY <2>1, <2>2, <3>1, JoinedItems
  <2>4. s = 1 + p /\ 1 \in 1..s /\ \A k \in 1..p : s - p + k = 1 + k /\ 1 + k \in 1..s
    BY <1>2, <2>3 DEF s
  <2>5. Is(us, Id(1), "merge", n, ins)
    <3>1. M.type = "merge" /\ M.node = n /\ M.inputs = ins
      BY DEF M, Task
    <3>. QED BY <1>15, <2>3, <2>4, <3>1 DEF Is
  <2>6. ASSUME NEW k \in 1..p
        PROVE  Is(us, q[k], "split", n, <<Id(1)>>) /\ us[q[k]].n = p /\ us[q[k]].infos[Top] = k - 1
    <3>. DEFINE infos == TopInfos(k - 1)
    <3>1. k - 1 \in Nat
      BY <1>2
    <3>2. infos[Top] = k - 1
      BY <3>1, TopInfosIs
    <3>. HIDE DEF infos
    <3>3. /\ X(k).type = "split" /\ X(k).node = n /\ X(k).inputs = <<Id(1)>> /\ X(k).n = p
          /\ X(k).infos[Top] = k - 1
      BY <3>2 DEF X, Task, infos
    <3>4. us[q[k]] = X(k) /\ q[k] \in DOMAIN us
      BY <1>15, <1>20, <2>3, <2>4
    <3>. QED BY <3>3, <3>4 DEF Is
  <2>7. q # <<>>
    BY <1>2, <1>20, EmptyIsSeq
  <2>8. Id(1) \in DOMAIN us
    BY <2>5 DEF Is
  <2>9. Split(us, n, ins, q)
    BY <1>20, <2>5, <2>6, <2>7, <2>8 DEF Split
  <2>10. Feeds(us, n, ins, q)
    BY <1>20, <2>9 DEF Feeds
  <2>. QED BY <1>21, <1>23, <2>10 DEF PartitionShape, us, new, ins, g
<1>25. CASE ~(Len(ins) < p)
  <2>. DEFINE shares == SplitIntoRows(ins, p)
              X(k) == Task("merge", n, TopInfos(k - 1), p, shares[k])
  <2>1. splits = [k \in 1..p |-> X(k)]
    BY <1>25 DEF splits, SplitTasks, p
  <2>. HIDE DEF X
  <2>2. s = p /\ \A k \in 1..p : splits[k] = X(k)
    <3>1. DOMAIN splits = 1..p /\ \A k \in 1..p : splits[k] = X(k)
      BY <2>1
    <3>2. s = p
      BY <1>2, <1>6, <3>1
    <3>. QED BY <3>1, <3>2
  <2>. HIDE DEF ins
  <2>3. shares \in Seq(Seq(Nat)) /\ Len(shares) = p /\ FlattenSeq(shares) = ins
    BY <1>1, <1>2, SplitKeeps
  <2>4. ASSUME NEW k \in 1..p PROVE Is(us, q[k], "merge", n, shares[k])
    <3>1. X(k).type = "merge" /\ X(k).node = n /\ X(k).inputs = shares[k]
      BY DEF X, Task
    <3>2. s - p + k = k /\ k \in 1..s
      BY <1>2, <2>2
    <3>3. us[q[k]] = X(k) /\ q[k] \in DOMAIN us
      BY <1>15, <1>20, <2>2, <3>2
    <3>. QED BY <3>1, <3>3 DEF Is
  <2>. HIDE DEF shares
  <2>5. Shared(us, n, ins, q)
    BY <1>20, <2>3, <2>4 DEF Shared
  <2>6. Feeds(us, n, ins, q)
    BY <1>20, <2>5 DEF Feeds
  <2>. QED BY <1>21, <1>23, <2>6 DEF PartitionShape, us, new, ins, g
<1>. QED BY <1>24, <1>25

\* Every value once.
LEMMA DistinctIs ==
    ASSUME NEW T, NEW s \in Seq(T)
    PROVE  /\ Distinct(s) \in Seq(T) /\ Len(Distinct(s)) \in Nat
           /\ DOMAIN Distinct(s) = 1 .. Len(Distinct(s))
           /\ \A i \in DOMAIN s : \E k \in DOMAIN Distinct(s) : Distinct(s)[k] = s[i]
           /\ \A j, k \in DOMAIN Distinct(s) : Distinct(s)[j] = Distinct(s)[k] => j = k
<1>. DEFINE S == {i \in DOMAIN s : \A j \in 1 .. i - 1 : s[j] # s[i]}
            D == Distinct(s)
            A == Ascending(S)
            c == Cardinality(S)
<1>1. Len(s) \in Nat /\ DOMAIN s = 1 .. Len(s) /\ S \in SUBSET DOMAIN s
    BY SeqIs
<1>2. D = ItemsAt(s, S)
    BY DEF Distinct
<1>3. ASSUME NEW i \in S PROVE i \in DOMAIN s /\ i \in Nat /\ \A j \in 1 .. i - 1 : s[j] # s[i]
    BY <1>1
<1>4. ASSUME NEW i \in DOMAIN s PROVE \E x \in S : s[x] = s[i]
  <2>. DEFINE M == {j \in DOMAIN s : s[j] = s[i]}
  <2>1. M \in SUBSET Nat /\ M # {}
    BY <1>1
  <2>2. PICK x \in M : \A y \in M : x <= y
    <3>. HIDE DEF M
    <3>. QED BY <2>1, LeastNumber
  <2>3. ASSUME NEW j \in 1 .. x - 1 PROVE s[j] # s[x]
    <3>1. j \in DOMAIN s /\ ~(x <= j)
      BY <1>1, <2>2
    <3>2. j \notin M
      <4>. HIDE DEF M
      <4>. QED BY <2>2, <3>1
    <3>. QED BY <2>2, <3>1, <3>2
  <2>4. x \in S
    BY <2>2, <2>3
  <2>. QED BY <2>2, <2>4
<1>. HIDE DEF S, D, A, c
<1>5. /\ c \in Nat /\ D \in Seq(T) /\ Len(D) = c /\ DOMAIN D = 1..c
      /\ A \in Bijection(1..c, S)
      /\ \A k \in 1..c : A[k] \in S /\ D[k] = s[A[k]]
    BY <1>1, <1>2, ItemsAtIs DEF A, c
<1>6. /\ \A x, y \in 1..c : A[x] = A[y] => x = y
      /\ \A z \in S : \E x \in 1..c : A[x] = z
    BY <1>5, BijectionIs
<1>7. ASSUME NEW i \in DOMAIN s PROVE \E k \in 1..c : D[k] = s[i]
  <2>1. PICK x \in S : s[x] = s[i]
    BY <1>4
  <2>2. PICK k \in 1..c : A[k] = x
    BY <1>6
  <2>. QED BY <1>5, <2>1, <2>2
<1>8. ASSUME NEW j \in 1..c, NEW k \in 1..c, D[j] = D[k] PROVE j = k
  <2>1. A[j] \in S /\ A[k] \in S /\ s[A[j]] = s[A[k]]
    BY <1>5, <1>8
  <2>. DEFINE a == A[j]
              b == A[k]
  <2>2. a \in S /\ b \in S /\ s[a] = s[b]
    BY <2>1
  <2>. HIDE DEF a, b
  <2>3. a \in Nat /\ b \in Nat /\ a \in DOMAIN s /\ b \in DOMAIN s
    BY <1>3, <2>2
  <2>4. ~(a < b)
    <3>1. a < b => a \in 1 .. b - 1
      BY <1>1, <2>3
    <3>. QED BY <1>3, <2>2, <3>1
  <2>5. ~(b < a)
    <3>1. b < a => b \in 1 .. a - 1
      BY <1>1, <2>3
    <3>. QED BY <1>3, <2>2, <3>1
  <2>6. a = b
    BY <2>3, <2>4, <2>5
  <2>. QED BY <1>6, <2>6 DEF a, b
<1>. QED BY <1>5, <1>7, <1>8 DEF D

LEMMA SourcePlanned ==
    ASSUME NEW n, Visitable(n), plan[n].op = "source"
    PROVE  SourceShape(tasks \o OneTask(n).new, n, OneTask(n).group)
<1>. DEFINE T == Task(plan[n].op, n, TopInfos(0), 1, InputTasks(n))
            new == OneTask(n).new
            g == OneTask(n).group
<1>1. new = <<T>> /\ g = <<Id(1)>>
    BY DEF OneTask
<1>2. T.type = "source" /\ T.node = n
    BY DEF Task
<1>3. Fits(n, new, g)
    BY OneTaskFits
<1>. HIDE DEF T, g
<1>4. Len(new) = 1 /\ new[1] = T
    BY <1>1
<1>. HIDE DEF new
<1>5. 1 \in 1 .. Len(new)
    BY <1>4
<1>6. Id(1) \in DOMAIN (tasks \o new) /\ (tasks \o new)[Id(1)] = new[1]
    BY <1>3, <1>5, NewTaskIs
<1>. QED BY <1>1, <1>2, <1>4, <1>6 DEF SourceShape, g, new

LEMMA ProjectionPlanned ==
    ASSUME NEW n, Visitable(n), plan[n].op = "projection"
    PROVE  ProjectionShape(tasks \o OnePerInput(n).new, n, InputTasks(n), OnePerInput(n).group)
<1>. DEFINE ins == InputTasks(n)
            m == Len(ins)
            X(i) == Task("projection", n, tasks[ins[i]].infos, 1, <<ins[i]>>)
            new == OnePerInput(n).new
            g == OnePerInput(n).group
            us == tasks \o new
<1>1. m \in Nat /\ DOMAIN ins = 1..m /\ Len(tasks) \in Nat
    BY VisitableIs
<1>2. new = [i \in 1..m |-> X(i)] /\ g = NewIds(m)
    BY <1>1 DEF OnePerInput, NewIds
<1>3. Fits(n, new, g)
    BY ProjectionFits
<1>4. Len(g) = m /\ DOMAIN g = 1..m /\ \A i \in 1..m : g[i] = Id(i)
    BY <1>1, <1>2, NewIdsAre DEF Id
<1>5. DOMAIN new = 1..m /\ \A i \in 1..m : new[i] = X(i)
    BY <1>2
<1>6. Len(new) = m
  <2>. DEFINE N == TaskRecs
  <2>1. new \in Seq(N)
    BY <1>3 DEF Fits
  <2>. HIDE DEF new, N, m
  <2>2. Len(new) \in Nat /\ DOMAIN new = 1 .. Len(new)
    BY <2>1, SeqIs
  <2>. QED BY <1>1, <1>5, <2>2
<1>. HIDE DEF new, g, us, m, ins
<1>7. ASSUME NEW i \in 1..m PROVE Is(us, g[i], "projection", n, <<ins[i]>>)
  <2>1. i \in 1 .. Len(new)
    BY <1>6
  <2>2. Id(i) \in DOMAIN us /\ us[Id(i)] = new[i]
    BY <1>3, <2>1, NewTaskIs DEF us
  <2>3. X(i).type = "projection" /\ X(i).node = n /\ X(i).inputs = <<ins[i]>>
    BY DEF Task
  <2>. QED BY <1>4, <1>5, <2>2, <2>3 DEF Is
<1>8. ProjectionShape(us, n, ins, g)
    BY <1>1, <1>4, <1>7 DEF ProjectionShape, m
<1>. QED BY <1>8 DEF us, new, g, ins

LEMMA ConsolidatePlanned ==
    ASSUME NEW n, Visitable(n), plan[n].op = "consolidate"
    PROVE  ConsolidateShape(tasks \o PlanConsolidate(n).new, n, InputTasks(n),
                            PlanConsolidate(n).group)
<1>. DEFINE ins == InputTasks(n)
            m == Len(ins)
            kept(i) == Restrict(tasks[ins[i]].infos, plan[n].dims \cap Dims(ins[i]))
            ks == [i \in DOMAIN ins |-> kept(i)]
            keys == Distinct(ks)
            of(k) == ItemsAt(ins, {i \in DOMAIN ins : kept(i) = keys[k]})
            T(k) == Task("merge", n, keys[k], 1, of(k))
            new == PlanConsolidate(n).new
            g == PlanConsolidate(n).group
            us == tasks \o new
            c == Len(keys)
            I == Infos
<1>1. m \in Nat /\ DOMAIN ins = 1..m /\ Len(tasks) \in Nat
    BY VisitableIs
<1>2. new = [k \in DOMAIN keys |-> T(k)] /\ g = [k \in DOMAIN keys |-> Id(k)]
    BY DEF PlanConsolidate
<1>3. ASSUME NEW i \in 1..m PROVE kept(i) \in I
  <2>1. tasks[ins[i]].infos \in I
    BY InputInfos
  <2>2. plan[n].dims \cap Dims(ins[i]) \in SUBSET DOMAIN tasks[ins[i]].infos
    BY DEF Dims
  <2>. QED BY <2>1, <2>2, RestrictedInfos
<1>4. Fits(n, new, g)
    BY ConsolidateFits
<1>. HIDE DEF kept, I, ins
<1>5. ks \in Seq(I) /\ DOMAIN ks = 1..m /\ \A i \in 1..m : ks[i] = kept(i)
  <2>1. ks \in [1..m -> I] /\ \A i \in 1..m : ks[i] = kept(i)
    BY <1>1, <1>3
  <2>. HIDE DEF ks
  <2>. QED BY <1>1, <2>1, FunctionIsSeq
<1>. HIDE DEF ks
<1>6. /\ c \in Nat /\ DOMAIN keys = 1..c
      /\ \A i \in 1..m : \E k \in 1..c : keys[k] = kept(i)
      /\ \A j, k \in 1..c : keys[j] = keys[k] => j = k
  <2>1. /\ c \in Nat /\ DOMAIN keys = 1..c
        /\ \A i \in DOMAIN ks : \E k \in DOMAIN keys : keys[k] = ks[i]
        /\ \A j, k \in DOMAIN keys : keys[j] = keys[k] => j = k
    <3>. HIDE DEF m
    <3>. QED BY <1>5, DistinctIs
  <2>. HIDE DEF keys, c, m
  <2>. QED BY <1>5, <2>1
<1>. HIDE DEF keys, c, m
<1>7. DOMAIN new = 1..c /\ DOMAIN g = 1..c /\ \A k \in 1..c : new[k] = T(k) /\ g[k] = Id(k)
    BY <1>2, <1>6
<1>8. Len(new) = c
  <2>. DEFINE N == TaskRecs
  <2>1. new \in Seq(N)
    BY <1>4 DEF Fits
  <2>. HIDE DEF new, N
  <2>2. Len(new) \in Nat /\ DOMAIN new = 1 .. Len(new)
    BY <2>1, SeqIs
  <2>. QED BY <1>6, <1>7, <2>2
<1>. HIDE DEF new, g, us
<1>9. PICK f \in [1..m -> 1..c] : \A i \in 1..m : keys[f[i]] = kept(i)
  <2>. DEFINE h == [i \in 1..m |-> CHOOSE k \in 1..c : keys[k] = kept(i)]
  <2>1. \A i \in 1..m : h[i] \in 1..c /\ keys[h[i]] = kept(i)
    BY <1>6
  <2>2. h \in [1..m -> 1..c]
    BY <2>1
  <2>. HIDE DEF h
  <2>. QED BY <2>1, <2>2
<1>10. ASSUME NEW k \in 1..c PROVE of(k) = ItemsAt(ins, ClassOf(ins, f, k))
  <2>1. ASSUME NEW i \in 1..m PROVE kept(i) = keys[k] <=> f[i] = k
    <3>1. f[i] \in 1..c /\ keys[f[i]] = kept(i)
      BY <1>9
    <3>. QED BY <1>6, <3>1
  <2>2. {i \in DOMAIN ins : kept(i) = keys[k]} = ClassOf(ins, f, k)
    BY <1>1, <2>1 DEF ClassOf
  <2>. QED BY <2>2
<1>. HIDE DEF of
<1>11. ASSUME NEW k \in 1..c PROVE Is(us, g[k], "merge", n, ItemsAt(ins, ClassOf(ins, f, k)))
  <2>1. k \in 1 .. Len(new)
    BY <1>8
  <2>2. Id(k) \in DOMAIN us /\ us[Id(k)] = new[k]
    BY <1>4, <2>1, NewTaskIs DEF us
  <2>3. T(k).type = "merge" /\ T(k).node = n /\ T(k).inputs = of(k)
    BY DEF Task
  <2>. QED BY <1>7, <1>10, <2>2, <2>3 DEF Is
<1>12. ConsolidateShape(us, n, ins, g)
    BY <1>1, <1>7, <1>9, <1>11 DEF ConsolidateShape
<1>. QED BY <1>12 DEF us, new, g, ins

\* Every node that is planned has its shape.
LEMMA PlannedShape ==
    ASSUME NEW n, Visitable(n), Plannable(n)
    PROVE  Shape(plan, tasks \o Planned(n).new, n, InputTasks(n), Planned(n).group)
<1>. DEFINE op == plan[n].op
<1>1. CASE op = "source"
  <2>1. Planned(n) = OneTask(n)
    BY <1>1 DEF Planned
  <2>. QED BY <1>1, <2>1, SourcePlanned DEF Shape
<1>2. CASE op = "union"
  <2>1. Planned(n) = PlanUnion(n)
    BY <1>2 DEF Planned
  <2>2. PlanUnion(n).group = InputTasks(n)
    BY DEF PlanUnion
  <2>. QED BY <1>2, <2>1, <2>2 DEF Shape
<1>3. CASE op = "projection"
  <2>1. Planned(n) = OnePerInput(n)
    BY <1>3 DEF Planned
  <2>. QED BY <1>3, <2>1, ProjectionPlanned DEF Shape
<1>4. CASE op = "consolidate"
  <2>1. Planned(n) = PlanConsolidate(n)
    BY <1>4 DEF Planned
  <2>. QED BY <1>4, <2>1, ConsolidatePlanned DEF Shape
<1>5. CASE op = "partition"
  <2>1. Planned(n) = PlanPartition(n)
    BY <1>5 DEF Planned
  <2>2. CASE plan[n].nested
    <3>1. PlanPartition(n) = PlanNested(n)
      BY <2>2 DEF PlanPartition
    <3>2. SameDims(InputTasks(n)) /\ plan[n].dim \notin Dims(InputTasks(n)[1])
      BY <1>5, <2>2 DEF Plannable
    <3>. QED BY <1>5, <2>1, <3>1, <3>2, NestedShape DEF Shape
  <2>3. CASE ~plan[n].nested
    <3>1. PlanPartition(n) = PlanFlat(n)
      BY <2>3 DEF PlanPartition
    <3>. QED BY <1>5, <2>1, <3>1, FlatShape DEF Shape
  <2>. QED BY <2>2, <2>3
<1>. QED BY <1>1, <1>2, <1>3, <1>4, <1>5 DEF Shape

LEMMA ShapesNothing ==
    ASSUME NEW p, NEW ts, NEW gr, DOMAIN gr = {}
    PROVE  ShapesIn(p, ts, gr)
    BY DEF ShapesIn

LEMMA ShapesVisit ==
    ASSUME WellFormed(plan), TasksOK, GroupsOK, ShapesOK, NEW n, Visit(n)
    PROVE  ShapesOK'
<1>1. n \in Needed \ DOMAIN group /\ \A m \in Needed \ DOMAIN group : n <= m
    BY DEF Visit
<1>2. Visitable(n)
    BY <1>1, NextIsVisitable
<1>3. plan' = plan
    BY DEF Visit
<1>4. CASE ~Plannable(n)
  <2>1. tasks' = tasks /\ group' = group
    BY <1>4 DEF Visit
  <2>. QED BY <1>3, <2>1, ShapesIsNext DEF ShapesOK
<1>5. CASE Plannable(n)
  <2>. DEFINE new == Planned(n).new
              g == Planned(n).group
              us == tasks \o new
              hr == Extended(group, n, g)
  <2>1. tasks' = us /\ group' = hr
    BY <1>5 DEF Visit
  <2>2. Fits(n, new, g)
    BY <1>2, <1>5, PlannedFits
  <2>3. Shape(plan, us, n, InputTasks(n), g)
    BY <1>2, <1>5, PlannedShape
  <2>. HIDE DEF new, g
  <2>4. Grown(tasks, new, us)
    BY <2>2, GrownIs DEF TasksOK, Fits
  <2>. HIDE DEF us
  <2>5. DOMAIN tasks \subseteq DOMAIN us /\ \A t \in DOMAIN tasks : us[t] = tasks[t]
    <3>1. DOMAIN us = 1 .. Len(tasks) + Len(new) /\ DOMAIN tasks = 1 .. Len(tasks)
          /\ Len(tasks) \in Nat /\ Len(new) \in Nat
      BY <2>4 DEF Grown
    <3>2. \A t \in 1 .. Len(tasks) : us[t] = tasks[t]
      BY <2>4 DEF Grown
    <3>. QED BY <3>1, <3>2
  <2>6. /\ DOMAIN hr = DOMAIN group \cup {n} /\ hr[n] = g
        /\ \A m \in DOMAIN group : hr[m] = group[m]
    BY <1>1, ExtendedIs
  <2>. HIDE DEF hr
  <2>7. \A m \in DOMAIN hr : \A i \in DOMAIN plan[m].deps : plan[m].deps[i] \in DOMAIN group
    BY <1>2, <2>6 DEF ShapesOK, ShapesIn, Visitable
  <2>8. ASSUME NEW m \in DOMAIN hr PROVE TasksBelow(plan, hr, m) = TasksBelow(plan, group, m)
    <3>1. \A i \in DOMAIN plan[m].deps : hr[plan[m].deps[i]] = group[plan[m].deps[i]]
      BY <2>6, <2>7
    <3>. QED BY <3>1 DEF TasksBelow
  <2>9. ASSUME NEW m \in DOMAIN hr PROVE Shape(plan, us, m, TasksBelow(plan, hr, m), hr[m])
    <3>1. CASE m \in DOMAIN group
      <4>1. Shape(plan, tasks, m, TasksBelow(plan, group, m), group[m])
        BY <3>1 DEF ShapesOK, ShapesIn
      <4>2. Shape(plan, us, m, TasksBelow(plan, group, m), group[m])
        BY <2>5, <4>1, ShapeStays
      <4>. QED BY <2>6, <2>8, <3>1, <4>2
    <3>2. CASE m = n
      <4>1. TasksBelow(plan, group, n) = InputTasks(n)
        BY DEF TasksBelow, InputTasks
      <4>. QED BY <2>3, <2>6, <2>8, <3>2, <4>1
    <3>. QED BY <2>6, <3>1, <3>2
  <2>10. ShapesIn(plan, us, hr)
    BY <2>6, <2>7, <2>9 DEF ShapesIn
  <2>. QED BY <1>3, <2>1, <2>10, ShapesIsNext
<1>. QED BY <1>4, <1>5

LEMMA ShapesInit ==
    ASSUME Init
    PROVE  ShapesOK
<1>1. DOMAIN group = {}
    BY DEF Init, PlannerInit
<1>. QED BY <1>1, ShapesNothing DEF ShapesOK

LEMMA ShapesNext ==
    ASSUME IInv, ShapesOK, [Next]_vars
    PROVE  ShapesOK'
<1>1. ASSUME UNCHANGED <<plan, tasks, group>> PROVE ShapesOK'
    BY <1>1, ShapesIsNext DEF ShapesOK
<1>2. CASE UNCHANGED vars
    BY <1>1, <1>2 DEF vars, planVars
<1>3. CASE Optimize \/ Assemble
  <2>1. DOMAIN group' = {}
    BY <1>3 DEF Optimize, Assemble, IInv, PlannedOK
  <2>. QED BY <2>1, ShapesNothing, ShapesIsNext
<1>4. ASSUME NEW n \in DOMAIN plan, Visit(n) PROVE ShapesOK'
    BY <1>4, ShapesVisit DEF IInv, PlannedOK
<1>5. ASSUME NEW t \in DOMAIN tasks, Run(t) PROVE ShapesOK'
  <2>1. Ready(t) /\ Runs(t)
    BY <1>5, RunsIs DEF Run, IInv
  <2>2. ASSUME NEW out, Makes(t, out) PROVE ShapesOK'
    BY <1>1, <2>2 DEF Makes, Produce, planVars
  <2>3. CASE Fails(t)
    BY <1>1, <2>3 DEF Fails
  <2>. QED BY <1>5, <2>1, <2>2, <2>3, RunMakes
<1>. QED BY <1>1, <1>2, <1>3, <1>4, <1>5 DEF Next, PlannerNext

\* The same rows in another order: as many of each.
LEMMA ShuffledRows ==
    ASSUME NEW S, NEW s \in Seq(S), NEW u \in Seq(S), Shuffled(s, u)
    PROVE  SameRows(s, u)
<1>1. PICK b \in Bijection(DOMAIN s, DOMAIN u) : \A i \in DOMAIN s : s[i] = u[b[i]]
    BY DEF Shuffled
<1>2. /\ b \in [DOMAIN s -> DOMAIN u]
      /\ \A x, y \in DOMAIN s : b[x] = b[y] => x = y
      /\ \A z \in DOMAIN u : \E x \in DOMAIN s : b[x] = z
    BY <1>1, BijectionIs
<1>3. Len(s) = Len(u)
    BY ShuffledLength
<1>4. Len(s) \in Nat /\ DOMAIN s = 1 .. Len(s)
    BY SeqIs
<1>5. ASSUME NEW x PROVE Count(s, x) = Count(u, x)
  <2>. DEFINE A == {i \in DOMAIN s : s[i] = x}
              B == {j \in DOMAIN u : u[j] = x}
              c == [i \in A |-> b[i]]
  <2>1. c \in [A -> B]
    BY <1>1, <1>2
  <2>2. \A y, z \in A : c[y] = c[z] => y = z
    BY <1>2
  <2>3. \A z \in B : \E y \in A : c[y] = z
    BY <1>1, <1>2
  <2>4. c \in Bijection(A, B)
    <3>. HIDE DEF A, B, c
    <3>. QED BY <2>1, <2>2, <2>3, IsBijection
  <2>5. IsFiniteSet(A)
    <3>1. IsFiniteSet(1 .. Len(s))
      BY <1>4, FS_Interval
    <3>2. A \subseteq 1 .. Len(s)
      BY <1>4
    <3>. HIDE DEF A
    <3>. QED BY <3>1, <3>2, FS_Subset
  <2>. HIDE DEF A, B, c
  <2>6. ExistsBijection(A, B)
    BY <2>4 DEF ExistsBijection
  <2>7. Cardinality(B) = Cardinality(A)
    BY <2>5, <2>6, FS_Bijection
  <2>. QED BY <2>7 DEF Count, A, B
<1>. QED BY <1>3, <1>5 DEF SameRows

-----------------------------------------------------------------------------
(* The rows that the tasks have given so far *)

Given == {t \in Outs(tasks) : t \in DOMAIN output}
RowsGiven == [t \in Given |-> RowsOf(output[t].ranges)]

\* What is known of a task that has run.
LEMMA RanIs ==
    ASSUME IInv, KeptSoFar, NEW t \in DOMAIN output
    PROVE  /\ t \in DOMAIN tasks /\ t \in Nat /\ TaskOK(plan, tasks, t) /\ tasks[t] \in TaskRecs
           /\ tasks[t].inputs \in Seq(Nat)
           /\ DOMAIN tasks[t].inputs = 1 .. Len(tasks[t].inputs) /\ Len(tasks[t].inputs) \in Nat
           /\ \A i \in DOMAIN tasks[t].inputs : tasks[t].inputs[i] \in DOMAIN output
           /\ ResultOK(plan, tasks, hash, t, InputsOf(tasks, output, t), output[t])
           /\ Keeps(plan, tasks, t, InputsOf(tasks, output, t), output[t])
<1>1. /\ t \in DOMAIN tasks /\ \A i \in DOMAIN tasks[t].inputs : tasks[t].inputs[i] \in DOMAIN output
      /\ ResultOK(plan, tasks, hash, t, InputsOf(tasks, output, t), output[t])
    BY DEF IInv, OutputsOK
<1>2. TaskOK(plan, tasks, t)
    BY <1>1 DEF IInv, PlannedOK, TasksOK
<1>3. tasks[t] \in TaskRecs
    BY <1>2 DEF TaskOK, TaskFits
<1>4. tasks[t].inputs \in Seq(Nat)
    BY <1>3 DEF TaskRecs
<1>5. Keeps(plan, tasks, t, InputsOf(tasks, output, t), output[t])
    BY DEF KeptSoFar, KeptBy
<1>6. t \in Nat
  <2>. DEFINE N == TaskRecs
  <2>1. tasks \in Seq(N)
    BY DEF IInv, PlannedOK, TasksOK
  <2>. HIDE DEF N
  <2>2. DOMAIN tasks = 1 .. Len(tasks)
    BY <2>1, SeqIs
  <2>. QED BY <1>1, <2>2
<1>7. DOMAIN tasks[t].inputs = 1 .. Len(tasks[t].inputs) /\ Len(tasks[t].inputs) \in Nat
    BY <1>4, SeqIs
<1>. QED BY <1>1, <1>2, <1>3, <1>4, <1>5, <1>6, <1>7

LEMMA GivenIs ==
    ASSUME IInv, KeptSoFar
    PROVE  /\ RowsGiven \in RowMaps(Given)
           /\ \A t \in Given : /\ RowsGiven[t] = RowsOf(output[t].ranges)
                               /\ output[t] \in DatasetsIn(Written(t))
                               /\ t \in DOMAIN output /\ tasks[t].type # "producer" /\ t \in Nat
           /\ Given \subseteq Nat
<1>1. ASSUME NEW t \in Given
      PROVE  /\ t \in DOMAIN output /\ tasks[t].type # "producer" /\ t \in Nat
             /\ output[t] \in DatasetsIn(Written(t)) /\ RowsOf(output[t].ranges) \in Seq(Row)
  <2>1. t \in DOMAIN output /\ tasks[t].type # "producer"
    BY DEF Given, Outs
  <2>2. output[t] \in DatasetsIn(Written(t)) /\ t \in Nat
    BY <2>1, RanIs DEF ResultOK
  <2>3. output[t].ranges \in Seq(Written(t)) /\ Written(t) \subseteq FileRange
    BY <2>2 DEF DatasetsIn, Written
  <2>4. output[t].ranges \in Seq(FileRange)
    BY <2>3, SeqGrows
  <2>5. RowsOf(output[t].ranges) \in Seq(Row)
    BY <2>4, RowsOfIs
  <2>. QED BY <2>1, <2>2, <2>5
<1>2. \A t \in Given : RowsGiven[t] = RowsOf(output[t].ranges)
    BY DEF RowsGiven
<1>3. RowsGiven \in RowMaps(Given)
    BY <1>1 DEF RowsGiven, RowMaps
<1>. QED BY <1>1, <1>2, <1>3

\* The inputs of a task that reads datasets.
LEMMA InputsGiven ==
    ASSUME IInv, KeptSoFar, NEW t \in DOMAIN output, tasks[t].type # "consumer"
    PROVE  /\ tasks[t].inputs \in Seq(Given)
           /\ \A i \in DOMAIN tasks[t].inputs : tasks[t].inputs[i] \in Given
           /\ RowsOfEach(InputsOf(tasks, output, t)) = RowsFor(RowsGiven, tasks[t].inputs)
<1>. DEFINE s == tasks[t].inputs
<1>1. /\ TaskOK(plan, tasks, t) /\ s \in Seq(Nat) /\ Len(s) \in Nat /\ DOMAIN s = 1 .. Len(s)
      /\ \A i \in DOMAIN s : s[i] \in DOMAIN output
    BY RanIs
<1>2. ASSUME NEW i \in DOMAIN s PROVE s[i] \in Given
  <2>1. tasks[s[i]].type # "producer"
    BY <1>1 DEF TaskOK, TaskFits
  <2>2. s[i] \in DOMAIN tasks /\ s[i] \in DOMAIN output
    BY <1>1, RanIs
  <2>. QED BY <2>1, <2>2 DEF Given, Outs
<1>. DEFINE ins == InputsOf(tasks, output, t)
<1>3. DOMAIN ins = DOMAIN s /\ \A i \in DOMAIN s : ins[i] = output[s[i]]
    BY DEF InputsOf
<1>. HIDE DEF s, ins
<1>4. s \in [1 .. Len(s) -> Given]
  <2>1. s = [i \in DOMAIN s |-> s[i]]
    BY <1>1, SeqIs
  <2>. QED BY <1>1, <1>2, <2>1
<1>5. s \in Seq(Given)
    BY <1>1, <1>4, FunctionIsSeq
<1>6. \A i \in DOMAIN s : RowsOf(ins[i].ranges) = RowsGiven[s[i]]
    BY <1>2, <1>3, GivenIs
<1>7. RowsOfEach(ins) = RowsFor(RowsGiven, s)
    BY <1>3, <1>6 DEF RowsOfEach, RowsFor
<1>. QED BY <1>2, <1>5, <1>7 DEF s, ins

LEMMA MergeGives ==
    ASSUME IInv, KeptSoFar, NEW t \in DOMAIN output, tasks[t].type = "merge"
    PROVE  /\ t \in Given
           /\ Shuffled(RowsGiven[t], RowsAt(RowsGiven, tasks[t].inputs))
<1>1. t \in Given
    BY RanIs DEF Given, Outs
<1>2. Shuffled(RowsOf(output[t].ranges), FlattenSeq(RowsOfEach(InputsOf(tasks, output, t))))
    BY RanIs DEF Keeps
<1>3. RowsOfEach(InputsOf(tasks, output, t)) = RowsFor(RowsGiven, tasks[t].inputs)
    BY InputsGiven
<1>4. RowsGiven[t] = RowsOf(output[t].ranges)
    BY <1>1, GivenIs
<1>. QED BY <1>1, <1>2, <1>3, <1>4 DEF RowsAt

\* Tasks that were split off one.
LEMMA SplitGives ==
    ASSUME IInv, KeptSoFar, NEW n, NEW below, NEW q \in Seq(Given), Split(tasks, n, below, q)
    PROVE  Shuffled(RowsAt(RowsGiven, q), RowsAt(RowsGiven, below))
<1>1. PICK M \in DOMAIN tasks :
        /\ Is(tasks, M, "merge", n, below)
        /\ \A k \in DOMAIN q : /\ Is(tasks, q[k], "split", n, <<M>>)
                               /\ tasks[q[k]].n = Len(q) /\ tasks[q[k]].infos[Top] = k - 1
    BY DEF Split
<1>. DEFINE l == Len(q)
            x == output[M]
            parts == PartitionByFiles(x, l)
<1>2. DOMAIN q = 1..l /\ \A k \in 1..l : q[k] \in Given
    BY SeqIs
<1>3. l \in Nat \ {0}
    BY SeqIs DEF Split
<1>. HIDE DEF l
<1>4. ASSUME NEW k \in 1..l
      PROVE  q[k] \in DOMAIN output /\ M \in DOMAIN output /\ output[q[k]] = parts[k]
  <2>. DEFINE t == q[k]
  <2>1. /\ t \in Given /\ tasks[t].type = "split" /\ tasks[t].inputs = <<M>>
        /\ tasks[t].n = l /\ tasks[t].infos[Top] = k - 1
    BY <1>1, <1>2 DEF Is, l
  <2>. HIDE DEF t
  <2>2. t \in DOMAIN output
    BY <2>1, GivenIs
  <2>3. M \in DOMAIN output /\ InputsOf(tasks, output, t)[1] = x
    <3>1. 1 \in DOMAIN <<M>> /\ <<M>>[1] = M
      OBVIOUS
    <3>. QED BY <2>1, <2>2, <3>1, RanIs DEF InputsOf
  <2>4. output[t] = PartitionByFiles(InputsOf(tasks, output, t)[1], tasks[t].n)[tasks[t].infos[Top] + 1]
    BY <2>1, <2>2, RanIs DEF Keeps
  <2>5. (k - 1) + 1 = k
    OBVIOUS
  <2>. QED BY <2>1, <2>2, <2>3, <2>4, <2>5 DEF t
<1>5. M \in DOMAIN output
  <2>1. 1 \in 1..l
    BY <1>3
  <2>. QED BY <1>4, <2>1
<1>6. /\ M \in Given /\ Shuffled(RowsGiven[M], RowsAt(RowsGiven, below))
      /\ x \in DatasetsIn(Written(M)) /\ RowsGiven[M] = RowsOf(x.ranges) /\ M \in Nat
  <2>1. tasks[M].type = "merge" /\ tasks[M].inputs = below
    BY <1>1 DEF Is
  <2>2. M \in Given /\ Shuffled(RowsGiven[M], RowsAt(RowsGiven, below))
    BY <1>5, <2>1, MergeGives
  <2>. QED BY <2>2, GivenIs
<1>7. Written(M) \in SUBSET FileRange /\ AnyRows(Written(M))
    BY <1>6, WrittenAnyRows
<1>. DEFINE F == Written(M)
<1>8. /\ Shuffled(FlattenSeq(RowsOfEach(parts)), RowsOf(x.ranges))
      /\ parts \in [1..l -> DatasetsIn(F)]
  <2>. HIDE DEF F, x
  <2>. QED BY <1>3, <1>6, <1>7, PartitionByFilesKeeps, PartitionByFilesIs DEF F, x
<1>9. RowsFor(RowsGiven, q) = RowsOfEach(parts)
  <2>1. DOMAIN parts = 1..l
    BY <1>8
  <2>. HIDE DEF parts
  <2>2. \A k \in 1..l : RowsGiven[q[k]] = RowsOf(parts[k].ranges)
    BY <1>2, <1>4, GivenIs
  <2>. QED BY <1>2, <2>1, <2>2 DEF RowsFor, RowsOfEach
<1>. HIDE DEF parts, x
<1>10. Shuffled(RowsAt(RowsGiven, q), RowsGiven[M])
    BY <1>6, <1>8, <1>9 DEF RowsAt
<1>. QED BY <1>6, <1>10, ShuffledTwice

\* Tasks that merge a share each.
LEMMA SharedGives ==
    ASSUME IInv, KeptSoFar, NEW n, NEW below, NEW q \in Seq(Given), Shared(tasks, n, below, q)
    PROVE  Shuffled(RowsAt(RowsGiven, q), RowsAt(RowsGiven, below))
<1>. DEFINE G == Given
            R == RowsGiven
<1>1. PICK shares \in Seq(Seq(Nat)) :
        /\ FlattenSeq(shares) = below /\ Len(shares) = Len(q)
        /\ \A k \in DOMAIN q : Is(tasks, q[k], "merge", n, shares[k])
    BY DEF Shared
<1>2. Len(q) \in Nat /\ DOMAIN q = 1 .. Len(q) /\ \A k \in DOMAIN q : q[k] \in G
    BY SeqIs
<1>3. ASSUME NEW k \in DOMAIN q
      PROVE  shares[k] \in Seq(G) /\ Shuffled(R[q[k]], RowsAt(R, shares[k]))
  <2>1. q[k] \in G /\ tasks[q[k]].type = "merge" /\ tasks[q[k]].inputs = shares[k]
    BY <1>1, <1>2 DEF Is
  <2>2. q[k] \in DOMAIN output
    BY <2>1, GivenIs
  <2>3. tasks[q[k]].inputs \in Seq(G)
    BY <2>1, <2>2, InputsGiven
  <2>4. Shuffled(R[q[k]], RowsAt(R, tasks[q[k]].inputs))
    BY <2>1, <2>2, MergeGives
  <2>. QED BY <2>1, <2>3, <2>4
<1>4. DOMAIN shares = 1 .. Len(q) /\ shares = [k \in 1 .. Len(q) |-> shares[k]]
  <2>. DEFINE T == Seq(Nat)
  <2>1. shares \in Seq(T)
    OBVIOUS
  <2>. HIDE DEF T
  <2>2. DOMAIN shares = 1 .. Len(shares) /\ shares = [k \in DOMAIN shares |-> shares[k]]
    BY <2>1, SeqIs
  <2>. QED BY <1>1, <2>2
<1>5. R \in RowMaps(G)
    BY GivenIs
<1>. HIDE DEF R, G
<1>6. shares \in Seq(Seq(G))
  <2>. DEFINE T == Seq(G)
  <2>1. \A k \in 1 .. Len(q) : shares[k] \in T
    BY <1>2, <1>3
  <2>. HIDE DEF T
  <2>2. shares \in [1 .. Len(q) -> T]
    BY <1>4, <2>1
  <2>3. shares \in Seq(T)
    BY <1>2, <2>2, FunctionIsSeq
  <2>. QED BY <2>3 DEF T
<1>. DEFINE C == RowsFor(R, q)
<1>7. C \in Seq(Seq(Row)) /\ Len(C) = Len(q) /\ \A k \in DOMAIN q : C[k] = R[q[k]]
    BY <1>5, RowsAtIs DEF G
<1>. HIDE DEF C
<1>8. \A k \in 1 .. Len(q) : Shuffled(C[k], RowsAt(R, shares[k]))
    BY <1>2, <1>3, <1>7
<1>9. below \in Seq(G) /\ Shuffled(FlattenSeq(shares), below)
  <2>1. FlattenSeq(shares) \in Seq(G)
    BY <1>6, FlattenTyped
  <2>. QED BY <1>1, <2>1, ShuffledSame
<1>10. Shuffled(FlattenSeq(C), RowsAt(R, below))
    BY <1>1, <1>2, <1>5, <1>6, <1>7, <1>8, <1>9, ClassesGathered
<1>. QED BY <1>10 DEF R, C, RowsAt

LEMMA FeedsGive ==
    ASSUME IInv, KeptSoFar, NEW n, NEW below, NEW q \in Seq(Given), Feeds(tasks, n, below, q)
    PROVE  Shuffled(RowsAt(RowsGiven, q), RowsAt(RowsGiven, below))
    BY SplitGives, SharedGives, ShuffledSame DEF Feeds

\* The rows of the partitions of producers.
PartRows(pr) == [j \in 1 .. Len(pr) |-> RowsOfEach(output[pr[j]])]

LEMMA ProducerGives ==
    ASSUME IInv, KeptSoFar, NEW n \in DOMAIN plan, plan[n].op = "partition",
           NEW t \in DOMAIN output, NEW x, Is(tasks, t, "producer", n, <<x>>)
    PROVE  /\ x \in Given
           /\ RowsOfEach(output[t]) \in [1 .. plan[n].n -> Seq(Row)]
           /\ \A k \in 1 .. plan[n].n : RowsOfEach(output[t])[k] = RowsOf(output[t][k].ranges)
           /\ plan[n].kind \notin {"repeat", "load"} =>
                Shuffled(FlattenSeq(RowsOfEach(output[t])), RowsGiven[x])
           /\ plan[n].kind = "repeat" => \A k \in 1 .. plan[n].n :
                Shuffled(RowsOfEach(output[t])[k], RowsGiven[x])
<1>. DEFINE np == plan[n].n
            parts == output[t]
            e == RowsOfEach(parts)
            F == Written(t)
<1>1. tasks[t].type = "producer" /\ tasks[t].node = n /\ tasks[t].inputs = <<x>>
    BY DEF Is
<1>2. parts \in [1..np -> DatasetsIn(F)] /\ t \in Nat
    BY <1>1, RanIs DEF ResultOK, ProducedOK, PartsOK
<1>3. np \in Nat /\ F \in SUBSET FileRange
  <2>1. plan[n] \in Nodes
    BY PlanIs DEF IInv, PlannedOK
  <2>2. np \in Nat
    BY <2>1, NodeIs
  <2>. QED BY <1>2, <2>2, WrittenAnyRows
<1>4. x \in Given /\ InputsOf(tasks, output, t)[1] = output[x]
  <2>1. 1 \in DOMAIN <<x>> /\ <<x>>[1] = x
    OBVIOUS
  <2>. QED BY <1>1, <2>1, InputsGiven DEF InputsOf
<1>5. PartsKeep(plan[n].kind, parts, output[x])
    BY <1>1, <1>4, RanIs DEF Keeps
<1>6. RowsGiven[x] = RowsOf(output[x].ranges)
    BY <1>4, GivenIs
<1>. HIDE DEF F, np, parts
<1>7. DOMAIN parts = 1..np
    BY <1>2
<1>8. \A k \in 1..np : e[k] = RowsOf(parts[k].ranges) /\ RowsOf(parts[k].ranges) \in Seq(Row)
    BY <1>2, <1>3, EachTyped
<1>9. e \in [1..np -> Seq(Row)]
    BY <1>7, <1>8 DEF RowsOfEach
<1>10. plan[n].kind \notin {"repeat", "load"} => Shuffled(FlattenSeq(e), RowsGiven[x])
    BY <1>5, <1>6 DEF PartsKeep
<1>11. plan[n].kind = "repeat" => \A k \in 1..np : Shuffled(e[k], RowsGiven[x])
    BY <1>5, <1>6, <1>7, <1>8 DEF PartsKeep
<1>. QED BY <1>4, <1>8, <1>9, <1>10, <1>11 DEF np, parts

LEMMA ProducersGive ==
    ASSUME IInv, KeptSoFar, NEW n \in DOMAIN plan, plan[n].op = "partition",
           NEW q \in Seq(Nat), NEW pr, Produces(tasks, n, q, pr),
           \A j \in DOMAIN pr : pr[j] \in DOMAIN output
    PROVE  /\ q \in Seq(Given) /\ PartRows(pr) \in Table2(Len(pr), plan[n].n)
           /\ \A j \in 1 .. Len(pr) : \A k \in 1 .. plan[n].n :
                PartRows(pr)[j][k] = RowsOf(output[pr[j]][k].ranges)
           /\ plan[n].kind \notin {"repeat", "load"} => \A j \in 1 .. Len(pr) :
                Shuffled(FlattenSeq(PartRows(pr)[j]), RowsFor(RowsGiven, q)[j])
           /\ plan[n].kind = "repeat" => \A j \in 1 .. Len(pr) : \A k \in 1 .. plan[n].n :
                Shuffled(PartRows(pr)[j][k], RowsFor(RowsGiven, q)[j])
<1>. DEFINE m == Len(pr)
            np == plan[n].n
            P == PartRows(pr)
            e(j) == RowsOfEach(output[pr[j]])
            row == [1..np -> Seq(Row)]
<1>1. /\ pr \in Seq(Nat) /\ m = Len(q)
      /\ \A j \in DOMAIN pr : Is(tasks, pr[j], "producer", n, <<q[j]>>)
    BY DEF Produces
<1>2. m \in Nat /\ DOMAIN pr = 1..m /\ DOMAIN q = 1..m /\ q = [j \in 1..m |-> q[j]]
    BY <1>1, SeqIs
<1>3. ASSUME NEW j \in 1..m
      PROVE  /\ q[j] \in Given /\ e(j) \in row
             /\ \A k \in 1..np : e(j)[k] = RowsOf(output[pr[j]][k].ranges)
             /\ plan[n].kind \notin {"repeat", "load"} => Shuffled(FlattenSeq(e(j)), RowsGiven[q[j]])
             /\ plan[n].kind = "repeat" => \A k \in 1..np : Shuffled(e(j)[k], RowsGiven[q[j]])
  <2>1. pr[j] \in DOMAIN output /\ Is(tasks, pr[j], "producer", n, <<q[j]>>)
    BY <1>1, <1>2
  <2>. QED BY <2>1, ProducerGives
<1>4. \A j \in 1..m : P[j] = e(j)
    BY DEF PartRows
<1>. HIDE DEF row, e
<1>5. P \in [1..m -> row]
    BY <1>3 DEF PartRows, e
<1>. HIDE DEF P
<1>6. q \in Seq(Given)
  <2>1. q \in [1..m -> Given]
    BY <1>2, <1>3
  <2>. HIDE DEF m
  <2>. QED BY <1>2, <2>1, FunctionIsSeq
<1>7. \A j \in 1..m : RowsFor(RowsGiven, q)[j] = RowsGiven[q[j]]
    BY <1>2 DEF RowsFor
<1>8. P \in Table2(m, np)
    BY <1>5 DEF Table2, row
<1>9. \A j \in 1..m : \A k \in 1..np : P[j][k] = RowsOf(output[pr[j]][k].ranges)
    BY <1>3, <1>4
<1>10. plan[n].kind \notin {"repeat", "load"} => \A j \in 1..m :
            Shuffled(FlattenSeq(P[j]), RowsFor(RowsGiven, q)[j])
    BY <1>3, <1>4, <1>7
<1>11. plan[n].kind = "repeat" => \A j \in 1..m : \A k \in 1..np :
            Shuffled(P[j][k], RowsFor(RowsGiven, q)[j])
    BY <1>3, <1>4, <1>7
<1>. QED BY <1>6, <1>8, <1>9, <1>10, <1>11 DEF P

LEMMA TakesGives ==
    ASSUME IInv, KeptSoFar, NEW n, NEW t \in DOMAIN output, NEW k \in Nat, NEW pr,
           Takes(plan, tasks, n, t, k, pr)
    PROVE  /\ \A i \in DOMAIN pr : pr[i] \in DOMAIN output
           /\ t \in Given
           /\ Shuffled(FlattenSeq([i \in DOMAIN pr |-> RowsOf(output[pr[i]][k].ranges)]),
                       RowsGiven[t])
<1>1. /\ tasks[t].type = "consumer" /\ tasks[t].node = n /\ tasks[t].inputs = pr
      /\ tasks[t].infos[plan[n].dim] = k - 1 /\ t \in DOMAIN tasks
    BY DEF Takes, Is
<1>. DEFINE ins == InputsOf(tasks, output, t)
            a == [i \in DOMAIN ins |-> RowsOf(ins[i][k].ranges)]
            b == [i \in DOMAIN pr |-> RowsOf(output[pr[i]][k].ranges)]
<1>2. (k - 1) + 1 = k
    OBVIOUS
<1>3. Shuffled(RowsOf(output[t].ranges),
               FlattenSeq([i \in DOMAIN ins |->
                   RowsOf(ins[i][tasks[t].infos[plan[tasks[t].node].dim] + 1].ranges)]))
    BY <1>1, RanIs DEF Keeps
<1>4. Shuffled(RowsOf(output[t].ranges), FlattenSeq(a))
  <2>1. tasks[t].infos[plan[tasks[t].node].dim] + 1 = k
    BY <1>1, <1>2
  <2>. QED BY <1>3, <2>1
<1>5. a = b
    BY <1>1 DEF InputsOf
<1>6. t \in Given
    BY <1>1 DEF Given, Outs
<1>7. RowsGiven[t] = RowsOf(output[t].ranges)
    BY <1>6, GivenIs
<1>8. \A i \in DOMAIN pr : pr[i] \in DOMAIN output
    BY <1>1, RanIs
<1>. HIDE DEF a, b
<1>9. Shuffled(FlattenSeq(b), RowsGiven[t])
    BY <1>4, <1>5, <1>7, ShuffledBack
<1>. QED BY <1>6, <1>8, <1>9 DEF b

\* What the tasks of a partition node give is in the partitions of its producers.
LEMMA ConsumersGive ==
    ASSUME IInv, KeptSoFar, NEW n \in DOMAIN plan, plan[n].op = "partition",
           NEW q \in Seq(Nat), NEW pr, Produces(tasks, n, q, pr), NEW g \in Seq(Given),
           TakesAll(plan, tasks, n, pr, g) \/ TakesOne(plan, tasks, n, pr, g)
    PROVE  /\ \A j \in DOMAIN pr : pr[j] \in DOMAIN output
           /\ Shuffled(AllParts(PartRows(pr)), RowsAt(RowsGiven, g))
<1>. DEFINE m == Len(pr)
            np == plan[n].n
            P == PartRows(pr)
            C == RowsFor(RowsGiven, g)
<1>1. np \in Nat \ {0}
  <2>1. plan[n] \in Nodes
    BY PlanIs DEF IInv, PlannedOK
  <2>. QED BY <2>1, NodeIs
<1>2. m \in Nat /\ DOMAIN pr = 1..m /\ pr \in Seq(Nat)
    BY SeqIs DEF Produces
<1>3. /\ C \in Seq(Seq(Row)) /\ Len(C) = Len(g) /\ DOMAIN g = 1 .. Len(g)
      /\ \A i \in DOMAIN g : C[i] = RowsGiven[g[i]] /\ g[i] \in Given /\ g[i] \in DOMAIN output
  <2>1. RowsGiven \in RowMaps(Given)
    BY GivenIs
  <2>2. /\ C \in Seq(Seq(Row)) /\ Len(C) = Len(g) /\ \A i \in DOMAIN g : C[i] = RowsGiven[g[i]]
    BY <2>1, RowsAtIs
  <2>3. DOMAIN g = 1 .. Len(g) /\ \A i \in DOMAIN g : g[i] \in Given
    BY SeqIs
  <2>4. \A x \in Given : x \in DOMAIN output
    BY GivenIs
  <2>. QED BY <2>2, <2>3, <2>4
<1>. HIDE DEF C, np, m
<1>4. CASE TakesAll(plan, tasks, n, pr, g)
  <2>1. Len(g) = np /\ \A k \in 1..np : Takes(plan, tasks, n, g[k], k, pr)
    BY <1>4 DEF TakesAll, np
  <2>2. ASSUME NEW k \in 1..np
        PROVE  /\ \A i \in DOMAIN pr : pr[i] \in DOMAIN output
               /\ Shuffled(FlattenSeq([i \in DOMAIN pr |-> RowsOf(output[pr[i]][k].ranges)]), C[k])
    <3>1. k \in DOMAIN g /\ k \in Nat /\ Takes(plan, tasks, n, g[k], k, pr)
      BY <1>1, <1>3, <2>1
    <3>2. g[k] \in DOMAIN output /\ C[k] = RowsGiven[g[k]]
      BY <1>3, <3>1
    <3>. QED BY <3>1, <3>2, TakesGives
  <2>3. \A j \in DOMAIN pr : pr[j] \in DOMAIN output
    <3>1. 1 \in 1..np
      BY <1>1
    <3>. QED BY <2>2, <3>1
  <2>4. P \in Table2(m, np) /\ \A j \in 1..m : \A k \in 1..np :
                                    P[j][k] = RowsOf(output[pr[j]][k].ranges)
    BY <2>3, ProducersGive DEF m, np
  <2>. HIDE DEF P
  <2>5. ASSUME NEW k \in 1..np PROVE Shuffled(FlattenSeq([j \in 1..m |-> P[j][k]]), C[k])
    <3>1. [j \in 1..m |-> P[j][k]] = [i \in DOMAIN pr |-> RowsOf(output[pr[i]][k].ranges)]
      BY <1>2, <2>4
    <3>. QED BY <2>2, <3>1
  <2>6. Shuffled(AllParts(P), FlattenSeq(C))
    <3>1. np \in Nat /\ Len(C) = np
      BY <1>1, <1>3, <2>1
    <3>. QED BY <1>2, <1>3, <2>4, <2>5, <3>1, PartsByConsumer
  <2>. QED BY <2>3, <2>6 DEF RowsAt, C, P
<1>5. CASE TakesOne(plan, tasks, n, pr, g)
  <2>1. /\ Len(g) = m * np
        /\ \A j \in 1..m : \A k \in 1..np : Takes(plan, tasks, n, g[Place(np, j, k)], k, <<pr[j]>>)
    BY <1>5 DEF TakesOne, m, np
  <2>2. \A j \in 1..m : \A k \in 1..np : Place(np, j, k) \in DOMAIN g
    <3>1. np \in Nat
      BY <1>1
    <3>2. \A j \in 1..m : \A k \in 1..np : Place(np, j, k) \in 1 .. m * np
      BY <1>2, <3>1, RowwisePlaces
    <3>. QED BY <1>3, <2>1, <3>2
  <2>3. ASSUME NEW j \in 1..m, NEW k \in 1..np
        PROVE  /\ pr[j] \in DOMAIN output
               /\ Shuffled(FlattenSeq(<<RowsOf(output[pr[j]][k].ranges)>>), C[Place(np, j, k)])
    <3>. DEFINE c == Place(np, j, k)
                s == <<pr[j]>>
    <3>1. c \in DOMAIN g /\ k \in Nat /\ Takes(plan, tasks, n, g[c], k, s)
      BY <1>1, <2>1, <2>2
    <3>2. g[c] \in DOMAIN output /\ C[c] = RowsGiven[g[c]]
      BY <1>3, <3>1
    <3>3. DOMAIN s = {1} /\ s[1] = pr[j]
      OBVIOUS
    <3>4. [i \in DOMAIN s |-> RowsOf(output[s[i]][k].ranges)] = <<RowsOf(output[pr[j]][k].ranges)>>
      OBVIOUS
    <3>. HIDE DEF c, s
    <3>5. /\ \A i \in DOMAIN s : s[i] \in DOMAIN output
          /\ Shuffled(FlattenSeq([i \in DOMAIN s |-> RowsOf(output[s[i]][k].ranges)]), RowsGiven[g[c]])
      BY <3>1, <3>2, TakesGives
    <3>. QED BY <3>2, <3>3, <3>4, <3>5 DEF c
  <2>4. \A j \in DOMAIN pr : pr[j] \in DOMAIN output
    <3>1. 1 \in 1..np
      BY <1>1
    <3>. QED BY <1>2, <2>3, <3>1
  <2>5. P \in Table2(m, np) /\ \A j \in 1..m : \A k \in 1..np :
                                    P[j][k] = RowsOf(output[pr[j]][k].ranges)
    BY <2>4, ProducersGive DEF m, np
  <2>. HIDE DEF P
  <2>6. \A j \in 1..m : \A k \in 1..np : Shuffled(P[j][k], C[Place(np, j, k)])
    <3>1. ASSUME NEW j \in 1..m, NEW k \in 1..np PROVE Shuffled(P[j][k], C[Place(np, j, k)])
      <4>1. P[j][k] \in Seq(Row)
        BY <1>1, <1>2, <2>5, PartsTable
      <4>2. FlattenSeq(<<P[j][k]>>) = P[j][k]
        BY <4>1, FlattenOne
      <4>. QED BY <2>3, <2>5, <4>2
    <3>. QED BY <3>1
  <2>7. Shuffled(AllParts(P), FlattenSeq(C))
    <3>1. np \in Nat /\ Len(C) = m * np
      BY <1>1, <1>3, <2>1
    <3>. QED BY <1>2, <1>3, <2>5, <2>6, <3>1, PartsOneByOne
  <2>. QED BY <2>4, <2>7 DEF RowsAt, C, P
<1>. QED BY <1>4, <1>5

LEMMA PartitionGives ==
    ASSUME IInv, KeptSoFar, NEW n \in DOMAIN plan, plan[n].op = "partition",
           plan[n].kind # "load", NEW below \in Seq(Given), NEW g \in Seq(Given),
           PartitionShape(plan, tasks, n, below, g)
    PROVE  IF plan[n].kind = "repeat"
           THEN Shuffled(RowsAt(RowsGiven, g),
                         FlattenSeq([k \in 1 .. plan[n].n |-> RowsAt(RowsGiven, below)]))
           ELSE Shuffled(RowsAt(RowsGiven, g), RowsAt(RowsGiven, below))
<1>1. PICK q, pr : /\ Feeds(tasks, n, below, q) /\ Produces(tasks, n, q, pr)
                   /\ TakesAll(plan, tasks, n, pr, g) \/ TakesOne(plan, tasks, n, pr, g)
    BY DEF PartitionShape
<1>. DEFINE m == Len(pr)
            np == plan[n].n
            P == PartRows(pr)
            Q == RowsFor(RowsGiven, q)
            X == RowsAt(RowsGiven, below)
<1>2. q \in Seq(Nat)
    BY <1>1 DEF Feeds
<1>3. /\ \A j \in DOMAIN pr : pr[j] \in DOMAIN output
      /\ Shuffled(AllParts(P), RowsAt(RowsGiven, g))
    BY <1>1, <1>2, ConsumersGive
<1>4. /\ q \in Seq(Given) /\ P \in Table2(m, np)
      /\ plan[n].kind \notin {"repeat", "load"} => \A j \in 1..m : Shuffled(FlattenSeq(P[j]), Q[j])
      /\ plan[n].kind = "repeat" => \A j \in 1..m : \A k \in 1..np : Shuffled(P[j][k], Q[j])
    BY <1>1, <1>2, <1>3, ProducersGive
<1>5. Shuffled(RowsAt(RowsGiven, q), X)
    BY <1>1, <1>4, FeedsGive
<1>6. m \in Nat /\ np \in Nat /\ Len(q) = m
  <2>1. plan[n] \in Nodes
    BY PlanIs DEF IInv, PlannedOK
  <2>2. np \in Nat
    BY <2>1, NodeIs
  <2>3. pr \in Seq(Nat) /\ Len(pr) = Len(q)
    BY <1>1 DEF Produces
  <2>. QED BY <2>2, <2>3, SeqIs
<1>7. RowsGiven \in RowMaps(Given)
    BY GivenIs
<1>8. Q \in Seq(Seq(Row)) /\ Len(Q) = m /\ X \in Seq(Row) /\ FlattenSeq(Q) = RowsAt(RowsGiven, q)
    BY <1>4, <1>6, <1>7, RowsAtIs DEF RowsAt
<1>. HIDE DEF P, Q, X, m, np
<1>9. CASE plan[n].kind = "repeat"
  <2>1. Shuffled(FlattenSeq(Q), X)
    BY <1>5, <1>8
  <2>2. Shuffled(AllParts(P), FlattenSeq([k \in 1..np |-> X]))
    BY <1>4, <1>6, <1>8, <1>9, <2>1, PartsRepeated
  <2>3. Shuffled(RowsAt(RowsGiven, g), FlattenSeq([k \in 1..np |-> X]))
    BY <1>3, <2>2, ShuffledBack, ShuffledTwice
  <2>. QED BY <1>9, <2>3 DEF X, np
<1>10. CASE plan[n].kind # "repeat"
  <2>1. Shuffled(AllParts(P), FlattenSeq(Q))
    BY <1>4, <1>6, <1>8, <1>10, PartsByProducer
  <2>2. Shuffled(RowsAt(RowsGiven, g), FlattenSeq(Q))
    BY <1>3, <2>1, ShuffledBack, ShuffledTwice
  <2>3. Shuffled(RowsAt(RowsGiven, g), X)
    BY <1>5, <1>8, <2>2, ShuffledTwice
  <2>. QED BY <1>10, <2>3 DEF X
<1>. QED BY <1>9, <1>10

LEMMA RanGiven ==
    ASSUME IInv, KeptSoFar, NEW n \in Ran
    PROVE  /\ n \in DOMAIN plan /\ n \in DOMAIN group /\ group[n] \in Seq(Given)
           /\ NodeRows(n) = RowsAt(RowsGiven, group[n])
<1>. DEFINE g == group[n]
<1>1. n \in DOMAIN group /\ n \in DOMAIN plan
    BY DEF Ran, IInv, PlannedOK, GroupsOK
<1>2. /\ g \in Seq(Outs(tasks)) /\ Len(g) \in Nat /\ DOMAIN g = 1 .. Len(g)
      /\ \A i \in 1 .. Len(g) : g[i] \in DOMAIN output
    BY NodeRowsAre DEF IInv
<1>. DEFINE O == Outs(tasks)
<1>3. g = [i \in 1 .. Len(g) |-> g[i]] /\ \A i \in 1 .. Len(g) : g[i] \in O
  <2>1. g \in Seq(O)
    BY <1>2
  <2>. HIDE DEF O, g
  <2>. QED BY <1>2, <2>1, SeqIs
<1>4. \A i \in 1 .. Len(g) : g[i] \in Given
    BY <1>2, <1>3 DEF Given
<1>5. g \in Seq(Given)
  <2>. HIDE DEF g
  <2>1. g \in [1 .. Len(g) -> Given]
    BY <1>3, <1>4
  <2>. QED BY <1>2, <2>1, FunctionIsSeq
<1>6. \A t \in Given : RowsGiven[t] = RowsOf(output[t].ranges)
    BY GivenIs
<1>7. NodeRows(n) = RowsAt(RowsGiven, g)
    BY <1>2, <1>4, <1>6 DEF NodeRows, RowsAt, RowsFor
<1>. QED BY <1>1, <1>5, <1>7

\* The rows of the inputs of a node, one after the other.
LEMMA BelowGiven ==
    ASSUME IInv, KeptSoFar, NEW n \in Done, plan[n].op \notin {"sql", "compute"}
    PROVE  /\ TasksBelow(plan, group, n) \in Seq(Given)
           /\ FlattenSeq(DepRows(n)) = RowsAt(RowsGiven, TasksBelow(plan, group, n))
<1>. DEFINE deps == plan[n].deps
            gg == [i \in DOMAIN deps |-> group[deps[i]]]
            ss == DepRows(n)
            G == Seq(Given)
            SR == Seq(Row)
            m == Len(deps)
<1>1. n \in Ran /\ \A i \in DOMAIN deps : deps[i] \in Ran
    BY DEF Done
<1>2. deps \in Seq(Nat)
  <2>1. plan[n] \in Nodes
    BY <1>1, RanGiven, PlanIs DEF IInv, PlannedOK
  <2>. QED BY <2>1, NodeIs
<1>3. m \in Nat /\ DOMAIN deps = 1..m
  <2>. HIDE DEF deps
  <2>. QED BY <1>2, SeqIs
<1>4. ss = [i \in DOMAIN deps |-> NodeRows(deps[i])]
    BY DEF DepRows
<1>5. RowsGiven \in RowMaps(Given)
    BY GivenIs
<1>6. ASSUME NEW i \in 1..m
      PROVE  /\ group[deps[i]] \in G
             /\ NodeRows(deps[i]) = RowsAt(RowsGiven, group[deps[i]])
             /\ NodeRows(deps[i]) \in SR
  <2>. DEFINE d == deps[i]
  <2>1. d \in Ran
    BY <1>1, <1>3
  <2>. HIDE DEF d
  <2>2. group[d] \in Seq(Given) /\ NodeRows(d) = RowsAt(RowsGiven, group[d])
    BY <2>1, RanGiven
  <2>3. RowsAt(RowsGiven, group[d]) \in Seq(Row)
    BY <1>5, <2>2, RowsAtIs
  <2>. QED BY <2>2, <2>3 DEF d
<1>. HIDE DEF deps, G, SR, m, ss
<1>7. gg \in [1..m -> G] /\ ss \in [1..m -> SR]
      /\ \A i \in 1..m : ss[i] = RowsAt(RowsGiven, gg[i])
    BY <1>3, <1>4, <1>6
<1>. HIDE DEF gg
<1>8. gg \in Seq(G) /\ Len(gg) = m /\ ss \in Seq(SR) /\ Len(ss) = m
    BY <1>3, <1>7, FunctionIsSeq
<1>9. TasksBelow(plan, group, n) = FlattenSeq(gg)
    BY DEF TasksBelow, gg, deps
<1>10. gg \in Seq(Seq(Given)) /\ ss \in Seq(Seq(Row))
    BY <1>8 DEF G, SR
<1>11. FlattenSeq(gg) \in Seq(Given)
    BY <1>10, FlattenTyped
<1>12. RowsAt(RowsGiven, FlattenSeq(gg)) = FlattenSeq(ss)
  <2>1. Len(ss) = Len(gg) /\ \A i \in 1 .. Len(gg) : ss[i] = RowsAt(RowsGiven, gg[i])
    BY <1>7, <1>8
  <2>2. RowsEach(Given, RowsGiven, gg, ss)
    BY <1>5, <1>10, <2>1 DEF RowsEach
  <2>. QED BY <2>2, RowsAtFlatten
<1>. QED BY <1>9, <1>11, <1>12 DEF ss

LEMMA SourceGives ==
    ASSUME IInv, KeptSoFar, NEW n \in DOMAIN plan, NEW g \in Seq(Given), SourceShape(tasks, n, g)
    PROVE  RowsAt(RowsGiven, g) = RowsOf(plan[n].files)
<1>1. PICK t \in DOMAIN tasks : g = <<t>> /\ tasks[t].type = "source" /\ tasks[t].node = n
    BY DEF SourceShape
<1>2. t \in Given
  <2>1. 1 \in DOMAIN <<t>> /\ <<t>>[1] = t
    OBVIOUS
  <2>2. 1 \in DOMAIN g /\ g[1] = t
    BY <1>1, <2>1
  <2>. QED BY <2>2, SeqIs
<1>3. /\ t \in DOMAIN output /\ RowsGiven[t] = RowsOf(output[t].ranges)
      /\ RowsGiven \in RowMaps(Given)
    BY <1>2, GivenIs
<1>4. output[t] = Files(plan[n].files)
    BY <1>1, <1>3, RanIs DEF Keeps
<1>5. RowsGiven[t] \in Seq(Row)
    BY <1>2, <1>3 DEF RowMaps
<1>6. RowsFor(RowsGiven, <<t>>) = <<RowsGiven[t]>>
  <2>1. DOMAIN <<t>> = {1} /\ <<t>>[1] = t
    OBVIOUS
  <2>. QED BY <2>1 DEF RowsFor
<1>7. FlattenSeq(<<RowsGiven[t]>>) = RowsGiven[t]
    BY <1>5, FlattenOne
<1>8. output[t].ranges = plan[n].files
    BY <1>4 DEF Files
<1>. QED BY <1>1, <1>3, <1>6, <1>7, <1>8 DEF RowsAt

LEMMA ProjectionGives ==
    ASSUME IInv, KeptSoFar, NEW n, NEW below \in Seq(Given), NEW g \in Seq(Given),
           ProjectionShape(tasks, n, below, g)
    PROVE  RowsAt(RowsGiven, g) = RowsAt(RowsGiven, below)
<1>1. /\ Len(g) = Len(below) /\ DOMAIN g = 1 .. Len(g) /\ DOMAIN below = 1 .. Len(below)
      /\ \A i \in DOMAIN g : g[i] \in Given
      /\ \A i \in DOMAIN below : below[i] \in Given
    BY SeqIs DEF ProjectionShape
<1>2. ASSUME NEW i \in DOMAIN g PROVE RowsGiven[g[i]] = RowsGiven[below[i]]
  <2>. DEFINE t == g[i]
              x == below[i]
  <2>1. /\ t \in Given /\ x \in Given /\ tasks[t].type = "projection" /\ tasks[t].inputs = <<x>>
    BY <1>1 DEF ProjectionShape, Is
  <2>. HIDE DEF t, x
  <2>2. t \in DOMAIN output
    BY <2>1, GivenIs
  <2>3. InputsOf(tasks, output, t)[1] = output[x]
    <3>1. 1 \in DOMAIN <<x>> /\ <<x>>[1] = x
      OBVIOUS
    <3>. QED BY <2>1, <3>1 DEF InputsOf
  <2>4. output[t] = output[x]
    BY <2>1, <2>2, <2>3, RanIs DEF Keeps
  <2>5. RowsGiven[t] = RowsOf(output[t].ranges) /\ RowsGiven[x] = RowsOf(output[x].ranges)
    BY <2>1, GivenIs
  <2>. QED BY <2>4, <2>5 DEF t, x
<1>3. DOMAIN g = DOMAIN below
    BY <1>1
<1>. QED BY <1>2, <1>3 DEF RowsAt, RowsFor

LEMMA ConsolidateGives ==
    ASSUME IInv, KeptSoFar, NEW n, NEW below \in Seq(Given), NEW g \in Seq(Given),
           ConsolidateShape(tasks, n, below, g)
    PROVE  Shuffled(RowsAt(RowsGiven, g), RowsAt(RowsGiven, below))
<1>1. PICK f \in [DOMAIN below -> DOMAIN g] : \A k \in DOMAIN g :
        Is(tasks, g[k], "merge", n, ItemsAt(below, ClassOf(below, f, k)))
    BY DEF ConsolidateShape
<1>. DEFINE c == Len(g)
            of == [k \in 1..c |-> ItemsAt(below, ClassOf(below, f, k))]
            C == RowsFor(RowsGiven, g)
            G == Seq(Given)
<1>2. c \in Nat /\ DOMAIN g = 1..c /\ \A k \in 1..c : g[k] \in Given
    BY SeqIs
<1>3. RowsGiven \in RowMaps(Given)
    BY GivenIs
<1>4. C \in Seq(Seq(Row)) /\ Len(C) = c /\ \A k \in 1..c : C[k] = RowsGiven[g[k]]
    BY <1>2, <1>3, RowsAtIs
<1>5. \A k \in 1..c : of[k] = ItemsAt(below, ClassOf(below, f, k))
    OBVIOUS
<1>6. ASSUME NEW k \in 1..c PROVE of[k] \in G /\ Shuffled(C[k], RowsAt(RowsGiven, of[k]))
  <2>1. g[k] \in Given /\ tasks[g[k]].type = "merge" /\ tasks[g[k]].inputs = of[k]
    BY <1>1, <1>2, <1>5 DEF Is
  <2>2. g[k] \in DOMAIN output
    BY <2>1, GivenIs
  <2>3. tasks[g[k]].inputs \in Seq(Given)
    BY <2>1, <2>2, InputsGiven
  <2>4. Shuffled(RowsGiven[g[k]], RowsAt(RowsGiven, tasks[g[k]].inputs))
    BY <2>1, <2>2, MergeGives
  <2>. QED BY <1>4, <2>1, <2>3, <2>4
<1>7. of = [k \in 1..c |-> of[k]]
    OBVIOUS
<1>. HIDE DEF of, c, C, G
<1>8. of \in Seq(G) /\ Len(of) = c /\ DOMAIN of = 1..c
  <2>1. of \in [1..c -> G]
    BY <1>6, <1>7
  <2>. QED BY <1>2, <2>1, FunctionIsSeq
<1>9. of \in Seq(Seq(Given))
    BY <1>8 DEF G
<1>10. Shuffled(FlattenSeq(of), below)
  <2>1. f \in [DOMAIN below -> DOMAIN of]
    BY <1>2, <1>8
  <2>2. \A k \in DOMAIN of : of[k] = ItemsAt(below, ClassOf(below, f, k))
    BY <1>5, <1>8
  <2>. QED BY <1>9, <2>1, <2>2, ClassesKeep
<1>11. \A k \in 1..c : Shuffled(C[k], RowsAt(RowsGiven, of[k]))
    BY <1>6
<1>12. Shuffled(FlattenSeq(C), RowsAt(RowsGiven, below))
    BY <1>2, <1>3, <1>4, <1>8, <1>9, <1>10, <1>11, ClassesGathered
<1>. QED BY <1>12 DEF RowsAt, C

\* A node that moves rows has those of its inputs.
LEMMA MovedRows ==
    ASSUME IInv, KeptSoFar, ShapesOK, NEW n \in Done, MovesRows(n)
    PROVE  IF IsRepeat(n)
           THEN Shuffled(NodeRows(n), FlattenSeq([k \in 1 .. plan[n].n |-> Meaning(n)]))
           ELSE Shuffled(NodeRows(n), Meaning(n))
<1>. DEFINE g == group[n]
            below == TasksBelow(plan, group, n)
            R == RowsGiven
<1>1. n \in Ran
    BY DEF Done
<1>2. n \in DOMAIN plan /\ n \in DOMAIN group /\ g \in Seq(Given) /\ NodeRows(n) = RowsAt(R, g)
    BY <1>1, RanGiven
<1>3. plan[n].op \in {"source", "union", "projection", "consolidate", "partition"}
    BY DEF MovesRows
<1>4. below \in Seq(Given) /\ FlattenSeq(DepRows(n)) = RowsAt(R, below)
    BY <1>3, BelowGiven
<1>5. Shape(plan, tasks, n, below, g)
    BY <1>2 DEF ShapesOK, ShapesIn
<1>6. plan[n].op # "source" => Meaning(n) = RowsAt(R, below)
    BY <1>3, <1>4 DEF Meaning, Means
<1>. HIDE DEF g, below, R
<1>7. CASE plan[n].op = "source"
  <2>1. Meaning(n) = RowsOf(plan[n].files)
    BY <1>7 DEF Meaning, Means
  <2>2. RowsAt(R, g) = RowsOf(plan[n].files)
    BY <1>2, <1>5, <1>7, SourceGives DEF Shape, R
  <2>. QED BY <1>2, <1>7, <2>1, <2>2, ShuffledSame DEF IsRepeat
<1>8. CASE plan[n].op = "union"
  <2>1. g = below
    BY <1>5, <1>8 DEF Shape
  <2>. QED BY <1>2, <1>6, <1>8, <2>1, ShuffledSame DEF IsRepeat
<1>9. CASE plan[n].op = "projection"
  <2>1. RowsAt(R, g) = RowsAt(R, below)
    BY <1>2, <1>4, <1>5, <1>9, ProjectionGives DEF Shape, R
  <2>. QED BY <1>2, <1>6, <1>9, <2>1, ShuffledSame DEF IsRepeat
<1>10. CASE plan[n].op = "consolidate"
  <2>1. Shuffled(RowsAt(R, g), RowsAt(R, below))
    BY <1>2, <1>4, <1>5, <1>10, ConsolidateGives DEF Shape, R
  <2>. QED BY <1>2, <1>6, <1>10, <2>1 DEF IsRepeat
<1>11. CASE plan[n].op = "partition"
  <2>1. plan[n].kind # "load" /\ PartitionShape(plan, tasks, n, below, g)
    BY <1>5, <1>11 DEF Shape, MovesRows
  <2>2. IF plan[n].kind = "repeat"
        THEN Shuffled(RowsAt(R, g), FlattenSeq([k \in 1 .. plan[n].n |-> RowsAt(R, below)]))
        ELSE Shuffled(RowsAt(R, g), RowsAt(R, below))
    BY <1>2, <1>4, <1>11, <2>1, PartitionGives DEF R
  <2>3. IsRepeat(n) <=> plan[n].kind = "repeat"
    BY <1>11 DEF IsRepeat
  <2>. QED BY <1>2, <1>6, <1>11, <2>2, <2>3
<1>. QED BY <1>3, <1>7, <1>8, <1>9, <1>10, <1>11

\* The rows that a node stands for.
LEMMA MeaningTyped ==
    ASSUME IInv, KeptSoFar, NEW n \in Done, MovesRows(n)
    PROVE  /\ NodeRows(n) \in Seq(Row) /\ Meaning(n) \in Seq(Row)
           /\ FlattenSeq([k \in 1 .. plan[n].n |-> Meaning(n)]) \in Seq(Row)
              \/ ~IsRepeat(n)
<1>1. n \in Ran /\ RowsGiven \in RowMaps(Given)
    BY GivenIs DEF Done
<1>2. n \in DOMAIN plan /\ NodeRows(n) \in Seq(Row)
    BY <1>1, RanGiven, RowsAtIs
<1>3. plan[n] \in Nodes
    BY <1>2, PlanIs DEF IInv, PlannedOK
<1>4. Meaning(n) \in Seq(Row)
  <2>1. CASE plan[n].op = "source"
    <3>1. Meaning(n) = RowsOf(plan[n].files)
      BY <2>1 DEF Meaning, Means
    <3>2. plan[n].files \in Seq(FileRange)
      BY <1>3, <2>1, NodeIs
    <3>. QED BY <3>1, <3>2, RowsOfIs
  <2>2. CASE plan[n].op # "source"
    <3>1. plan[n].op \in {"union", "projection", "consolidate", "partition"}
      BY <2>2 DEF MovesRows
    <3>2. Meaning(n) = RowsAt(RowsGiven, TasksBelow(plan, group, n))
      BY <3>1, BelowGiven DEF Meaning, Means
    <3>. QED BY <1>1, <3>1, <3>2, BelowGiven, RowsAtIs
  <2>. QED BY <2>1, <2>2
<1>5. ASSUME IsRepeat(n) PROVE FlattenSeq([k \in 1 .. plan[n].n |-> Meaning(n)]) \in Seq(Row)
  <2>. DEFINE SR == Seq(Row)
              np == plan[n].n
              X == Meaning(n)
              s == [k \in 1..np |-> X]
  <2>1. np \in Nat
    BY <1>3, <1>5, NodeIs DEF IsRepeat
  <2>2. X \in SR
    BY <1>4
  <2>. HIDE DEF SR, np, X
  <2>3. s \in [1..np -> SR]
    BY <2>2
  <2>. HIDE DEF s
  <2>4. s \in Seq(SR)
    BY <2>1, <2>3, FunctionIsSeq
  <2>5. FlattenSeq(s) \in Seq(Row)
    BY <2>4, FlattenTyped DEF SR
  <2>. QED BY <2>5 DEF s, np, X
<1>. QED BY <1>2, <1>4, <1>5

\* Nodes that distribute rows hand on all rows of their inputs, each as often as it is
\* there: nothing is lost or doubled by merging, splitting by files or by rows, hashing,
\* repeating, nesting, consolidating, skipping tasks without input or removing empty files.
\* Beside IInv it takes what a task has kept of its inputs (KeptSoFar) and how the tasks of
\* a node share its inputs and partitions among them (ShapesOK).
THEOREM KeepsRows == Spec => []RowsKept
<1>. DEFINE Inv == IInv /\ KeptSoFar /\ ShapesOK
<1>1. Init => Inv
    BY IInvInit, KeptInit, ShapesInit
<1>2. Inv /\ [Next]_vars => Inv'
    BY IInvNext, KeptNext, ShapesNext
<1>3. Inv => RowsKept
  <2>. SUFFICES ASSUME Inv PROVE RowsKept
    OBVIOUS
  <2>1. ASSUME NEW n \in Done, MovesRows(n)
        PROVE  SameRows(NodeRows(n), IF IsRepeat(n)
                                     THEN FlattenSeq([k \in 1 .. plan[n].n |-> Meaning(n)])
                                     ELSE Meaning(n))
    <3>1. /\ NodeRows(n) \in Seq(Row) /\ Meaning(n) \in Seq(Row)
          /\ FlattenSeq([k \in 1 .. plan[n].n |-> Meaning(n)]) \in Seq(Row) \/ ~IsRepeat(n)
      BY <2>1, MeaningTyped
    <3>2. IF IsRepeat(n)
          THEN Shuffled(NodeRows(n), FlattenSeq([k \in 1 .. plan[n].n |-> Meaning(n)]))
          ELSE Shuffled(NodeRows(n), Meaning(n))
      BY <2>1, MovedRows
    <3>. QED BY <3>1, <3>2, ShuffledRows
  <2>. QED BY <2>1 DEF RowsKept
<1>. QED BY <1>1, <1>2, <1>3, PTL DEF Spec
=============================================================================
