--------------------------- MODULE DatasetProofs ----------------------------
(***************************************************************************)
(* What TLAPS proves of the partitioning algorithms and of datasets: items *)
(* and rows are divided evenly, with none left out, and the operations on  *)
(* datasets keep their rows.                                               *)
(***************************************************************************)
EXTENDS Dataset, FiniteSetTheorems, WellFoundedInduction, SequenceTheorems, TLAPS

-----------------------------------------------------------------------------
(* The division of items into partitions, for any number of items *)

LEMMA DivMod ==
    ASSUME NEW a \in Nat, NEW b \in Nat \ {0}
    PROVE  /\ a \div b \in Nat
           /\ a % b \in 0 .. b - 1
           /\ a = b * (a \div b) + (a % b)
OBVIOUS

\* Multiplication, out of the way of the proofs below.
LEMMA OneMore ==
    ASSUME NEW k \in Int, NEW d \in Int
    PROVE  /\ (k - 1) * d \in Int
           /\ k * d = (k - 1) * d + d
<1>1. k * d = (k - 1) * d + 1 * d
    OBVIOUS
<1> QED
    BY <1>1

\* A partition has len \div n items, the first len % n partitions have one more.
LEMMA StartStep ==
    ASSUME NEW len \in Nat, NEW n \in Nat \ {0}, NEW k \in Nat
    PROVE  /\ SplitStart(len, n, k) \in Int
           /\ SplitStart(len, n, k + 1)
                = SplitStart(len, n, k) + (len \div n) + (IF k - 1 < len % n THEN 1 ELSE 0)
<1> DEFINE d == len \div n
           r == len % n
<1>1. d \in Nat /\ r \in Nat
    BY DivMod
<1>3. k + 1 - 1 = k
    OBVIOUS
<1> HIDE DEF d, r
<1>2. (k - 1) * d \in Int /\ k * d = (k - 1) * d + d
    BY <1>1, OneMore
<1>4. /\ SplitStart(len, n, k) = (k - 1) * d + Least(k - 1, r)
      /\ SplitStart(len, n, k + 1) = k * d + Least(k, r)
    BY <1>3 DEF SplitStart, d, r
<1>5. Least(k, r) = Least(k - 1, r) + (IF k - 1 < r THEN 1 ELSE 0) /\ Least(k - 1, r) \in Int
    BY <1>1 DEF Least
<1>6. SplitStart(len, n, k) \in Int
    BY <1>2, <1>4, <1>5
<1>7. SplitStart(len, n, k + 1) = SplitStart(len, n, k) + d + (IF k - 1 < r THEN 1 ELSE 0)
    BY <1>1, <1>2, <1>4, <1>5
<1> QED
    BY <1>6, <1>7 DEF d, r

\* split_into_rows: the first partition starts at the first item and the last one
\* ends at the last item, so, a partition starting where the one before it ends,
\* no item is lost and none is in two partitions.
THEOREM SplitCovers ==
    ASSUME NEW len \in Nat, NEW n \in Nat \ {0}
    PROVE  /\ SplitStart(len, n, 1) = 0
           /\ SplitStart(len, n, n + 1) = len
<1> DEFINE d == len \div n
           r == len % n
<1>1. d \in Nat /\ r \in 0 .. n - 1 /\ len = n * d + r
    BY DivMod
<1>2. n + 1 - 1 = n /\ 1 - 1 = 0
    OBVIOUS
<1> HIDE DEF d, r
<1>3. 0 * d = 0 /\ Least(0, r) = 0 /\ Least(n, r) = r
    BY <1>1 DEF Least
<1>4. SplitStart(len, n, 1) = 0 * d + Least(0, r)
    BY <1>2 DEF SplitStart, d, r
<1>5. SplitStart(len, n, n + 1) = n * d + Least(n, r)
    BY <1>2 DEF SplitStart, d, r
<1> QED
    BY <1>1, <1>3, <1>4, <1>5

\* The items of partition k of split_into_rows.
SplitSize(len, n, k) == SplitStart(len, n, k + 1) - SplitStart(len, n, k)

\* No partition has more than one item more than another, and none has less than
\* no items.
THEOREM SplitIsEven ==
    ASSUME NEW len \in Nat, NEW n \in Nat \ {0}, NEW j \in 1 .. n, NEW k \in 1 .. n
    PROVE  /\ SplitSize(len, n, k) \in Nat
           /\ SplitSize(len, n, j) <= SplitSize(len, n, k) + 1
<1>1. len \div n \in Nat /\ len % n \in Nat
    BY DivMod
<1>2. ASSUME NEW i \in 1 .. n
      PROVE  SplitSize(len, n, i) = (len \div n) + (IF i - 1 < len % n THEN 1 ELSE 0)
    <2>1. i \in Nat
        OBVIOUS
    <2>2. /\ SplitStart(len, n, i) \in Int
          /\ SplitStart(len, n, i + 1)
               = SplitStart(len, n, i) + (len \div n) + (IF i - 1 < len % n THEN 1 ELSE 0)
        BY <2>1, StartStep
    <2> QED
        BY <1>1, <2>2 DEF SplitSize
<1>3. /\ SplitSize(len, n, j) = (len \div n) + (IF j - 1 < len % n THEN 1 ELSE 0)
      /\ SplitSize(len, n, k) = (len \div n) + (IF k - 1 < len % n THEN 1 ELSE 0)
    BY <1>2
<1> QED
    BY <1>1, <1>3

LEMMA SmallMultiple ==
    ASSUME NEW n \in Nat \ {0}, NEW x \in Int, - n < n * x, n * x < n
    PROVE  x = 0
<1>1. CASE x >= 1
    <2>1. n * x >= n * 1
        BY <1>1
    <2> QED
        BY <2>1
<1>2. CASE x <= -1
    <2>1. n * x <= n * (-1)
        BY <1>2
    <2> QED
        BY <2>1
<1> QED
    BY <1>1, <1>2

\* The larger of two partitions has one item more if any are left over.
LEMMA CeilDivIs ==
    ASSUME NEW len \in Nat, NEW n \in Nat \ {0}
    PROVE  CeilDiv(len, n) = (len \div n) + (IF len % n = 0 THEN 0 ELSE 1)
<1> DEFINE d == len \div n
           r == len % n
           q == (len + n - 1) \div n
           s == (len + n - 1) % n
           up == IF r = 0 THEN 0 ELSE 1
<1>1. d \in Nat /\ r \in 0 .. n - 1 /\ len = n * d + r
    BY DivMod
<1>2. len + n - 1 \in Nat
    OBVIOUS
<1>3. q \in Nat /\ s \in 0 .. n - 1 /\ len + n - 1 = n * q + s
    BY <1>2, DivMod
<1> HIDE DEF d, r, q, s
<1>4. n * (q - d - up) = n * q - n * d - n * up
    BY <1>1, <1>3
<1>5. n * up = IF r = 0 THEN 0 ELSE n
    OBVIOUS
<1>6. n * q \in Int /\ n * d \in Int
    BY <1>1, <1>3
<1>7. - n < n * (q - d - up) /\ n * (q - d - up) < n
    BY <1>1, <1>3, <1>4, <1>5, <1>6
<1>8. q - d - up = 0
    BY <1>1, <1>3, <1>7, SmallMultiple
<1> QED
    BY <1>1, <1>3, <1>8 DEF CeilDiv, q, d, r

\* get_nth_partition finds a partition of split_into_rows without making the others.
THEOREM NthPartitionAgrees ==
    ASSUME NEW len \in Nat, NEW n \in Nat \ {0}, NEW k \in 1 .. n + 1
    PROVE  NthPartitionStart(len, n, k) = SplitStart(len, n, k)
<1> DEFINE d == len \div n
           r == len % n
           large == CeilDiv(len, n)
           i == k - 1
<1>1. d \in Nat /\ r \in 0 .. n - 1 /\ len = n * d + r
    BY DivMod
<1>2. large = d + (IF r = 0 THEN 0 ELSE 1)
    BY CeilDivIs
<1>3. i \in Nat
    OBVIOUS
<1> HIDE DEF d, r, large, i
<1>4. len - d * n = r
    BY <1>1
<1>5. NthPartitionStart(len, n, k) = IF i < r THEN i * large ELSE large * r + (i - r) * d
    BY <1>4 DEF NthPartitionStart, d, large, i
<1>6. SplitStart(len, n, k) = i * d + Least(i, r)
    BY DEF SplitStart, d, r, i
<1>7. CASE i < r
    <2>1. large = d + 1
        BY <1>1, <1>2, <1>3, <1>7
    <2>2. i * (d + 1) = i * d + i
        BY <1>1, <1>3
    <2> QED
        BY <1>1, <1>3, <1>5, <1>6, <1>7, <2>1, <2>2 DEF Least
<1>8. CASE ~(i < r) /\ r = 0
    <2>1. large * 0 = 0 /\ i - 0 = i /\ i * d \in Int
        BY <1>1, <1>2, <1>3, <1>8
    <2> QED
        BY <1>3, <1>5, <1>6, <1>8, <2>1 DEF Least
<1>9. CASE ~(i < r) /\ r # 0
    <2>1. large * r = d * r + r
        BY <1>1, <1>2, <1>9
    <2>2. (i - r) * d = i * d - d * r
        BY <1>1, <1>3
    <2>3. i * d \in Int /\ d * r \in Int
        BY <1>1, <1>3
    <2> QED
        BY <1>1, <1>3, <1>5, <1>6, <1>9, <2>1, <2>2, <2>3 DEF Least
<1> QED
    BY <1>7, <1>8, <1>9

-----------------------------------------------------------------------------
(* Induction and recursion, stated with sets and functions *)

\* A set of numbers that is not empty has a least element.
LEMMA LeastNumber ==
    ASSUME NEW S \in SUBSET Nat, S # {}
    PROVE  \E x \in S : \A y \in S : x <= y
<1>1. PICK x \in S : \A y \in S : ~(<<y, x>> \in OpToRel(<, Nat))
    BY NatLessThanWellFounded, WFMin
<1>2. \A y \in S : ~(y < x)
    BY <1>1 DEF OpToRel
<1>. QED BY <1>2

\* Induction.
LEMMA AllNumbers ==
    ASSUME NEW S \in SUBSET Nat, 0 \in S, \A n \in S : n + 1 \in S
    PROVE  S = Nat
<1>. SUFFICES ASSUME Nat \ S # {} PROVE FALSE
    OBVIOUS
<1>1. PICK x \in Nat \ S : \A y \in Nat \ S : x <= y
    BY LeastNumber
<1>2. x - 1 \in Nat /\ x - 1 \notin Nat \ S
    BY <1>1
<1>3. (x - 1) + 1 \in S
    BY <1>2
<1>. QED BY <1>1, <1>3

\* G defines a function by recursion: what it makes of f at x depends on f at places
\* that measure less.
Recursion(S, T, M, G) ==
    /\ M \in [S -> Nat] /\ G \in [S -> [[S -> T] -> T]]
    /\ \A x \in S : \A f, g \in [S -> T] :
        (\A y \in S : M[y] < M[x] => f[y] = g[y]) => G[x][f] = G[x][g]

SolvesBelow(S, M, G, f, n) == \A x \in S : M[x] < n => f[x] = G[x][f]

\* Two such functions agree as far as they follow the recursion.
LEMMA RecursionUnique ==
    ASSUME NEW S, NEW T, NEW M, NEW G, Recursion(S, T, M, G),
           NEW f \in [S -> T], NEW g \in [S -> T], NEW n \in Nat,
           SolvesBelow(S, M, G, f, n), SolvesBelow(S, M, G, g, n)
    PROVE  \A x \in S : M[x] < n => f[x] = g[x]
<1>. DEFINE D == {d \in Nat : \E x \in S : M[x] = d /\ d < n /\ f[x] # g[x]}
<1>. SUFFICES ASSUME D # {} PROVE FALSE
    BY DEF Recursion
<1>1. PICK d \in D : \A e \in D : d <= e
  <2>. HIDE DEF D
  <2>1. D \in SUBSET Nat
    BY DEF D
  <2>. QED BY <2>1, LeastNumber
<1>2. PICK x \in S : M[x] = d /\ d < n /\ f[x] # g[x]
    OBVIOUS
<1>3. ASSUME NEW y \in S, M[y] < M[x] PROVE f[y] = g[y]
  <2>1. M[y] \in Nat /\ M[y] < d /\ M[y] < n
    BY <1>2, <1>3 DEF Recursion
  <2>2. M[y] \notin D
    BY <1>1, <2>1
  <2>. QED BY <2>1, <2>2
<1>4. G[x][f] = G[x][g]
    BY <1>3 DEF Recursion
<1>. QED BY <1>2, <1>4 DEF SolvesBelow

\* There is one.
LEMMA RecursionExists ==
    ASSUME NEW S, NEW T, T # {}, NEW M, NEW G, Recursion(S, T, M, G)
    PROVE  \E f \in [S -> T] : \A x \in S : f[x] = G[x][f]
<1>. DEFINE Sol(f, n) == SolvesBelow(S, M, G, f, n)
            Steps == {n \in Nat : \E f \in [S -> T] : Sol(f, n)}
<1>0. \A x \in S : M[x] \in Nat
    BY DEF Recursion
<1>1. 0 \in Steps
  <2>1. PICK t \in T : TRUE
    OBVIOUS
  <2>2. [x \in S |-> t] \in [S -> T]
    OBVIOUS
  <2>3. Sol([x \in S |-> t], 0)
    BY <1>0 DEF SolvesBelow
  <2>. QED BY <2>2, <2>3
<1>2. ASSUME NEW n \in Steps PROVE n + 1 \in Steps
  <2>1. PICK f \in [S -> T] : Sol(f, n)
    OBVIOUS
  <2>. DEFINE g == [x \in S |-> IF M[x] < n THEN f[x] ELSE G[x][f]]
  <2>2. g \in [S -> T]
    BY DEF Recursion
  <2>3. ASSUME NEW x \in S, M[x] < n + 1 PROVE g[x] = G[x][g]
    <3>1. \A y \in S : M[y] < M[x] => f[y] = g[y]
      BY <1>0, <2>3
    <3>2. G[x][f] = G[x][g]
      BY <2>2, <3>1 DEF Recursion
    <3>3. g[x] = G[x][f]
      BY <2>1 DEF SolvesBelow
    <3>. QED BY <3>2, <3>3
  <2>4. Sol(g, n + 1)
    BY <2>3 DEF SolvesBelow
  <2>. QED BY <2>2, <2>4
<1>3. Steps = Nat
  <2>. HIDE DEF Steps
  <2>1. Steps \in SUBSET Nat
    BY DEF Steps
  <2>. QED BY <1>1, <1>2, <2>1, AllNumbers
<1>. DEFINE Upto(n) == CHOOSE f \in [S -> T] : Sol(f, n)
<1>4. ASSUME NEW n \in Nat PROVE Upto(n) \in [S -> T] /\ Sol(Upto(n), n)
  <2>1. \E f \in [S -> T] : Sol(f, n)
    BY <1>3
  <2>. HIDE DEF Sol
  <2>. QED BY <2>1
<1>. DEFINE F == [x \in S |-> Upto(M[x] + 1)[x]]
<1>5. F \in [S -> T]
  <2>. HIDE DEF Upto
  <2>. QED BY <1>0, <1>4
<1>6. ASSUME NEW n \in Nat, NEW x \in S, M[x] < n PROVE F[x] = Upto(n)[x]
  <2>1. M[x] + 1 \in Nat /\ M[x] < M[x] + 1 /\ M[x] + 1 <= n
    BY <1>0, <1>6
  <2>2. /\ Upto(n) \in [S -> T] /\ Upto(M[x] + 1) \in [S -> T]
        /\ Sol(Upto(n), n) /\ Sol(Upto(M[x] + 1), M[x] + 1)
    BY <1>4, <2>1
  <2>3. Sol(Upto(n), M[x] + 1)
    BY <1>0, <2>1, <2>2 DEF SolvesBelow
  <2>4. Upto(n)[x] = Upto(M[x] + 1)[x]
    <3>. HIDE DEF Upto
    <3>. QED BY <2>1, <2>2, <2>3, RecursionUnique
  <2>. QED BY <2>4
<1>7. ASSUME NEW x \in S PROVE F[x] = G[x][F]
  <2>. DEFINE f == Upto(M[x] + 1)
  <2>1. M[x] + 1 \in Nat /\ f \in [S -> T] /\ f[x] = G[x][f]
    <3>1. M[x] + 1 \in Nat /\ M[x] < M[x] + 1
      BY <1>0
    <3>. HIDE DEF Upto, F
    <3>2. f \in [S -> T] /\ Sol(f, M[x] + 1)
      BY <1>4, <3>1
    <3>. QED BY <3>1, <3>2 DEF SolvesBelow
  <2>2. \A y \in S : M[y] < M[x] => f[y] = F[y]
    <3>. HIDE DEF F, Upto
    <3>. QED BY <1>0, <1>6, <2>1
  <2>. HIDE DEF Upto
  <2>3. G[x][f] = G[x][F]
    <3>. HIDE DEF F, f
    <3>. QED BY <1>5, <2>1, <2>2 DEF Recursion
  <2>4. F[x] = f[x]
    OBVIOUS
  <2>. QED BY <2>1, <2>3, <2>4
<1>. QED BY <1>5, <1>7

-----------------------------------------------------------------------------
(* Sequences *)

\* A function over the first numbers is a sequence.
LEMMA FunctionIsSeq ==
    ASSUME NEW S, NEW n \in Nat, NEW f \in [1..n -> S]
    PROVE  f \in Seq(S) /\ Len(f) = n /\ DOMAIN f = 1..n
OBVIOUS

\* The empty sequence.
LEMMA EmptyIsSeq ==
    ASSUME NEW S
    PROVE  <<>> \in Seq(S) /\ Len(<<>>) = 0 /\ DOMAIN <<>> = {}
OBVIOUS

\* What a sequence is.
LEMMA SeqIs ==
    ASSUME NEW S, NEW s \in Seq(S)
    PROVE  /\ Len(s) \in Nat /\ DOMAIN s = 1..Len(s)
           /\ s \in [1..Len(s) -> S]
           /\ \A k \in DOMAIN s : s[k] \in S
           /\ s = [k \in DOMAIN s |-> s[k]]
           /\ s = <<>> <=> Len(s) = 0
OBVIOUS

\* One sequence after the other.
LEMMA ConcatIs ==
    ASSUME NEW S, NEW s \in Seq(S), NEW u \in Seq(S)
    PROVE  /\ s \o u \in Seq(S) /\ Len(s \o u) = Len(s) + Len(u)
           /\ DOMAIN (s \o u) = 1 .. Len(s) + Len(u)
           /\ \A k \in DOMAIN s : (s \o u)[k] = s[k]
           /\ \A k \in DOMAIN u : (s \o u)[Len(s) + k] = u[k]
           /\ \A k \in Len(s) + 1 .. Len(s) + Len(u) : (s \o u)[k] = u[k - Len(s)]
<1>1. Len(s) \in Nat /\ Len(u) \in Nat /\ DOMAIN s = 1..Len(s) /\ DOMAIN u = 1..Len(u)
    BY SeqIs
<1>2. /\ s \o u \in Seq(S) /\ Len(s \o u) = Len(s) + Len(u)
      /\ DOMAIN (s \o u) = 1 .. Len(s) + Len(u)
    OBVIOUS
<1>3. \A k \in 1 .. Len(s) + Len(u) :
        (s \o u)[k] = IF k <= Len(s) THEN s[k] ELSE u[k - Len(s)]
    OBVIOUS
<1>. QED BY <1>1, <1>2, <1>3

LEMMA FirstNumbers ==
    ASSUME NEW n \in Nat
    PROVE  IsFiniteSet(1..n) /\ Cardinality(1..n) = n
<1>1. /\ IsFiniteSet(1..n)
      /\ Cardinality(1..n) = IF 1 > n THEN 0 ELSE n - 1 + 1
    BY FS_Interval
<1>. QED BY <1>1

LEMMA IsBijection ==
    ASSUME NEW S, NEW T, NEW b \in [S -> T],
           \A x, y \in S : b[x] = b[y] => x = y,
           \A z \in T : \E x \in S : b[x] = z
    PROVE  b \in Bijection(S, T)
BY DEF Bijection, Injection, Surjection, IsInjective

LEMMA BijectionIs ==
    ASSUME NEW S, NEW T, NEW b \in Bijection(S, T)
    PROVE  /\ b \in [S -> T]
           /\ \A x, y \in S : b[x] = b[y] => x = y
           /\ \A z \in T : \E x \in S : b[x] = z
BY DEF Bijection, Injection, Surjection, IsInjective

\* Different ranks below the number of members: every rank is taken.
LEMMA RanksAreTaken ==
    ASSUME NEW S, IsFiniteSet(S), NEW r \in [S -> 0 .. Cardinality(S) - 1],
           \A x, y \in S : r[x] = r[y] => x = y
    PROVE  \A k \in 1 .. Cardinality(S) : \E x \in S : r[x] = k - 1
<1>. DEFINE n == Cardinality(S)
            T == 0 .. n - 1
<1>1. n \in Nat
    BY FS_CardinalityType
<1>2. IsFiniteSet(T) /\ Cardinality(T) = n
  <2>. HIDE DEF n
  <2>1. /\ IsFiniteSet(0 .. n - 1)
        /\ Cardinality(0 .. n - 1) = IF 0 > n - 1 THEN 0 ELSE (n - 1) - 0 + 1
    BY <1>1, FS_Interval
  <2>. QED BY <1>1, <2>1
<1>3. r \in Injection(S, T)
    BY DEF Injection, IsInjective
<1>4. r \in Surjection(S, T)
  <2>. HIDE DEF T
  <2>. QED BY <1>2, <1>3, FS_Injection
<1>. QED BY <1>1, <1>4 DEF Surjection

\* The numbers of S below i.
Below(S, i) == {j \in S : j < i}

LEMMA BelowIs ==
    ASSUME NEW S \in SUBSET Nat, IsFiniteSet(S), NEW i \in S
    PROVE  /\ Cardinality(Below(S, i)) \in 0 .. Cardinality(S) - 1
           /\ \A j \in S : j < i => Cardinality(Below(S, j)) < Cardinality(Below(S, i))
<1>1. \A j \in S : IsFiniteSet(Below(S, j)) /\ Cardinality(Below(S, j)) \in Nat
    BY FS_Subset, FS_CardinalityType DEF Below
<1>2. ASSUME NEW T, IsFiniteSet(T), NEW j \in S, j \in T, Below(S, j) \subseteq T
      PROVE  Cardinality(Below(S, j)) < Cardinality(T)
  <2>1. j \notin Below(S, j)
    BY DEF Below
  <2>2. Cardinality(Below(S, j) \cup {j}) = Cardinality(Below(S, j)) + 1
    BY <1>1, <2>1, FS_AddElement
  <2>3. Below(S, j) \cup {j} \in SUBSET T
    BY <1>2
  <2>4. Cardinality(Below(S, j) \cup {j}) <= Cardinality(T)
    BY <1>2, <2>3, FS_Subset
  <2>5. Cardinality(T) \in Nat
    BY <1>2, FS_CardinalityType
  <2>. QED BY <1>1, <2>2, <2>4, <2>5
<1>3. Cardinality(Below(S, i)) < Cardinality(S)
  <2>1. Below(S, i) \subseteq S
    BY DEF Below
  <2>. QED BY <1>2, <2>1
<1>4. ASSUME NEW j \in S, j < i
      PROVE  Cardinality(Below(S, j)) < Cardinality(Below(S, i))
  <2>1. j \in Below(S, i) /\ Below(S, j) \subseteq Below(S, i)
    <3>1. \A x \in S : x \in Int
      OBVIOUS
    <3>2. ASSUME NEW x \in Below(S, j) PROVE x \in Below(S, i)
      <4>1. x \in S /\ x < j
        BY DEF Below
      <4>2. x < i
        BY <1>4, <3>1, <4>1
      <4>. QED BY <4>1, <4>2 DEF Below
    <3>. QED BY <1>4, <3>2 DEF Below
  <2>. QED BY <1>1, <1>2, <2>1
<1>5. Cardinality(S) \in Nat
    BY FS_CardinalityType
<1>. QED BY <1>1, <1>3, <1>4, <1>5

\* Ascending gives every member of S once, in ascending order.
LEMMA AscendingIs ==
    ASSUME NEW S \in SUBSET Nat, IsFiniteSet(S)
    PROVE  /\ Cardinality(S) \in Nat
           /\ Ascending(S) \in Bijection(1 .. Cardinality(S), S)
           /\ Ascending(S) \in Seq(S)
           /\ \A j, k \in 1 .. Cardinality(S) : j < k => Ascending(S)[j] < Ascending(S)[k]
<1>. DEFINE r == [i \in S |-> Cardinality(Below(S, i))]
            n == Cardinality(S)
            A == Ascending(S)
<1>1. n \in Nat
    BY FS_CardinalityType
<1>2. r \in [S -> 0 .. n - 1] /\ \A x, y \in S : x < y => r[x] < r[y]
    BY BelowIs
<1>3. \A x, y \in S : r[x] = r[y] => x = y
  <2>. HIDE DEF r, n
  <2>1. \A x \in S : x \in Nat /\ r[x] \in Int
    BY <1>1, <1>2
  <2>. QED BY <1>2, <2>1
<1>4. \A k \in 1..n : \E x \in S : r[x] = k - 1
  <2>. HIDE DEF r
  <2>. QED BY <1>2, <1>3, RanksAreTaken
<1>5. DOMAIN A = 1..n /\ A = [k \in 1..n |-> A[k]]
  <2>. DEFINE F(k) == CHOOSE i \in S : Cardinality({j \in S : j < i}) = k - 1
  <2>1. A = [k \in 1..n |-> F(k)]
    BY DEF Ascending
  <2>. HIDE DEF F, A
  <2>. QED BY <2>1
<1>6. ASSUME NEW k \in 1..n PROVE A[k] \in S /\ r[A[k]] = k - 1
  <2>. DEFINE P(i) == Cardinality({j \in S : j < i}) = k - 1
  <2>1. \E i \in S : P(i)
    BY <1>4 DEF Below
  <2>2. A[k] = CHOOSE i \in S : P(i)
    BY DEF Ascending
  <2>3. A[k] \in S /\ P(A[k])
    <3>. HIDE DEF P, A
    <3>. QED BY <2>1, <2>2
  <2>. HIDE DEF A
  <2>. QED BY <2>3 DEF Below
<1>. HIDE DEF r, A
<1>7. A \in [1..n -> S]
    BY <1>5, <1>6
<1>8. ASSUME NEW x \in S PROVE \E k \in 1..n : A[k] = x
  <2>1. r[x] + 1 \in 1..n /\ (r[x] + 1) - 1 = r[x]
    BY <1>1, <1>2
  <2>2. A[r[x] + 1] \in S /\ r[A[r[x] + 1]] = r[x]
    BY <1>6, <2>1
  <2>. QED BY <1>3, <2>1, <2>2
<1>9. \A j, k \in 1..n : A[j] = A[k] => j = k
  <2>1. ASSUME NEW j \in 1..n, NEW k \in 1..n, A[j] = A[k] PROVE j = k
    <3>1. j - 1 = k - 1
      BY <1>6, <2>1
    <3>. QED BY <3>1
  <2>. QED BY <2>1
<1>10. A \in Bijection(1..n, S)
    BY <1>7, <1>8, <1>9, IsBijection
<1>11. ASSUME NEW j \in 1..n, NEW k \in 1..n, j < k PROVE A[j] < A[k]
  <2>1. A[j] \in S /\ A[k] \in S /\ r[A[j]] = j - 1 /\ r[A[k]] = k - 1
    BY <1>6
  <2>2. A[j] \in Nat /\ A[k] \in Nat
    BY <2>1
  <2>3. ~(A[k] < A[j])
    <3>. SUFFICES ASSUME A[k] < A[j] PROVE FALSE
      OBVIOUS
    <3>1. r[A[k]] < r[A[j]]
      BY <1>2, <2>1
    <3>. QED BY <1>11, <2>1, <3>1
  <2>4. A[j] # A[k]
    BY <1>9, <1>11
  <2>. QED BY <2>2, <2>3, <2>4
<1>12. A \in Seq(S)
    BY <1>1, <1>7, FunctionIsSeq
<1>. QED BY <1>1, <1>10, <1>11, <1>12 DEF A

\* ItemsAt gives the items of a sequence that stand at S, each once.
LEMMA ItemsAtIs ==
    ASSUME NEW T, NEW s \in Seq(T), NEW S \in SUBSET DOMAIN s
    PROVE  /\ IsFiniteSet(S) /\ Cardinality(S) \in Nat
           /\ ItemsAt(s, S) \in Seq(T) /\ Len(ItemsAt(s, S)) = Cardinality(S)
           /\ DOMAIN ItemsAt(s, S) = 1 .. Cardinality(S)
           /\ Ascending(S) \in Bijection(1 .. Cardinality(S), S)
           /\ \A k \in 1 .. Cardinality(S) :
                Ascending(S)[k] \in S /\ ItemsAt(s, S)[k] = s[Ascending(S)[k]]
<1>1. Len(s) \in Nat /\ DOMAIN s = 1..Len(s) /\ S \in SUBSET Nat
    BY SeqIs
<1>2. IsFiniteSet(S)
  <2>1. IsFiniteSet(1..Len(s))
    BY <1>1, FS_Interval
  <2>. QED BY <1>1, <2>1, FS_Subset
<1>3. /\ Cardinality(S) \in Nat
      /\ Ascending(S) \in Bijection(1 .. Cardinality(S), S)
    BY <1>1, <1>2, AscendingIs
<1>4. \A k \in 1 .. Cardinality(S) : Ascending(S)[k] \in S
    BY <1>3, BijectionIs
<1>5. ItemsAt(s, S) \in [1 .. Cardinality(S) -> T]
    BY <1>4, SeqIs DEF ItemsAt
<1>6. \A k \in 1 .. Cardinality(S) : ItemsAt(s, S)[k] = s[Ascending(S)[k]]
    BY DEF ItemsAt
<1>. QED BY <1>2, <1>3, <1>4, <1>5, <1>6, FunctionIsSeq

-----------------------------------------------------------------------------
(* Sequences with the same items in another order *)

Shuffled(s, u) == \E b \in Bijection(DOMAIN s, DOMAIN u) : \A i \in DOMAIN s : s[i] = u[b[i]]

LEMMA ShuffledSame ==
    ASSUME NEW s
    PROVE  Shuffled(s, s)
<1>. DEFINE b == [i \in DOMAIN s |-> i]
<1>1. b \in Bijection(DOMAIN s, DOMAIN s)
  <2>1. b \in [DOMAIN s -> DOMAIN s]
    OBVIOUS
  <2>. QED BY <2>1, IsBijection
<1>2. \A i \in DOMAIN s : s[i] = s[b[i]]
    OBVIOUS
<1>. HIDE DEF b
<1>. QED BY <1>1, <1>2 DEF Shuffled

LEMMA ShuffledBack ==
    ASSUME NEW s, NEW u, Shuffled(s, u)
    PROVE  Shuffled(u, s)
<1>1. PICK b \in Bijection(DOMAIN s, DOMAIN u) : \A i \in DOMAIN s : s[i] = u[b[i]]
    BY DEF Shuffled
<1>. DEFINE c == [j \in DOMAIN u |-> CHOOSE i \in DOMAIN s : b[i] = j]
<1>2. /\ b \in [DOMAIN s -> DOMAIN u]
      /\ \A x, y \in DOMAIN s : b[x] = b[y] => x = y
      /\ \A z \in DOMAIN u : \E x \in DOMAIN s : b[x] = z
    BY BijectionIs
<1>3. \A j \in DOMAIN u : c[j] \in DOMAIN s /\ b[c[j]] = j
    BY <1>2
<1>4. c \in [DOMAIN u -> DOMAIN s]
    BY <1>3
<1>. HIDE DEF c
<1>5. \A i \in DOMAIN s : c[b[i]] = i
    BY <1>2, <1>3
<1>6. c \in Bijection(DOMAIN u, DOMAIN s)
  <2>1. \A x, y \in DOMAIN u : c[x] = c[y] => x = y
    BY <1>3
  <2>2. \A z \in DOMAIN s : \E x \in DOMAIN u : c[x] = z
    BY <1>2, <1>5
  <2>. QED BY <1>4, <2>1, <2>2, IsBijection
<1>7. \A j \in DOMAIN u : u[j] = s[c[j]]
    BY <1>1, <1>3
<1>. QED BY <1>6, <1>7 DEF Shuffled

LEMMA ShuffledTwice ==
    ASSUME NEW s, NEW u, NEW v, Shuffled(s, u), Shuffled(u, v)
    PROVE  Shuffled(s, v)
<1>1. PICK b \in Bijection(DOMAIN s, DOMAIN u) : \A i \in DOMAIN s : s[i] = u[b[i]]
    BY DEF Shuffled
<1>2. PICK c \in Bijection(DOMAIN u, DOMAIN v) : \A i \in DOMAIN u : u[i] = v[c[i]]
    BY DEF Shuffled
<1>3. /\ b \in [DOMAIN s -> DOMAIN u]
      /\ \A x, y \in DOMAIN s : b[x] = b[y] => x = y
      /\ \A z \in DOMAIN u : \E x \in DOMAIN s : b[x] = z
    BY BijectionIs
<1>4. /\ c \in [DOMAIN u -> DOMAIN v]
      /\ \A x, y \in DOMAIN u : c[x] = c[y] => x = y
      /\ \A z \in DOMAIN v : \E x \in DOMAIN u : c[x] = z
    BY BijectionIs
<1>. DEFINE d == [i \in DOMAIN s |-> c[b[i]]]
<1>5. d \in [DOMAIN s -> DOMAIN v]
    BY <1>3, <1>4
<1>6. \A i \in DOMAIN s : d[i] = c[b[i]] /\ b[i] \in DOMAIN u
    BY <1>3
<1>. HIDE DEF d
<1>7. \A x, y \in DOMAIN s : d[x] = d[y] => x = y
    BY <1>3, <1>4, <1>6
<1>8. \A z \in DOMAIN v : \E x \in DOMAIN s : d[x] = z
  <2>1. ASSUME NEW z \in DOMAIN v PROVE \E x \in DOMAIN s : d[x] = z
    <3>1. PICK y \in DOMAIN u : c[y] = z
      BY <1>4
    <3>2. PICK x \in DOMAIN s : b[x] = y
      BY <1>3
    <3>. QED BY <1>6, <3>1, <3>2
  <2>. QED BY <2>1
<1>9. d \in Bijection(DOMAIN s, DOMAIN v)
    BY <1>5, <1>7, <1>8, IsBijection
<1>10. \A i \in DOMAIN s : s[i] = v[d[i]]
    BY <1>1, <1>2, <1>6
<1>. QED BY <1>9, <1>10 DEF Shuffled

\* Shuffled sequences are equally long.
LEMMA ShuffledLength ==
    ASSUME NEW S, NEW s \in Seq(S), NEW u \in Seq(S), Shuffled(s, u)
    PROVE  Len(s) = Len(u)
<1>1. /\ Len(s) \in Nat /\ DOMAIN s = 1..Len(s)
      /\ Len(u) \in Nat /\ DOMAIN u = 1..Len(u)
    BY SeqIs
<1>2. ExistsBijection(1..Len(s), 1..Len(u))
    BY <1>1 DEF Shuffled, ExistsBijection
<1>3. Cardinality(1..Len(u)) = Len(s)
    BY <1>1, <1>2, FS_CountingElements
<1>4. Cardinality(1..Len(u)) = Len(u)
    BY <1>1, FirstNumbers
<1>. QED BY <1>3, <1>4

\* Sequences are shuffled when what they are put together from is.
LEMMA ShuffledConcat ==
    ASSUME NEW S, NEW s \in Seq(S), NEW u \in Seq(S), NEW v \in Seq(S), NEW w \in Seq(S),
           Shuffled(s, u), Shuffled(v, w)
    PROVE  Shuffled(s \o v, u \o w)
<1>1. PICK b \in Bijection(DOMAIN s, DOMAIN u) : \A i \in DOMAIN s : s[i] = u[b[i]]
    BY DEF Shuffled
<1>2. PICK c \in Bijection(DOMAIN v, DOMAIN w) : \A i \in DOMAIN v : v[i] = w[c[i]]
    BY DEF Shuffled
<1>3. /\ b \in [DOMAIN s -> DOMAIN u]
      /\ \A x, y \in DOMAIN s : b[x] = b[y] => x = y
      /\ \A z \in DOMAIN u : \E x \in DOMAIN s : b[x] = z
    BY BijectionIs
<1>4. /\ c \in [DOMAIN v -> DOMAIN w]
      /\ \A x, y \in DOMAIN v : c[x] = c[y] => x = y
      /\ \A z \in DOMAIN w : \E x \in DOMAIN v : c[x] = z
    BY BijectionIs
<1>5. /\ Len(s) = Len(u) /\ Len(v) = Len(w)
      /\ Len(s) \in Nat /\ DOMAIN s = 1..Len(s) /\ DOMAIN u = 1..Len(s)
      /\ Len(v) \in Nat /\ DOMAIN v = 1..Len(v) /\ DOMAIN w = 1..Len(v)
    BY ShuffledLength, SeqIs
<1>. DEFINE D == 1 .. Len(s) + Len(v)
            d == [i \in D |-> IF i <= Len(s) THEN b[i] ELSE Len(s) + c[i - Len(s)]]
<1>6. /\ DOMAIN (s \o v) = D /\ DOMAIN (u \o w) = D
      /\ \A i \in D : (s \o v)[i] = IF i <= Len(s) THEN s[i] ELSE v[i - Len(s)]
      /\ \A i \in D : (u \o w)[i] = IF i <= Len(s) THEN u[i] ELSE w[i - Len(s)]
    BY <1>5
<1>7. \A i \in D : /\ i <= Len(s) => i \in DOMAIN s /\ b[i] \in 1 .. Len(s)
                   /\ i > Len(s) => i - Len(s) \in DOMAIN v /\ c[i - Len(s)] \in 1 .. Len(v)
  <2>1. ASSUME NEW i \in D, i <= Len(s)
        PROVE  i \in DOMAIN s /\ b[i] \in 1 .. Len(s)
    <3>1. i \in DOMAIN s
      BY <1>5, <2>1
    <3>. QED BY <1>3, <1>5, <3>1
  <2>2. ASSUME NEW i \in D, i > Len(s)
        PROVE  i - Len(s) \in DOMAIN v /\ c[i - Len(s)] \in 1 .. Len(v)
    <3>1. i - Len(s) \in DOMAIN v
      BY <1>5, <2>2
    <3>. QED BY <1>4, <1>5, <3>1
  <2>. QED BY <2>1, <2>2
<1>8. d \in [D -> D]
  <2>1. ASSUME NEW i \in D PROVE d[i] \in D
    <3>1. CASE i <= Len(s)
      <4>1. d[i] = b[i] /\ b[i] \in 1 .. Len(s)
        BY <1>7, <3>1
      <4>. QED BY <1>5, <4>1
    <3>2. CASE ~(i <= Len(s))
      <4>1. i > Len(s)
        BY <1>5, <3>2
      <4>2. d[i] = Len(s) + c[i - Len(s)] /\ c[i - Len(s)] \in 1 .. Len(v)
        BY <1>7, <3>2, <4>1
      <4>. QED BY <1>5, <4>2
    <3>. QED BY <3>1, <3>2
  <2>. QED BY <2>1
<1>9. \A i \in D : d[i] = IF i <= Len(s) THEN b[i] ELSE Len(s) + c[i - Len(s)]
    OBVIOUS
<1>10. \A i \in D : d[i] <= Len(s) <=> i <= Len(s)
  <2>1. ASSUME NEW i \in D, i <= Len(s) PROVE d[i] <= Len(s)
    <3>1. d[i] = b[i] /\ b[i] \in 1 .. Len(s)
      BY <1>7, <1>9, <2>1
    <3>. QED BY <1>5, <3>1
  <2>2. ASSUME NEW i \in D, ~(i <= Len(s)) PROVE ~(d[i] <= Len(s))
    <3>1. i > Len(s)
      BY <1>5, <2>2
    <3>2. d[i] = Len(s) + c[i - Len(s)] /\ c[i - Len(s)] \in 1 .. Len(v)
      BY <1>7, <1>9, <2>2, <3>1
    <3>. QED BY <1>5, <3>2
  <2>. QED BY <2>1, <2>2
<1>. HIDE DEF d
<1>11. ASSUME NEW x \in D, NEW y \in D, d[x] = d[y] PROVE x = y
  <2>1. CASE x <= Len(s)
    <3>1. y <= Len(s)
      BY <1>10, <1>11, <2>1
    <3>. QED BY <1>3, <1>7, <1>9, <1>11, <2>1, <3>1
  <2>2. CASE ~(x <= Len(s))
    <3>1. ~(y <= Len(s))
      BY <1>10, <1>11, <2>2
    <3>2. /\ x - Len(s) \in DOMAIN v /\ y - Len(s) \in DOMAIN v
          /\ c[x - Len(s)] \in Int /\ c[y - Len(s)] \in Int
      BY <1>5, <1>7, <2>2, <3>1
    <3>3. c[x - Len(s)] = c[y - Len(s)]
      BY <1>5, <1>9, <1>11, <2>2, <3>1, <3>2
    <3>4. x - Len(s) = y - Len(s)
      BY <1>4, <3>2, <3>3
    <3>. QED BY <1>5, <3>4
  <2>. QED BY <2>1, <2>2
<1>12. ASSUME NEW z \in D PROVE \E x \in D : d[x] = z
  <2>1. CASE z <= Len(s)
    <3>0. z \in DOMAIN u
      BY <1>5, <2>1
    <3>1. PICK x \in DOMAIN s : b[x] = z
      BY <1>3, <3>0
    <3>2. x \in D /\ x <= Len(s)
      BY <1>5
    <3>. QED BY <1>9, <3>1, <3>2
  <2>2. CASE ~(z <= Len(s))
    <3>1. z - Len(s) \in DOMAIN w
      BY <1>5, <2>2
    <3>2. PICK x \in DOMAIN v : c[x] = z - Len(s)
      BY <1>4, <3>1
    <3>3. Len(s) + x \in D /\ ~(Len(s) + x <= Len(s)) /\ (Len(s) + x) - Len(s) = x
      BY <1>5
    <3>4. d[Len(s) + x] = Len(s) + (z - Len(s))
      BY <1>9, <3>2, <3>3
    <3>. QED BY <1>5, <3>3, <3>4
  <2>. QED BY <2>1, <2>2
<1>13. d \in Bijection(D, D)
    BY <1>8, <1>11, <1>12, IsBijection
<1>14. ASSUME NEW i \in D PROVE (s \o v)[i] = (u \o w)[d[i]]
  <2>1. CASE i <= Len(s)
    <3>1. d[i] = b[i] /\ d[i] \in D /\ d[i] <= Len(s) /\ i \in DOMAIN s
      BY <1>7, <1>8, <1>9, <1>10, <2>1
    <3>. QED BY <1>1, <1>6, <2>1, <3>1
  <2>2. CASE ~(i <= Len(s))
    <3>1. /\ i - Len(s) \in DOMAIN v /\ c[i - Len(s)] \in Int
          /\ d[i] = Len(s) + c[i - Len(s)] /\ d[i] \in D /\ ~(d[i] <= Len(s))
      BY <1>5, <1>7, <1>8, <1>9, <1>10, <2>2
    <3>2. d[i] - Len(s) = c[i - Len(s)]
      BY <1>5, <3>1
    <3>. QED BY <1>2, <1>6, <2>2, <3>1, <3>2
  <2>. QED BY <2>1, <2>2
<1>. HIDE DEF D
<1>. QED BY <1>6, <1>13, <1>14, ZenonT(60) DEF Shuffled

\* Induction up to a number.
LEMMA Upto ==
    ASSUME NEW n \in Nat, NEW P, 0 \in P, \A i \in 1..n : i - 1 \in P => i \in P
    PROVE  \A i \in 0..n : i \in P
<1>. DEFINE D == {i \in 0..n : i \notin P}
<1>. SUFFICES ASSUME D # {} PROVE FALSE
    OBVIOUS
<1>1. PICK x \in D : \A y \in D : x <= y
  <2>1. D \in SUBSET Nat
    OBVIOUS
  <2>. HIDE DEF D
  <2>. QED BY <2>1, LeastNumber
<1>2. x \in 1..n /\ x - 1 \in 0..n /\ x - 1 \notin D
    BY <1>1
<1>. QED BY <1>2

\* A function of which every value is made from the one before it.
Chain(n, T, a, G, f) ==
    f \in [0..n -> T] /\ f[0] = a /\ \A i \in 1..n : f[i] = G[i][f[i - 1]]

LEMMA ChainExists ==
    ASSUME NEW n \in Nat, NEW T, NEW a \in T, NEW G \in [1..n -> [T -> T]]
    PROVE  \E f : Chain(n, T, a, G, f)
<1>. DEFINE S == 0..n
            M == [i \in S |-> i]
            H == [i \in S |-> [f \in [S -> T] |-> IF i = 0 THEN a ELSE G[i][f[i - 1]]]]
<1>1. Recursion(S, T, M, H)
  <2>1. M \in [S -> Nat]
    OBVIOUS
  <2>2. ASSUME NEW i \in S, NEW f \in [S -> T]
        PROVE  (IF i = 0 THEN a ELSE G[i][f[i - 1]]) \in T
    <3>1. CASE i = 0
      BY <3>1
    <3>2. CASE i # 0
      <4>1. i \in 1..n /\ i - 1 \in S
        BY <3>2
      <4>. QED BY <4>1
    <3>. QED BY <3>1, <3>2
  <2>3. H \in [S -> [[S -> T] -> T]]
    <3>. HIDE DEF S
    <3>. QED BY <2>2
  <2>4. ASSUME NEW x \in S, NEW f \in [S -> T], NEW g \in [S -> T],
               \A y \in S : M[y] < M[x] => f[y] = g[y]
        PROVE  H[x][f] = H[x][g]
    <3>1. CASE x = 0
      BY <3>1
    <3>2. CASE x # 0
      <4>1. x - 1 \in S /\ M[x - 1] < M[x]
        BY <3>2
      <4>2. f[x - 1] = g[x - 1]
        BY <2>4, <4>1
      <4>. HIDE DEF S, M
      <4>. QED BY <4>2
    <3>. QED BY <3>1, <3>2
  <2>. HIDE DEF S, M, H
  <2>. QED BY <2>1, <2>3, <2>4 DEF Recursion
<1>2. PICK f \in [S -> T] : \A x \in S : f[x] = H[x][f]
  <2>. HIDE DEF S, M, H
  <2>. QED BY <1>1, RecursionExists
<1>3. f[0] = a
    BY <1>2
<1>4. ASSUME NEW i \in 1..n PROVE f[i] = G[i][f[i - 1]]
  <2>1. i \in S /\ i # 0
    OBVIOUS
  <2>2. f[i] = H[i][f]
    BY <1>2, <2>1
  <2>. HIDE DEF S
  <2>. QED BY <2>1, <2>2
<1>. QED BY <1>2, <1>3, <1>4 DEF Chain

-----------------------------------------------------------------------------
(* Sequences put together *)

\* f holds what the first sequences of ss give together.
Concats(ss, S, f) ==
    /\ f \in [0 .. Len(ss) -> Seq(S)]
    /\ f[0] = <<>> /\ f[Len(ss)] = FlattenSeq(ss)
    /\ \A i \in 1 .. Len(ss) : f[i] = f[i - 1] \o ss[i]

LEMMA FlattenIs ==
    ASSUME NEW S, NEW ss \in Seq(Seq(S))
    PROVE  \E f : Concats(ss, S, f)
<1>. DEFINE n == Len(ss)
            T == Seq(S)
            G == [i \in 1..n |-> [t \in T |-> t \o ss[i]]]
            Eq(h) == h = [i \in 1..n |-> IF i = 1 THEN ss[i] ELSE h[i - 1] \o ss[i]]
            flat == CHOOSE h : Eq(h)
<1>1. n \in Nat /\ <<>> \in T /\ \A i \in 1..n : ss[i] \in T
    OBVIOUS
<1>2. G \in [1..n -> [T -> T]]
  <2>1. \A i \in 1..n : \A t \in T : t \o ss[i] \in T
    BY <1>1
  <2>. HIDE DEF T, n
  <2>. QED BY <2>1
<1>3. PICK g \in [0..n -> T] : g[0] = <<>> /\ \A i \in 1..n : g[i] = G[i][g[i - 1]]
  <2>. DEFINE e == <<>>
  <2>1. e \in T
    BY <1>1
  <2>2. \E h : Chain(n, T, e, G, h)
    <3>1. n \in Nat
      BY <1>1
    <3>. HIDE DEF T, n, G, e
    <3>. QED BY <1>2, <2>1, <3>1, ChainExists
  <2>. HIDE DEF T, n, G
  <2>. QED BY <2>2 DEF Chain
<1>4. ASSUME NEW i \in 1..n PROVE g[i - 1] \in T /\ g[i] = g[i - 1] \o ss[i]
  <2>1. i - 1 \in 0..n
    BY <1>1
  <2>2. g[i - 1] \in T
    BY <1>3, <2>1
  <2>3. g[i] = G[i][g[i - 1]]
    BY <1>3
  <2>. HIDE DEF T, n
  <2>. QED BY <2>2, <2>3
<1>5. \A t \in T : <<>> \o t = t
    OBVIOUS
<1>6. \E h : Eq(h)
  <2>. DEFINE h == [i \in 1..n |-> g[i]]
  <2>1. ASSUME NEW i \in 1..n
        PROVE  h[i] = IF i = 1 THEN ss[i] ELSE h[i - 1] \o ss[i]
    <3>1. CASE i = 1
      <4>1. i - 1 = 0 /\ g[i - 1] = <<>>
        BY <1>3, <3>1
      <4>2. g[i] = <<>> \o ss[i] /\ ss[i] \in T
        BY <1>1, <1>4, <4>1
      <4>3. g[i] = ss[i]
        BY <1>5, <4>2
      <4>. QED BY <3>1, <4>3
    <3>2. CASE i # 1
      <4>1. i - 1 \in 1..n
        BY <1>1, <3>2
      <4>. QED BY <1>4, <3>2, <4>1
    <3>. QED BY <3>1, <3>2
  <2>2. Eq(h)
    <3>. HIDE DEF n
    <3>. QED BY <2>1
  <2>. HIDE DEF h, Eq
  <2>. QED BY <2>2
<1>7. Eq(flat)
  <2>. HIDE DEF Eq
  <2>. QED BY <1>6
<1>8. FlattenSeq(ss) = IF n = 0 THEN ss ELSE flat[n]
    BY DEF FlattenSeq
<1>9. ss = <<>> <=> n = 0
    OBVIOUS
<1>. HIDE DEF flat
<1>10. \A i \in 1..n : flat[i] = IF i = 1 THEN ss[i] ELSE flat[i - 1] \o ss[i]
    BY <1>7
<1>. HIDE DEF G, Eq, n, T
<1>11. \A i \in 1..n : flat[i] = g[i]
  <2>. DEFINE P == {0} \cup {i \in 1..n : flat[i] = g[i]}
  <2>1. ASSUME NEW i \in 1..n, i - 1 \in P PROVE i \in P
    <3>1. CASE i = 1
      <4>1. i - 1 = 0 /\ g[i - 1] = <<>>
        BY <1>3, <3>1
      <4>2. g[i] = <<>> \o ss[i] /\ ss[i] \in T
        BY <1>1, <1>4, <4>1
      <4>3. g[i] = ss[i]
        BY <1>5, <4>2
      <4>. QED BY <1>10, <3>1, <4>3
    <3>2. CASE i # 1
      <4>1. i - 1 \in 1..n /\ i - 1 # 0
        BY <1>1, <3>2
      <4>. QED BY <1>4, <1>10, <2>1, <3>2, <4>1
    <3>. QED BY <3>1, <3>2
  <2>2. 0 \in P
    OBVIOUS
  <2>3. \A i \in 0..n : i \in P
    <3>. HIDE DEF P
    <3>. QED BY <1>1, <2>1, <2>2, Upto
  <2>. QED BY <1>1, <2>3
<1>12. g[n] = FlattenSeq(ss)
  <2>1. CASE n = 0
    BY <1>3, <1>8, <1>9, <2>1
  <2>2. CASE n # 0
    <3>1. n \in 1..n
      BY <1>1, <2>2
    <3>. QED BY <1>8, <1>11, <2>2, <3>1
  <2>. QED BY <2>1, <2>2
<1>13. Concats(ss, S, g)
    BY <1>3, <1>4, <1>12 DEF Concats, n, T
<1>. QED BY <1>13

LEMMA FlattenTyped ==
    ASSUME NEW S, NEW ss \in Seq(Seq(S))
    PROVE  FlattenSeq(ss) \in Seq(S)
<1>1. PICK f : Concats(ss, S, f)
    BY FlattenIs
<1>2. Len(ss) \in 0 .. Len(ss)
    OBVIOUS
<1>. QED BY <1>1, <1>2 DEF Concats

\* Every item is an item of one of the sequences.
LEMMA FlattenItems ==
    ASSUME NEW S, NEW ss \in Seq(Seq(S)), NEW Good,
           \A i \in DOMAIN ss : \A j \in DOMAIN ss[i] : ss[i][j] \in Good
    PROVE  \A k \in DOMAIN FlattenSeq(ss) : FlattenSeq(ss)[k] \in Good
<1>1. PICK f : Concats(ss, S, f)
    BY FlattenIs
<1>. DEFINE P == {i \in 0 .. Len(ss) : \A k \in DOMAIN f[i] : f[i][k] \in Good}
<1>2. Len(ss) \in Nat /\ DOMAIN ss = 1 .. Len(ss)
    BY SeqIs
<1>3. 0 \in P
    BY <1>1, <1>2, EmptyIsSeq DEF Concats
<1>4. ASSUME NEW i \in 1 .. Len(ss), i - 1 \in P PROVE i \in P
  <2>1. f[i - 1] \in Seq(S) /\ ss[i] \in Seq(S) /\ f[i] = f[i - 1] \o ss[i]
    <3>1. i - 1 \in 0 .. Len(ss) /\ i \in DOMAIN ss
      BY <1>2
    <3>2. ss[i] \in Seq(S)
      BY <3>1, SeqIs
    <3>. QED BY <1>1, <3>1, <3>2 DEF Concats
  <2>2. /\ \A k \in DOMAIN f[i - 1] : f[i - 1][k] \in Good
        /\ \A k \in DOMAIN ss[i] : ss[i][k] \in Good
    BY <1>2, <1>4
  <2>3. /\ Len(f[i - 1]) \in Nat /\ DOMAIN f[i - 1] = 1 .. Len(f[i - 1])
        /\ Len(ss[i]) \in Nat /\ DOMAIN ss[i] = 1 .. Len(ss[i])
    BY <2>1, SeqIs
  <2>4. ASSUME NEW k \in DOMAIN f[i] PROVE f[i][k] \in Good
    <3>. DEFINE s == f[i - 1]
                u == ss[i]
    <3>1. /\ DOMAIN (s \o u) = 1 .. Len(s) + Len(u)
          /\ \A m \in DOMAIN s : (s \o u)[m] = s[m]
          /\ \A m \in Len(s) + 1 .. Len(s) + Len(u) : (s \o u)[m] = u[m - Len(s)]
      <4>. HIDE DEF s, u
      <4>1. s \in Seq(S) /\ u \in Seq(S)
        BY <2>1 DEF s, u
      <4>. QED BY <4>1, ConcatIs, ZenonT(60)
    <3>2. CASE k \in DOMAIN s
      BY <2>1, <2>2, <3>1, <3>2
    <3>3. CASE k \notin DOMAIN s
      <4>1. k \in Len(s) + 1 .. Len(s) + Len(u) /\ k - Len(s) \in DOMAIN u
        <5>1. k \in 1 .. Len(s) + Len(u) /\ ~(k \in 1 .. Len(s))
          BY <2>1, <2>3, <2>4, <3>1, <3>3
        <5>2. DOMAIN u = 1 .. Len(u) /\ Len(u) \in Nat /\ Len(s) \in Nat
          BY <2>3
        <5>. HIDE DEF s, u
        <5>. QED BY <5>1, <5>2
      <4>. QED BY <2>1, <2>2, <3>1, <4>1
    <3>. QED BY <3>2, <3>3
  <2>. QED BY <2>4
<1>5. \A i \in 0 .. Len(ss) : i \in P
  <2>. HIDE DEF P
  <2>. QED BY <1>2, <1>3, <1>4, Upto
<1>6. Len(ss) \in P
    BY <1>2, <1>5
<1>. QED BY <1>1, <1>6 DEF Concats

\* The items of the sequences in ss, by their places.
Cells(ss) == {c \in Nat \X Nat : c[1] \in DOMAIN ss /\ c[2] \in DOMAIN ss[c[1]]}
Table(ss) == [c \in Cells(ss) |-> ss[c[1]][c[2]]]

\* What the prefixes have between them.
PrefixFacts(ss, S, f, i) ==
           /\ i \in DOMAIN ss /\ i - 1 \in 0 .. Len(ss) /\ i \in 0 .. Len(ss)
           /\ ss[i] \in Seq(S) /\ f[i - 1] \in Seq(S) /\ f[i] \in Seq(S)
           /\ Len(ss[i]) \in Nat /\ Len(f[i - 1]) \in Nat
           /\ DOMAIN ss[i] = 1 .. Len(ss[i]) /\ DOMAIN f[i - 1] = 1 .. Len(f[i - 1])
           /\ Len(f[i]) = Len(f[i - 1]) + Len(ss[i]) /\ DOMAIN f[i] = 1 .. Len(f[i])
           /\ \A k \in DOMAIN f[i - 1] : f[i][k] = f[i - 1][k]
           /\ \A k \in DOMAIN ss[i] : f[i][Len(f[i - 1]) + k] = ss[i][k]

LEMMA PrefixStep ==
    ASSUME NEW S, NEW ss \in Seq(Seq(S)), NEW f, Concats(ss, S, f), NEW i \in 1 .. Len(ss)
    PROVE  PrefixFacts(ss, S, f, i)
<1>1. Len(ss) \in Nat /\ DOMAIN ss = 1 .. Len(ss)
    BY SeqIs
<1>2. i \in DOMAIN ss /\ i - 1 \in 0 .. Len(ss) /\ i \in 0 .. Len(ss)
    BY <1>1
<1>3. ss[i] \in Seq(S)
    BY <1>2, SeqIs
<1>4. f[i - 1] \in Seq(S) /\ f[i] = f[i - 1] \o ss[i] /\ f[i] \in Seq(S)
    BY <1>2 DEF Concats
<1>. DEFINE s == f[i - 1]
            u == ss[i]
<1>5. s \in Seq(S) /\ u \in Seq(S) /\ f[i] = s \o u
    BY <1>3, <1>4
<1>. HIDE DEF s, u
<1>6. /\ Len(s) \in Nat /\ Len(u) \in Nat
      /\ DOMAIN s = 1 .. Len(s) /\ DOMAIN u = 1 .. Len(u)
    BY <1>5, SeqIs
<1>7. /\ Len(s \o u) = Len(s) + Len(u)
      /\ DOMAIN (s \o u) = 1 .. Len(s) + Len(u)
      /\ \A k \in DOMAIN s : (s \o u)[k] = s[k]
      /\ \A k \in DOMAIN u : (s \o u)[Len(s) + k] = u[k]
    BY <1>5, ConcatIs
<1>. USE DEF s, u
<1>. QED BY <1>2, <1>3, <1>4, <1>5, <1>6, <1>7 DEF PrefixFacts

\* A function that never descends.
LEMMA Ascends ==
    ASSUME NEW n \in Nat, NEW g \in [0..n -> Nat], \A k \in 1..n : g[k - 1] <= g[k],
           NEW i \in 0..n, NEW j \in 0..n, i <= j
    PROVE  g[i] <= g[j]
<1>. DEFINE P == {k \in 0..n : i <= k => g[i] <= g[k]}
<1>1. 0 \in P
    OBVIOUS
<1>2. ASSUME NEW k \in 1..n, k - 1 \in P PROVE k \in P
    BY <1>2
<1>3. \A k \in 0..n : k \in P
  <2>. HIDE DEF P
  <2>. QED BY <1>1, <1>2, Upto
<1>. QED BY <1>3

\* Longer prefixes are longer.
LEMMA PrefixGrows ==
    ASSUME NEW S, NEW ss \in Seq(Seq(S)), NEW f, Concats(ss, S, f),
           NEW i \in 0 .. Len(ss), NEW j \in 0 .. Len(ss), i <= j
    PROVE  Len(f[i]) <= Len(f[j])
<1>. DEFINE n == Len(ss)
            g == [k \in 0..n |-> Len(f[k])]
<1>1. n \in Nat /\ \A k \in 0..n : Len(f[k]) \in Nat
    BY DEF Concats
<1>2. g \in [0..n -> Nat]
    BY <1>1
<1>3. ASSUME NEW k \in 1..n PROVE g[k - 1] <= g[k]
  <2>1. PrefixFacts(ss, S, f, k)
    BY PrefixStep
  <2>2. /\ k - 1 \in 0..n /\ k \in 0..n
        /\ Len(f[k]) = Len(f[k - 1]) + Len(ss[k]) /\ Len(ss[k]) \in Nat /\ Len(f[k - 1]) \in Nat
    BY <2>1 DEF PrefixFacts
  <2>3. g[k - 1] = Len(f[k - 1]) /\ g[k] = Len(f[k])
    BY <2>2
  <2>. DEFINE p == Len(f[k - 1])
              r == Len(ss[k])
              t == Len(f[k])
  <2>4. p \in Nat /\ r \in Nat /\ t = p + r /\ g[k - 1] = p /\ g[k] = t
    BY <2>2, <2>3
  <2>. HIDE DEF g, p, r, t
  <2>5. p <= t
    BY <2>4
  <2>. QED BY <2>4, <2>5
<1>4. g[i] = Len(f[i]) /\ g[j] = Len(f[j])
    OBVIOUS
<1>. HIDE DEF n, g
<1>5. i \in 0..n /\ j \in 0..n
    BY DEF n
<1>6. g[i] <= g[j]
    BY <1>1, <1>2, <1>3, <1>5, Ascends
<1>. QED BY <1>4, <1>6

\* A place in the table is a place in the sequence of all items.
Placed(ss, f, b) ==
    /\ DOMAIN b = Cells(ss)
    /\ \A c \in Cells(ss) : b[c] = Len(f[c[1] - 1]) + c[2]

LEMMA CellIs ==
    ASSUME NEW S, NEW ss \in Seq(Seq(S)), NEW c \in Cells(ss)
    PROVE  /\ c[1] \in 1 .. Len(ss) /\ c[2] \in 1 .. Len(ss[c[1]]) /\ c = <<c[1], c[2]>>
           /\ c[2] \in DOMAIN ss[c[1]] /\ c[1] \in Nat /\ c[2] \in Nat
           /\ ss[c[1]] \in Seq(S) /\ ss[c[1]][c[2]] \in S
<1>1. /\ c[1] \in DOMAIN ss /\ c[2] \in DOMAIN ss[c[1]] /\ c = <<c[1], c[2]>>
      /\ c[1] \in Nat /\ c[2] \in Nat
    BY DEF Cells
<1>2. DOMAIN ss = 1 .. Len(ss) /\ ss[c[1]] \in Seq(S)
    BY <1>1, SeqIs
<1>3. DOMAIN ss[c[1]] = 1 .. Len(ss[c[1]]) /\ ss[c[1]][c[2]] \in S
    BY <1>1, <1>2, SeqIs
<1>. QED BY <1>1, <1>2, <1>3

LEMMA IsCell ==
    ASSUME NEW S, NEW ss \in Seq(Seq(S)), NEW k \in 1 .. Len(ss), NEW j \in 1 .. Len(ss[k])
    PROVE  <<k, j>> \in Cells(ss)
<1>1. Len(ss) \in Nat /\ DOMAIN ss = 1 .. Len(ss)
    BY SeqIs
<1>2. k \in DOMAIN ss /\ k \in Nat
    BY <1>1
<1>3. ss[k] \in Seq(S)
    BY <1>2, SeqIs
<1>4. Len(ss[k]) \in Nat /\ DOMAIN ss[k] = 1 .. Len(ss[k])
    BY <1>3, SeqIs
<1>5. j \in DOMAIN ss[k] /\ j \in Nat
    BY <1>4
<1>. QED BY <1>2, <1>5 DEF Cells

LEMMA PlaceFound ==
    ASSUME NEW S, NEW ss \in Seq(Seq(S)), NEW f, Concats(ss, S, f),
           NEW b, Placed(ss, f, b), NEW c \in Cells(ss), NEW m \in c[1] .. Len(ss)
    PROVE  b[c] \in DOMAIN f[m] /\ f[m][b[c]] = ss[c[1]][c[2]]
<1>. DEFINE P == {k \in 0 .. Len(ss) :
                    k >= c[1] => b[c] \in DOMAIN f[k] /\ f[k][b[c]] = ss[c[1]][c[2]]}
<1>1. /\ Len(ss) \in Nat /\ c[1] \in 1 .. Len(ss) /\ c[2] \in 1 .. Len(ss[c[1]])
      /\ c[2] \in DOMAIN ss[c[1]]
    BY SeqIs, CellIs
<1>2. 0 \in P
    BY <1>1
<1>3. ASSUME NEW k \in 1 .. Len(ss), k - 1 \in P PROVE k \in P
  <2>1. /\ k \in 0 .. Len(ss)
        /\ Len(f[k]) = Len(f[k - 1]) + Len(ss[k]) /\ DOMAIN f[k] = 1 .. Len(f[k])
        /\ DOMAIN f[k - 1] = 1 .. Len(f[k - 1])
        /\ Len(ss[k]) \in Nat /\ Len(f[k - 1]) \in Nat
        /\ \A i \in DOMAIN f[k - 1] : f[k][i] = f[k - 1][i]
        /\ \A i \in DOMAIN ss[k] : f[k][Len(f[k - 1]) + i] = ss[k][i]
    <3>. HIDE DEF P
    <3>1. PrefixFacts(ss, S, f, k)
      BY PrefixStep
    <3>. QED BY <3>1 DEF PrefixFacts
  <2>2. CASE k - 1 >= c[1]
    <3>1. b[c] \in DOMAIN f[k - 1] /\ f[k - 1][b[c]] = ss[c[1]][c[2]]
      BY <1>3, <2>2
    <3>2. b[c] \in DOMAIN f[k]
      <4>. DEFINE p == Len(f[k - 1])
                  r == Len(ss[k])
                  y == b[c]
      <4>1. p \in Nat /\ r \in Nat /\ y \in 1..p /\ DOMAIN f[k] = 1 .. p + r
        BY <2>1, <3>1
      <4>. HIDE DEF p, r, y
      <4>2. y \in 1 .. p + r
        BY <4>1
      <4>. QED BY <4>1, <4>2 DEF y
    <3>. QED BY <2>1, <3>1, <3>2
  <2>3. CASE k = c[1]
    <3>1. b[c] = Len(f[k - 1]) + c[2] /\ c[2] \in 1 .. Len(ss[k]) /\ c[2] \in DOMAIN ss[k]
      BY <1>1, <2>3 DEF Placed
    <3>2. b[c] \in DOMAIN f[k]
      <4>. DEFINE p == Len(f[k - 1])
                  r == Len(ss[k])
                  y == c[2]
      <4>1. p \in Nat /\ r \in Nat /\ y \in 1..r /\ DOMAIN f[k] = 1 .. p + r /\ b[c] = p + y
        BY <2>1, <3>1
      <4>. HIDE DEF p, r, y
      <4>2. p + y \in 1 .. p + r
        BY <4>1
      <4>. QED BY <4>1, <4>2
    <3>. QED BY <2>1, <2>3, <3>1, <3>2
  <2>4. CASE ~(k - 1 >= c[1]) /\ k # c[1]
    <3>1. ~(k >= c[1])
      BY <1>1, <2>4
    <3>. QED BY <2>1, <3>1
  <2>. QED BY <2>2, <2>3, <2>4
<1>4. \A k \in 0 .. Len(ss) : k \in P
  <2>. HIDE DEF P
  <2>. QED BY <1>1, <1>2, <1>3, Upto
<1>5. m \in 0 .. Len(ss) /\ m >= c[1]
    BY <1>1
<1>. QED BY <1>4, <1>5

LEMMA PlacesApart ==
    ASSUME NEW S, NEW ss \in Seq(Seq(S)), NEW f, Concats(ss, S, f),
           NEW b, Placed(ss, f, b), NEW c \in Cells(ss), NEW d \in Cells(ss)
    PROVE  b[c] = b[d] => c = d
<1>1. ASSUME NEW x \in Cells(ss)
      PROVE  /\ x[1] \in 1 .. Len(ss) /\ x[2] \in Nat /\ x[2] >= 1
             /\ x[2] <= Len(ss[x[1]]) /\ x = <<x[1], x[2]>> /\ x[1] \in Int
             /\ b[x] = Len(f[x[1] - 1]) + x[2]
             /\ Len(f[x[1]]) = Len(f[x[1] - 1]) + Len(ss[x[1]])
             /\ Len(f[x[1] - 1]) \in Nat /\ Len(ss[x[1]]) \in Nat
  <2>1. /\ x[1] \in 1 .. Len(ss) /\ x[2] \in 1 .. Len(ss[x[1]]) /\ x = <<x[1], x[2]>>
        /\ x[1] \in Nat /\ x[2] \in Nat
    BY CellIs
  <2>2. /\ Len(f[x[1]]) = Len(f[x[1] - 1]) + Len(ss[x[1]])
        /\ Len(f[x[1] - 1]) \in Nat /\ Len(ss[x[1]]) \in Nat
    <3>1. PrefixFacts(ss, S, f, x[1])
      BY <2>1, PrefixStep
    <3>. QED BY <3>1 DEF PrefixFacts
  <2>. QED BY <2>1, <2>2 DEF Placed
<1>2. ASSUME NEW x \in Cells(ss), NEW y \in Cells(ss), x[1] < y[1] PROVE b[x] < b[y]
  <2>1. x[1] \in 0 .. Len(ss) /\ y[1] - 1 \in 0 .. Len(ss) /\ x[1] <= y[1] - 1
    <3>1. x[1] \in 1 .. Len(ss) /\ y[1] \in 1 .. Len(ss) /\ Len(ss) \in Nat
      BY <1>1, SeqIs
    <3>. QED BY <1>2, <3>1
  <2>2. Len(f[x[1]]) <= Len(f[y[1] - 1])
    BY <2>1, PrefixGrows
  <2>3. /\ b[x] = Len(f[x[1] - 1]) + x[2] /\ x[2] \in Nat /\ x[2] <= Len(ss[x[1]])
        /\ Len(f[x[1]]) = Len(f[x[1] - 1]) + Len(ss[x[1]])
        /\ Len(f[x[1] - 1]) \in Nat /\ Len(ss[x[1]]) \in Nat
    BY <1>1
  <2>4. b[y] = Len(f[y[1] - 1]) + y[2] /\ y[2] \in Nat /\ y[2] >= 1 /\ Len(f[y[1] - 1]) \in Nat
    BY <1>1
  <2>. DEFINE p == Len(f[x[1] - 1])
              q == x[2]
              r == Len(ss[x[1]])
              t == Len(f[x[1]])
              u == Len(f[y[1] - 1])
              v == y[2]
  <2>5. /\ p \in Nat /\ q \in Nat /\ r \in Nat /\ u \in Nat /\ v \in Nat
        /\ q <= r /\ t = p + r /\ t <= u /\ v >= 1
    BY <2>2, <2>3, <2>4
  <2>6. b[x] = p + q /\ b[y] = u + v
    BY <2>3, <2>4
  <2>. HIDE DEF p, q, r, t, u, v
  <2>7. p + q < u + v
    BY <2>5
  <2>. QED BY <2>6, <2>7
<1>3. SUFFICES ASSUME b[c] = b[d] PROVE c = d
    OBVIOUS
<1>4. c[1] = d[1]
  <2>. DEFINE i == c[1]
              j == d[1]
              y == b[c]
  <2>1. i \in Int /\ j \in Int /\ b[d] = y
    BY <1>1, <1>3
  <2>2. y \in Int
    <3>1. b[c] = Len(f[c[1] - 1]) + c[2] /\ c[2] \in Nat /\ Len(f[c[1] - 1]) \in Nat
      BY <1>1
    <3>. DEFINE p == Len(f[c[1] - 1])
                q == c[2]
    <3>2. y = p + q /\ p \in Nat /\ q \in Nat
      BY <3>1
    <3>. HIDE DEF p, q, y
    <3>. QED BY <3>2
  <2>3. i < j => y < y
    BY <1>2, <2>1
  <2>4. j < i => y < y
    BY <1>2, <2>1
  <2>. HIDE DEF i, j, y
  <2>5. i = j
    BY <2>1, <2>2, <2>3, <2>4
  <2>. QED BY <2>5 DEF i, j
<1>5. c[2] = d[2]
  <2>1. /\ c[2] \in Nat /\ d[2] \in Nat /\ Len(f[c[1] - 1]) \in Nat
        /\ b[c] = Len(f[c[1] - 1]) + c[2]
    BY <1>1
  <2>2. b[d] = Len(f[c[1] - 1]) + d[2]
    BY <1>1, <1>4
  <2>. DEFINE p == Len(f[c[1] - 1])
              i == c[2]
              j == d[2]
  <2>3. i \in Nat /\ j \in Nat /\ p \in Nat /\ p + i = p + j
    BY <1>3, <2>1, <2>2
  <2>. HIDE DEF p, i, j
  <2>4. i = j
    BY <2>3
  <2>. QED BY <2>4 DEF i, j
<1>6. c = <<c[1], c[2]>> /\ d = <<d[1], d[2]>>
    BY CellIs
<1>. QED BY <1>4, <1>5, <1>6

LEMMA PlacesTaken ==
    ASSUME NEW S, NEW ss \in Seq(Seq(S)), NEW f, Concats(ss, S, f),
           NEW b, Placed(ss, f, b), NEW z \in DOMAIN f[Len(ss)]
    PROVE  \E c \in Cells(ss) : b[c] = z
<1>. DEFINE P == {k \in 0 .. Len(ss) : \A y \in DOMAIN f[k] : \E c \in Cells(ss) : b[c] = y}
<1>1. Len(ss) \in Nat
    BY SeqIs
<1>2. 0 \in P
    BY <1>1, EmptyIsSeq DEF Concats
<1>3. ASSUME NEW k \in 1 .. Len(ss), k - 1 \in P PROVE k \in P
  <2>1. /\ k \in 0 .. Len(ss)
        /\ Len(f[k]) = Len(f[k - 1]) + Len(ss[k]) /\ DOMAIN f[k] = 1 .. Len(f[k])
        /\ DOMAIN f[k - 1] = 1 .. Len(f[k - 1])
        /\ Len(ss[k]) \in Nat /\ Len(f[k - 1]) \in Nat /\ DOMAIN ss[k] = 1 .. Len(ss[k])
    <3>. HIDE DEF P
    <3>1. PrefixFacts(ss, S, f, k)
      BY PrefixStep
    <3>. QED BY <3>1 DEF PrefixFacts
  <2>2. ASSUME NEW y \in DOMAIN f[k] PROVE \E c \in Cells(ss) : b[c] = y
    <3>1. CASE y \in DOMAIN f[k - 1]
      BY <1>3, <3>1
    <3>2. CASE y \notin DOMAIN f[k - 1]
      <4>. DEFINE j == y - Len(f[k - 1])
                  p == Len(f[k - 1])
                  r == Len(ss[k])
      <4>0. p \in Nat /\ r \in Nat /\ y \in 1 .. p + r /\ y \notin 1 .. p /\ j = y - p
        BY <2>1, <2>2, <3>2
      <4>. HIDE DEF j, p, r
      <4>1. j \in 1 .. r /\ p + j = y
        BY <4>0
      <4>. USE DEF p, r
      <4>2. Len(f[k - 1]) + j = y
        BY <4>1
      <4>3. <<k, j>> \in Cells(ss)
        BY <4>1, IsCell
      <4>4. b[<<k, j>>] = Len(f[k - 1]) + j
        BY <4>3 DEF Placed
      <4>. QED BY <4>2, <4>3, <4>4
    <3>. QED BY <3>1, <3>2
  <2>. QED BY <2>1, <2>2
<1>4. \A k \in 0 .. Len(ss) : k \in P
  <2>. HIDE DEF P
  <2>. QED BY <1>1, <1>2, <1>3, Upto
<1>5. Len(ss) \in 0 .. Len(ss)
    BY <1>1
<1>. QED BY <1>4, <1>5

\* FlattenSeq has the items of all sequences.
LEMMA FlattenTable ==
    ASSUME NEW S, NEW ss \in Seq(Seq(S))
    PROVE  Shuffled(Table(ss), FlattenSeq(ss))
<1>1. PICK f : Concats(ss, S, f)
    BY FlattenIs
<1>. DEFINE b == [c \in Cells(ss) |-> Len(f[c[1] - 1]) + c[2]]
<1>2. Placed(ss, f, b)
    BY DEF Placed
<1>. HIDE DEF b
<1>3. f[Len(ss)] = FlattenSeq(ss)
    BY <1>1 DEF Concats
<1>4. ASSUME NEW c \in Cells(ss)
      PROVE  b[c] \in DOMAIN FlattenSeq(ss) /\ FlattenSeq(ss)[b[c]] = Table(ss)[c]
  <2>1. Len(ss) \in c[1] .. Len(ss)
    <3>1. c[1] \in 1 .. Len(ss)
      BY CellIs
    <3>2. Len(ss) \in Nat
      BY SeqIs
    <3>. QED BY <3>1, <3>2
  <2>2. b[c] \in DOMAIN f[Len(ss)] /\ f[Len(ss)][b[c]] = ss[c[1]][c[2]]
    BY <1>1, <1>2, <2>1, PlaceFound
  <2>. QED BY <1>3, <2>2 DEF Table
<1>5. b \in [Cells(ss) -> DOMAIN FlattenSeq(ss)]
  <2>1. b = [c \in Cells(ss) |-> b[c]]
    BY DEF b
  <2>. QED BY <1>4, <2>1
<1>6. \A c, d \in Cells(ss) : b[c] = b[d] => c = d
    BY <1>1, <1>2, PlacesApart
<1>7. \A z \in DOMAIN FlattenSeq(ss) : \E c \in Cells(ss) : b[c] = z
    BY <1>1, <1>2, <1>3, PlacesTaken
<1>8. DOMAIN Table(ss) = Cells(ss)
    BY DEF Table
<1>9. b \in Bijection(DOMAIN Table(ss), DOMAIN FlattenSeq(ss))
    BY <1>5, <1>6, <1>7, <1>8, IsBijection
<1>. QED BY <1>4, <1>8, <1>9 DEF Shuffled

\* The sequences of ss are those of uu in another order, but for empty ones.
Embedded(ss, uu, p) ==
    /\ p \in [DOMAIN ss -> DOMAIN uu]
    /\ \A i \in DOMAIN ss : ss[i] = uu[p[i]]
    /\ \A x, y \in DOMAIN ss : p[x] = p[y] => x = y
    /\ \A z \in DOMAIN uu : uu[z] # <<>> => \E x \in DOMAIN ss : p[x] = z

LEMMA FlattenEmbedded ==
    ASSUME NEW S, NEW ss \in Seq(Seq(S)), NEW uu \in Seq(Seq(S)), NEW p, Embedded(ss, uu, p)
    PROVE  Shuffled(FlattenSeq(ss), FlattenSeq(uu))
<1>1. \A i \in DOMAIN ss : ss[i] = uu[p[i]]
    BY DEF Embedded
<1>2. /\ p \in [DOMAIN ss -> DOMAIN uu]
      /\ \A x, y \in DOMAIN ss : p[x] = p[y] => x = y
      /\ \A z \in DOMAIN uu : uu[z] # <<>> => \E x \in DOMAIN ss : p[x] = z
    BY DEF Embedded
<1>. DEFINE b == [c \in Cells(ss) |-> <<p[c[1]], c[2]>>]
<1>3. /\ Len(ss) \in Nat /\ DOMAIN ss = 1 .. Len(ss)
      /\ Len(uu) \in Nat /\ DOMAIN uu = 1 .. Len(uu)
    BY SeqIs
<1>4. ASSUME NEW c \in Cells(ss)
      PROVE  b[c] \in Cells(uu) /\ Table(ss)[c] = Table(uu)[b[c]]
  <2>1. /\ c[1] \in 1 .. Len(ss) /\ c[2] \in 1 .. Len(ss[c[1]])
    BY CellIs
  <2>2. p[c[1]] \in 1 .. Len(uu) /\ uu[p[c[1]]] = ss[c[1]]
    BY <1>1, <1>2, <1>3, <2>1
  <2>3. <<p[c[1]], c[2]>> \in Cells(uu)
    <3>1. c[2] \in 1 .. Len(uu[p[c[1]]])
      BY <2>1, <2>2
    <3>. QED BY <2>2, <3>1, IsCell
  <2>4. b[c] = <<p[c[1]], c[2]>>
    OBVIOUS
  <2>5. Table(uu)[<<p[c[1]], c[2]>>] = uu[p[c[1]]][c[2]]
    BY <2>3 DEF Table
  <2>6. Table(ss)[c] = ss[c[1]][c[2]]
    BY DEF Table
  <2>. QED BY <2>2, <2>3, <2>4, <2>5, <2>6
<1>5. ASSUME NEW c \in Cells(ss), NEW d \in Cells(ss), b[c] = b[d] PROVE c = d
  <2>1. p[c[1]] = p[d[1]] /\ c[2] = d[2]
    BY <1>5
  <2>2. c[1] \in DOMAIN ss /\ d[1] \in DOMAIN ss /\ c = <<c[1], c[2]>> /\ d = <<d[1], d[2]>>
    BY <1>3, CellIs
  <2>. QED BY <1>2, <2>1, <2>2
<1>6. ASSUME NEW z \in Cells(uu) PROVE \E c \in Cells(ss) : b[c] = z
  <2>0. /\ z[1] \in DOMAIN uu /\ z[2] \in 1 .. Len(uu[z[1]]) /\ z = <<z[1], z[2]>>
        /\ uu[z[1]] \in Seq(S)
    BY <1>3, CellIs
  <2>1. /\ z[1] \in DOMAIN uu /\ z[2] \in 1 .. Len(uu[z[1]]) /\ z = <<z[1], z[2]>>
        /\ uu[z[1]] # <<>>
    <3>. DEFINE s == uu[z[1]]
                j == z[2]
    <3>1. j \in 1 .. Len(s) /\ s \in Seq(S)
      BY <2>0
    <3>. HIDE DEF s, j
    <3>2. s # <<>>
      BY <3>1
    <3>. QED BY <2>0, <3>2 DEF s
  <2>2. PICK x \in DOMAIN ss : p[x] = z[1]
    BY <1>2, <2>1
  <2>3. ss[x] = uu[z[1]] /\ x \in 1 .. Len(ss)
    BY <1>1, <1>3, <2>2
  <2>4. <<x, z[2]>> \in Cells(ss)
    <3>1. z[2] \in 1 .. Len(ss[x])
      BY <2>1, <2>3
    <3>. QED BY <2>3, <3>1, IsCell
  <2>5. b[<<x, z[2]>>] = <<p[x], z[2]>>
    BY <2>4
  <2>. QED BY <2>1, <2>2, <2>4, <2>5
<1>7. b \in [Cells(ss) -> Cells(uu)]
    BY <1>4
<1>8. b \in Bijection(Cells(ss), Cells(uu))
  <2>. HIDE DEF b
  <2>. QED BY <1>5, <1>6, <1>7, IsBijection
<1>9. Shuffled(Table(ss), Table(uu))
  <2>1. DOMAIN Table(ss) = Cells(ss) /\ DOMAIN Table(uu) = Cells(uu)
    BY DEF Table
  <2>. HIDE DEF b
  <2>. QED BY <1>4, <1>8, <2>1 DEF Shuffled
<1>10. Shuffled(FlattenSeq(ss), Table(ss)) /\ Shuffled(Table(uu), FlattenSeq(uu))
    BY FlattenTable, ShuffledBack
<1>. QED BY <1>9, <1>10, ShuffledTwice

\* Sequences of the same sequences in another order have the same items.
LEMMA FlattenShuffled ==
    ASSUME NEW S, NEW ss \in Seq(Seq(S)), NEW uu \in Seq(Seq(S)), Shuffled(ss, uu)
    PROVE  Shuffled(FlattenSeq(ss), FlattenSeq(uu))
<1>1. PICK p \in Bijection(DOMAIN ss, DOMAIN uu) : \A i \in DOMAIN ss : ss[i] = uu[p[i]]
    BY DEF Shuffled
<1>2. /\ p \in [DOMAIN ss -> DOMAIN uu]
      /\ \A x, y \in DOMAIN ss : p[x] = p[y] => x = y
      /\ \A z \in DOMAIN uu : \E x \in DOMAIN ss : p[x] = z
    BY <1>1, BijectionIs
<1>3. Embedded(ss, uu, p)
    BY <1>1, <1>2 DEF Embedded
<1>. QED BY <1>3, FlattenEmbedded

-----------------------------------------------------------------------------
(* More on sequences of sequences *)

\* Whatever grows by one sequence after the other ends as all of them.
LEMMA PrefixesUnique ==
    ASSUME NEW S, NEW ss \in Seq(Seq(S)), NEW h, h[0] = <<>>,
           \A i \in 1 .. Len(ss) : h[i] = h[i - 1] \o ss[i]
    PROVE  h[Len(ss)] = FlattenSeq(ss)
<1>1. PICK f : Concats(ss, S, f)
    BY FlattenIs
<1>2. Len(ss) \in Nat
    BY SeqIs
<1>. DEFINE P == {k \in 0 .. Len(ss) : h[k] = f[k]}
<1>3. 0 \in P
    BY <1>1, <1>2 DEF Concats
<1>4. ASSUME NEW k \in 1 .. Len(ss), k - 1 \in P PROVE k \in P
  <2>1. k \in 0 .. Len(ss)
    BY <1>2
  <2>2. h[k] = h[k - 1] \o ss[k] /\ f[k] = f[k - 1] \o ss[k]
    BY <1>1 DEF Concats
  <2>3. h[k - 1] = f[k - 1]
    BY <1>4
  <2>. QED BY <2>1, <2>2, <2>3
<1>5. \A k \in 0 .. Len(ss) : k \in P
  <2>. HIDE DEF P
  <2>. QED BY <1>2, <1>3, <1>4, Upto
<1>6. Len(ss) \in 0 .. Len(ss)
    BY <1>2
<1>. QED BY <1>1, <1>5, <1>6 DEF Concats

\* One sequence only.
LEMMA FlattenOne ==
    ASSUME NEW S, NEW s \in Seq(S)
    PROVE  <<s>> \in Seq(Seq(S)) /\ FlattenSeq(<<s>>) = s
<1>. DEFINE ss == <<s>>
            h == [i \in 0..1 |-> IF i = 0 THEN <<>> ELSE s]
<1>1. ss \in Seq(Seq(S)) /\ Len(ss) = 1 /\ ss[1] = s
    OBVIOUS
<1>2. h[0] = <<>> /\ h[1] = s
    OBVIOUS
<1>3. s = <<>> \o s
    OBVIOUS
<1>. HIDE DEF ss, h
<1>4. \A i \in 1 .. Len(ss) : h[i] = h[i - 1] \o ss[i]
  <2>1. \A i \in 1 .. Len(ss) : i = 1
    BY <1>1
  <2>. QED BY <1>1, <1>2, <1>3, <2>1
<1>5. h[Len(ss)] = FlattenSeq(ss)
    BY <1>1, <1>2, <1>4, PrefixesUnique
<1>6. FlattenSeq(ss) = s
    BY <1>1, <1>2, <1>5
<1>. QED BY <1>1, <1>6 DEF ss

Associate(a, b, c) == a \o (b \o c) = (a \o b) \o c

LEMMA ConcatAssociates ==
    ASSUME NEW S, NEW a \in Seq(S), NEW b \in Seq(S), NEW c \in Seq(S)
    PROVE  Associate(a, b, c)
BY DEF Associate

\* Two sequences of sequences.
LEMMA FlattenConcat ==
    ASSUME NEW S, NEW ss \in Seq(Seq(S)), NEW uu \in Seq(Seq(S))
    PROVE  FlattenSeq(ss \o uu) = FlattenSeq(ss) \o FlattenSeq(uu)
<1>1. PICK f : Concats(ss, S, f)
    BY FlattenIs
<1>2. PICK g : Concats(uu, S, g)
    BY FlattenIs
<1>. DEFINE m == Len(ss)
            n == Len(uu)
            vv == ss \o uu
            h == [i \in 0 .. m + n |-> IF i <= m THEN f[i] ELSE f[m] \o g[i - m]]
<1>3. /\ m \in Nat /\ n \in Nat /\ vv \in Seq(Seq(S)) /\ Len(vv) = m + n
      /\ DOMAIN ss = 1..m /\ DOMAIN uu = 1..n
      /\ \A k \in 1..m : vv[k] = ss[k]
      /\ \A k \in m + 1 .. m + n : vv[k] = uu[k - m]
    BY SeqIs, ConcatIs
<1>4. /\ f[0] = <<>> /\ g[0] = <<>> /\ f[m] = FlattenSeq(ss) /\ g[n] = FlattenSeq(uu)
      /\ \A i \in 1..m : f[i] = f[i - 1] \o ss[i]
      /\ \A i \in 1..n : g[i] = g[i - 1] \o uu[i]
      /\ f[m] \in Seq(S) /\ \A i \in 0..n : g[i] \in Seq(S)
  <2>1. /\ f[0] = <<>> /\ f[m] = FlattenSeq(ss)
        /\ \A i \in 1..m : f[i] = f[i - 1] \o ss[i]
    BY <1>1 DEF Concats
  <2>2. f[m] \in Seq(S)
    BY <2>1, FlattenTyped
  <2>3. /\ g[0] = <<>> /\ g[n] = FlattenSeq(uu)
        /\ \A i \in 1..n : g[i] = g[i - 1] \o uu[i]
    BY <1>2 DEF Concats
  <2>4. \A i \in 0..n : g[i] \in Seq(S)
    BY <1>2 DEF Concats
  <2>. QED BY <2>1, <2>2, <2>3, <2>4
<1>5. \A i \in 1..n : uu[i] \in Seq(S)
    BY <1>3, SeqIs
<1>6. f[m] \o g[0] = f[m]
    BY <1>4
<1>. HIDE DEF m, n, vv
<1>7. \A i \in 0 .. m + n : h[i] = IF i <= m THEN f[i] ELSE f[m] \o g[i - m]
    OBVIOUS
<1>. HIDE DEF h
<1>8. h[0] = <<>>
    BY <1>3, <1>4, <1>7
<1>9. ASSUME NEW i \in 1 .. Len(vv) PROVE h[i] = h[i - 1] \o vv[i]
  <2>1. i \in 0 .. m + n /\ i - 1 \in 0 .. m + n /\ i \in Int
    BY <1>3
  <2>2. CASE i <= m
    <3>1. i \in 1..m /\ i - 1 <= m
      BY <1>3, <2>2
    <3>. QED BY <1>3, <1>4, <1>7, <2>1, <2>2, <3>1
  <2>3. CASE i > m
    <3>1. i - m \in 1..n /\ i \in m + 1 .. m + n /\ ~(i <= m)
      BY <1>3, <2>3
    <3>2. h[i] = f[m] \o g[i - m] /\ vv[i] = uu[i - m]
      BY <1>3, <1>7, <2>1, <3>1
    <3>3. g[i - m] = g[i - m - 1] \o uu[i - m] /\ i - m - 1 \in 0..n
      <4>. DEFINE k == i - m
      <4>1. k \in 1..n
        BY <3>1
      <4>. HIDE DEF k
      <4>2. g[k] = g[k - 1] \o uu[k]
        BY <1>4, <4>1
      <4>3. k - 1 \in 0..n
        BY <1>3, <4>1
      <4>. QED BY <4>2, <4>3 DEF k
    <3>4. h[i - 1] = f[m] \o g[i - m - 1]
      <4>1. CASE i - 1 <= m
        <5>1. i - 1 = m /\ i - m - 1 = 0
          BY <1>3, <2>3, <4>1
        <5>. QED BY <1>6, <1>7, <2>1, <4>1, <5>1
      <4>2. CASE ~(i - 1 <= m)
        <5>1. (i - 1) - m = i - m - 1
          BY <1>3
        <5>. QED BY <1>7, <2>1, <4>2, <5>1
      <4>. QED BY <4>1, <4>2
    <3>. DEFINE a == f[m]
                b == g[i - m - 1]
                c == uu[i - m]
    <3>5. a \in Seq(S) /\ b \in Seq(S) /\ c \in Seq(S)
      BY <1>4, <1>5, <3>1, <3>3
    <3>6. h[i] = a \o (b \o c) /\ h[i - 1] = a \o b /\ vv[i] = c
      BY <3>2, <3>3, <3>4
    <3>. HIDE DEF a, b, c
    <3>7. Associate(a, b, c)
      BY <3>5, ConcatAssociates
    <3>. QED BY <3>6, <3>7 DEF Associate
  <2>. QED BY <1>3, <2>1, <2>2, <2>3, SMTT(30)
<1>10. h[Len(vv)] = FlattenSeq(vv)
    BY <1>3, <1>8, <1>9, PrefixesUnique
<1>11. h[m + n] = f[m] \o g[n]
  <2>1. m + n \in 0 .. m + n /\ (m + n) - m = n /\ (m + n <= m => n = 0 /\ m + n = m)
    BY <1>3
  <2>. QED BY <1>6, <1>7, <2>1
<1>. USE DEF m, n, vv
<1>. QED BY <1>3, <1>4, <1>10, <1>11

-----------------------------------------------------------------------------
(* The rows of row ranges *)

RowSeqs(ranges) == [i \in DOMAIN ranges |-> ranges[i].rows]

\* The rows of row ranges are sequences of rows.
LEMMA RowSeqsTyped ==
    ASSUME NEW r \in Seq(FileRange)
    PROVE  /\ RowSeqs(r) \in Seq(Seq(Row)) /\ Len(RowSeqs(r)) = Len(r)
           /\ DOMAIN RowSeqs(r) = DOMAIN r
           /\ \A i \in DOMAIN r : RowSeqs(r)[i] = r[i].rows
<1>1. Len(r) \in Nat /\ DOMAIN r = 1 .. Len(r) /\ \A i \in DOMAIN r : r[i] \in FileRange
    BY SeqIs
<1>2. \A i \in DOMAIN r : r[i].rows \in Seq(Row)
    BY <1>1 DEF FileRange
<1>3. RowSeqs(r) \in [1 .. Len(r) -> Seq(Row)]
    BY <1>1, <1>2 DEF RowSeqs
<1>4. RowSeqs(r) \in Seq(Seq(Row)) /\ Len(RowSeqs(r)) = Len(r) /\ DOMAIN RowSeqs(r) = 1 .. Len(r)
  <2>. DEFINE g == RowSeqs(r)
  <2>1. g \in [1 .. Len(r) -> Seq(Row)]
    BY <1>3
  <2>. HIDE DEF g
  <2>2. g \in Seq(Seq(Row)) /\ Len(g) = Len(r) /\ DOMAIN g = 1 .. Len(r)
    BY <1>1, <2>1, FunctionIsSeq
  <2>. QED BY <2>2 DEF g
<1>. QED BY <1>1, <1>4 DEF RowSeqs

LEMMA RowsOfIs ==
    ASSUME NEW r \in Seq(FileRange)
    PROVE  RowsOf(r) = FlattenSeq(RowSeqs(r)) /\ RowsOf(r) \in Seq(Row)
<1>1. RowsOf(r) = FlattenSeq(RowSeqs(r))
    BY DEF RowsOf, RowSeqs
<1>2. RowSeqs(r) \in Seq(Seq(Row))
    BY RowSeqsTyped
<1>. QED BY <1>1, <1>2, FlattenTyped

\* No range has no row.
LEMMA RowsOfNone == RowsOf(<<>>) = <<>>
<1>1. <<>> \in Seq(FileRange) /\ Len(<<>>) = 0 /\ DOMAIN <<>> = {}
    BY EmptyIsSeq
<1>2. RowSeqs(<<>>) \in Seq(Seq(Row)) /\ Len(RowSeqs(<<>>)) = 0
    BY <1>1, RowSeqsTyped
<1>3. PICK f : Concats(RowSeqs(<<>>), Row, f)
    BY <1>2, FlattenIs
<1>4. FlattenSeq(RowSeqs(<<>>)) = <<>>
    BY <1>2, <1>3 DEF Concats
<1>. QED BY <1>1, <1>4, RowsOfIs

\* The rows of one range.
LEMMA RowsOfOne ==
    ASSUME NEW x \in FileRange
    PROVE  <<x>> \in Seq(FileRange) /\ RowsOf(<<x>>) = x.rows
<1>1. <<x>> \in Seq(FileRange) /\ DOMAIN <<x>> = 1..1 /\ <<x>>[1] = x
    OBVIOUS
<1>2. x.rows \in Seq(Row)
    BY DEF FileRange
<1>3. RowSeqs(<<x>>) = <<x.rows>>
    BY <1>1 DEF RowSeqs
<1>4. FlattenSeq(<<x.rows>>) = x.rows
    BY <1>2, FlattenOne
<1>. QED BY <1>1, <1>3, <1>4, RowsOfIs

Concatenated(s, u, w, S) ==
    /\ w \in Seq(S) /\ DOMAIN w = 1 .. Len(s) + Len(u)
    /\ \A k \in DOMAIN s : w[k] = s[k]
    /\ \A k \in Len(s) + 1 .. Len(s) + Len(u) : w[k] = u[k - Len(s)]

LEMMA ConcatIsConcatenated ==
    ASSUME NEW S, NEW s \in Seq(S), NEW u \in Seq(S)
    PROVE  Concatenated(s, u, s \o u, S)
<1>1. /\ s \o u \in Seq(S) /\ DOMAIN (s \o u) = 1 .. Len(s) + Len(u)
      /\ \A k \in DOMAIN s : (s \o u)[k] = s[k]
      /\ \A k \in Len(s) + 1 .. Len(s) + Len(u) : (s \o u)[k] = u[k - Len(s)]
    BY ConcatIs, ZenonT(60)
<1>. QED BY <1>1 DEF Concatenated

LEMMA RowsOfConcat ==
    ASSUME NEW r \in Seq(FileRange), NEW u \in Seq(FileRange)
    PROVE  RowsOf(r \o u) = RowsOf(r) \o RowsOf(u)
<1>. DEFINE m == Len(r)
            n == Len(u)
            w == r \o u
<1>1. /\ m \in Nat /\ n \in Nat /\ DOMAIN r = 1..m /\ DOMAIN u = 1..n
    BY SeqIs
<1>2. /\ w \in Seq(FileRange) /\ Len(w) = m + n /\ DOMAIN w = 1 .. m + n
      /\ \A k \in DOMAIN r : w[k] = r[k]
      /\ \A k \in m + 1 .. m + n : w[k] = u[k - m]
    BY ConcatIs, ZenonT(60)
<1>3. /\ RowSeqs(r) \in Seq(Seq(Row)) /\ Len(RowSeqs(r)) = m
      /\ \A i \in DOMAIN r : RowSeqs(r)[i] = r[i].rows
      /\ DOMAIN RowSeqs(r) = DOMAIN r
    BY RowSeqsTyped
<1>4. /\ RowSeqs(u) \in Seq(Seq(Row)) /\ Len(RowSeqs(u)) = n
      /\ \A i \in DOMAIN u : RowSeqs(u)[i] = u[i].rows
      /\ DOMAIN RowSeqs(u) = DOMAIN u
    BY RowSeqsTyped
<1>. DEFINE a == RowSeqs(r)
            b == RowSeqs(u)
            c == RowSeqs(w)
            d == a \o b
<1>5. /\ c \in Seq(Seq(Row)) /\ Len(c) = m + n /\ DOMAIN c = 1 .. m + n
      /\ \A i \in DOMAIN w : c[i] = w[i].rows
  <2>. HIDE DEF w
  <2>. QED BY <1>2, RowSeqsTyped
<1>6. /\ d \in Seq(Seq(Row)) /\ DOMAIN d = 1 .. m + n
      /\ \A k \in DOMAIN a : d[k] = a[k]
      /\ \A k \in m + 1 .. m + n : d[k] = b[k - m]
      /\ d = [k \in DOMAIN d |-> d[k]]
  <2>. HIDE DEF a, b
  <2>1. a \in Seq(Seq(Row)) /\ b \in Seq(Seq(Row)) /\ Len(a) = m /\ Len(b) = n
    BY <1>3, <1>4 DEF a, b
  <2>2. Concatenated(a, b, d, Seq(Row))
    BY <2>1, ConcatIsConcatenated
  <2>. HIDE DEF d
  <2>3. d \in Seq(Seq(Row))
    BY <2>2 DEF Concatenated
  <2>4. d = [k \in DOMAIN d |-> d[k]]
    BY <2>3, SeqIs
  <2>. QED BY <2>1, <2>2, <2>4 DEF Concatenated
<1>7. c = [k \in DOMAIN c |-> c[k]]
    BY <1>5, SeqIs
<1>8. ASSUME NEW k \in 1 .. m + n PROVE c[k] = d[k]
  <2>1. CASE k \in 1..m
    <3>1. c[k] = r[k].rows
      BY <1>1, <1>2, <1>5, <2>1
    <3>2. d[k] = r[k].rows
      BY <1>1, <1>3, <1>6, <2>1
    <3>. QED BY <3>1, <3>2
  <2>2. CASE k \notin 1..m
    <3>1. k \in m + 1 .. m + n /\ k - m \in 1..n
      BY <1>1, <2>2
    <3>2. c[k] = u[k - m].rows
      BY <1>2, <1>5, <3>1
    <3>3. d[k] = u[k - m].rows
      BY <1>1, <1>4, <1>6, <3>1
    <3>. QED BY <3>2, <3>3
  <2>. QED BY <2>1, <2>2
<1>9. c = d
  <2>. HIDE DEF c, d
  <2>. QED BY <1>5, <1>6, <1>7, <1>8
<1>10. FlattenSeq(a \o b) = FlattenSeq(a) \o FlattenSeq(b)
    BY <1>3, <1>4, FlattenConcat
<1>11. RowsOf(w) = FlattenSeq(c)
  <2>. HIDE DEF w
  <2>. QED BY <1>2, RowsOfIs
<1>. QED BY <1>9, <1>10, <1>11, RowsOfIs

\* Row ranges brought together have the rows of all.
LEMMA RowsOfFlatten ==
    ASSUME NEW rr \in Seq(Seq(FileRange)), NEW ss \in Seq(Seq(Row)), Len(ss) = Len(rr),
           \A i \in DOMAIN rr : ss[i] = RowsOf(rr[i])
    PROVE  RowsOf(FlattenSeq(rr)) = FlattenSeq(ss)
<1>1. PICK f : Concats(rr, FileRange, f)
    BY FlattenIs
<1>. DEFINE n == Len(rr)
            h == [i \in 0..n |-> RowsOf(f[i])]
<1>2. n \in Nat /\ DOMAIN rr = 1..n
    BY SeqIs
<1>3. \A i \in 1..n : rr[i] \in Seq(FileRange)
    BY <1>2, SeqIs
<1>4. /\ f[0] = <<>> /\ f[n] = FlattenSeq(rr)
      /\ \A i \in 1..n : f[i] = f[i - 1] \o rr[i]
      /\ \A i \in 0..n : f[i] \in Seq(FileRange)
    BY <1>1 DEF Concats
<1>. HIDE DEF n
<1>5. \A i \in 0..n : h[i] = RowsOf(f[i])
    OBVIOUS
<1>. HIDE DEF h
<1>6. h[0] = <<>>
    BY <1>2, <1>4, <1>5, RowsOfNone
<1>7. ASSUME NEW i \in 1 .. Len(ss) PROVE h[i] = h[i - 1] \o ss[i]
  <2>0. Len(ss) = n
    BY DEF n
  <2>1. i \in 1..n /\ i \in 0..n /\ i - 1 \in 0..n
    BY <1>2, <2>0
  <2>2. f[i] = f[i - 1] \o rr[i] /\ f[i - 1] \in Seq(FileRange) /\ rr[i] \in Seq(FileRange)
    BY <1>3, <1>4, <2>1
  <2>3. RowsOf(f[i - 1] \o rr[i]) = RowsOf(f[i - 1]) \o RowsOf(rr[i])
    BY <2>2, RowsOfConcat
  <2>4. ss[i] = RowsOf(rr[i])
    BY <1>2, <2>1
  <2>. QED BY <1>5, <2>1, <2>2, <2>3, <2>4
<1>8. h[Len(ss)] = FlattenSeq(ss)
    BY <1>6, <1>7, PrefixesUnique
<1>9. Len(ss) = n /\ n \in 0..n
    BY <1>2 DEF n
<1>. QED BY <1>4, <1>5, <1>8, <1>9

\* The rows of ranges in another order.
LEMMA RowsOfShuffled ==
    ASSUME NEW r \in Seq(FileRange), NEW u \in Seq(FileRange), Shuffled(r, u)
    PROVE  Shuffled(RowsOf(r), RowsOf(u)) /\ Len(RowsOf(r)) = Len(RowsOf(u))
<1>1. PICK b \in Bijection(DOMAIN r, DOMAIN u) : \A i \in DOMAIN r : r[i] = u[b[i]]
    BY DEF Shuffled
<1>2. b \in [DOMAIN r -> DOMAIN u]
    BY <1>1, BijectionIs
<1>3. /\ RowSeqs(r) \in Seq(Seq(Row)) /\ DOMAIN RowSeqs(r) = DOMAIN r
      /\ RowSeqs(u) \in Seq(Seq(Row)) /\ DOMAIN RowSeqs(u) = DOMAIN u
    BY RowSeqsTyped
<1>4. \A i \in DOMAIN r : RowSeqs(r)[i] = RowSeqs(u)[b[i]]
    BY <1>1, <1>2 DEF RowSeqs
<1>5. Shuffled(RowSeqs(r), RowSeqs(u))
    BY <1>1, <1>3, <1>4 DEF Shuffled
<1>6. Shuffled(FlattenSeq(RowSeqs(r)), FlattenSeq(RowSeqs(u)))
    BY <1>3, <1>5, FlattenShuffled
<1>7. /\ RowsOf(r) = FlattenSeq(RowSeqs(r)) /\ RowsOf(r) \in Seq(Row)
      /\ RowsOf(u) = FlattenSeq(RowSeqs(u)) /\ RowsOf(u) \in Seq(Row)
    BY RowsOfIs
<1>8. Shuffled(RowsOf(r), RowsOf(u))
    BY <1>6, <1>7
<1>. QED BY <1>7, <1>8, ShuffledLength

-----------------------------------------------------------------------------
(* Row ranges in the order of their paths *)

\* The order that SortedByPath puts the ranges in, by their positions.
Earlier(r, j, i) == PathBefore(r[j], r[i]) \/ (r[j].path = r[i].path /\ j < i)
EarlierOnes(r, i) == {j \in DOMAIN r : Earlier(r, j, i)}
RankOf(r, i) == Cardinality(EarlierOnes(r, i))

LEMMA EarlierIsOrder ==
    ASSUME NEW r \in Seq(FileRange)
    PROVE  /\ \A i \in DOMAIN r : ~Earlier(r, i, i)
           /\ \A i, j, k \in DOMAIN r : Earlier(r, i, j) /\ Earlier(r, j, k) => Earlier(r, i, k)
           /\ \A i, j \in DOMAIN r : i = j \/ Earlier(r, i, j) \/ Earlier(r, j, i)
<1>. DEFINE p(i) == r[i].path[1]
            q(i) == r[i].path[2]
<1>1. \A i \in DOMAIN r : i \in Int /\ p(i) \in Int /\ q(i) \in Int
  <2>1. \A i \in DOMAIN r : i \in Int /\ r[i] \in FileRange
    BY SeqIs
  <2>2. \A i \in DOMAIN r : r[i].path \in Int \X Int
    BY <2>1 DEF FileRange
  <2>. QED BY <2>1, <2>2
<1>2. \A i, j \in DOMAIN r : r[i].path = r[j].path <=> p(i) = p(j) /\ q(i) = q(j)
  <2>1. \A i \in DOMAIN r : r[i] \in FileRange
    BY SeqIs
  <2>2. \A i \in DOMAIN r : r[i].path \in Int \X Int
    BY <2>1 DEF FileRange
  <2>. QED BY <2>2
<1>3. \A i, j \in DOMAIN r : Earlier(r, i, j) <=>
            \/ p(i) < p(j)
            \/ p(i) = p(j) /\ q(i) < q(j)
            \/ p(i) = p(j) /\ q(i) = q(j) /\ i < j
    BY <1>2 DEF Earlier, PathBefore
<1>. HIDE DEF p, q
<1>4. \A i \in DOMAIN r : ~Earlier(r, i, i)
    BY <1>1, <1>3
<1>5. \A i, j, k \in DOMAIN r : Earlier(r, i, j) /\ Earlier(r, j, k) => Earlier(r, i, k)
    BY <1>1, <1>3
<1>6. \A i, j \in DOMAIN r : i = j \/ Earlier(r, i, j) \/ Earlier(r, j, i)
    BY <1>1, <1>3
<1>. QED BY <1>4, <1>5, <1>6

LEMMA RankIs ==
    ASSUME NEW r \in Seq(FileRange)
    PROVE  /\ IsFiniteSet(DOMAIN r) /\ Cardinality(DOMAIN r) = Len(r)
           /\ \A i \in DOMAIN r : RankOf(r, i) \in 0 .. Len(r) - 1
           /\ \A i, j \in DOMAIN r : RankOf(r, i) = RankOf(r, j) => i = j
<1>1. Len(r) \in Nat /\ DOMAIN r = 1 .. Len(r)
    BY SeqIs
<1>2. IsFiniteSet(DOMAIN r) /\ Cardinality(DOMAIN r) = Len(r)
    BY <1>1, FirstNumbers
<1>3. \A i \in DOMAIN r : /\ EarlierOnes(r, i) \subseteq DOMAIN r
                          /\ IsFiniteSet(EarlierOnes(r, i)) /\ RankOf(r, i) \in Nat
    BY <1>2, FS_Subset, FS_CardinalityType DEF EarlierOnes, RankOf
<1>4. ASSUME NEW T, IsFiniteSet(T), NEW j \in DOMAIN r, j \in T, EarlierOnes(r, j) \subseteq T
      PROVE  RankOf(r, j) < Cardinality(T)
  <2>. DEFINE E == EarlierOnes(r, j)
  <2>1. j \notin E
    BY EarlierIsOrder DEF EarlierOnes
  <2>2. Cardinality(E \cup {j}) = Cardinality(E) + 1
    BY <1>3, <2>1, FS_AddElement
  <2>3. E \cup {j} \in SUBSET T
    BY <1>4
  <2>4. Cardinality(E \cup {j}) <= Cardinality(T)
    BY <1>4, <2>3, FS_Subset
  <2>5. Cardinality(T) \in Nat /\ Cardinality(E) \in Nat
    BY <1>3, <1>4, FS_CardinalityType
  <2>. HIDE DEF E
  <2>6. Cardinality(E) < Cardinality(T)
    BY <2>2, <2>4, <2>5
  <2>. QED BY <2>6 DEF E, RankOf
<1>5. ASSUME NEW i \in DOMAIN r PROVE RankOf(r, i) \in 0 .. Len(r) - 1
  <2>1. RankOf(r, i) < Cardinality(DOMAIN r)
    BY <1>2, <1>3, <1>4
  <2>. QED BY <1>1, <1>2, <1>3, <2>1
<1>6. ASSUME NEW i \in DOMAIN r, NEW j \in DOMAIN r, Earlier(r, j, i)
      PROVE  RankOf(r, j) < RankOf(r, i)
  <2>1. j \in EarlierOnes(r, i)
    BY <1>6 DEF EarlierOnes
  <2>2. EarlierOnes(r, j) \subseteq EarlierOnes(r, i)
    BY <1>6, EarlierIsOrder DEF EarlierOnes
  <2>3. RankOf(r, j) < Cardinality(EarlierOnes(r, i))
    BY <1>3, <1>4, <2>1, <2>2
  <2>. QED BY <2>3 DEF RankOf
<1>7. ASSUME NEW i \in DOMAIN r, NEW j \in DOMAIN r, RankOf(r, i) = RankOf(r, j) PROVE i = j
  <2>1. ~Earlier(r, i, j) /\ ~Earlier(r, j, i)
    <3>1. RankOf(r, i) \in Nat /\ RankOf(r, j) \in Nat
      BY <1>3
    <3>. QED BY <1>6, <1>7, <3>1
  <2>. QED BY <2>1, EarlierIsOrder
<1>. QED BY <1>2, <1>5, <1>7

\* SortedByPath gives the same ranges.
LEMMA SortedIs ==
    ASSUME NEW F \in SUBSET FileRange, NEW r \in Seq(F)
    PROVE  /\ SortedByPath(r) \in Seq(F) /\ Len(SortedByPath(r)) = Len(r)
           /\ DOMAIN SortedByPath(r) = DOMAIN r
           /\ Shuffled(SortedByPath(r), r)
<1>. DEFINE n == Len(r)
            rank == [i \in DOMAIN r |-> RankOf(r, i)]
            At(k) == CHOOSE i \in DOMAIN r : RankOf(r, i) = k - 1
            at == [k \in DOMAIN r |-> At(k)]
<1>0. r \in Seq(FileRange)
  <2>1. Len(r) \in Nat /\ r \in [1 .. Len(r) -> F]
    BY SeqIs
  <2>2. r \in [1 .. Len(r) -> FileRange]
    BY <2>1
  <2>. QED BY <2>1, <2>2, FunctionIsSeq
<1>1. n \in Nat /\ DOMAIN r = 1..n /\ \A i \in 1..n : r[i] \in F
    BY SeqIs
<1>2. /\ IsFiniteSet(DOMAIN r) /\ Cardinality(DOMAIN r) = n
      /\ rank \in [DOMAIN r -> 0 .. n - 1]
      /\ \A i, j \in DOMAIN r : rank[i] = rank[j] => i = j
    BY <1>0, RankIs
<1>3. \A k \in 1..n : \E i \in DOMAIN r : rank[i] = k - 1
  <2>. DEFINE D == DOMAIN r
  <2>1. /\ IsFiniteSet(D) /\ Cardinality(D) = n /\ rank \in [D -> 0 .. n - 1]
        /\ \A i, j \in D : rank[i] = rank[j] => i = j
    BY <1>2
  <2>. HIDE DEF rank, n, D
  <2>2. \A k \in 1..n : \E i \in D : rank[i] = k - 1
    BY <2>1, RanksAreTaken
  <2>. QED BY <2>2 DEF D
<1>4. ASSUME NEW k \in 1..n PROVE at[k] \in DOMAIN r /\ rank[at[k]] = k - 1
  <2>1. \E i \in DOMAIN r : RankOf(r, i) = k - 1
    BY <1>3
  <2>2. At(k) \in DOMAIN r /\ RankOf(r, At(k)) = k - 1
    BY <2>1
  <2>3. at[k] = At(k)
    BY <1>1
  <2>. HIDE DEF At, at
  <2>. QED BY <2>2, <2>3
<1>. HIDE DEF n, rank, at
<1>5. DOMAIN at = 1..n /\ at = [k \in 1..n |-> at[k]]
    BY <1>1 DEF at
<1>6. at \in [1..n -> 1..n]
    BY <1>1, <1>4, <1>5
<1>7. \A j, k \in 1..n : at[j] = at[k] => j = k
  <2>1. ASSUME NEW j \in 1..n, NEW k \in 1..n, at[j] = at[k] PROVE j = k
    <3>1. j - 1 = k - 1
      BY <1>4, <2>1
    <3>. QED BY <3>1
  <2>. QED BY <2>1
<1>8. ASSUME NEW x \in 1..n PROVE \E k \in 1..n : at[k] = x
  <2>1. rank[x] + 1 \in 1..n /\ (rank[x] + 1) - 1 = rank[x]
    BY <1>1, <1>2
  <2>2. at[rank[x] + 1] \in DOMAIN r /\ rank[at[rank[x] + 1]] = rank[x]
    BY <1>4, <2>1
  <2>. QED BY <1>1, <1>2, <2>1, <2>2
<1>9. at \in Bijection(1..n, 1..n)
    BY <1>6, <1>7, <1>8, IsBijection
<1>. DEFINE s == SortedByPath(r)
<1>10. s = [k \in 1..n |-> r[at[k]]]
    BY <1>1 DEF SortedByPath, at, RankOf, EarlierOnes, Earlier
<1>. HIDE DEF s
<1>11. s \in [1..n -> F]
    BY <1>1, <1>6, <1>10
<1>12. s \in Seq(F) /\ Len(s) = n /\ DOMAIN s = 1..n
    BY <1>1, <1>11, FunctionIsSeq
<1>13. \A k \in DOMAIN s : s[k] = r[at[k]]
    BY <1>10, <1>12
<1>14. Shuffled(s, r)
    BY <1>1, <1>9, <1>12, <1>13 DEF Shuffled
<1>. QED BY <1>1, <1>12, <1>14 DEF s, n

-----------------------------------------------------------------------------
(* Datasets *)

\* Datasets of ranges in F.
DatasetsIn(F) == [ranges : Seq(F), kind : {"files", "ranges", "merged"}]

LEMMA SeqGrows ==
    ASSUME NEW F, NEW G, F \subseteq G, NEW s \in Seq(F)
    PROVE  s \in Seq(G)
<1>1. Len(s) \in Nat /\ s \in [1 .. Len(s) -> F]
    BY SeqIs
<1>2. s \in [1 .. Len(s) -> G]
    BY <1>1
<1>. QED BY <1>1, <1>2, FunctionIsSeq

LEMMA DatasetsGrow ==
    ASSUME NEW F, NEW G, F \subseteq G, NEW d \in DatasetsIn(F)
    PROVE  d \in DatasetsIn(G)
<1>1. d.ranges \in Seq(G)
    BY SeqGrows DEF DatasetsIn
<1>. QED BY <1>1 DEF DatasetsIn

LEMMA FilesTyped ==
    ASSUME NEW F, NEW r \in Seq(F)
    PROVE  Files(r) \in DatasetsIn(F) /\ Files(r).ranges = r /\ Files(r).kind = "files"
BY DEF Files, DatasetsIn

\* Sequences in which every item is shuffled.
LEMMA FlattenPointwise ==
    ASSUME NEW S, NEW ss \in Seq(Seq(S)), NEW uu \in Seq(Seq(S)), Len(ss) = Len(uu),
           \A i \in DOMAIN ss : Shuffled(ss[i], uu[i])
    PROVE  Shuffled(FlattenSeq(ss), FlattenSeq(uu))
<1>1. PICK f : Concats(ss, S, f)
    BY FlattenIs
<1>2. PICK g : Concats(uu, S, g)
    BY FlattenIs
<1>. DEFINE n == Len(ss)
            P == {k \in 0..n : Shuffled(f[k], g[k])}
<1>3. n \in Nat /\ DOMAIN ss = 1..n /\ DOMAIN uu = 1..n
    BY SeqIs
<1>4. /\ f[0] = <<>> /\ g[0] = <<>> /\ f[n] = FlattenSeq(ss) /\ g[n] = FlattenSeq(uu)
      /\ \A i \in 1..n : f[i] = f[i - 1] \o ss[i]
      /\ \A i \in 1..n : g[i] = g[i - 1] \o uu[i]
  <2>1. /\ f[0] = <<>> /\ f[n] = FlattenSeq(ss)
        /\ \A i \in 1..n : f[i] = f[i - 1] \o ss[i]
    BY <1>1 DEF Concats
  <2>2. /\ g[0] = <<>> /\ g[n] = FlattenSeq(uu)
        /\ \A i \in 1..n : g[i] = g[i - 1] \o uu[i]
    BY <1>2 DEF Concats
  <2>. QED BY <2>1, <2>2
<1>5. /\ \A i \in 0..n : f[i] \in Seq(S)
      /\ \A i \in 0..n : g[i] \in Seq(S)
    BY <1>1, <1>2 DEF Concats
<1>6. \A i \in 1..n : ss[i] \in Seq(S) /\ uu[i] \in Seq(S)
    BY <1>3, SeqIs
<1>. HIDE DEF n
<1>7. 0 \in P
    BY <1>3, <1>4, ShuffledSame
<1>8. ASSUME NEW k \in 1..n, k - 1 \in P PROVE k \in P
  <2>1. k \in 0..n /\ k - 1 \in 0..n
    BY <1>3
  <2>. DEFINE a == f[k - 1]
              b == g[k - 1]
              c == ss[k]
              d == uu[k]
  <2>2. /\ a \in Seq(S) /\ b \in Seq(S) /\ c \in Seq(S) /\ d \in Seq(S)
        /\ f[k] = a \o c /\ g[k] = b \o d
        /\ Shuffled(a, b) /\ Shuffled(c, d)
    BY <1>3, <1>4, <1>5, <1>6, <1>8, <2>1
  <2>. HIDE DEF a, b, c, d
  <2>3. Shuffled(a \o c, b \o d)
    BY <2>2, ShuffledConcat
  <2>. QED BY <2>1, <2>2, <2>3
<1>9. \A k \in 0..n : k \in P
  <2>. HIDE DEF P
  <2>. QED BY <1>3, <1>7, <1>8, Upto
<1>10. n \in P
    BY <1>3, <1>9
<1>. QED BY <1>4, <1>10

\* Ranges without rows left out.
LEMMA RowsOfSome ==
    ASSUME NEW r \in Seq(FileRange), NEW T \in SUBSET DOMAIN r,
           \A i \in DOMAIN r : i \notin T => r[i].rows = <<>>
    PROVE  /\ Shuffled(RowsOf(ItemsAt(r, T)), RowsOf(r))
           /\ Len(RowsOf(ItemsAt(r, T))) = Len(RowsOf(r))
<1>. DEFINE u == ItemsAt(r, T)
            a == Ascending(T)
            n == Cardinality(T)
<1>1. /\ u \in Seq(FileRange) /\ DOMAIN u = 1..n /\ a \in Bijection(1..n, T)
      /\ \A k \in 1..n : u[k] = r[a[k]]
    BY ItemsAtIs
<1>. HIDE DEF u, a, n
<1>2. /\ a \in [1..n -> T]
      /\ \A x, y \in 1..n : a[x] = a[y] => x = y
      /\ \A z \in T : \E x \in 1..n : a[x] = z
  <2>. DEFINE D == 1..n
  <2>1. a \in Bijection(D, T)
    BY <1>1
  <2>. HIDE DEF D
  <2>2. /\ a \in [D -> T]
        /\ \A x, y \in D : a[x] = a[y] => x = y
        /\ \A z \in T : \E x \in D : a[x] = z
    BY <2>1, BijectionIs
  <2>. QED BY <2>2 DEF D
<1>3. /\ RowSeqs(u) \in Seq(Seq(Row)) /\ DOMAIN RowSeqs(u) = DOMAIN u
      /\ \A k \in DOMAIN u : RowSeqs(u)[k] = u[k].rows
    BY <1>1, RowSeqsTyped
<1>4. /\ RowSeqs(r) \in Seq(Seq(Row)) /\ DOMAIN RowSeqs(r) = DOMAIN r
      /\ \A k \in DOMAIN r : RowSeqs(r)[k] = r[k].rows
    BY RowSeqsTyped
<1>5. Embedded(RowSeqs(u), RowSeqs(r), a)
  <2>1. a \in [DOMAIN RowSeqs(u) -> DOMAIN RowSeqs(r)]
    BY <1>1, <1>2, <1>3, <1>4
  <2>2. \A k \in DOMAIN RowSeqs(u) : RowSeqs(u)[k] = RowSeqs(r)[a[k]]
    <3>1. ASSUME NEW k \in 1..n PROVE RowSeqs(u)[k] = RowSeqs(r)[a[k]]
      <4>1. a[k] \in DOMAIN r
        BY <1>2
      <4>2. RowSeqs(u)[k] = u[k].rows /\ u[k] = r[a[k]]
        BY <1>1, <1>3
      <4>3. RowSeqs(r)[a[k]] = r[a[k]].rows
        BY <1>4, <4>1
      <4>. QED BY <4>2, <4>3
    <3>. QED BY <1>1, <1>3, <3>1
  <2>3. \A z \in DOMAIN RowSeqs(r) : RowSeqs(r)[z] # <<>> =>
            \E x \in DOMAIN RowSeqs(u) : a[x] = z
    BY <1>1, <1>2, <1>3, <1>4
  <2>. QED BY <1>1, <1>2, <1>3, <2>1, <2>2, <2>3 DEF Embedded
<1>6. Shuffled(FlattenSeq(RowSeqs(u)), FlattenSeq(RowSeqs(r)))
    BY <1>3, <1>4, <1>5, FlattenEmbedded
<1>7. /\ RowsOf(r) = FlattenSeq(RowSeqs(r)) /\ RowsOf(r) \in Seq(Row)
      /\ RowsOf(u) = FlattenSeq(RowSeqs(u)) /\ RowsOf(u) \in Seq(Row)
    BY <1>1, RowsOfIs
<1>8. Shuffled(RowsOf(u), RowsOf(r))
    BY <1>6, <1>7
<1>9. Len(RowsOf(u)) = Len(RowsOf(r))
    BY <1>7, <1>8, ShuffledLength
<1>. QED BY <1>8, <1>9 DEF u

LEMMA NonEmptyIs ==
    ASSUME NEW F \in SUBSET FileRange, NEW r \in Seq(F)
    PROVE  /\ NonEmpty(r) \in Seq(F)
           /\ Shuffled(RowsOf(NonEmpty(r)), RowsOf(r))
           /\ Len(RowsOf(NonEmpty(r))) = Len(RowsOf(r))
<1>. DEFINE T == {i \in DOMAIN r : r[i].rows # <<>>}
<1>1. NonEmpty(r) = ItemsAt(r, T) /\ T \in SUBSET DOMAIN r
    BY DEF NonEmpty
<1>2. \A i \in DOMAIN r : i \notin T => r[i].rows = <<>>
    OBVIOUS
<1>. HIDE DEF T
<1>3. r \in Seq(FileRange)
    BY SeqGrows
<1>4. ItemsAt(r, T) \in Seq(F)
    BY <1>1, ItemsAtIs
<1>. QED BY <1>1, <1>2, <1>3, <1>4, RowsOfSome

\* Resolved, a dataset has the same ranges.
LEMMA ResolvedIs ==
    ASSUME NEW F \in SUBSET FileRange, NEW d \in DatasetsIn(F)
    PROVE  /\ d.ranges \in Seq(F)
           /\ ResolvedPaths(d) \in Seq(F) /\ Len(ResolvedPaths(d)) = Len(d.ranges)
           /\ ResolvedRanges(d) \in Seq(F) /\ Len(ResolvedRanges(d)) = Len(d.ranges)
           /\ DOMAIN ResolvedPaths(d) = DOMAIN d.ranges
           /\ DOMAIN ResolvedRanges(d) = DOMAIN d.ranges
           /\ Shuffled(ResolvedRanges(d), d.ranges)
<1>1. d.ranges \in Seq(F)
    BY DEF DatasetsIn
<1>. DEFINE r == d.ranges
            s == SortedByPath(r)
<1>2. /\ s \in Seq(F) /\ Len(s) = Len(r) /\ DOMAIN s = DOMAIN r /\ Shuffled(s, r)
  <2>. HIDE DEF r
  <2>. QED BY <1>1, SortedIs DEF r
<1>3. Shuffled(r, r)
    BY ShuffledSame
<1>4. ResolvedPaths(d) = s /\ ResolvedRanges(d) = IF Ranged(d) THEN r ELSE s
    BY DEF ResolvedPaths, ResolvedRanges
<1>. HIDE DEF r, s
<1>5. CASE Ranged(d)
    BY <1>1, <1>2, <1>3, <1>4, <1>5 DEF r
<1>6. CASE ~Ranged(d)
    BY <1>1, <1>2, <1>3, <1>4, <1>6 DEF r
<1>. QED BY <1>5, <1>6

LEMMA ResolvedRows ==
    ASSUME NEW F \in SUBSET FileRange, NEW d \in DatasetsIn(F)
    PROVE  /\ RowsOf(d.ranges) \in Seq(Row) /\ RowsOf(ResolvedRanges(d)) \in Seq(Row)
           /\ Shuffled(RowsOf(ResolvedRanges(d)), RowsOf(d.ranges))
           /\ Len(RowsOf(ResolvedRanges(d))) = NumRows(d)
           /\ NumRows(d) \in Nat
<1>1. d.ranges \in Seq(FileRange) /\ ResolvedRanges(d) \in Seq(FileRange)
    BY ResolvedIs, SeqGrows
<1>2. Shuffled(ResolvedRanges(d), d.ranges)
    BY ResolvedIs
<1>3. /\ Shuffled(RowsOf(ResolvedRanges(d)), RowsOf(d.ranges))
      /\ Len(RowsOf(ResolvedRanges(d))) = Len(RowsOf(d.ranges))
    BY <1>1, <1>2, RowsOfShuffled
<1>4. RowsOf(d.ranges) \in Seq(Row) /\ RowsOf(ResolvedRanges(d)) \in Seq(Row)
    BY <1>1, RowsOfIs
<1>5. Len(RowsOf(d.ranges)) \in Nat
    BY <1>4, SeqIs
<1>. QED BY <1>3, <1>4, <1>5 DEF NumRows

\* No ranges, or ranges without rows.
LEMMA NoRows ==
    ASSUME NEW r \in Seq(FileRange), \A i \in DOMAIN r : r[i].rows = <<>>
    PROVE  RowsOf(r) = <<>>
<1>1. /\ Shuffled(RowsOf(ItemsAt(r, {})), RowsOf(r))
      /\ Len(RowsOf(ItemsAt(r, {}))) = Len(RowsOf(r))
    BY RowsOfSome
<1>2. ItemsAt(r, {}) \in Seq(FileRange) /\ Len(ItemsAt(r, {})) = Cardinality({})
    BY ItemsAtIs
<1>3. Cardinality({}) = 0
    BY FS_EmptySet
<1>4. ItemsAt(r, {}) = <<>>
    BY <1>2, <1>3, SeqIs
<1>5. Len(RowsOf(r)) = 0
    BY <1>1, <1>4, RowsOfNone, EmptyIsSeq
<1>6. RowsOf(r) \in Seq(Row)
    BY RowsOfIs
<1>. QED BY <1>5, <1>6, SeqIs

\* remove_empty_files removes no row.
LEMMA RemoveEmptyIs ==
    ASSUME NEW F \in SUBSET FileRange, NEW d \in DatasetsIn(F)
    PROVE  /\ RemoveEmptyFiles(d) \in DatasetsIn(F)
           /\ RemoveEmptyFiles(d).kind = "merged" => d.kind = "merged"
           /\ Shuffled(RowsOf(RemoveEmptyFiles(d).ranges), RowsOf(d.ranges))
           /\ NumRows(RemoveEmptyFiles(d)) = NumRows(d)
<1>. DEFINE all == ResolvedRanges(d)
            full == NonEmpty(all)
            first == SubSeq(all, 1, Least(1, Len(all)))
            kept == IF full = <<>> THEN first ELSE full
            e == RemoveEmptyFiles(d)
<1>1. all \in Seq(F) /\ all \in Seq(FileRange)
    BY ResolvedIs, SeqGrows
<1>2. /\ RowsOf(d.ranges) \in Seq(Row) /\ RowsOf(all) \in Seq(Row)
      /\ Shuffled(RowsOf(all), RowsOf(d.ranges))
    BY ResolvedRows
<1>3. /\ full \in Seq(F) /\ Shuffled(RowsOf(full), RowsOf(all))
      /\ Len(RowsOf(full)) = Len(RowsOf(all))
  <2>. HIDE DEF all
  <2>. QED BY <1>1, NonEmptyIs
<1>4. /\ first \in Seq(F) /\ \A i \in DOMAIN first : first[i] = all[i] /\ i \in DOMAIN all
  <2>. HIDE DEF all
  <2>1. Len(all) \in Nat /\ DOMAIN all = 1 .. Len(all) /\ \A i \in DOMAIN all : all[i] \in F
    BY <1>1, SeqIs
  <2>. DEFINE b == Least(1, Len(all))
  <2>2. b \in Int /\ b <= Len(all) /\ b <= 1 /\ b >= 0
    BY <2>1 DEF Least
  <2>. HIDE DEF b
  <2>3. \A i \in 1 .. b : all[i] \in F /\ i \in DOMAIN all
    BY <2>1, <2>2
  <2>4. /\ SubSeq(all, 1, b) \in Seq(F)
        /\ Len(SubSeq(all, 1, b)) = IF 1 <= b THEN b - 1 + 1 ELSE 0
        /\ \A i \in 1 .. b - 1 + 1 : SubSeq(all, 1, b)[i] = all[1 + i - 1]
    BY <2>2, <2>3, SubSeqProperties
  <2>. DEFINE s == SubSeq(all, 1, b)
  <2>5. s \in Seq(F) /\ Len(s) = b /\ \A i \in 1..b : s[i] = all[i]
    BY <2>2, <2>4
  <2>. HIDE DEF s
  <2>6. DOMAIN s = 1..b
    BY <2>5, SeqIs
  <2>. QED BY <2>3, <2>5, <2>6 DEF s, b
<1>5. kept \in Seq(F)
    BY <1>3, <1>4
<1>6. e = [ranges |-> kept, kind |-> IF d.kind = "merged" /\ kept = all THEN "merged" ELSE "ranges"]
    BY DEF RemoveEmptyFiles
<1>. HIDE DEF first, e
<1>7. /\ e \in DatasetsIn(F) /\ e.ranges = kept /\ (e.kind = "merged" => d.kind = "merged")
  <2>. HIDE DEF kept, all
  <2>. QED BY <1>5, <1>6 DEF DatasetsIn
<1>8. Shuffled(RowsOf(kept), RowsOf(all))
  <2>1. CASE full # <<>>
    BY <1>3, <2>1
  <2>2. CASE full = <<>>
    <3>. HIDE DEF all, full
    <3>1. Len(RowsOf(all)) = 0
      BY <1>3, <2>2, RowsOfNone, EmptyIsSeq
    <3>2. RowsOf(all) = <<>>
      BY <1>2, <3>1, SeqIs
    <3>3. full = ItemsAt(all, {i \in DOMAIN all : all[i].rows # <<>>})
      BY DEF NonEmpty, full
    <3>4. {i \in DOMAIN all : all[i].rows # <<>>} = {}
      <4>. DEFINE T == {i \in DOMAIN all : all[i].rows # <<>>}
      <4>0. T \in SUBSET DOMAIN all
        OBVIOUS
      <4>. HIDE DEF T
      <4>1. IsFiniteSet(T) /\ Len(ItemsAt(all, T)) = Cardinality(T)
        BY <1>1, <4>0, ItemsAtIs
      <4>2. Cardinality(T) = 0
        BY <2>2, <3>3, <4>1, EmptyIsSeq DEF T
      <4>3. T = {}
        BY <4>1, <4>2, FS_EmptySet
      <4>. QED BY <4>3 DEF T
    <3>5. \A i \in DOMAIN first : first[i].rows = <<>>
      BY <1>4, <3>4
    <3>6. first \in Seq(FileRange)
      BY <1>4, SeqGrows
    <3>7. RowsOf(first) = <<>>
      BY <3>5, <3>6, NoRows
    <3>. QED BY <2>2, <3>2, <3>7, ShuffledSame
  <2>. QED BY <2>1, <2>2
<1>9. Shuffled(RowsOf(kept), RowsOf(d.ranges))
  <2>. HIDE DEF kept, all
  <2>. QED BY <1>2, <1>8, ShuffledTwice
<1>10. kept \in Seq(FileRange)
  <2>. HIDE DEF kept
  <2>. QED BY <1>5, SeqGrows
<1>11. RowsOf(kept) \in Seq(Row)
  <2>. HIDE DEF kept
  <2>. QED BY <1>10, RowsOfIs
<1>12. Len(RowsOf(kept)) = Len(RowsOf(d.ranges))
  <2>. HIDE DEF kept
  <2>. QED BY <1>2, <1>9, <1>11, ShuffledLength
<1>. HIDE DEF kept
<1>13. /\ e \in DatasetsIn(F) /\ (e.kind = "merged" => d.kind = "merged")
       /\ Shuffled(RowsOf(e.ranges), RowsOf(d.ranges)) /\ NumRows(e) = NumRows(d)
    BY <1>7, <1>9, <1>12 DEF NumRows
<1>. QED BY <1>13 DEF e

\* The rows of datasets, one by one.
RowsOfEach(ds) == [i \in DOMAIN ds |-> RowsOf(ds[i].ranges)]

\* merge brings the rows of all datasets together.
LEMMA MergeIs ==
    ASSUME NEW F \in SUBSET FileRange, NEW ds \in Seq(DatasetsIn(F))
    PROVE  /\ Merge(ds) \in DatasetsIn(F)
           /\ (\A i \in DOMAIN ds : ds[i].kind = "files") => Merge(ds).kind = "files"
           /\ RowsOfEach(ds) \in Seq(Seq(Row)) /\ Len(RowsOfEach(ds)) = Len(ds)
           /\ Shuffled(RowsOf(Merge(ds).ranges), FlattenSeq(RowsOfEach(ds)))
           /\ NumRows(Merge(ds)) = Len(FlattenSeq(RowsOfEach(ds)))
<1>. DEFINE n == Len(ds)
            sorted == [i \in DOMAIN ds |-> ResolvedRanges(ds[i])]
            plain == [i \in DOMAIN ds |-> ds[i].ranges]
            rows == RowsOfEach(ds)
            ranged == \E i \in DOMAIN ds : Ranged(ds[i])
            m == Merge(ds)
<1>1. n \in Nat /\ DOMAIN ds = 1..n /\ \A i \in 1..n : ds[i] \in DatasetsIn(F)
    BY SeqIs
<1>. HIDE DEF n
<1>2. \A i \in 1..n : /\ ds[i].ranges \in Seq(F) /\ ds[i].ranges \in Seq(FileRange)
                      /\ ResolvedRanges(ds[i]) \in Seq(F)
                      /\ ResolvedRanges(ds[i]) \in Seq(FileRange)
                      /\ RowsOf(ds[i].ranges) \in Seq(Row)
                      /\ RowsOf(ResolvedRanges(ds[i])) \in Seq(Row)
                      /\ Shuffled(RowsOf(ResolvedRanges(ds[i])), RowsOf(ds[i].ranges))
                      /\ ds[i].kind \in {"files", "ranges", "merged"}
  <2>1. ASSUME NEW i \in 1..n
        PROVE  /\ ds[i].ranges \in Seq(F) /\ ds[i].ranges \in Seq(FileRange)
               /\ ResolvedRanges(ds[i]) \in Seq(F)
               /\ ResolvedRanges(ds[i]) \in Seq(FileRange)
    <3>1. ds[i] \in DatasetsIn(F)
      BY <1>1
    <3>2. ds[i].ranges \in Seq(F) /\ ResolvedRanges(ds[i]) \in Seq(F)
      BY <3>1, ResolvedIs
    <3>. QED BY <3>2, SeqGrows
  <2>2. ASSUME NEW i \in 1..n
        PROVE  /\ RowsOf(ds[i].ranges) \in Seq(Row)
               /\ RowsOf(ResolvedRanges(ds[i])) \in Seq(Row)
               /\ Shuffled(RowsOf(ResolvedRanges(ds[i])), RowsOf(ds[i].ranges))
    <3>1. ds[i] \in DatasetsIn(F)
      BY <1>1
    <3>. QED BY <3>1, ResolvedRows
  <2>3. \A i \in 1..n : ds[i].kind \in {"files", "ranges", "merged"}
    BY <1>1 DEF DatasetsIn
  <2>. QED BY <2>1, <2>2, <2>3
<1>3. /\ sorted \in [1..n -> Seq(F)] /\ sorted \in [1..n -> Seq(FileRange)]
      /\ plain \in [1..n -> Seq(F)] /\ plain \in [1..n -> Seq(FileRange)]
      /\ rows \in [1..n -> Seq(Row)]
  <2>1. sorted \in [1..n -> Seq(F)] /\ sorted \in [1..n -> Seq(FileRange)]
    BY <1>1, <1>2
  <2>2. plain \in [1..n -> Seq(F)] /\ plain \in [1..n -> Seq(FileRange)]
    BY <1>1, <1>2
  <2>3. rows \in [1..n -> Seq(Row)]
    BY <1>1, <1>2 DEF RowsOfEach
  <2>. QED BY <2>1, <2>2, <2>3
<1>4. /\ \A i \in 1..n : sorted[i] = ResolvedRanges(ds[i])
      /\ \A i \in 1..n : plain[i] = ds[i].ranges
      /\ \A i \in 1..n : rows[i] = RowsOf(ds[i].ranges)
    BY <1>1 DEF RowsOfEach
<1>5. m = IF ranged THEN [ranges |-> FlattenSeq(sorted), kind |-> "merged"]
          ELSE Files(FlattenSeq(plain))
    BY DEF Merge
<1>6. (\A i \in DOMAIN ds : ds[i].kind = "files") => ~ranged
    BY DEF Ranged
<1>. HIDE DEF sorted, plain, rows, m, ranged
<1>7. /\ sorted \in Seq(Seq(F)) /\ sorted \in Seq(Seq(FileRange)) /\ Len(sorted) = n
      /\ DOMAIN sorted = 1..n
    BY <1>1, <1>3, FunctionIsSeq
<1>8. /\ plain \in Seq(Seq(F)) /\ plain \in Seq(Seq(FileRange)) /\ Len(plain) = n
      /\ DOMAIN plain = 1..n
    BY <1>1, <1>3, FunctionIsSeq
<1>9. rows \in Seq(Seq(Row)) /\ Len(rows) = n /\ DOMAIN rows = 1..n
    BY <1>1, <1>3, FunctionIsSeq
<1>10. FlattenSeq(sorted) \in Seq(F) /\ FlattenSeq(plain) \in Seq(F)
    BY <1>7, <1>8, FlattenTyped
<1>11. /\ m \in DatasetsIn(F) /\ (~ranged => m.kind = "files")
       /\ m.ranges = IF ranged THEN FlattenSeq(sorted) ELSE FlattenSeq(plain)
    BY <1>5, <1>10 DEF DatasetsIn, Files
<1>12. Shuffled(RowsOf(FlattenSeq(plain)), FlattenSeq(rows))
  <2>1. RowsOf(FlattenSeq(plain)) = FlattenSeq(rows)
    BY <1>4, <1>8, <1>9, RowsOfFlatten, ZenonT(60)
  <2>. QED BY <2>1, ShuffledSame
<1>13. Shuffled(RowsOf(FlattenSeq(sorted)), FlattenSeq(rows))
  <2>. DEFINE q == [i \in 1..n |-> RowsOf(sorted[i])]
  <2>1. q \in [1..n -> Seq(Row)] /\ \A i \in 1..n : q[i] = RowsOf(sorted[i])
    BY <1>2, <1>4
  <2>. HIDE DEF q
  <2>2. q \in Seq(Seq(Row)) /\ Len(q) = n /\ DOMAIN q = 1..n
    BY <1>1, <2>1, FunctionIsSeq
  <2>3. RowsOf(FlattenSeq(sorted)) = FlattenSeq(q)
    BY <1>7, <2>1, <2>2, RowsOfFlatten
  <2>4. \A i \in DOMAIN q : Shuffled(q[i], rows[i])
    BY <1>2, <1>4, <2>1, <2>2
  <2>5. Shuffled(FlattenSeq(q), FlattenSeq(rows))
    BY <1>9, <2>2, <2>4, FlattenPointwise
  <2>. QED BY <2>3, <2>5
<1>14. Shuffled(RowsOf(m.ranges), FlattenSeq(rows))
    BY <1>11, <1>12, <1>13
<1>15. m.ranges \in Seq(FileRange)
    BY <1>11, SeqGrows DEF DatasetsIn
<1>16. RowsOf(m.ranges) \in Seq(Row) /\ FlattenSeq(rows) \in Seq(Row)
    BY <1>9, <1>15, RowsOfIs, FlattenTyped
<1>17. NumRows(m) = Len(FlattenSeq(rows))
    BY <1>14, <1>16, ShuffledLength DEF NumRows
<1>18. (\A i \in DOMAIN ds : ds[i].kind = "files") => m.kind = "files"
    BY <1>6, <1>11
<1>. QED BY <1>9, <1>11, <1>14, <1>17, <1>18 DEF m, rows, n

-----------------------------------------------------------------------------
(* Rows cut evenly *)

LEMMA MultipleLess ==
    ASSUME NEW m \in Nat \ {0}, NEW a \in Int, NEW b \in Int, m * a < m * b + m
    PROVE  a <= b
<1>1. SUFFICES ASSUME a > b PROVE FALSE
    OBVIOUS
<1>. DEFINE d == a - b - 1
<1>2. d \in Nat /\ a = b + 1 + d
    BY <1>1
<1>. HIDE DEF d
<1>3. m * (b + 1 + d) = m * b + m + m * d
    BY <1>2
<1>4. m * d \in Nat
    BY <1>2
<1>5. m * a = m * b + m + m * d
    BY <1>2, <1>3
<1>. DEFINE x == m * a
            y == m * b
            z == m * d
<1>6. x \in Int /\ y \in Int /\ z \in Nat /\ x = y + m + z /\ x < y + m
    BY <1>4, <1>5
<1>. HIDE DEF x, y, z
<1>. QED BY <1>6

\* The share of one of m partitions of what is left.
LEMMA ShareIs ==
    ASSUME NEW q \in Nat, NEW m \in Nat \ {0}, NEW x \in Nat, m * q <= x, x <= m * q + m
    PROVE  /\ CeilDiv(x, m) = q \/ CeilDiv(x, m) = q + 1
           /\ CeilDiv(x, m) = q => x = m * q
           /\ CeilDiv(x, m) = q + 1 => x > m * q
<1>. DEFINE e == x \div m
            r == x % m
            c == CeilDiv(x, m)
<1>1. e \in Nat /\ r \in 0 .. m - 1 /\ x = m * e + r
    BY DivMod
<1>2. c = e + (IF r = 0 THEN 0 ELSE 1)
    BY CeilDivIs
<1>. HIDE DEF e, r, c
<1>. DEFINE me == m * e
            mq == m * q
<1>3. me \in Int /\ mq \in Int /\ mq <= x /\ x <= mq + m /\ x = me + r
    BY <1>1
<1>4. q <= e
  <2>1. mq < me + m
    <3>. HIDE DEF me, mq
    <3>. QED BY <1>1, <1>3
  <2>. QED BY <1>1, <2>1, MultipleLess
<1>5. e <= q + 1
  <2>0. m * (q + 1) = mq + m
    OBVIOUS
  <2>1. me < m * (q + 1) + m
    <3>. DEFINE mq1 == m * (q + 1)
    <3>1. mq1 = mq + m
      BY <2>0
    <3>. HIDE DEF me, mq, mq1
    <3>2. me < mq1 + m
      BY <1>1, <1>3, <3>1
    <3>. QED BY <3>2 DEF mq1
  <2>. QED BY <1>1, <2>1, MultipleLess
<1>6. CASE e = q
  <2>1. me = mq
    BY <1>6
  <2>. HIDE DEF me, mq
  <2>2. (c = q \/ c = q + 1) /\ (c = q => x = mq) /\ (c = q + 1 => x > mq)
    BY <1>1, <1>2, <1>3, <1>6, <2>1
  <2>. QED BY <2>2 DEF c, mq
<1>7. CASE e = q + 1
  <2>1. me = mq + m
    BY <1>7
  <2>. HIDE DEF me, mq
  <2>2. r = 0
    BY <1>1, <1>3, <2>1
  <2>3. c = q + 1 /\ x > mq
    BY <1>2, <1>1, <1>3, <1>7, <2>1, <2>2
  <2>. QED BY <2>3 DEF c, mq
<1>. QED BY <1>1, <1>4, <1>5, <1>6, <1>7

\* What is left of the rows before every partition, and the shares.
Leaves(num, n, left) ==
    /\ left \in [1 .. n + 1 -> Nat] /\ left[1] = num
    /\ \A k \in 2 .. n + 1 : left[k] = left[k - 1] - CeilDiv(left[k - 1], n - k + 2)

LEMMA CeilDivSmall ==
    ASSUME NEW x \in Nat, NEW m \in Nat \ {0}
    PROVE  CeilDiv(x, m) \in 0 .. x
<1>. DEFINE e == x \div m
            r == x % m
            me == m * e
<1>1. e \in Nat /\ r \in 0 .. m - 1 /\ x = me + r
    BY DivMod
<1>2. CeilDiv(x, m) = e + (IF r = 0 THEN 0 ELSE 1)
    BY CeilDivIs
<1>. HIDE DEF r
<1>3. me >= e /\ me \in Nat
  <2>. DEFINE p == m - 1
  <2>1. p \in Nat /\ m = p + 1
    OBVIOUS
  <2>. HIDE DEF p, e
  <2>2. (p + 1) * e = p * e + e /\ p * e \in Nat
    BY <1>1, <2>1
  <2>3. me = p * e + e
    BY <2>1, <2>2
  <2>. DEFINE pe == p * e
  <2>4. pe \in Nat /\ me = pe + e
    BY <2>2, <2>3
  <2>. HIDE DEF pe, me
  <2>. QED BY <1>1, <2>4
<1>. HIDE DEF e, me
<1>4. e + (IF r = 0 THEN 0 ELSE 1) \in 0 .. x
    BY <1>1, <1>3
<1>. QED BY <1>2, <1>4

LEMMA RowsLeftIs ==
    ASSUME NEW num \in Nat, NEW n \in Nat \ {0}
    PROVE  Leaves(num, n, RowsLeft(num, n))
<1>. DEFINE next(k, x) == x - CeilDiv(x, n - k + 2)
            Eq(h) == h = [k \in 1 .. n + 1 |-> IF k = 1 THEN num
                                             ELSE h[k - 1] - CeilDiv(h[k - 1], n - k + 2)]
            G == [i \in 1..n |-> [x \in Nat |-> next(i + 1, x)]]
<1>1. \A i \in 1..n : \A x \in Nat : next(i + 1, x) \in Nat
  <2>1. ASSUME NEW i \in 1..n, NEW x \in Nat PROVE next(i + 1, x) \in Nat
    <3>1. n - (i + 1) + 2 \in Nat \ {0}
      OBVIOUS
    <3>2. CeilDiv(x, n - (i + 1) + 2) \in 0 .. x
      BY <3>1, CeilDivSmall
    <3>. QED BY <3>2
  <2>. QED BY <2>1
<1>2. G \in [1..n -> [Nat -> Nat]]
  <2>. HIDE DEF next
  <2>. QED BY <1>1
<1>3. \A i \in 1..n : \A x \in Nat : G[i][x] = next(i + 1, x)
  <2>. HIDE DEF next
  <2>. QED OBVIOUS
<1>4. PICK f : Chain(n, Nat, num, G, f)
  <2>. HIDE DEF G
  <2>. QED BY <1>2, ChainExists
<1>5. /\ f \in [0..n -> Nat] /\ f[0] = num
      /\ \A i \in 1..n : f[i] = G[i][f[i - 1]]
    BY <1>4 DEF Chain
<1>. HIDE DEF G
<1>. DEFINE g == [k \in 1 .. n + 1 |-> f[k - 1]]
<1>6. g \in [1 .. n + 1 -> Nat] /\ g[1] = num
    BY <1>5
<1>7. ASSUME NEW k \in 2 .. n + 1 PROVE g[k] = g[k - 1] - CeilDiv(g[k - 1], n - k + 2)
  <2>1. /\ k - 1 \in 1..n /\ k \in 1 .. n + 1 /\ k - 1 \in 1 .. n + 1 /\ (k - 1) - 1 \in 0..n
        /\ (k - 1) + 1 = k
    OBVIOUS
  <2>2. g[k] = f[k - 1] /\ g[k - 1] = f[(k - 1) - 1] /\ f[(k - 1) - 1] \in Nat
    BY <1>5, <2>1
  <2>3. f[k - 1] = next((k - 1) + 1, f[(k - 1) - 1])
    <3>. HIDE DEF next
    <3>. QED BY <1>3, <1>5, <2>1, <2>2
  <2>. HIDE DEF g
  <2>. QED BY <2>1, <2>2, <2>3
<1>8. Eq(g)
  <2>1. ASSUME NEW k \in 1 .. n + 1
        PROVE  g[k] = IF k = 1 THEN num ELSE g[k - 1] - CeilDiv(g[k - 1], n - k + 2)
    <3>. HIDE DEF g
    <3>1. CASE k = 1
      BY <1>6, <3>1
    <3>2. CASE k # 1
      <4>1. k \in 2 .. n + 1
        BY <3>2
      <4>. QED BY <1>7, <3>2, <4>1
    <3>. QED BY <3>1, <3>2
  <2>2. g = [k \in 1 .. n + 1 |-> g[k]]
    OBVIOUS
  <2>. HIDE DEF g
  <2>. QED BY <2>1, <2>2
<1>9. RowsLeft(num, n) = CHOOSE h : Eq(h)
    BY DEF RowsLeft
<1>10. Eq(RowsLeft(num, n))
  <2>. HIDE DEF Eq, g
  <2>. QED BY <1>8, <1>9
<1>. DEFINE left == RowsLeft(num, n)
<1>11. left = [k \in 1 .. n + 1 |-> IF k = 1 THEN num
                                  ELSE left[k - 1] - CeilDiv(left[k - 1], n - k + 2)]
    BY <1>10
<1>. HIDE DEF left, g
<1>12. /\ left[1] = num
       /\ \A k \in 2 .. n + 1 : left[k] = left[k - 1] - CeilDiv(left[k - 1], n - k + 2)
  <2>1. 1 \in 1 .. n + 1 /\ \A k \in 2 .. n + 1 : k \in 1 .. n + 1 /\ k # 1
    OBVIOUS
  <2>2. DOMAIN left = 1 .. n + 1
    BY <1>11
  <2>3. \A k \in 1 .. n + 1 : left[k] = IF k = 1 THEN num
                                  ELSE left[k - 1] - CeilDiv(left[k - 1], n - k + 2)
    BY <1>11
  <2>. QED BY <2>1, <2>3
<1>13. \A i \in 0..n : i \in {j \in 0..n : left[j + 1] = g[j + 1]}
  <2>. DEFINE P == {j \in 0..n : left[j + 1] = g[j + 1]}
  <2>1. 0 \in P
    BY <1>6, <1>12
  <2>2. ASSUME NEW i \in 1..n, i - 1 \in P PROVE i \in P
    <3>1. i + 1 \in 2 .. n + 1 /\ (i + 1) - 1 = i /\ (i - 1) + 1 = i /\ i \in 0..n
      OBVIOUS
    <3>2. left[i] = g[i]
      BY <2>2, <3>1
    <3>3. /\ left[i + 1] = left[i] - CeilDiv(left[i], n - (i + 1) + 2)
          /\ g[i + 1] = g[i] - CeilDiv(g[i], n - (i + 1) + 2)
      BY <1>7, <1>12, <3>1
    <3>. QED BY <3>1, <3>2, <3>3
  <2>. HIDE DEF P
  <2>3. n \in Nat
    OBVIOUS
  <2>4. \A i \in 0..n : i \in P
    BY <2>1, <2>2, <2>3, Upto
  <2>. QED BY <2>4 DEF P
<1>14. left \in [1 .. n + 1 -> Nat]
  <2>1. ASSUME NEW k \in 1 .. n + 1 PROVE left[k] \in Nat
    <3>1. k - 1 \in 0..n /\ (k - 1) + 1 = k
      OBVIOUS
    <3>2. left[(k - 1) + 1] = g[(k - 1) + 1]
      BY <1>13, <3>1
    <3>3. g[k] \in Nat
      BY <1>6
    <3>. QED BY <3>1, <3>2, <3>3
  <2>2. left = [k \in 1 .. n + 1 |-> left[k]]
    BY <1>11
  <2>. QED BY <2>1, <2>2
<1>. QED BY <1>12, <1>14 DEF Leaves, left

\* After k - 1 partitions the rows left are an even number for each of the others,
\* and fewer than one more for each: every partition gets that number, or one more.
LEMMA RowsLeftEven ==
    ASSUME NEW num \in Nat, NEW n \in Nat \ {0}
    PROVE  /\ RowsLeft(num, n) \in [1 .. n + 1 -> Nat]
           /\ RowsLeft(num, n)[1] = num /\ RowsLeft(num, n)[n + 1] = 0
           /\ \A k \in 1..n : RowsLeft(num, n)[k] - RowsLeft(num, n)[k + 1]
                                \in {num \div n, (num \div n) + 1}
<1>. DEFINE left == RowsLeft(num, n)
            q == num \div n
            P == {i \in 0..n : (n - i) * q <= left[i + 1] /\ left[i + 1] <= (n - i) * q + (n - i)}
<1>1. Leaves(num, n, left)
    BY RowsLeftIs
<1>. HIDE DEF left
<1>2. q \in Nat /\ num % n \in 0 .. n - 1 /\ num = n * q + (num % n)
    BY DivMod
<1>. HIDE DEF q
<1>3. 0 \in P
  <2>1. left[0 + 1] = num /\ 0 \in 0..n /\ n - 0 = n
    BY <1>1 DEF Leaves
  <2>. DEFINE r == num % n
              nq == n * q
  <2>2. r \in 0 .. n - 1 /\ nq \in Nat /\ num = nq + r
    BY <1>2
  <2>. HIDE DEF r, nq
  <2>3. nq <= num /\ num <= nq + n
    BY <2>2
  <2>. QED BY <2>1, <2>3 DEF nq
<1>4. ASSUME NEW i \in 1..n, i - 1 \in P
      PROVE  i \in P /\ left[i] - left[i + 1] \in {q, q + 1}
  <2>. DEFINE m == n - (i - 1)
              p == n - i
              x == left[i]
              mq == m * q
              pq == p * q
              c == CeilDiv(x, m)
  <2>1. m \in Nat \ {0} /\ p \in Nat /\ m = p + 1 /\ (i - 1) + 1 = i
    OBVIOUS
  <2>2. x \in Nat /\ mq <= x /\ x <= mq + m
    BY <1>1, <1>4, <2>1 DEF Leaves
  <2>3. mq = pq + q /\ pq \in Nat /\ mq \in Nat
    <3>. HIDE DEF m, p
    <3>1. (p + 1) * q = p * q + q /\ p * q \in Nat
      BY <1>2, <2>1
    <3>. QED BY <1>2, <2>1, <3>1
  <2>4. (c = q \/ c = q + 1) /\ (c = q => x = mq) /\ (c = q + 1 => x > mq)
    <3>. HIDE DEF x, m
    <3>. QED BY <1>2, <2>1, <2>2, ShareIs
  <2>5. left[i + 1] = x - c
    <3>1. i + 1 \in 2 .. n + 1 /\ (i + 1) - 1 = i /\ n - (i + 1) + 2 = m
      OBVIOUS
    <3>. QED BY <1>1, <3>1 DEF Leaves
  <2>. HIDE DEF m, p, x, mq, pq, c
  <2>6. pq <= x - c /\ x - c <= pq + p
    BY <1>2, <2>1, <2>2, <2>3, <2>4
  <2>7. x - (x - c) = c
    BY <2>2, <2>4, <1>2
  <2>8. i \in 0..n
    OBVIOUS
  <2>. QED BY <2>4, <2>5, <2>6, <2>7, <2>8 DEF p, pq, x
<1>5. \A i \in 0..n : i \in P
  <2>1. n \in Nat
    OBVIOUS
  <2>. HIDE DEF P
  <2>. QED BY <1>3, <1>4, <2>1, Upto
<1>6. \A k \in 1..n : left[k] - left[k + 1] \in {q, q + 1}
  <2>1. \A k \in 1..n : k - 1 \in 0..n
    OBVIOUS
  <2>. HIDE DEF P
  <2>. QED BY <1>4, <1>5, <2>1
<1>7. left[n + 1] = 0
  <2>1. n \in 0..n /\ n - n = 0 /\ n + 1 \in 1 .. n + 1
    OBVIOUS
  <2>2. 0 * q = 0
    BY <1>2
  <2>3. left[n + 1] \in Nat
    BY <1>1, <2>1 DEF Leaves
  <2>4. (n - n) * q <= left[n + 1] /\ left[n + 1] <= (n - n) * q + (n - n)
    BY <1>5, <2>1
  <2>. QED BY <2>1, <2>2, <2>3, <2>4
<1>. QED BY <1>1, <1>6, <1>7 DEF Leaves, left, q

\* The last difference, and the sums: what is left only shrinks.
LEMMA RowsLeftShrinks ==
    ASSUME NEW num \in Nat, NEW n \in Nat \ {0}, NEW k \in 1..n
    PROVE  /\ num - RowsLeft(num, n)[k] \in 0..num
           /\ num - RowsLeft(num, n)[k + 1] \in 0..num
           /\ num - RowsLeft(num, n)[k] <= num - RowsLeft(num, n)[k + 1]
<1>. DEFINE left == RowsLeft(num, n)
            q == num \div n
<1>1. /\ left \in [1 .. n + 1 -> Nat] /\ left[1] = num /\ left[n + 1] = 0
      /\ \A i \in 1..n : left[i] - left[i + 1] \in {q, q + 1}
    BY RowsLeftEven
<1>2. q \in Nat
    BY DivMod
<1>. HIDE DEF left, q
<1>3. \A i \in 1..n : left[i + 1] <= left[i]
  <2>1. ASSUME NEW i \in 1..n PROVE left[i + 1] <= left[i]
    <3>1. i \in 1 .. n + 1 /\ i + 1 \in 1 .. n + 1
      OBVIOUS
    <3>2. left[i] \in Nat /\ left[i + 1] \in Nat /\ left[i] - left[i + 1] \in {q, q + 1}
      BY <1>1, <3>1
    <3>. QED BY <1>2, <3>2
  <2>. QED BY <2>1
<1>. DEFINE P == {i \in 0..n : left[i + 1] <= num}
<1>4. \A i \in 0..n : i \in P
  <2>1. 0 \in P
    BY <1>1
  <2>2. ASSUME NEW i \in 1..n, i - 1 \in P PROVE i \in P
    <3>1. (i - 1) + 1 = i /\ i \in 0..n /\ i \in 1 .. n + 1 /\ i + 1 \in 1 .. n + 1
      OBVIOUS
    <3>2. left[i] \in Nat /\ left[i + 1] \in Nat
      BY <1>1, <3>1
    <3>. QED BY <1>3, <2>2, <3>1, <3>2
  <2>. HIDE DEF P
  <2>3. n \in Nat
    OBVIOUS
  <2>. QED BY <2>1, <2>2, <2>3, Upto
<1>5. left[k] \in Nat /\ left[k + 1] \in Nat /\ left[k] <= num /\ left[k + 1] <= num
  <2>1. k - 1 \in 0..n /\ (k - 1) + 1 = k /\ k \in 0..n /\ k \in 1 .. n + 1 /\ k + 1 \in 1 .. n + 1
    OBVIOUS
  <2>. QED BY <1>1, <1>4, <2>1
<1>6. left[k + 1] <= left[k]
    BY <1>3
<1>. QED BY <1>5, <1>6 DEF left

-----------------------------------------------------------------------------
(* Row ranges cut at positions *)

\* The items of a sequence at a + 1 .. b.
LEMMA SubSeqIs ==
    ASSUME NEW S, NEW s \in Seq(S), NEW a \in Nat, NEW b \in Int, b <= Len(s)
    PROVE  /\ SubSeq(s, a + 1, b) \in Seq(S)
           /\ Len(SubSeq(s, a + 1, b)) = IF a < b THEN b - a ELSE 0
           /\ DOMAIN SubSeq(s, a + 1, b) = 1 .. Len(SubSeq(s, a + 1, b))
           /\ \A k \in 1 .. Len(SubSeq(s, a + 1, b)) :
                SubSeq(s, a + 1, b)[k] = s[a + k] /\ a + k \in DOMAIN s
<1>. DEFINE m == a + 1
            w == SubSeq(s, m, b)
<1>1. Len(s) \in Nat /\ DOMAIN s = 1 .. Len(s) /\ \A k \in DOMAIN s : s[k] \in S
    BY SeqIs
<1>2. m \in Int /\ \A i \in m .. b : i \in DOMAIN s
    BY <1>1
<1>. HIDE DEF m
<1>3. \A i \in m .. b : s[i] \in S
    BY <1>1, <1>2
<1>4. /\ w \in Seq(S) /\ Len(w) = IF m <= b THEN b - m + 1 ELSE 0
      /\ \A i \in 1 .. b - m + 1 : w[i] = s[m + i - 1]
    BY <1>2, <1>3, SubSeqProperties
<1>5. DOMAIN w = 1 .. Len(w)
    BY <1>4, SeqIs
<1>. HIDE DEF w
<1>6. Len(w) = IF a < b THEN b - a ELSE 0
    BY <1>4 DEF m
<1>7. \A k \in 1 .. Len(w) : w[k] = s[a + k] /\ a + k \in DOMAIN s
  <2>1. ASSUME NEW k \in 1 .. Len(w) PROVE w[k] = s[a + k] /\ a + k \in DOMAIN s
    <3>1. a < b /\ k \in 1 .. b - m + 1 /\ m + k - 1 = a + k /\ a + k \in m .. b
      BY <1>6 DEF m
    <3>. QED BY <1>2, <1>4, <3>1
  <2>. QED BY <2>1
<1>. QED BY <1>4, <1>5, <1>6, <1>7 DEF w, m

LEMMA SameItems ==
    ASSUME NEW S, NEW s \in Seq(S), NEW u \in Seq(S), Len(s) = Len(u),
           \A k \in 1 .. Len(s) : s[k] = u[k]
    PROVE  s = u
OBVIOUS

\* What is cut from two sequences is cut from each of them.
CutOf(s, u, a, b) ==
    SubSeq(s \o u, a + 1, Least(b, Len(s) + Len(u)))
        = SubSeq(s, a + 1, Least(b, Len(s)))
          \o SubSeq(u, Greatest(a - Len(s), 0) + 1, Least(b - Len(s), Len(u)))

LEMMA CutLengths ==
    ASSUME NEW l \in Nat, NEW m \in Nat, NEW a \in Nat, NEW b \in Nat, a <= b,
           NEW c \in Int, NEW d \in Int, NEW e \in Int, NEW g \in Int,
           c = IF b <= l + m THEN b ELSE l + m,
           d = IF b <= l THEN b ELSE l,
           e = IF b - l <= m THEN b - l ELSE m,
           g = IF a - l >= 0 THEN a - l ELSE 0
    PROVE  (IF a < c THEN c - a ELSE 0) = (IF a < d THEN d - a ELSE 0) + (IF g < e THEN e - g ELSE 0)
<1>1. CASE b <= l
    BY <1>1
<1>2. CASE l < b /\ b <= l + m /\ a <= l
    BY <1>2
<1>3. CASE l < b /\ b <= l + m /\ a > l
    BY <1>3
<1>4. CASE l + m < b /\ a <= l
    BY <1>4
<1>5. CASE l + m < b /\ a > l
    BY <1>5
<1>. QED BY <1>1, <1>2, <1>3, <1>4, <1>5

LEMMA CutPlaces ==
    ASSUME NEW l \in Nat, NEW m \in Nat, NEW a \in Nat, NEW b \in Nat, a <= b,
           NEW c \in Int, NEW d \in Int, NEW e \in Int, NEW g \in Int,
           c = IF b <= l + m THEN b ELSE l + m,
           d = IF b <= l THEN b ELSE l,
           e = IF b - l <= m THEN b - l ELSE m,
           g = IF a - l >= 0 THEN a - l ELSE 0,
           NEW lx, NEW ly, NEW k \in 1 .. lx, k > ly,
           lx = IF a < c THEN c - a ELSE 0, ly = IF a < d THEN d - a ELSE 0
    PROVE  g < e /\ g + (k - ly) = a + k - l /\ a + k \in l + 1 .. l + m
OBVIOUS

LEMMA CutConcat ==
    ASSUME NEW S, NEW s \in Seq(S), NEW u \in Seq(S), NEW a \in Nat, NEW b \in Nat, a <= b
    PROVE  CutOf(s, u, a, b)
<1>. DEFINE l == Len(s)
            m == Len(u)
            w == s \o u
            c == Least(b, l + m)
            d == Least(b, l)
            e == Least(b - l, m)
            g == Greatest(a - l, 0)
            x == SubSeq(w, a + 1, c)
            y == SubSeq(s, a + 1, d)
            z == SubSeq(u, g + 1, e)
            v == y \o z
<1>1. /\ l \in Nat /\ m \in Nat /\ w \in Seq(S) /\ Len(w) = l + m
      /\ \A k \in 1..l : w[k] = s[k]
      /\ \A k \in l + 1 .. l + m : w[k] = u[k - l]
  <2>1. /\ w \in Seq(S) /\ Len(w) = l + m
        /\ \A k \in DOMAIN s : w[k] = s[k]
        /\ \A k \in l + 1 .. l + m : w[k] = u[k - l]
    BY ConcatIs, ZenonT(60)
  <2>2. l \in Nat /\ m \in Nat /\ DOMAIN s = 1..l
    BY SeqIs
  <2>. QED BY <2>1, <2>2
<1>. HIDE DEF l, m, w
<1>2. /\ c \in Nat /\ c <= l + m /\ d \in Nat /\ d <= l /\ e \in Int /\ e <= m /\ g \in Nat
    BY <1>1 DEF Least, Greatest
<1>3. /\ c = IF b <= l + m THEN b ELSE l + m
      /\ d = IF b <= l THEN b ELSE l
      /\ e = IF b - l <= m THEN b - l ELSE m
      /\ g = IF a - l >= 0 THEN a - l ELSE 0
    BY DEF Least, Greatest
<1>. HIDE DEF c, d, e, g
<1>4. /\ x \in Seq(S) /\ Len(x) = (IF a < c THEN c - a ELSE 0)
      /\ \A k \in 1 .. Len(x) : x[k] = w[a + k]
    BY <1>1, <1>2, SubSeqIs
<1>5. /\ y \in Seq(S) /\ Len(y) = (IF a < d THEN d - a ELSE 0)
      /\ \A k \in 1 .. Len(y) : y[k] = s[a + k]
    BY <1>2, SubSeqIs DEF l
<1>6. /\ z \in Seq(S) /\ Len(z) = (IF g < e THEN e - g ELSE 0)
      /\ \A k \in 1 .. Len(z) : z[k] = u[g + k]
    BY <1>2, SubSeqIs DEF m
<1>. HIDE DEF x, y, z
<1>7. /\ v \in Seq(S) /\ Len(v) = Len(y) + Len(z)
      /\ \A k \in 1 .. Len(y) : v[k] = y[k]
      /\ \A k \in Len(y) + 1 .. Len(y) + Len(z) : v[k] = z[k - Len(y)]
  <2>1. DOMAIN y = 1 .. Len(y) /\ Len(y) \in Nat /\ Len(z) \in Nat
    BY <1>5, <1>6, SeqIs
  <2>2. Concatenated(y, z, v, S)
    BY <1>5, <1>6, ConcatIsConcatenated
  <2>. HIDE DEF v
  <2>3. v \in Seq(S) /\ DOMAIN v = 1 .. Len(y) + Len(z)
    BY <2>2 DEF Concatenated
  <2>4. Len(v) = Len(y) + Len(z)
    <3>. DEFINE j == Len(y) + Len(z)
    <3>1. j \in Nat /\ Len(v) \in Nat /\ 1 .. j = 1 .. Len(v)
      BY <2>1, <2>3, SeqIs
    <3>. HIDE DEF j
    <3>2. j = Len(v)
      BY <3>1
    <3>. QED BY <3>2 DEF j
  <2>. QED BY <2>1, <2>2, <2>3, <2>4 DEF Concatenated
<1>. HIDE DEF v
<1>8. Len(x) = Len(y) + Len(z)
  <2>. DEFINE lx == Len(x)
              ly == Len(y)
              lz == Len(z)
  <2>1. /\ lx = (IF a < c THEN c - a ELSE 0) /\ ly = (IF a < d THEN d - a ELSE 0)
        /\ lz = (IF g < e THEN e - g ELSE 0)
    BY <1>4, <1>5, <1>6
  <2>. HIDE DEF lx, ly, lz
  <2>2. lx = ly + lz
    <3>1. (IF a < c THEN c - a ELSE 0) = (IF a < d THEN d - a ELSE 0) + (IF g < e THEN e - g ELSE 0)
      BY <1>1, <1>2, <1>3, CutLengths
    <3>. QED BY <2>1, <3>1
  <2>. QED BY <2>2 DEF lx, ly, lz
<1>9. ASSUME NEW k \in 1 .. Len(x) PROVE x[k] = v[k]
  <2>1. x[k] = w[a + k] /\ k \in Nat
    BY <1>4
  <2>2. CASE k <= Len(y)
    <3>1. k \in 1 .. Len(y) /\ a + k \in 1..l
      BY <1>1, <1>2, <1>5, <2>1, <2>2, SMTT(30)
    <3>. QED BY <1>1, <1>5, <1>7, <2>1, <3>1
  <2>3. CASE k > Len(y)
    <3>1. /\ k \in Len(y) + 1 .. Len(y) + Len(z) /\ k - Len(y) \in 1 .. Len(z)
      BY <1>2, <1>5, <1>6, <1>8, <2>1, <2>3
    <3>2. g < e /\ g + (k - Len(y)) = a + k - l /\ a + k \in l + 1 .. l + m
      <4>. DEFINE lx == Len(x)
                  ly == Len(y)
      <4>1. /\ lx = (IF a < c THEN c - a ELSE 0) /\ ly = (IF a < d THEN d - a ELSE 0)
            /\ k \in 1 .. lx /\ k > ly
        BY <1>4, <1>5, <2>3
      <4>. HIDE DEF lx, ly
      <4>2. g < e /\ g + (k - ly) = a + k - l /\ a + k \in l + 1 .. l + m
        BY <1>1, <1>2, <1>3, <4>1, CutPlaces
      <4>. QED BY <4>2 DEF ly
    <3>3. w[a + k] = u[(a + k) - l]
      BY <1>1, <3>2
    <3>4. v[k] = u[g + (k - Len(y))]
      BY <1>6, <1>7, <3>1
    <3>5. (a + k) - l = g + (k - Len(y))
      <4>1. Len(y) \in Int /\ k \in Int /\ l \in Int /\ g \in Int
        BY <1>1, <1>2, <1>5, <2>1, SeqIs
      <4>. QED BY <3>2, <4>1
    <3>. QED BY <2>1, <3>3, <3>4, <3>5
  <2>4. Len(y) \in Nat
    BY <1>2, <1>5
  <2>. QED BY <2>1, <2>2, <2>3, <2>4
<1>10. x = v
    BY <1>4, <1>7, <1>8, <1>9, SameItems
<1>. QED BY <1>10 DEF CutOf, x, v, y, z, c, d, e, g, w, l, m

\* Ranges in F may hold any rows of their files.
AnyRows(F) == \A x \in F : \A s \in Seq(Row) : [x EXCEPT !.rows = s] \in F

\* The cut holds the rows at a + 1 .. b, and only ranges of the files it cuts.
LEMMA CutIs ==
    ASSUME NEW F \in SUBSET FileRange, NEW r \in Seq(F), NEW a \in Nat, NEW b \in Nat,
           a <= b, b <= Len(RowsOf(r)),
           AnyRows(F)
    PROVE  /\ Cut(r, a, b) \in Seq(F)
           /\ Shuffled(RowsOf(Cut(r, a, b)), SubSeq(RowsOf(r), a + 1, b))
           /\ Len(RowsOf(Cut(r, a, b))) = b - a
<1>. DEFINE n == Len(r)
            ss == RowSeqs(r)
            all == RowsOf(r)
<1>1. n \in Nat /\ DOMAIN r = 1..n /\ (\A i \in 1..n : r[i] \in F) /\ r \in Seq(FileRange)
    BY SeqIs, SeqGrows
<1>2. /\ ss \in Seq(Seq(Row)) /\ Len(ss) = n /\ DOMAIN ss = 1..n
      /\ \A i \in 1..n : ss[i] = r[i].rows /\ ss[i] \in Seq(Row)
  <2>1. /\ ss \in Seq(Seq(Row)) /\ Len(ss) = n /\ DOMAIN ss = DOMAIN r
        /\ \A i \in DOMAIN r : ss[i] = r[i].rows
    BY <1>1, RowSeqsTyped
  <2>. HIDE DEF ss, n
  <2>2. \A i \in DOMAIN ss : ss[i] \in Seq(Row)
    <3>. DEFINE T == Seq(Row)
    <3>1. ss \in Seq(T)
      BY <2>1
    <3>. HIDE DEF T
    <3>2. \A i \in DOMAIN ss : ss[i] \in T
      BY <3>1, SeqIs
    <3>. QED BY <3>2 DEF T
  <2>. QED BY <1>1, <2>1, <2>2
<1>3. all = FlattenSeq(ss) /\ all \in Seq(Row) /\ Len(all) \in Nat
    BY <1>1, RowsOfIs, SeqIs
<1>4. PICK f : Concats(ss, Row, f)
    BY <1>2, FlattenIs
<1>. HIDE DEF n, ss, all
<1>5. /\ f[0] = <<>> /\ f[n] = all
      /\ \A i \in 0..n : f[i] \in Seq(Row) /\ Len(f[i]) \in Nat
      /\ \A i \in 1..n : f[i] = f[i - 1] \o ss[i] /\ Len(f[i]) = Len(f[i - 1]) + Len(ss[i])
  <2>1. /\ f[0] = <<>> /\ f[n] = all
        /\ \A i \in 0..n : f[i] \in Seq(Row)
        /\ \A i \in 1..n : f[i] = f[i - 1] \o ss[i]
    BY <1>2, <1>3, <1>4 DEF Concats
  <2>2. \A i \in 0..n : Len(f[i]) \in Nat
    BY <2>1, SeqIs
  <2>3. ASSUME NEW i \in 1..n PROVE Len(f[i]) = Len(f[i - 1]) + Len(ss[i])
    <3>1. i - 1 \in 0..n
      BY <1>1
    <3>2. f[i - 1] \in Seq(Row) /\ ss[i] \in Seq(Row)
      BY <1>2, <2>1, <3>1
    <3>3. Len(f[i - 1] \o ss[i]) = Len(f[i - 1]) + Len(ss[i])
      BY <3>2, ConcatIs
    <3>. QED BY <2>1, <3>3
  <2>. QED BY <2>1, <2>2, <2>3
<1>. DEFINE Eq(h) == h = [j \in 1 .. n + 1 |-> IF j = 1 THEN 0
                                             ELSE h[j - 1] + Len(r[j - 1].rows)]
            off == CHOOSE h : Eq(h)
            g == [j \in 1 .. n + 1 |-> Len(f[j - 1])]
<1>6. Eq(g)
  <2>1. ASSUME NEW j \in 1 .. n + 1
        PROVE  g[j] = IF j = 1 THEN 0 ELSE g[j - 1] + Len(r[j - 1].rows)
    <3>1. CASE j = 1
      <4>1. g[1] = Len(f[0])
        BY <1>1
      <4>. QED BY <1>5, <3>1, <4>1, EmptyIsSeq
    <3>2. CASE j # 1
      <4>1. j - 1 \in 1..n /\ j - 1 \in 1 .. n + 1
        BY <1>1, <3>2
      <4>2. g[j] = Len(f[j - 1]) /\ g[j - 1] = Len(f[(j - 1) - 1])
        BY <4>1
      <4>3. Len(f[j - 1]) = Len(f[(j - 1) - 1]) + Len(ss[j - 1]) /\ ss[j - 1] = r[j - 1].rows
        BY <1>2, <1>5, <4>1
      <4>. HIDE DEF g
      <4>. QED BY <3>2, <4>2, <4>3
    <3>. QED BY <3>1, <3>2
  <2>2. g = [j \in 1 .. n + 1 |-> g[j]]
    OBVIOUS
  <2>. HIDE DEF g
  <2>. QED BY <2>1, <2>2
<1>7. Eq(off)
  <2>. HIDE DEF Eq, g
  <2>. QED BY <1>6
<1>. HIDE DEF off
<1>8. ASSUME NEW i \in 0..n PROVE off[i + 1] = Len(f[i])
  <2>. DEFINE P == {k \in 0..n : off[k + 1] = Len(f[k])}
  <2>1. \A j \in 1 .. n + 1 : off[j] = IF j = 1 THEN 0 ELSE off[j - 1] + Len(r[j - 1].rows)
    BY <1>7
  <2>2. 0 \in P
    <3>0. 1 \in 1 .. n + 1
      BY <1>1
    <3>1. off[1] = 0
      BY <2>1, <3>0
    <3>. QED BY <1>1, <1>5, <3>1, EmptyIsSeq
  <2>3. ASSUME NEW k \in 1..n, k - 1 \in P PROVE k \in P
    <3>1. k \in 0..n /\ k + 1 \in 1 .. n + 1 /\ k + 1 # 1 /\ (k + 1) - 1 = k /\ (k - 1) + 1 = k
      BY <1>1
    <3>2. off[k + 1] = off[k] + Len(r[k].rows)
      BY <2>1, <3>1
    <3>3. off[k] = Len(f[k - 1])
      BY <2>3, <3>1
    <3>4. Len(f[k]) = Len(f[k - 1]) + Len(r[k].rows)
      BY <1>2, <1>5
    <3>. QED BY <3>1, <3>2, <3>3, <3>4
  <2>4. \A k \in 0..n : k \in P
    <3>. HIDE DEF P
    <3>. QED BY <1>1, <2>2, <2>3, Upto
  <2>. QED BY <2>4
<1>. DEFINE cut(j) == SubSeq(r[j].rows, Greatest(a - off[j], 0) + 1,
                             Least(b - off[j], Len(r[j].rows)))
            parts == [j \in DOMAIN r |-> [r[j] EXCEPT !.rows = cut(j)]]
            cuts == RowSeqs(parts)
<1>9. Cut(r, a, b) = NonEmpty(parts)
    BY DEF Cut, off, n
<1>10. \A j \in 1..n : cut(j) \in Seq(Row)
  <2>1. ASSUME NEW j \in 1..n PROVE cut(j) \in Seq(Row)
    <3>. DEFINE o == off[j]
                s == r[j].rows
                x == Greatest(a - o, 0)
                y == Least(b - o, Len(s))
    <3>1. o \in Nat
      <4>1. j - 1 \in 0..n /\ (j - 1) + 1 = j
        BY <1>1
      <4>. QED BY <1>5, <1>8, <4>1
    <3>2. s \in Seq(Row) /\ Len(s) \in Nat
      BY <1>2, SeqIs
    <3>. HIDE DEF o, s
    <3>3. x \in Nat /\ y \in Int /\ y <= Len(s)
      BY <3>1, <3>2 DEF Greatest, Least
    <3>. HIDE DEF x, y
    <3>4. SubSeq(s, x + 1, y) \in Seq(Row)
      BY <3>2, <3>3, SubSeqIs
    <3>. QED BY <3>4 DEF o, s, x, y
  <2>. QED BY <2>1
<1>. HIDE DEF cut
<1>11. /\ parts \in [1..n -> F] /\ \A j \in 1..n : parts[j].rows = cut(j)
  <2>1. \A j \in 1..n : [r[j] EXCEPT !.rows = cut(j)] \in F
    BY <1>1, <1>10 DEF AnyRows
  <2>2. \A j \in 1..n : r[j] \in FileRange
    BY <1>1
  <2>3. \A j \in 1..n : [r[j] EXCEPT !.rows = cut(j)].rows = cut(j)
    BY <2>2 DEF FileRange
  <2>. QED BY <1>1, <2>1, <2>3
<1>. HIDE DEF parts
<1>12. /\ parts \in Seq(F) /\ parts \in Seq(FileRange) /\ Len(parts) = n /\ DOMAIN parts = 1..n
  <2>1. parts \in Seq(F) /\ Len(parts) = n /\ DOMAIN parts = 1..n
    BY <1>1, <1>11, FunctionIsSeq
  <2>. QED BY <2>1, SeqGrows
<1>13. /\ cuts \in Seq(Seq(Row)) /\ Len(cuts) = n /\ \A j \in 1..n : cuts[j] = cut(j)
      /\ RowsOf(parts) = FlattenSeq(cuts) /\ RowsOf(parts) \in Seq(Row)
  <2>1. /\ cuts \in Seq(Seq(Row)) /\ Len(cuts) = Len(parts) /\ DOMAIN cuts = DOMAIN parts
        /\ \A i \in DOMAIN parts : cuts[i] = parts[i].rows
    BY <1>12, RowSeqsTyped
  <2>2. RowsOf(parts) = FlattenSeq(cuts) /\ RowsOf(parts) \in Seq(Row)
    BY <1>12, RowsOfIs
  <2>. HIDE DEF cuts
  <2>. QED BY <1>11, <1>12, <2>1, <2>2
<1>. HIDE DEF cuts
<1>. DEFINE h == [i \in 0..n |-> SubSeq(f[i], a + 1, Least(b, Len(f[i])))]
<1>13a. \A i \in 0..n : h[i] = SubSeq(f[i], a + 1, Least(b, Len(f[i])))
    OBVIOUS
<1>. HIDE DEF h
<1>14. h[0] = <<>>
  <2>1. h[0] = SubSeq(f[0], a + 1, Least(b, Len(f[0])))
    BY <1>1, <1>13a
  <2>2. Len(f[0]) = 0 /\ <<>> \in Seq(Row)
    BY <1>5, EmptyIsSeq
  <2>3. Least(b, 0) = 0
    BY DEF Least
  <2>4. Len(SubSeq(<<>>, a + 1, 0)) = 0 /\ SubSeq(<<>>, a + 1, 0) \in Seq(Row)
    <3>1. 0 <= Len(<<>>)
      BY EmptyIsSeq
    <3>2. /\ SubSeq(<<>>, a + 1, 0) \in Seq(Row)
          /\ Len(SubSeq(<<>>, a + 1, 0)) = IF a < 0 THEN 0 - a ELSE 0
      BY <2>2, <3>1, SubSeqIs
    <3>. QED BY <3>2
  <2>5. SubSeq(<<>>, a + 1, 0) = <<>>
    BY <2>4, SeqIs
  <2>. QED BY <1>5, <2>1, <2>2, <2>3, <2>5
<1>15. ASSUME NEW i \in 1..n PROVE h[i] = h[i - 1] \o cuts[i]
  <2>1. i \in 0..n /\ i - 1 \in 0..n /\ (i - 1) + 1 = i
    BY <1>1
  <2>2. CutOf(f[i - 1], ss[i], a, b)
    BY <1>2, <1>5, <2>1, CutConcat
  <2>3. /\ h[i] = SubSeq(f[i], a + 1, Least(b, Len(f[i])))
        /\ h[i - 1] = SubSeq(f[i - 1], a + 1, Least(b, Len(f[i - 1])))
    BY <1>13a, <2>1
  <2>4. cuts[i] = SubSeq(ss[i], Greatest(a - Len(f[i - 1]), 0) + 1,
                         Least(b - Len(f[i - 1]), Len(ss[i])))
    BY <1>2, <1>8, <1>13, <2>1 DEF cut
  <2>. QED BY <1>5, <2>2, <2>3, <2>4 DEF CutOf
<1>16. h[n] = SubSeq(all, a + 1, b)
  <2>1. Least(b, Len(all)) = b
    BY <1>3 DEF Least, all
  <2>2. n \in 0..n
    BY <1>1
  <2>. QED BY <1>5, <1>13a, <2>1, <2>2
<1>17. RowsOf(parts) = SubSeq(all, a + 1, b)
    BY <1>13, <1>14, <1>15, <1>16, PrefixesUnique
<1>18. /\ Len(SubSeq(all, a + 1, b)) = b - a /\ SubSeq(all, a + 1, b) \in Seq(Row)
  <2>1. b <= Len(all) /\ b \in Int
    BY DEF all
  <2>2. /\ SubSeq(all, a + 1, b) \in Seq(Row)
        /\ Len(SubSeq(all, a + 1, b)) = IF a < b THEN b - a ELSE 0
    <3>1. all \in Seq(Row) /\ a \in Nat
      BY <1>3
    <3>. HIDE DEF all
    <3>. QED BY <2>1, <3>1, SubSeqIs
  <2>. QED BY <2>2
<1>19. /\ NonEmpty(parts) \in Seq(F) /\ Shuffled(RowsOf(NonEmpty(parts)), RowsOf(parts))
       /\ Len(RowsOf(NonEmpty(parts))) = Len(RowsOf(parts))
    BY <1>12, NonEmptyIs
<1>. QED BY <1>9, <1>17, <1>18, <1>19 DEF all

-----------------------------------------------------------------------------
(* Datasets cut into partitions *)

\* The starts of the groups lie in order.
LEMMA SplitStarts ==
    ASSUME NEW len \in Nat, NEW n \in Nat \ {0}, NEW k \in 1..n
    PROVE  /\ SplitStart(len, n, k) \in 0..len /\ SplitStart(len, n, k + 1) \in 0..len
           /\ SplitStart(len, n, k) <= SplitStart(len, n, k + 1)
<1>. DEFINE g == [i \in 0..n |-> SplitStart(len, n, i + 1)]
            P == {i \in 0..n : g[i] \in Nat}
<1>1. g[0] = 0 /\ g[n] = len
  <2>1. SplitStart(len, n, 1) = 0 /\ SplitStart(len, n, n + 1) = len
    BY SplitCovers
  <2>. HIDE DEF P
  <2>. QED BY <2>1
<1>2. ASSUME NEW i \in 1..n PROVE g[i] \in Int /\ g[i - 1] \in Int /\ g[i - 1] <= g[i]
  <2>. DEFINE q == len \div n
  <2>1. q \in Nat
    BY DivMod
  <2>2. /\ SplitStart(len, n, i) \in Int
        /\ SplitStart(len, n, i + 1) = SplitStart(len, n, i) + q + (IF i - 1 < len % n THEN 1 ELSE 0)
    <3>1. i \in Nat
      OBVIOUS
    <3>. QED BY <3>1, StartStep
  <2>3. g[i] = SplitStart(len, n, i + 1) /\ g[i - 1] = SplitStart(len, n, i)
    OBVIOUS
  <2>. HIDE DEF q, g
  <2>. QED BY <2>1, <2>2, <2>3
<1>3. \A i \in 0..n : i \in P
  <2>1. 0 \in P
    BY <1>1
  <2>2. ASSUME NEW i \in 1..n, i - 1 \in P PROVE i \in P
    <3>1. g[i - 1] \in Nat
      BY <2>2
    <3>2. i \in 0..n
      OBVIOUS
    <3>. HIDE DEF g
    <3>. QED BY <1>2, <3>1, <3>2
  <2>. HIDE DEF P
  <2>3. n \in Nat
    OBVIOUS
  <2>. QED BY <2>1, <2>2, <2>3, Upto
<1>4. g \in [0..n -> Nat]
  <2>1. \A i \in 0..n : SplitStart(len, n, i + 1) \in Nat
    BY <1>3
  <2>. QED BY <2>1
<1>5. g[k] = SplitStart(len, n, k + 1) /\ g[k - 1] = SplitStart(len, n, k)
    OBVIOUS
<1>. HIDE DEF g
<1>6. k \in 0..n /\ k - 1 \in 0..n /\ n \in 0..n /\ k <= n /\ k - 1 <= n /\ n \in Nat
    OBVIOUS
<1>7. \A i \in 1..n : g[i - 1] <= g[i]
    BY <1>2
<1>8. g[k] <= g[n] /\ g[k - 1] <= g[n]
    BY <1>4, <1>6, <1>7, Ascends
<1>9. g[k] \in Nat /\ g[k - 1] \in Nat
    BY <1>4, <1>6
<1>. QED BY <1>1, <1>2, <1>5, <1>8, <1>9

LEMMA SplitIntoRowsIs ==
    ASSUME NEW S, NEW s \in Seq(S), NEW n \in Nat \ {0}
    PROVE  /\ SplitIntoRows(s, n) \in [1..n -> Seq(S)]
           /\ \A k \in 1..n : Len(SplitIntoRows(s, n)[k]) = SplitSize(Len(s), n, k)
<1>. DEFINE l == Len(s)
            w(k) == SubSeq(s, SplitStart(l, n, k) + 1, SplitStart(l, n, k + 1))
<1>1. l \in Nat
    BY SeqIs
<1>2. ASSUME NEW k \in 1..n PROVE w(k) \in Seq(S) /\ Len(w(k)) = SplitSize(l, n, k)
  <2>. DEFINE a == SplitStart(l, n, k)
              b == SplitStart(l, n, k + 1)
  <2>1. a \in 0..l /\ b \in 0..l /\ a <= b
    BY <1>1, SplitStarts
  <2>2. SplitSize(l, n, k) = b - a
    BY DEF SplitSize
  <2>. HIDE DEF a, b
  <2>3. a \in Nat /\ b \in Int /\ b <= Len(s)
    BY <1>1, <2>1
  <2>4. /\ SubSeq(s, a + 1, b) \in Seq(S)
        /\ Len(SubSeq(s, a + 1, b)) = IF a < b THEN b - a ELSE 0
    BY <2>3, SubSeqIs
  <2>5. Len(SubSeq(s, a + 1, b)) = b - a
    BY <2>1, <2>4
  <2>. QED BY <2>2, <2>4, <2>5 DEF a, b
<1>3. SplitIntoRows(s, n) = [k \in 1..n |-> w(k)]
    BY DEF SplitIntoRows
<1>. HIDE DEF w
<1>. QED BY <1>2, <1>3 DEF l

\* partition_by_rows: partitions with as many rows, or one more.
LEMMA PartitionByRowsIs ==
    ASSUME NEW F \in SUBSET FileRange, AnyRows(F), NEW d \in DatasetsIn(F), NEW n \in Nat \ {0}
    PROVE  /\ PartitionByRows(d, n) \in [1..n -> DatasetsIn(F)]
           /\ \A k \in 1..n : /\ PartitionByRows(d, n)[k].kind = "ranges"
                              /\ NumRows(PartitionByRows(d, n)[k])
                                    \in {NumRows(d) \div n, (NumRows(d) \div n) + 1}
<1>. DEFINE r == ResolvedRanges(d)
            total == NumRows(d)
            left == RowsLeft(total, n)
            cut(k) == Cut(r, total - left[k], total - left[k + 1])
            part(k) == [ranges |-> SortedByPath(cut(k)), kind |-> "ranges"]
            q == total \div n
<1>1. r \in Seq(F) /\ Len(RowsOf(r)) = total /\ total \in Nat
    BY ResolvedIs, ResolvedRows
<1>2. PartitionByRows(d, n) = [k \in 1..n |-> part(k)]
    BY DEF PartitionByRows
<1>. HIDE DEF r, total
<1>3. \A k \in 1..n : left[k] - left[k + 1] \in {q, q + 1}
    BY <1>1, RowsLeftEven
<1>4. ASSUME NEW k \in 1..n
      PROVE  /\ part(k) \in DatasetsIn(F) /\ part(k).kind = "ranges"
             /\ NumRows(part(k)) \in {q, q + 1}
  <2>. DEFINE a == total - left[k]
              b == total - left[k + 1]
              c == Cut(r, a, b)
              s == SortedByPath(c)
  <2>1. a \in 0..total /\ b \in 0..total /\ a <= b
    BY <1>1, RowsLeftShrinks
  <2>2. b - a \in {q, q + 1}
    <3>1. left[k] \in Int /\ left[k + 1] \in Int
      <4>1. left \in [1 .. n + 1 -> Nat]
        BY <1>1, RowsLeftEven
      <4>2. k \in 1 .. n + 1 /\ k + 1 \in 1 .. n + 1
        OBVIOUS
      <4>. HIDE DEF left
      <4>. QED BY <4>1, <4>2
    <3>2. b - a = left[k] - left[k + 1]
      <4>. HIDE DEF left
      <4>. QED BY <1>1, <3>1
    <3>. QED BY <1>3, <3>2
  <2>. HIDE DEF a, b
  <2>3. a \in Nat /\ b \in Nat /\ b <= Len(RowsOf(r))
    BY <1>1, <2>1
  <2>5. c \in Seq(F) /\ Len(RowsOf(c)) = b - a
    BY <1>1, <2>1, <2>3, CutIs
  <2>. HIDE DEF c
  <2>6. s \in Seq(F) /\ Shuffled(s, c)
    BY <2>5, SortedIs
  <2>. HIDE DEF s
  <2>7. s \in Seq(FileRange) /\ c \in Seq(FileRange)
    BY <2>5, <2>6, SeqGrows
  <2>8. Len(RowsOf(s)) = Len(RowsOf(c))
    BY <2>6, <2>7, RowsOfShuffled
  <2>9. part(k) = [ranges |-> s, kind |-> "ranges"]
    BY DEF s, c, a, b
  <2>. HIDE DEF part
  <2>10. part(k) \in DatasetsIn(F) /\ part(k).kind = "ranges" /\ part(k).ranges = s
    BY <2>6, <2>9 DEF DatasetsIn
  <2>. QED BY <2>2, <2>5, <2>8, <2>10 DEF NumRows
<1>. HIDE DEF part, q
<1>5. PartitionByRows(d, n) \in [1..n -> DatasetsIn(F)]
    BY <1>2, <1>4
<1>6. \A k \in 1..n : PartitionByRows(d, n)[k] = part(k)
    BY <1>2
<1>. QED BY <1>4, <1>5, <1>6 DEF q, total

\* partition_by_files: as many files, or one more, unless rows were counted.
LEMMA PartitionByFilesIs ==
    ASSUME NEW F \in SUBSET FileRange, AnyRows(F), NEW d \in DatasetsIn(F), NEW n \in Nat \ {0}
    PROVE  /\ PartitionByFiles(d, n) \in [1..n -> DatasetsIn(F)]
           /\ Ranged(d) => PartitionByFiles(d, n) = PartitionByRows(d, n)
           /\ ~Ranged(d) => \A k \in 1..n :
                /\ PartitionByFiles(d, n)[k].kind = "files"
                /\ Len(PartitionByFiles(d, n)[k].ranges) = SplitSize(Len(d.ranges), n, k)
<1>1. Ranged(d) => PartitionByFiles(d, n) = PartitionByRows(d, n)
    BY DEF PartitionByFiles
<1>2. PartitionByRows(d, n) \in [1..n -> DatasetsIn(F)]
    BY PartitionByRowsIs
<1>. DEFINE s == ResolvedPaths(d)
            groups == SplitIntoRows(s, n)
            parts == [k \in 1..n |-> Files(groups[k])]
<1>3. s \in Seq(F) /\ Len(s) = Len(d.ranges)
    BY ResolvedIs
<1>4. ~Ranged(d) => PartitionByFiles(d, n) = parts
    BY DEF PartitionByFiles
<1>. HIDE DEF s
<1>5. /\ groups \in [1..n -> Seq(F)]
      /\ \A k \in 1..n : Len(groups[k]) = SplitSize(Len(d.ranges), n, k)
    BY <1>3, SplitIntoRowsIs, ZenonT(60)
<1>. HIDE DEF groups
<1>6. ASSUME NEW k \in 1..n
      PROVE  /\ Files(groups[k]) \in DatasetsIn(F) /\ Files(groups[k]).kind = "files"
             /\ Files(groups[k]).ranges = groups[k]
  <2>1. groups[k] \in Seq(F)
    BY <1>5
  <2>. QED BY <2>1, FilesTyped
<1>7. parts \in [1..n -> DatasetsIn(F)] /\ \A k \in 1..n : parts[k] = Files(groups[k])
    BY <1>6
<1>. HIDE DEF parts
<1>. QED BY <1>1, <1>2, <1>4, <1>5, <1>6, <1>7

-----------------------------------------------------------------------------
(* Sequences cut into parts, which together hold the same items *)

LEMMA SameCells ==
    ASSUME NEW S, NEW ss \in Seq(Seq(S)), NEW s, NEW b \in Bijection(Cells(ss), DOMAIN s),
           \A c \in Cells(ss) : ss[c[1]][c[2]] = s[b[c]]
    PROVE  Shuffled(FlattenSeq(ss), s)
<1>1. DOMAIN Table(ss) = Cells(ss) /\ \A c \in Cells(ss) : Table(ss)[c] = s[b[c]]
    BY DEF Table
<1>2. Shuffled(Table(ss), s)
    BY <1>1 DEF Shuffled
<1>3. Shuffled(FlattenSeq(ss), Table(ss))
    BY FlattenTable, ShuffledBack
<1>. QED BY <1>2, <1>3, ShuffledTwice

ClassOf(s, f, k) == {i \in DOMAIN s : f[i] = k}

\* The items of class k stand at the positions A[k].
Classes(s, ss, f, A) ==
    \A k \in DOMAIN ss :
        /\ A[k] \in [DOMAIN ss[k] -> {i \in DOMAIN s : f[i] = k}]
        /\ \A x, y \in DOMAIN ss[k] : A[k][x] = A[k][y] => x = y
        /\ \A i \in DOMAIN s : f[i] = k => \E x \in DOMAIN ss[k] : A[k][x] = i
        /\ \A x \in DOMAIN ss[k] : ss[k][x] = s[A[k][x]]

LEMMA ClassesAre ==
    ASSUME NEW S, NEW s \in Seq(S), NEW ss \in Seq(Seq(S)), NEW f,
           \A k \in DOMAIN ss : ss[k] = ItemsAt(s, ClassOf(s, f, k))
    PROVE  \E A : Classes(s, ss, f, A)
<1>. DEFINE C(k) == {i \in DOMAIN s : f[i] = k}
            B == [k \in DOMAIN ss |-> Ascending(C(k))]
<1>1. ASSUME NEW k \in DOMAIN ss
      PROVE  /\ B[k] \in [DOMAIN ss[k] -> C(k)]
             /\ \A x, y \in DOMAIN ss[k] : B[k][x] = B[k][y] => x = y
             /\ \A i \in C(k) : \E x \in DOMAIN ss[k] : B[k][x] = i
             /\ \A x \in DOMAIN ss[k] : ss[k][x] = s[B[k][x]]
  <2>1. C(k) \in SUBSET DOMAIN s /\ ss[k] = ItemsAt(s, C(k)) /\ B[k] = Ascending(C(k))
    BY DEF ClassOf
  <2>. HIDE DEF C, B
  <2>2. /\ DOMAIN ss[k] = 1 .. Cardinality(C(k))
        /\ B[k] \in Bijection(1 .. Cardinality(C(k)), C(k))
        /\ \A x \in 1 .. Cardinality(C(k)) : ss[k][x] = s[B[k][x]]
    BY <2>1, ItemsAtIs
  <2>3. /\ B[k] \in [1 .. Cardinality(C(k)) -> C(k)]
        /\ \A x, y \in 1 .. Cardinality(C(k)) : B[k][x] = B[k][y] => x = y
        /\ \A z \in C(k) : \E x \in 1 .. Cardinality(C(k)) : B[k][x] = z
    <3>. DEFINE m == 1 .. Cardinality(C(k))
                D == C(k)
                g == B[k]
    <3>1. g \in Bijection(m, D)
      BY <2>2
    <3>. HIDE DEF m, D, g
    <3>2. /\ g \in [m -> D]
          /\ \A x, y \in m : g[x] = g[y] => x = y
          /\ \A z \in D : \E x \in m : g[x] = z
      BY <3>1, BijectionIs
    <3>. QED BY <3>2 DEF m, D, g
  <2>. QED BY <2>2, <2>3
<1>2. \A k \in DOMAIN ss : \A i \in DOMAIN s : f[i] = k => i \in C(k)
    OBVIOUS
<1>. HIDE DEF B
<1>3. Classes(s, ss, f, B)
  <2>1. \A k \in DOMAIN ss : B[k] \in [DOMAIN ss[k] -> {i \in DOMAIN s : f[i] = k}]
    BY <1>1
  <2>. HIDE DEF C
  <2>. QED BY <1>1, <1>2, <2>1 DEF Classes
<1>. QED BY <1>3

\* Items sorted into classes.
LEMMA ClassesKeep ==
    ASSUME NEW S, NEW s \in Seq(S), NEW ss \in Seq(Seq(S)), NEW f \in [DOMAIN s -> DOMAIN ss],
           \A k \in DOMAIN ss : ss[k] = ItemsAt(s, ClassOf(s, f, k))
    PROVE  Shuffled(FlattenSeq(ss), s)
<1>1. PICK A : Classes(s, ss, f, A)
    BY ClassesAre
<1>3. PICK b : b = [c \in Cells(ss) |-> A[c[1]][c[2]]]
    OBVIOUS
<1>4. ASSUME NEW c \in Cells(ss)
      PROVE  /\ c[1] \in DOMAIN ss /\ c[2] \in DOMAIN ss[c[1]] /\ c = <<c[1], c[2]>>
             /\ b[c] = A[c[1]][c[2]] /\ b[c] \in DOMAIN s /\ f[b[c]] = c[1]
             /\ ss[c[1]][c[2]] = s[b[c]]
  <2>1. c[1] \in DOMAIN ss /\ c[2] \in DOMAIN ss[c[1]] /\ c = <<c[1], c[2]>>
    BY DEF Cells
  <2>2. b[c] = A[c[1]][c[2]]
    BY <1>3
  <2>3. A[c[1]][c[2]] \in {i \in DOMAIN s : f[i] = c[1]} /\ ss[c[1]][c[2]] = s[A[c[1]][c[2]]]
    BY <1>1, <2>1 DEF Classes
  <2>. QED BY <2>1, <2>2, <2>3
<1>5. ASSUME NEW i \in DOMAIN s PROVE \E c \in Cells(ss) : b[c] = i
  <2>1. f[i] \in DOMAIN ss
    OBVIOUS
  <2>2. PICK x \in DOMAIN ss[f[i]] : A[f[i]][x] = i
    BY <1>1, <2>1 DEF Classes
  <2>3. Len(ss) \in Nat /\ DOMAIN ss = 1 .. Len(ss)
    <3>. DEFINE SS == Seq(S)
    <3>1. ss \in Seq(SS)
      OBVIOUS
    <3>. HIDE DEF SS
    <3>. QED BY <3>1, SeqIs
  <2>4. ss[f[i]] \in Seq(S)
    BY <2>1
  <2>5. Len(ss[f[i]]) \in Nat /\ DOMAIN ss[f[i]] = 1 .. Len(ss[f[i]])
    BY <2>4, SeqIs
  <2>6. <<f[i], x>> \in Cells(ss)
    BY <2>1, <2>3, <2>5, IsCell
  <2>7. b[<<f[i], x>>] = A[f[i]][x]
    BY <1>3, <2>6
  <2>. QED BY <2>2, <2>6, <2>7
<1>6. \A c, e \in Cells(ss) : b[c] = b[e] => c = e
  <2>1. ASSUME NEW c \in Cells(ss), NEW e \in Cells(ss), b[c] = b[e] PROVE c = e
    <3>1. c[1] = e[1]
      BY <1>4, <2>1
    <3>2. c[1] \in DOMAIN ss /\ c[2] \in DOMAIN ss[c[1]] /\ e[2] \in DOMAIN ss[c[1]]
      BY <1>4, <3>1
    <3>3. A[c[1]][c[2]] = A[c[1]][e[2]]
      BY <1>4, <2>1, <3>1
    <3>4. c[2] = e[2]
      BY <1>1, <3>2, <3>3 DEF Classes
    <3>. QED BY <1>4, <3>1, <3>4
  <2>. QED BY <2>1
<1>7. b \in [Cells(ss) -> DOMAIN s]
    BY <1>3, <1>4
<1>8. b \in Bijection(Cells(ss), DOMAIN s)
    BY <1>5, <1>6, <1>7, IsBijection
<1>. QED BY <1>4, <1>8, SameCells

LEMMA SubSeqJoin ==
    ASSUME NEW S, NEW s \in Seq(S), NEW a \in Nat, NEW b \in Nat, a <= b, b <= Len(s)
    PROVE  SubSeq(s, 1, b) = SubSeq(s, 1, a) \o SubSeq(s, a + 1, b)
<1>. DEFINE x == SubSeq(s, 1, a)
            y == SubSeq(s, a + 1, b)
            z == SubSeq(s, 1, b)
<1>1. /\ x \in Seq(S) /\ Len(x) = a
      /\ \A k \in 1 .. a : x[k] = s[k]
  <2>1. 0 \in Nat /\ a \in Int /\ a <= Len(s)
    BY SeqIs
  <2>2. /\ SubSeq(s, 0 + 1, a) \in Seq(S) /\ Len(SubSeq(s, 0 + 1, a)) = IF 0 < a THEN a - 0 ELSE 0
        /\ \A k \in 1 .. Len(SubSeq(s, 0 + 1, a)) : SubSeq(s, 0 + 1, a)[k] = s[0 + k]
    BY <2>1, SubSeqIs
  <2>3. 0 + 1 = 1 /\ \A k \in 1 .. a : 0 + k = k
    OBVIOUS
  <2>. QED BY <2>2, <2>3
<1>2. /\ z \in Seq(S) /\ Len(z) = b
      /\ \A k \in 1 .. b : z[k] = s[k]
  <2>1. 0 \in Nat /\ b \in Int
    OBVIOUS
  <2>2. /\ SubSeq(s, 0 + 1, b) \in Seq(S) /\ Len(SubSeq(s, 0 + 1, b)) = IF 0 < b THEN b - 0 ELSE 0
        /\ \A k \in 1 .. Len(SubSeq(s, 0 + 1, b)) : SubSeq(s, 0 + 1, b)[k] = s[0 + k]
    BY <2>1, SubSeqIs
  <2>3. 0 + 1 = 1 /\ \A k \in 1 .. b : 0 + k = k
    OBVIOUS
  <2>. QED BY <2>2, <2>3
<1>3. /\ y \in Seq(S) /\ Len(y) = b - a
      /\ \A k \in 1 .. b - a : y[k] = s[a + k]
  <2>1. b \in Int
    OBVIOUS
  <2>2. /\ y \in Seq(S) /\ Len(y) = IF a < b THEN b - a ELSE 0
        /\ \A k \in 1 .. Len(y) : y[k] = s[a + k]
    BY <2>1, SubSeqIs
  <2>. QED BY <2>2
<1>. HIDE DEF x, y, z
<1>4. /\ x \o y \in Seq(S) /\ Len(x \o y) = a + (b - a)
      /\ \A k \in DOMAIN x : (x \o y)[k] = x[k]
      /\ \A k \in DOMAIN y : (x \o y)[Len(x) + k] = y[k]
      /\ DOMAIN x = 1 .. a /\ DOMAIN y = 1 .. b - a
  <2>1. DOMAIN x = 1 .. a /\ DOMAIN y = 1 .. b - a
    BY <1>1, <1>3, SeqIs
  <2>. QED BY <1>1, <1>3, <2>1, ConcatIs
<1>5. ASSUME NEW k \in 1 .. b PROVE z[k] = (x \o y)[k]
  <2>1. CASE k <= a
    BY <1>1, <1>2, <1>4, <2>1
  <2>2. CASE ~(k <= a)
    <3>. DEFINE m == k - a
    <3>1. m \in 1 .. b - a /\ a + m = k
      BY <2>2
    <3>. HIDE DEF m
    <3>2. z[k] = s[k] /\ y[m] = s[a + m]
      BY <1>2, <1>3, <3>1
    <3>3. (x \o y)[Len(x) + m] = y[m] /\ Len(x) = a
      BY <1>1, <1>4, <3>1
    <3>. QED BY <3>1, <3>2, <3>3
  <2>. QED BY <2>1, <2>2
<1>6. z = x \o y
  <2>1. Len(z) = Len(x \o y)
    BY <1>2, <1>4
  <2>. QED BY <1>2, <1>4, <1>5, <2>1, SameItems
<1>. QED BY <1>6 DEF x, y, z

\* Intervals that follow each other.
LEMMA IntervalsKeep ==
    ASSUME NEW S, NEW s \in Seq(S), NEW n \in Nat, NEW ss \in Seq(Seq(S)), Len(ss) = n,
           NEW b \in [0..n -> Nat], b[0] = 0, b[n] = Len(s),
           \A k \in 0..n : b[k] <= Len(s),
           \A k \in 1..n : b[k - 1] <= b[k] /\ ss[k] = SubSeq(s, b[k - 1] + 1, b[k])
    PROVE  FlattenSeq(ss) = s
<1>. DEFINE h == [k \in 0..n |-> SubSeq(s, 1, b[k])]
<1>1. Len(s) \in Nat
    BY SeqIs
<1>2. \A k \in 0..n : h[k] = SubSeq(s, 1, b[k])
    OBVIOUS
<1>. HIDE DEF h
<1>3. h[0] = <<>>
  <2>1. 0 \in 0..n /\ h[0] = SubSeq(s, 0 + 1, 0)
    BY <1>2
  <2>2. SubSeq(s, 0 + 1, 0) \in Seq(S) /\ Len(SubSeq(s, 0 + 1, 0)) = IF 0 < 0 THEN 0 - 0 ELSE 0
    BY <1>1, SubSeqIs
  <2>. QED BY <2>1, <2>2, SeqIs
<1>4. ASSUME NEW k \in 1 .. Len(ss) PROVE h[k] = h[k - 1] \o ss[k]
  <2>. DEFINE x == b[k - 1]
              y == b[k]
  <2>1. k \in 1..n /\ k \in 0..n /\ k - 1 \in 0..n
    OBVIOUS
  <2>2. x \in Nat /\ y \in Nat /\ x <= y /\ y <= Len(s) /\ ss[k] = SubSeq(s, x + 1, y)
    BY <2>1
  <2>3. h[k] = SubSeq(s, 1, y) /\ h[k - 1] = SubSeq(s, 1, x)
    BY <1>2, <2>1
  <2>. HIDE DEF x, y
  <2>4. SubSeq(s, 1, y) = SubSeq(s, 1, x) \o SubSeq(s, x + 1, y)
    BY <2>2, SubSeqJoin
  <2>. QED BY <2>2, <2>3, <2>4
<1>5. h[Len(ss)] = FlattenSeq(ss)
    BY <1>3, <1>4, PrefixesUnique
<1>6. h[n] = s
  <2>1. n \in 0..n /\ h[n] = SubSeq(s, 0 + 1, Len(s))
    BY <1>2
  <2>2. /\ SubSeq(s, 0 + 1, Len(s)) \in Seq(S)
        /\ Len(SubSeq(s, 0 + 1, Len(s))) = IF 0 < Len(s) THEN Len(s) - 0 ELSE 0
        /\ \A k \in 1 .. Len(SubSeq(s, 0 + 1, Len(s))) : SubSeq(s, 0 + 1, Len(s))[k] = s[0 + k]
    BY <1>1, SubSeqIs
  <2>. DEFINE u == SubSeq(s, 0 + 1, Len(s))
  <2>3. u \in Seq(S) /\ Len(u) = Len(s) /\ \A k \in 1 .. Len(u) : u[k] = s[0 + k]
    BY <1>1, <2>2
  <2>4. h[n] = u
    BY <2>1
  <2>. HIDE DEF u
  <2>5. \A k \in 1 .. Len(u) : u[k] = s[k]
    BY <1>1, <2>3
  <2>. QED BY <2>3, <2>4, <2>5, SameItems
<1>. QED BY <1>5, <1>6

\* split_into_rows keeps every item.
LEMMA SplitKeeps ==
    ASSUME NEW S, NEW s \in Seq(S), NEW n \in Nat \ {0}
    PROVE  /\ SplitIntoRows(s, n) \in Seq(Seq(S)) /\ Len(SplitIntoRows(s, n)) = n
           /\ DOMAIN SplitIntoRows(s, n) = 1..n
           /\ FlattenSeq(SplitIntoRows(s, n)) = s
<1>. DEFINE ss == SplitIntoRows(s, n)
            l == Len(s)
            b == [k \in 0..n |-> SplitStart(l, n, k + 1)]
            T == Seq(S)
<1>1. l \in Nat
    BY SeqIs
<1>2. \A k \in 1..n : ss[k] = SubSeq(s, SplitStart(l, n, k) + 1, SplitStart(l, n, k + 1))
    BY DEF SplitIntoRows
<1>3. ss \in [1..n -> T]
    BY SplitIntoRowsIs
<1>. HIDE DEF ss, l
<1>4. ss \in Seq(T) /\ Len(ss) = n /\ DOMAIN ss = 1..n
  <2>. HIDE DEF T
  <2>. QED BY <1>3, FunctionIsSeq
<1>5. SplitStart(l, n, 1) = 0 /\ SplitStart(l, n, n + 1) = l
    BY <1>1, SplitCovers
<1>6. \A k \in 1..n : /\ SplitStart(l, n, k) \in 0..l /\ SplitStart(l, n, k + 1) \in 0..l
                      /\ SplitStart(l, n, k) <= SplitStart(l, n, k + 1)
    BY <1>1, SplitStarts
<1>7. \A k \in 0..n : b[k] = SplitStart(l, n, k + 1)
    OBVIOUS
<1>8. ASSUME NEW k \in 0..n PROVE b[k] \in 0..l
  <2>1. CASE k = 0
    BY <1>1, <1>5, <1>7, <2>1
  <2>2. CASE k # 0
    <3>1. k \in 1..n
      BY <2>2
    <3>. QED BY <1>6, <1>7, <3>1
  <2>. QED BY <2>1, <2>2
<1>9. b \in [0..n -> Nat] /\ b[0] = 0 /\ b[n] = l
  <2>1. 0 \in 0..n /\ n \in 0..n /\ 0 + 1 = 1
    OBVIOUS
  <2>2. b[0] = 0 /\ b[n] = l
    BY <1>5, <1>7, <2>1
  <2>3. \A k \in 0..n : b[k] \in Nat
    BY <1>1, <1>8
  <2>4. b \in [0..n -> Nat]
    BY <1>7, <2>3
  <2>. QED BY <2>2, <2>4
<1>10. ASSUME NEW k \in 1..n
       PROVE  b[k - 1] <= b[k] /\ ss[k] = SubSeq(s, b[k - 1] + 1, b[k])
  <2>1. k \in 0..n /\ k - 1 \in 0..n /\ (k - 1) + 1 = k
    OBVIOUS
  <2>2. b[k - 1] = SplitStart(l, n, k) /\ b[k] = SplitStart(l, n, k + 1)
    BY <1>7, <2>1
  <2>. QED BY <1>2, <1>6, <2>2
<1>11. \A k \in 0..n : b[k] <= l
    BY <1>1, <1>8
<1>. HIDE DEF b
<1>12. FlattenSeq(ss) = s
  <2>1. /\ ss \in Seq(Seq(S)) /\ Len(ss) = n /\ n \in Nat
        /\ b \in [0..n -> Nat] /\ b[0] = 0 /\ b[n] = Len(s)
    BY <1>4, <1>9 DEF l
  <2>2. \A k \in 0..n : b[k] <= Len(s)
    BY <1>11 DEF l
  <2>. HIDE DEF T
  <2>. QED BY <1>10, <2>1, <2>2, IntervalsKeep, ZenonT(60)
<1>. QED BY <1>4, <1>12 DEF ss

LEMMA FlattenNone == FlattenSeq(<<>>) = <<>>
<1>1. <<>> \in Seq(Seq(Row)) /\ Len(<<>>) = 0
    BY EmptyIsSeq
<1>2. PICK f : Concats(<<>>, Row, f)
    BY <1>1, FlattenIs
<1>. QED BY <1>1, <1>2 DEF Concats

\* Parts of parts.
LEMMA FlattenTwice ==
    ASSUME NEW S, NEW ss \in Seq(Seq(Seq(S))), NEW u \in Seq(Seq(S)), Len(u) = Len(ss),
           \A i \in 1 .. Len(ss) : u[i] = FlattenSeq(ss[i])
    PROVE  FlattenSeq(FlattenSeq(ss)) = FlattenSeq(u)
<1>. DEFINE T == Seq(S)
<1>1. PICK f : Concats(ss, T, f)
  <2>1. ss \in Seq(Seq(T))
    OBVIOUS
  <2>. HIDE DEF T
  <2>. QED BY <2>1, FlattenIs
<1>. DEFINE n == Len(ss)
            h == [i \in 0..n |-> FlattenSeq(f[i])]
<1>2. n \in Nat /\ DOMAIN ss = 1..n /\ \A i \in 1..n : ss[i] \in Seq(T)
  <2>. DEFINE TT == Seq(T)
  <2>1. ss \in Seq(TT)
    OBVIOUS
  <2>. HIDE DEF TT
  <2>2. n \in Nat /\ DOMAIN ss = 1..n /\ \A i \in 1..n : ss[i] \in TT
    BY <2>1, SeqIs
  <2>. QED BY <2>2 DEF TT
<1>3. /\ f[0] = <<>> /\ f[n] = FlattenSeq(ss)
      /\ \A i \in 1..n : f[i] = f[i - 1] \o ss[i]
      /\ \A i \in 0..n : f[i] \in Seq(T)
    BY <1>1 DEF Concats
<1>. HIDE DEF n
<1>4. \A i \in 0..n : h[i] = FlattenSeq(f[i])
    OBVIOUS
<1>. HIDE DEF h
<1>5. h[0] = <<>>
  <2>1. 0 \in 0..n /\ h[0] = FlattenSeq(<<>>)
    BY <1>2, <1>3, <1>4
  <2>. QED BY <2>1, FlattenNone
<1>6. ASSUME NEW i \in 1 .. Len(u) PROVE h[i] = h[i - 1] \o u[i]
  <2>1. i \in 1..n /\ i \in 0..n /\ i - 1 \in 0..n /\ u[i] = FlattenSeq(ss[i])
    BY <1>2 DEF n
  <2>2. f[i] = f[i - 1] \o ss[i] /\ f[i - 1] \in Seq(Seq(S)) /\ ss[i] \in Seq(Seq(S))
    BY <1>2, <1>3, <2>1
  <2>3. FlattenSeq(f[i - 1] \o ss[i]) = FlattenSeq(f[i - 1]) \o FlattenSeq(ss[i])
    BY <2>2, FlattenConcat
  <2>. QED BY <1>4, <2>1, <2>2, <2>3
<1>7. h[Len(u)] = FlattenSeq(u)
    BY <1>5, <1>6, PrefixesUnique
<1>8. Len(u) = n /\ n \in 0..n
    BY <1>2 DEF n
<1>. QED BY <1>3, <1>4, <1>7, <1>8

Matrix(aa, m, n, S) ==
    /\ aa \in Seq(Seq(S)) /\ Len(aa) = m /\ m \in Nat
    /\ \A i \in 1..m : Len(aa[i]) = n

LEMMA MatrixIs ==
    ASSUME NEW aa, NEW m, NEW n \in Nat, NEW S, Matrix(aa, m, n, S)
    PROVE  /\ \A c \in Cells(aa) : c = <<c[1], c[2]>> /\ c[1] \in 1..m /\ c[2] \in 1..n
           /\ \A i \in 1..m : \A j \in 1..n : <<i, j>> \in Cells(aa)
           /\ \A i \in 1..m : aa[i] \in Seq(S) /\ DOMAIN aa[i] = 1..n
<1>. DEFINE T == Seq(S)
<1>1. aa \in Seq(T) /\ Len(aa) = m /\ m \in Nat /\ \A i \in 1..m : Len(aa[i]) = n
    BY DEF Matrix
<1>2. DOMAIN aa = 1..m /\ \A i \in 1..m : aa[i] \in T
  <2>. HIDE DEF T
  <2>. QED BY <1>1, SeqIs
<1>3. \A i \in 1..m : aa[i] \in Seq(S) /\ DOMAIN aa[i] = 1..n
    BY <1>1, <1>2, SeqIs
<1>4. \A c \in Cells(aa) : c = <<c[1], c[2]>> /\ c[1] \in 1..m /\ c[2] \in 1..n
    BY <1>2, <1>3 DEF Cells
<1>5. \A i \in 1..m : \A j \in 1..n : <<i, j>> \in Cells(aa)
    BY <1>1, <1>2, <1>3 DEF Cells
<1>. QED BY <1>3, <1>4, <1>5

\* A matrix by rows and by columns.
LEMMA Transposed ==
    ASSUME NEW S, NEW m, NEW n, NEW aa, NEW bb, Matrix(aa, m, n, S), Matrix(bb, n, m, S),
           \A i \in 1..m : \A j \in 1..n : aa[i][j] = bb[j][i]
    PROVE  Shuffled(FlattenSeq(aa), FlattenSeq(bb))
<1>0. m \in Nat /\ n \in Nat
    BY DEF Matrix
<1>1. /\ \A c \in Cells(aa) : c = <<c[1], c[2]>> /\ c[1] \in 1..m /\ c[2] \in 1..n
      /\ \A i \in 1..m : \A j \in 1..n : <<i, j>> \in Cells(aa)
    BY <1>0, MatrixIs
<1>1a. /\ \A c \in Cells(bb) : c = <<c[1], c[2]>> /\ c[1] \in 1..n /\ c[2] \in 1..m
       /\ \A i \in 1..n : \A j \in 1..m : <<i, j>> \in Cells(bb)
    BY <1>0, MatrixIs
<1>. DEFINE b == [c \in Cells(aa) |-> <<c[2], c[1]>>]
<1>2. \A c \in Cells(aa) : b[c] = <<c[2], c[1]>>
    OBVIOUS
<1>3. \A c \in Cells(aa) : c = <<c[1], c[2]>> /\ c[1] \in 1..m /\ c[2] \in 1..n
    BY <1>1
<1>4. \A c \in Cells(aa) : <<c[2], c[1]>> \in Cells(bb)
    BY <1>1a, <1>3
<1>5. b \in [Cells(aa) -> Cells(bb)]
    BY <1>4
<1>. HIDE DEF b
<1>6. \A c, d \in Cells(aa) : b[c] = b[d] => c = d
    BY <1>2, <1>3
<1>7. \A e \in Cells(bb) : \E c \in Cells(aa) : b[c] = e
  <2>1. ASSUME NEW e \in Cells(bb) PROVE \E c \in Cells(aa) : b[c] = e
    <3>1. e = <<e[1], e[2]>> /\ e[1] \in 1..n /\ e[2] \in 1..m
      BY <1>1a
    <3>2. <<e[2], e[1]>> \in Cells(aa)
      BY <1>1, <3>1
    <3>. QED BY <1>2, <3>1, <3>2
  <2>. QED BY <2>1
<1>8. b \in Bijection(Cells(aa), Cells(bb))
    BY <1>5, <1>6, <1>7, IsBijection
<1>9. \A c \in Cells(aa) : Table(aa)[c] = Table(bb)[b[c]]
  <2>1. ASSUME NEW c \in Cells(aa) PROVE Table(aa)[c] = Table(bb)[b[c]]
    <3>1. b[c] \in Cells(bb) /\ b[c] = <<c[2], c[1]>>
      BY <1>2, <1>5
    <3>2. Table(aa)[c] = aa[c[1]][c[2]] /\ Table(bb)[b[c]] = bb[b[c][1]][b[c][2]]
      BY <3>1 DEF Table
    <3>. QED BY <1>3, <3>1, <3>2
  <2>. QED BY <2>1
<1>10. Shuffled(Table(aa), Table(bb))
  <2>1. DOMAIN Table(aa) = Cells(aa) /\ DOMAIN Table(bb) = Cells(bb)
    BY DEF Table
  <2>. QED BY <1>8, <1>9, <2>1 DEF Shuffled
<1>11. /\ Shuffled(FlattenSeq(aa), Table(aa))
       /\ Shuffled(Table(bb), FlattenSeq(bb))
  <2>1. aa \in Seq(Seq(S)) /\ bb \in Seq(Seq(S))
    BY DEF Matrix
  <2>. QED BY <2>1, FlattenTable, ShuffledBack
<1>12. Shuffled(FlattenSeq(aa), Table(bb))
    BY <1>10, <1>11, ShuffledTwice
<1>. QED BY <1>11, <1>12, ShuffledTwice

LEMMA RowwisePlace ==
    ASSUME NEW m \in Nat, NEW n \in Nat, NEW i \in 1..m, NEW j \in 1..n
    PROVE  (i - 1) * n + j \in 1 .. m * n
<1>1. (i - 1) * n \in Nat /\ i * n = (i - 1) * n + n /\ i * n \in Nat
    BY OneMore
<1>2. i * n <= m * n
  <2>. DEFINE e == m - i
  <2>1. e \in Nat /\ m = i + e
    OBVIOUS
  <2>. HIDE DEF e
  <2>2. e * n \in Nat
    BY <2>1
  <2>3. (i + e) * n = i * n + e * n
    BY <2>1
  <2>. QED BY <1>1, <2>1, <2>2, <2>3
<1>3. m * n \in Nat
    OBVIOUS
<1>. QED BY <1>1, <1>2, <1>3

LEMMA RowwiseFound ==
    ASSUME NEW m \in Nat, NEW n \in Nat, NEW z \in 1 .. m * n
    PROVE  /\ n # 0 /\ (z - 1) \div n + 1 \in 1..m /\ ((z - 1) % n) + 1 \in 1..n
           /\ ((z - 1) \div n) * n + ((z - 1) % n) + 1 = z
<1>1. n # 0
  <2>1. m * 0 = 0
    OBVIOUS
  <2>. QED BY <2>1
<1>2. z - 1 \in Nat /\ n \in Nat \ {0} /\ m * n \in Nat
    BY <1>1
<1>. DEFINE q == (z - 1) \div n
            r == (z - 1) % n
<1>3. q \in Nat /\ r \in 0 .. n - 1 /\ z - 1 = n * q + r
    BY <1>2, DivMod
<1>. HIDE DEF q, r
<1>4. n * q = q * n /\ n * q \in Nat /\ n * m = m * n
    BY <1>3
<1>5. n * q < n * m
    BY <1>2, <1>3, <1>4
<1>6. q + 1 <= m
  <2>1. n * (q + 1) = n * q + n
    BY <1>3
  <2>2. n * (q + 1) < n * m + n
    BY <1>2, <1>4, <1>5, <2>1
  <2>3. q + 1 \in Int /\ m \in Int
    BY <1>3
  <2>. QED BY <1>2, <2>2, <2>3, MultipleLess
<1>7. q + 1 \in 1..m /\ r + 1 \in 1..n /\ q * n + r + 1 = z
    BY <1>2, <1>3, <1>4, <1>6
<1>. QED BY <1>1, <1>7 DEF q, r

LEMMA RowwiseApart ==
    ASSUME NEW m \in Nat, NEW n \in Nat, NEW i \in 1..m, NEW j \in 1..n, NEW k \in 1..m,
           NEW l \in 1..n, (i - 1) * n + j = (k - 1) * n + l
    PROVE  i = k /\ j = l
<1>. DEFINE x == i - 1
            y == k - 1
<1>1. x \in Int /\ y \in Int /\ n \in Nat \ {0} /\ x * n + j = y * n + l
    OBVIOUS
<1>2. i = x + 1 /\ k = y + 1
    OBVIOUS
<1>. HIDE DEF x, y
<1>3. n * x = x * n /\ n * y = y * n /\ n * x \in Int /\ n * y \in Int
    BY <1>1
<1>4. n * x < n * y + n /\ n * y < n * x + n
    BY <1>1, <1>3
<1>5. x <= y /\ y <= x
    BY <1>1, <1>4, MultipleLess
<1>6. x = y
    BY <1>1, <1>5
<1>. QED BY <1>1, <1>2, <1>3, <1>6

Place(n, i, j) == (i - 1) * n + j

LEMMA RowwisePlaces ==
    ASSUME NEW m \in Nat, NEW n \in Nat
    PROVE  /\ \A i \in 1..m : \A j \in 1..n : Place(n, i, j) \in 1 .. m * n
           /\ \A i, k \in 1..m : \A j, l \in 1..n :
                Place(n, i, j) = Place(n, k, l) => i = k /\ j = l
           /\ \A z \in 1 .. m * n : \E i \in 1..m : \E j \in 1..n : Place(n, i, j) = z
<1>1. \A i \in 1..m : \A j \in 1..n : Place(n, i, j) \in 1 .. m * n
    BY RowwisePlace DEF Place
<1>2. \A i, k \in 1..m : \A j, l \in 1..n :
                Place(n, i, j) = Place(n, k, l) => i = k /\ j = l
    BY RowwiseApart DEF Place
<1>3. ASSUME NEW z \in 1 .. m * n
      PROVE  \E i \in 1..m : \E j \in 1..n : Place(n, i, j) = z
  <2>. DEFINE q == (z - 1) \div n
              r == (z - 1) % n
  <2>1. /\ n # 0 /\ q + 1 \in 1..m /\ r + 1 \in 1..n /\ q * n + r + 1 = z
    BY RowwiseFound
  <2>2. q \in Nat /\ r \in Nat
    <3>1. z - 1 \in Nat /\ n \in Nat \ {0}
      BY <2>1
    <3>. QED BY <3>1, DivMod
  <2>. HIDE DEF q, r
  <2>3. (q + 1) - 1 = q
    BY <2>2
  <2>4. q * n \in Nat
    BY <2>2
  <2>5. Place(n, q + 1, r + 1) = z
    BY <2>1, <2>2, <2>3, <2>4 DEF Place
  <2>. QED BY <2>1, <2>5
<1>. QED BY <1>1, <1>2, <1>3

\* A matrix and its items one after the other.
LEMMA Rowwise ==
    ASSUME NEW S, NEW m, NEW n \in Nat, NEW aa, Matrix(aa, m, n, S), NEW s \in Seq(S),
           Len(s) = m * n,
           \A i \in 1..m : \A j \in 1..n : aa[i][j] = s[Place(n, i, j)]
    PROVE  Shuffled(FlattenSeq(aa), s)
<1>0. m \in Nat /\ n \in Nat /\ DOMAIN s = 1 .. m * n /\ aa \in Seq(Seq(S))
    BY SeqIs DEF Matrix
<1>1. /\ \A c \in Cells(aa) : c = <<c[1], c[2]>> /\ c[1] \in 1..m /\ c[2] \in 1..n
      /\ \A i \in 1..m : \A j \in 1..n : <<i, j>> \in Cells(aa)
    BY MatrixIs
<1>2. /\ \A i \in 1..m : \A j \in 1..n : Place(n, i, j) \in DOMAIN s
      /\ \A i, k \in 1..m : \A j, l \in 1..n : Place(n, i, j) = Place(n, k, l) => i = k /\ j = l
      /\ \A z \in DOMAIN s : \E i \in 1..m : \E j \in 1..n : Place(n, i, j) = z
  <2>1. /\ \A i \in 1..m : \A j \in 1..n : Place(n, i, j) \in 1 .. m * n
        /\ \A i, k \in 1..m : \A j, l \in 1..n :
             Place(n, i, j) = Place(n, k, l) => i = k /\ j = l
        /\ \A z \in 1 .. m * n : \E i \in 1..m : \E j \in 1..n : Place(n, i, j) = z
    BY <1>0, RowwisePlaces, Zenon
  <2>2. DOMAIN s = 1 .. m * n
    BY <1>0
  <2>. QED BY <2>1, <2>2, Zenon
<1>. DEFINE b == [c \in Cells(aa) |-> Place(n, c[1], c[2])]
<1>3. \A c \in Cells(aa) : b[c] = Place(n, c[1], c[2])
    OBVIOUS
<1>4. \A c \in Cells(aa) : b[c] \in DOMAIN s
    BY <1>1, <1>2, <1>3
<1>5. b \in [Cells(aa) -> DOMAIN s]
    BY <1>4
<1>. HIDE DEF b
<1>6. \A c, d \in Cells(aa) : b[c] = b[d] => c = d
    BY <1>1, <1>2, <1>3
<1>7. \A z \in DOMAIN s : \E c \in Cells(aa) : b[c] = z
  <2>1. ASSUME NEW z \in DOMAIN s PROVE \E c \in Cells(aa) : b[c] = z
    <3>1. PICK i \in 1..m, j \in 1..n : Place(n, i, j) = z
      BY <1>2
    <3>2. <<i, j>> \in Cells(aa)
      BY <1>1
    <3>. QED BY <1>3, <3>1, <3>2
  <2>. QED BY <2>1
<1>8. b \in Bijection(Cells(aa), DOMAIN s)
    BY <1>5, <1>6, <1>7, IsBijection
<1>9. \A c \in Cells(aa) : aa[c[1]][c[2]] = s[b[c]]
    BY <1>1, <1>3
<1>. QED BY <1>0, <1>8, <1>9, SameCells, SMTT(30)

LEMMA EachTyped ==
    ASSUME NEW F \in SUBSET FileRange, NEW n \in Nat, NEW parts \in [1..n -> DatasetsIn(F)]
    PROVE  /\ RowsOfEach(parts) \in Seq(Seq(Row)) /\ Len(RowsOfEach(parts)) = n
           /\ DOMAIN RowsOfEach(parts) = 1..n
           /\ \A k \in 1..n : RowsOfEach(parts)[k] = RowsOf(parts[k].ranges)
                              /\ RowsOf(parts[k].ranges) \in Seq(Row)
<1>. DEFINE T == Seq(Row)
            e == RowsOfEach(parts)
<1>1. \A k \in 1..n : RowsOf(parts[k].ranges) \in Seq(Row)
    BY ResolvedRows
<1>2. e = [k \in 1..n |-> RowsOf(parts[k].ranges)]
    BY DEF RowsOfEach
<1>. HIDE DEF e
<1>3. e \in [1..n -> T] /\ \A k \in 1..n : e[k] = RowsOf(parts[k].ranges)
    BY <1>1, <1>2
<1>4. e \in Seq(T) /\ Len(e) = n /\ DOMAIN e = 1..n
  <2>. HIDE DEF T
  <2>. QED BY <1>3, FunctionIsSeq
<1>. QED BY <1>1, <1>3, <1>4 DEF e

\* Row ranges that are put into partitions, each into one.
LEMMA RangesKeep ==
    ASSUME NEW r \in Seq(FileRange), NEW n \in Nat, NEW ps \in Seq(Seq(FileRange)), Len(ps) = n,
           NEW f \in [DOMAIN r -> 1..n],
           \A k \in 1..n : ps[k] = ItemsAt(r, ClassOf(r, f, k)),
           NEW rows \in Seq(Seq(Row)), Len(rows) = n, \A k \in 1..n : rows[k] = RowsOf(ps[k])
    PROVE  Shuffled(FlattenSeq(rows), RowsOf(r))
<1>1. DOMAIN ps = 1..n
  <2>. DEFINE T == Seq(FileRange)
  <2>1. ps \in Seq(T)
    OBVIOUS
  <2>. HIDE DEF T
  <2>. QED BY <2>1, SeqIs
<1>2. Shuffled(FlattenSeq(ps), r)
    BY <1>1, ClassesKeep
<1>3. RowsOf(FlattenSeq(ps)) = FlattenSeq(rows)
    BY <1>1, RowsOfFlatten
<1>4. FlattenSeq(ps) \in Seq(FileRange)
    BY FlattenTyped
<1>. QED BY <1>2, <1>3, <1>4, RowsOfShuffled

\* partition_by_rows keeps every row.
LEMMA PartitionByRowsKeeps ==
    ASSUME NEW F \in SUBSET FileRange, AnyRows(F), NEW d \in DatasetsIn(F), NEW n \in Nat \ {0}
    PROVE  Shuffled(FlattenSeq(RowsOfEach(PartitionByRows(d, n))), RowsOf(d.ranges))
<1>. DEFINE r == ResolvedRanges(d)
            s == RowsOf(r)
            total == NumRows(d)
            left == RowsLeft(total, n)
            parts == PartitionByRows(d, n)
            e == RowsOfEach(parts)
            T == Seq(Row)
            b == [k \in 0..n |-> total - left[k + 1]]
            ss == [k \in 1..n |-> SubSeq(s, b[k - 1] + 1, b[k])]
<1>1. /\ r \in Seq(F) /\ s \in Seq(Row) /\ Len(s) = total /\ total \in Nat
      /\ Shuffled(s, RowsOf(d.ranges))
    BY ResolvedIs, ResolvedRows
<1>2. \A k \in 1..n : parts[k].ranges = SortedByPath(Cut(r, total - left[k], total - left[k + 1]))
    BY DEF PartitionByRows
<1>3. parts \in [1..n -> DatasetsIn(F)]
    BY PartitionByRowsIs
<1>. HIDE DEF parts
<1>4. e \in Seq(Seq(Row)) /\ Len(e) = n /\ \A k \in 1..n : e[k] = RowsOf(parts[k].ranges)
    BY <1>3, EachTyped
<1>5. left \in [1 .. n + 1 -> Nat] /\ left[1] = total /\ left[n + 1] = 0
    BY <1>1, RowsLeftEven
<1>6. \A k \in 1..n : /\ total - left[k] \in 0..total /\ total - left[k + 1] \in 0..total
                      /\ total - left[k] <= total - left[k + 1]
    BY <1>1, RowsLeftShrinks
<1>. HIDE DEF r, total, left, e, s
<1>7. \A k \in 0..n : b[k] = total - left[k + 1]
    OBVIOUS
<1>. HIDE DEF b
<1>8. b[0] = 0 /\ b[n] = total
  <2>1. 0 \in 0..n /\ n \in 0..n /\ 0 + 1 = 1 /\ total - total = 0 /\ total - 0 = total
    BY <1>1
  <2>. QED BY <1>5, <1>7, <2>1
<1>9. ASSUME NEW k \in 1..n
      PROVE  /\ b[k - 1] = total - left[k] /\ b[k] = total - left[k + 1]
             /\ b[k - 1] \in 0..total /\ b[k] \in 0..total /\ b[k - 1] <= b[k]
  <2>1. k - 1 \in 0..n /\ k \in 0..n /\ (k - 1) + 1 = k
    OBVIOUS
  <2>. QED BY <1>6, <1>7, <2>1
<1>10. \A k \in 0..n : b[k] \in 0..total
  <2>1. ASSUME NEW k \in 0..n PROVE b[k] \in 0..total
    <3>1. CASE k = 0
      BY <1>1, <1>8, <3>1
    <3>2. CASE k # 0
      <4>1. k \in 1..n
        BY <3>2
      <4>. QED BY <1>9, <4>1
    <3>. QED BY <3>1, <3>2
  <2>. QED BY <2>1
<1>11. b \in [0..n -> Nat] /\ \A k \in 0..n : b[k] <= Len(s)
  <2>1. \A k \in 0..n : b[k] \in Nat /\ b[k] <= Len(s)
    BY <1>1, <1>10
  <2>. QED BY <2>1 DEF b
<1>12. \A k \in 1..n : ss[k] = SubSeq(s, b[k - 1] + 1, b[k])
    OBVIOUS
<1>13. ss \in Seq(T) /\ Len(ss) = n /\ DOMAIN ss = 1..n
  <2>1. \A k \in 1..n : SubSeq(s, b[k - 1] + 1, b[k]) \in T
    <3>1. ASSUME NEW k \in 1..n PROVE SubSeq(s, b[k - 1] + 1, b[k]) \in Seq(Row)
      <4>. DEFINE x == b[k - 1]
                  y == b[k]
      <4>1. x \in Nat /\ y \in Int /\ y <= Len(s)
        BY <1>1, <1>9
      <4>. HIDE DEF x, y
      <4>2. SubSeq(s, x + 1, y) \in Seq(Row)
        BY <1>1, <4>1, SubSeqIs
      <4>. QED BY <4>2 DEF x, y
    <3>. QED BY <3>1
  <2>2. ss \in [1..n -> T]
    BY <2>1
  <2>. HIDE DEF ss, T
  <2>. QED BY <2>2, FunctionIsSeq
<1>. HIDE DEF ss
<1>14. FlattenSeq(ss) = s
  <2>1. ss \in Seq(Seq(Row)) /\ n \in Nat /\ b[n] = Len(s)
    BY <1>1, <1>8, <1>13
  <2>2. \A k \in 1..n : b[k - 1] <= b[k] /\ ss[k] = SubSeq(s, b[k - 1] + 1, b[k])
    BY <1>9, <1>12
  <2>3. \A k \in 0..n : b[k] <= Len(s)
    BY <1>11
  <2>4. s \in Seq(Row) /\ b \in [0..n -> Nat] /\ b[0] = 0 /\ Len(ss) = n
    BY <1>1, <1>8, <1>11, <1>13
  <2>. HIDE DEF T
  <2>. QED BY <2>1, <2>2, <2>3, <2>4, IntervalsKeep, ZenonT(60)
<1>15. ASSUME NEW k \in 1..n PROVE Shuffled(e[k], ss[k])
  <2>. DEFINE x == b[k - 1]
              y == b[k]
              c == Cut(r, x, y)
              z == SortedByPath(c)
  <2>1. x \in Nat /\ y \in Nat /\ x <= y /\ y <= Len(s)
    BY <1>1, <1>9
  <2>2. parts[k].ranges = z
    BY <1>2, <1>9
  <2>. HIDE DEF x, y
  <2>3. c \in Seq(F) /\ Shuffled(RowsOf(c), SubSeq(s, x + 1, y))
    BY <1>1, <2>1, CutIs DEF s
  <2>. HIDE DEF c
  <2>4. z \in Seq(F) /\ Shuffled(z, c)
    BY <2>3, SortedIs
  <2>. HIDE DEF z
  <2>5. z \in Seq(FileRange) /\ c \in Seq(FileRange)
    BY <2>3, <2>4, SeqGrows
  <2>6. Shuffled(RowsOf(z), RowsOf(c))
    BY <2>4, <2>5, RowsOfShuffled
  <2>7. Shuffled(RowsOf(z), SubSeq(s, x + 1, y))
    BY <2>3, <2>6, ShuffledTwice
  <2>. QED BY <1>4, <1>12, <2>2, <2>7 DEF x, y
<1>16. Shuffled(FlattenSeq(e), FlattenSeq(ss))
  <2>1. DOMAIN e = 1..n
    <3>1. e \in Seq(T)
      BY <1>4
    <3>. HIDE DEF T
    <3>. QED BY <1>4, <3>1, SeqIs
  <2>2. ss \in Seq(Seq(Row)) /\ Len(e) = Len(ss) /\ \A k \in DOMAIN e : Shuffled(e[k], ss[k])
    BY <1>4, <1>13, <1>15, <2>1
  <2>. QED BY <1>4, <2>2, FlattenPointwise
<1>17. Shuffled(FlattenSeq(e), RowsOf(d.ranges))
    BY <1>1, <1>14, <1>16, ShuffledTwice
<1>. QED BY <1>17 DEF e, parts

\* partition_by_files keeps every row.
LEMMA PartitionByFilesKeeps ==
    ASSUME NEW F \in SUBSET FileRange, AnyRows(F), NEW d \in DatasetsIn(F), NEW n \in Nat \ {0}
    PROVE  Shuffled(FlattenSeq(RowsOfEach(PartitionByFiles(d, n))), RowsOf(d.ranges))
<1>1. CASE Ranged(d)
    BY <1>1, PartitionByFilesIs, PartitionByRowsKeeps
<1>2. CASE ~Ranged(d)
  <2>. DEFINE s == ResolvedPaths(d)
              groups == SplitIntoRows(s, n)
              parts == PartitionByFiles(d, n)
              e == RowsOfEach(parts)
  <2>1. s \in Seq(FileRange) /\ Shuffled(RowsOf(s), RowsOf(d.ranges))
    <3>1. s = ResolvedRanges(d) /\ s \in Seq(F)
      BY <1>2, ResolvedIs DEF ResolvedRanges
    <3>2. Shuffled(RowsOf(s), RowsOf(d.ranges))
      BY <3>1, ResolvedRows
    <3>. QED BY <3>1, <3>2, SeqGrows
  <2>2. \A k \in 1..n : parts[k].ranges = groups[k]
    BY <1>2 DEF PartitionByFiles, Files
  <2>3. parts \in [1..n -> DatasetsIn(F)]
    BY PartitionByFilesIs
  <2>. HIDE DEF s, parts
  <2>4. e \in Seq(Seq(Row)) /\ Len(e) = n /\ \A k \in 1..n : e[k] = RowsOf(parts[k].ranges)
    BY <2>3, EachTyped
  <2>5. /\ groups \in Seq(Seq(FileRange)) /\ Len(groups) = n /\ DOMAIN groups = 1..n
        /\ FlattenSeq(groups) = s
    BY <2>1, SplitKeeps
  <2>. HIDE DEF e, groups
  <2>6. RowsOf(FlattenSeq(groups)) = FlattenSeq(e)
    <3>1. Len(e) = Len(groups) /\ \A k \in DOMAIN groups : e[k] = RowsOf(groups[k])
      BY <2>2, <2>4, <2>5
    <3>. QED BY <2>4, <2>5, <3>1, RowsOfFlatten
  <2>. QED BY <2>1, <2>5, <2>6 DEF e, parts
<1>. QED BY <1>1, <1>2

-----------------------------------------------------------------------------
(* Rows of partitions: P[j][k] are those that producer j gives to partition k *)

Table2(m, n) == [1..m -> [1..n -> Seq(Row)]]
Columns(P, m, n) == [k \in 1..n |-> [j \in 1..m |-> P[j][k]]]
AllParts(P) == FlattenSeq(FlattenSeq(P))

LEMMA PartsTable ==
    ASSUME NEW m \in Nat, NEW n \in Nat, NEW P \in Table2(m, n)
    PROVE  /\ Matrix(P, m, n, Seq(Row)) /\ P \in Seq(Seq(Seq(Row))) /\ Len(P) = m
           /\ \A j \in 1..m : P[j] \in Seq(Seq(Row)) /\ Len(P[j]) = n /\ FlattenSeq(P[j]) \in Seq(Row)
           /\ \A j \in 1..m : \A k \in 1..n : P[j][k] \in Seq(Row)
<1>. DEFINE S == Seq(Row)
            T == Seq(S)
<1>1. P \in [1..m -> [1..n -> S]]
    BY DEF Table2
<1>2. ASSUME NEW j \in 1..m
      PROVE  /\ P[j] \in T /\ Len(P[j]) = n
             /\ \A k \in 1..n : P[j][k] \in S
  <2>. DEFINE x == P[j]
  <2>1. x \in [1..n -> S]
    BY <1>1
  <2>. HIDE DEF S, x
  <2>2. x \in Seq(S) /\ Len(x) = n
    BY <2>1, FunctionIsSeq
  <2>. QED BY <2>1, <2>2 DEF x
<1>3. \A j \in 1..m : FlattenSeq(P[j]) \in Seq(Row)
    BY <1>2, FlattenTyped
<1>4. P \in Seq(T) /\ Len(P) = m
  <2>1. P \in [1..m -> T]
    <3>1. DOMAIN P = 1..m /\ P = [j \in 1..m |-> P[j]]
      BY <1>1
    <3>. HIDE DEF T
    <3>. QED BY <1>2, <3>1
  <2>. HIDE DEF T
  <2>. QED BY <2>1, FunctionIsSeq
<1>5. Matrix(P, m, n, S)
    BY <1>2, <1>4 DEF Matrix
<1>. QED BY <1>2, <1>3, <1>4, <1>5

LEMMA ColumnsTable ==
    ASSUME NEW m \in Nat, NEW n \in Nat, NEW P \in Table2(m, n)
    PROVE  /\ Columns(P, m, n) \in Table2(n, m)
           /\ \A k \in 1..n : Columns(P, m, n)[k] = [j \in 1..m |-> P[j][k]]
           /\ Shuffled(AllParts(P), AllParts(Columns(P, m, n)))
<1>. DEFINE Q == Columns(P, m, n)
<1>1. \A j \in 1..m : \A k \in 1..n : P[j][k] \in Seq(Row)
    BY PartsTable
<1>2. Q \in Table2(n, m)
    BY <1>1 DEF Columns, Table2
<1>3. \A k \in 1..n : Q[k] = [j \in 1..m |-> P[j][k]]
    BY DEF Columns
<1>4. \A j \in 1..m : \A k \in 1..n : P[j][k] = Q[k][j]
    BY <1>3, ZenonT(60)
<1>. HIDE DEF Q
<1>. DEFINE S == Seq(Row)
<1>5. Matrix(P, m, n, S) /\ Matrix(Q, n, m, S) /\ P \in Seq(Seq(S)) /\ Q \in Seq(Seq(S))
    BY <1>2, PartsTable
<1>. HIDE DEF S
<1>6. Shuffled(FlattenSeq(P), FlattenSeq(Q))
    BY <1>4, <1>5, Transposed
<1>7. FlattenSeq(P) \in Seq(S) /\ FlattenSeq(Q) \in Seq(S)
    BY <1>5, FlattenTyped
<1>8. Shuffled(AllParts(P), AllParts(Q))
  <2>1. FlattenSeq(P) \in Seq(Seq(Row)) /\ FlattenSeq(Q) \in Seq(Seq(Row))
    BY <1>7 DEF S
  <2>. QED BY <1>6, <2>1, FlattenShuffled DEF AllParts
<1>. QED BY <1>2, <1>3, <1>8 DEF Q

\* What all producers give to all partitions, producer by producer.
LEMMA PartsByProducer ==
    ASSUME NEW m \in Nat, NEW n \in Nat, NEW P \in Table2(m, n),
           NEW Q \in Seq(Seq(Row)), Len(Q) = m,
           \A j \in 1..m : Shuffled(FlattenSeq(P[j]), Q[j])
    PROVE  Shuffled(AllParts(P), FlattenSeq(Q))
<1>. DEFINE T == Seq(Row)
            u == [j \in 1..m |-> FlattenSeq(P[j])]
<1>1. /\ P \in Seq(Seq(Seq(Row))) /\ Len(P) = m
      /\ \A j \in 1..m : FlattenSeq(P[j]) \in T
    BY PartsTable
<1>2. u \in [1..m -> T] /\ \A j \in 1..m : u[j] = FlattenSeq(P[j])
    BY <1>1
<1>. HIDE DEF u
<1>3. u \in Seq(T) /\ Len(u) = m /\ DOMAIN u = 1..m
  <2>. HIDE DEF T
  <2>. QED BY <1>2, FunctionIsSeq
<1>4. AllParts(P) = FlattenSeq(u)
  <2>1. u \in Seq(Seq(Row)) /\ Len(u) = Len(P) /\ \A j \in 1 .. Len(P) : u[j] = FlattenSeq(P[j])
    BY <1>1, <1>2, <1>3
  <2>. HIDE DEF T
  <2>. QED BY <1>1, <2>1, FlattenTwice DEF AllParts
<1>5. Shuffled(FlattenSeq(u), FlattenSeq(Q))
  <2>1. u \in Seq(Seq(Row)) /\ Len(u) = Len(Q) /\ \A j \in DOMAIN u : Shuffled(u[j], Q[j])
    BY <1>2, <1>3
  <2>. HIDE DEF T
  <2>. QED BY <2>1, FlattenPointwise
<1>. QED BY <1>4, <1>5

\* Partition by partition.
LEMMA PartsByConsumer ==
    ASSUME NEW m \in Nat, NEW n \in Nat, NEW P \in Table2(m, n),
           NEW C \in Seq(Seq(Row)), Len(C) = n,
           \A k \in 1..n : Shuffled(FlattenSeq([j \in 1..m |-> P[j][k]]), C[k])
    PROVE  Shuffled(AllParts(P), FlattenSeq(C))
<1>. DEFINE Q == Columns(P, m, n)
<1>1. /\ Q \in Table2(n, m) /\ \A k \in 1..n : Q[k] = [j \in 1..m |-> P[j][k]]
      /\ Shuffled(AllParts(P), AllParts(Q))
    BY ColumnsTable
<1>. HIDE DEF Q
<1>2. \A k \in 1..n : Shuffled(FlattenSeq(Q[k]), C[k])
    BY <1>1
<1>3. Shuffled(AllParts(Q), FlattenSeq(C))
    BY <1>1, <1>2, PartsByProducer
<1>. QED BY <1>1, <1>3, ShuffledTwice

\* Sub-partition by sub-partition.
LEMMA PartsOneByOne ==
    ASSUME NEW m \in Nat, NEW n \in Nat, NEW P \in Table2(m, n),
           NEW C \in Seq(Seq(Row)), Len(C) = m * n,
           \A j \in 1..m : \A k \in 1..n : Shuffled(P[j][k], C[Place(n, j, k)])
    PROVE  Shuffled(AllParts(P), FlattenSeq(C))
<1>. DEFINE S == Seq(Row)
            G(c) == CHOOSE jk \in (1..m) \X (1..n) : Place(n, jk[1], jk[2]) = c
            s == [c \in 1 .. m * n |-> P[G(c)[1]][G(c)[2]]]
            l == m * n
<1>1. /\ Matrix(P, m, n, S) /\ P \in Seq(Seq(S))
      /\ \A j \in 1..m : \A k \in 1..n : P[j][k] \in S
    BY PartsTable
<1>2. /\ \A j \in 1..m : \A k \in 1..n : Place(n, j, k) \in 1 .. l
      /\ \A i, j \in 1..m : \A k, h \in 1..n : Place(n, i, k) = Place(n, j, h) => i = j /\ k = h
      /\ \A c \in 1 .. l : \E j \in 1..m : \E k \in 1..n : Place(n, j, k) = c
    BY RowwisePlaces
<1>3. l \in Nat
    OBVIOUS
<1>4. ASSUME NEW c \in 1 .. l
      PROVE  G(c) \in (1..m) \X (1..n) /\ Place(n, G(c)[1], G(c)[2]) = c
  <2>1. PICK j \in 1..m, k \in 1..n : Place(n, j, k) = c
    BY <1>2
  <2>2. \E jk \in (1..m) \X (1..n) : Place(n, jk[1], jk[2]) = c
    <3>1. <<j, k>> \in (1..m) \X (1..n) /\ <<j, k>>[1] = j /\ <<j, k>>[2] = k
      OBVIOUS
    <3>. QED BY <2>1, <3>1
  <2>. QED BY <2>2
<1>5. \A c \in 1 .. l : s[c] = P[G(c)[1]][G(c)[2]]
    OBVIOUS
<1>. HIDE DEF G, l
<1>6. \A c \in 1 .. l : G(c)[1] \in 1..m /\ G(c)[2] \in 1..n
    BY <1>4
<1>7. s \in [1 .. l -> S] /\ DOMAIN s = 1 .. l
  <2>1. s = [c \in 1 .. l |-> P[G(c)[1]][G(c)[2]]]
    BY DEF l
  <2>. HIDE DEF s, S
  <2>. QED BY <1>1, <1>6, <2>1
<1>. HIDE DEF s
<1>8. s \in Seq(S) /\ Len(s) = l
  <2>. HIDE DEF S
  <2>. QED BY <1>3, <1>7, FunctionIsSeq
<1>9. \A j \in 1..m : \A k \in 1..n : P[j][k] = s[Place(n, j, k)]
  <2>1. ASSUME NEW j \in 1..m, NEW k \in 1..n PROVE P[j][k] = s[Place(n, j, k)]
    <3>1. Place(n, j, k) \in 1..l
      BY <1>2
    <3>2. G(Place(n, j, k))[1] = j /\ G(Place(n, j, k))[2] = k
      BY <1>2, <1>4, <1>6, <3>1
    <3>. QED BY <1>5, <3>1, <3>2
  <2>. QED BY <2>1
<1>10. Shuffled(FlattenSeq(P), s)
  <2>1. Len(s) = m * n
    BY <1>8 DEF l
  <2>. HIDE DEF S
  <2>. QED BY <1>1, <1>8, <1>9, <2>1, Rowwise
<1>11. Shuffled(AllParts(P), FlattenSeq(s))
  <2>1. FlattenSeq(P) \in Seq(S)
    <3>. HIDE DEF S
    <3>. QED BY <1>1, FlattenTyped
  <2>2. FlattenSeq(P) \in Seq(Seq(Row)) /\ s \in Seq(Seq(Row))
    BY <1>8, <2>1
  <2>. HIDE DEF S
  <2>. QED BY <1>10, <2>2, FlattenShuffled DEF AllParts
<1>12. \A c \in 1 .. l : Shuffled(s[c], C[c])
    BY <1>4, <1>5, <1>6
<1>13. Shuffled(FlattenSeq(s), FlattenSeq(C))
  <2>1. s \in Seq(Seq(Row)) /\ Len(s) = Len(C) /\ \A c \in DOMAIN s : Shuffled(s[c], C[c])
    BY <1>7, <1>8, <1>12 DEF l
  <2>. HIDE DEF S
  <2>. QED BY <2>1, FlattenPointwise
<1>. QED BY <1>11, <1>13, ShuffledTwice

\* The whole input is given to every partition.
LEMMA PartsRepeated ==
    ASSUME NEW m \in Nat, NEW n \in Nat, NEW P \in Table2(m, n),
           NEW Q \in Seq(Seq(Row)), Len(Q) = m,
           \A j \in 1..m : \A k \in 1..n : Shuffled(P[j][k], Q[j]),
           NEW X \in Seq(Row), Shuffled(FlattenSeq(Q), X)
    PROVE  Shuffled(AllParts(P), FlattenSeq([k \in 1..n |-> X]))
<1>. DEFINE C == [k \in 1..n |-> X]
            T == Seq(Row)
<1>1. C \in Seq(T) /\ Len(C) = n
  <2>. HIDE DEF T
  <2>1. X \in T
    BY DEF T
  <2>. QED BY <2>1, FunctionIsSeq
<1>2. ASSUME NEW k \in 1..n PROVE Shuffled(FlattenSeq([j \in 1..m |-> P[j][k]]), C[k])
  <2>. DEFINE p == [j \in 1..m |-> P[j][k]]
  <2>1. p \in [1..m -> T] /\ \A j \in 1..m : p[j] = P[j][k]
    BY PartsTable
  <2>. HIDE DEF p
  <2>2. p \in Seq(T) /\ Len(p) = m /\ DOMAIN p = 1..m
    <3>. HIDE DEF T
    <3>. QED BY <2>1, FunctionIsSeq
  <2>3. p \in Seq(Seq(Row)) /\ Len(p) = Len(Q) /\ \A j \in DOMAIN p : Shuffled(p[j], Q[j])
    BY <2>1, <2>2
  <2>4. Shuffled(FlattenSeq(p), FlattenSeq(Q))
    <3>. HIDE DEF T
    <3>. QED BY <2>3, FlattenPointwise
  <2>5. C[k] = X
    OBVIOUS
  <2>6. Shuffled(FlattenSeq(p), X)
    BY <2>4, ShuffledTwice
  <2>. QED BY <2>5, <2>6 DEF p
<1>. HIDE DEF C
<1>3. Shuffled(AllParts(P), FlattenSeq(C))
  <2>1. C \in Seq(Seq(Row))
    BY <1>1
  <2>. HIDE DEF T
  <2>. QED BY <1>1, <1>2, <2>1, PartsByConsumer
<1>. QED BY <1>3 DEF C

-----------------------------------------------------------------------------
(* The rows that R gives for every item of a sequence *)

RowMaps(D) == [D -> Seq(Row)]
RowsFor(R, g) == [i \in DOMAIN g |-> R[g[i]]]
RowsAt(R, g) == FlattenSeq(RowsFor(R, g))

LEMMA RowsAtIs ==
    ASSUME NEW D, NEW R \in RowMaps(D), NEW g \in Seq(D)
    PROVE  /\ RowsFor(R, g) \in Seq(Seq(Row)) /\ Len(RowsFor(R, g)) = Len(g)
           /\ DOMAIN RowsFor(R, g) = DOMAIN g
           /\ \A i \in DOMAIN g : RowsFor(R, g)[i] = R[g[i]] /\ R[g[i]] \in Seq(Row)
           /\ RowsAt(R, g) \in Seq(Row)
<1>. DEFINE T == Seq(Row)
            e == RowsFor(R, g)
<1>1. Len(g) \in Nat /\ DOMAIN g = 1 .. Len(g) /\ \A i \in DOMAIN g : g[i] \in D
    BY SeqIs
<1>2. \A i \in DOMAIN g : R[g[i]] \in T
    BY <1>1 DEF RowMaps
<1>3. e = [i \in 1 .. Len(g) |-> R[g[i]]]
    BY <1>1 DEF RowsFor
<1>. HIDE DEF T, e
<1>4. e \in [1 .. Len(g) -> T]
    BY <1>1, <1>2, <1>3
<1>5. e \in Seq(T) /\ Len(e) = Len(g) /\ DOMAIN e = 1 .. Len(g)
    BY <1>1, <1>4, FunctionIsSeq
<1>6. \A i \in DOMAIN g : e[i] = R[g[i]]
    BY <1>1, <1>3
<1>7. FlattenSeq(e) \in Seq(Row)
  <2>1. e \in Seq(Seq(Row))
    BY <1>5 DEF T
  <2>. QED BY <2>1, FlattenTyped
<1>. QED BY <1>1, <1>2, <1>5, <1>6, <1>7 DEF e, T, RowsAt

LEMMA RowsAtNone == \A R : RowsAt(R, <<>>) = <<>>
<1>1. ASSUME NEW R PROVE RowsFor(R, <<>>) = <<>>
    BY DEF RowsFor
<1>. QED BY <1>1, FlattenNone DEF RowsAt

LEMMA RowsAtConcat ==
    ASSUME NEW D, NEW R \in RowMaps(D), NEW g \in Seq(D), NEW h \in Seq(D)
    PROVE  RowsAt(R, g \o h) = RowsAt(R, g) \o RowsAt(R, h)
<1>. DEFINE m == Len(g)
            n == Len(h)
            w == g \o h
            a == RowsFor(R, g)
            b == RowsFor(R, h)
            c == RowsFor(R, w)
            d == a \o b
<1>1. /\ m \in Nat /\ n \in Nat /\ DOMAIN g = 1..m /\ DOMAIN h = 1..n
    BY SeqIs
<1>2. /\ w \in Seq(D) /\ Len(w) = m + n /\ DOMAIN w = 1 .. m + n
      /\ \A k \in DOMAIN g : w[k] = g[k]
      /\ \A k \in m + 1 .. m + n : w[k] = h[k - m]
    BY ConcatIs, ZenonT(60)
<1>3. /\ a \in Seq(Seq(Row)) /\ Len(a) = m /\ DOMAIN a = DOMAIN g
      /\ \A i \in DOMAIN g : a[i] = R[g[i]]
    BY RowsAtIs
<1>4. /\ b \in Seq(Seq(Row)) /\ Len(b) = n /\ DOMAIN b = DOMAIN h
      /\ \A i \in DOMAIN h : b[i] = R[h[i]]
    BY RowsAtIs
<1>5. /\ c \in Seq(Seq(Row)) /\ Len(c) = m + n /\ DOMAIN c = 1 .. m + n
      /\ \A i \in DOMAIN w : c[i] = R[w[i]]
  <2>. HIDE DEF w
  <2>. QED BY <1>2, RowsAtIs
<1>6. /\ d \in Seq(Seq(Row)) /\ DOMAIN d = 1 .. m + n
      /\ \A k \in DOMAIN a : d[k] = a[k]
      /\ \A k \in m + 1 .. m + n : d[k] = b[k - m]
      /\ d = [k \in DOMAIN d |-> d[k]]
  <2>. HIDE DEF a, b
  <2>1. a \in Seq(Seq(Row)) /\ b \in Seq(Seq(Row)) /\ Len(a) = m /\ Len(b) = n
    BY <1>3, <1>4 DEF a, b
  <2>2. Concatenated(a, b, d, Seq(Row))
    BY <2>1, ConcatIsConcatenated
  <2>. HIDE DEF d
  <2>3. d \in Seq(Seq(Row))
    BY <2>2 DEF Concatenated
  <2>4. d = [k \in DOMAIN d |-> d[k]]
    BY <2>3, SeqIs
  <2>. QED BY <2>1, <2>2, <2>4 DEF Concatenated
<1>7. c = [k \in DOMAIN c |-> c[k]]
    BY <1>5, SeqIs
<1>8. ASSUME NEW k \in 1 .. m + n PROVE c[k] = d[k]
  <2>. HIDE DEF a, b, c, d
  <2>1. CASE k \in 1..m
    <3>1. c[k] = R[g[k]]
      BY <1>1, <1>2, <1>5, <2>1
    <3>2. d[k] = R[g[k]]
      BY <1>1, <1>3, <1>6, <2>1
    <3>. QED BY <3>1, <3>2
  <2>2. CASE k \notin 1..m
    <3>1. k \in m + 1 .. m + n /\ k - m \in 1..n
      BY <1>1, <2>2
    <3>2. c[k] = R[h[k - m]]
      BY <1>2, <1>5, <3>1
    <3>3. d[k] = R[h[k - m]]
      BY <1>1, <1>4, <1>6, <3>1
    <3>. QED BY <3>2, <3>3
  <2>. QED BY <2>1, <2>2
<1>9. c = d
  <2>. HIDE DEF c, d
  <2>. QED BY <1>5, <1>6, <1>7, <1>8
<1>10. FlattenSeq(a \o b) = FlattenSeq(a) \o FlattenSeq(b)
    BY <1>3, <1>4, FlattenConcat
<1>. QED BY <1>9, <1>10 DEF RowsAt

\* Sequences of sequences of tasks, and the sequences of rows each one stands for.
RowsEach(D, R, gg, ss) ==
    /\ R \in RowMaps(D) /\ gg \in Seq(Seq(D)) /\ ss \in Seq(Seq(Row)) /\ Len(ss) = Len(gg)
    /\ \A i \in 1 .. Len(gg) : ss[i] = RowsAt(R, gg[i])

LEMMA RowsAtFlatten ==
    ASSUME NEW D, NEW R, NEW gg, NEW ss, RowsEach(D, R, gg, ss)
    PROVE  RowsAt(R, FlattenSeq(gg)) = FlattenSeq(ss)
<1>0. /\ R \in RowMaps(D) /\ gg \in Seq(Seq(D)) /\ ss \in Seq(Seq(Row)) /\ Len(ss) = Len(gg)
      /\ \A i \in 1 .. Len(gg) : ss[i] = RowsAt(R, gg[i])
    BY DEF RowsEach
<1>. USE <1>0
<1>1. PICK f : Concats(gg, D, f)
    BY FlattenIs
<1>. DEFINE n == Len(gg)
            h == [i \in 0..n |-> RowsAt(R, f[i])]
<1>2. n \in Nat /\ \A i \in 1..n : gg[i] \in Seq(D)
  <2>. DEFINE T == Seq(D)
  <2>1. gg \in Seq(T)
    OBVIOUS
  <2>. HIDE DEF T
  <2>2. n \in Nat /\ \A i \in 1..n : gg[i] \in T
    BY <2>1, SeqIs
  <2>. QED BY <2>2 DEF T
<1>4. /\ f[0] = <<>> /\ f[n] = FlattenSeq(gg)
      /\ \A i \in 1..n : f[i] = f[i - 1] \o gg[i]
      /\ \A i \in 0..n : f[i] \in Seq(D)
    BY <1>1 DEF Concats
<1>. HIDE DEF n
<1>5. \A i \in 0..n : h[i] = RowsAt(R, f[i])
    OBVIOUS
<1>. HIDE DEF h
<1>6. h[0] = <<>>
    BY <1>2, <1>4, <1>5, RowsAtNone
<1>7. ASSUME NEW i \in 1 .. Len(ss) PROVE h[i] = h[i - 1] \o ss[i]
  <2>1. i \in 1..n /\ i \in 0..n /\ i - 1 \in 0..n /\ ss[i] = RowsAt(R, gg[i])
    BY <1>2 DEF n
  <2>. DEFINE x == f[i - 1]
              y == gg[i]
  <2>2. f[i] = x \o y /\ x \in Seq(D) /\ y \in Seq(D)
    BY <1>2, <1>4, <2>1
  <2>3. RowsAt(R, x \o y) = RowsAt(R, x) \o RowsAt(R, y)
    <3>. HIDE DEF x, y
    <3>. QED BY <2>2, RowsAtConcat, ZenonT(60)
  <2>. QED BY <1>5, <2>1, <2>2, <2>3
<1>8. h[Len(ss)] = FlattenSeq(ss)
    BY <1>6, <1>7, PrefixesUnique
<1>9. Len(ss) = n /\ n \in 0..n
    BY <1>2 DEF n
<1>. QED BY <1>4, <1>5, <1>8, <1>9

LEMMA RowsAtShuffled ==
    ASSUME NEW D, NEW R \in RowMaps(D), NEW g \in Seq(D), NEW h \in Seq(D), Shuffled(g, h)
    PROVE  Shuffled(RowsAt(R, g), RowsAt(R, h))
<1>. DEFINE x == RowsFor(R, g)
            y == RowsFor(R, h)
<1>1. /\ x \in Seq(Seq(Row)) /\ DOMAIN x = DOMAIN g /\ \A i \in DOMAIN g : x[i] = R[g[i]]
      /\ y \in Seq(Seq(Row)) /\ DOMAIN y = DOMAIN h /\ \A i \in DOMAIN h : y[i] = R[h[i]]
    BY RowsAtIs
<1>2. PICK b \in Bijection(DOMAIN g, DOMAIN h) : \A i \in DOMAIN g : g[i] = h[b[i]]
    BY DEF Shuffled
<1>3. b \in [DOMAIN g -> DOMAIN h]
    BY <1>2, BijectionIs
<1>. HIDE DEF x, y
<1>4. ASSUME NEW i \in DOMAIN g PROVE x[i] = y[b[i]]
  <2>1. b[i] \in DOMAIN h
    BY <1>3
  <2>2. x[i] = R[g[i]] /\ y[b[i]] = R[h[b[i]]]
    BY <1>1, <2>1
  <2>3. g[i] = h[b[i]]
    BY <1>2
  <2>. QED BY <2>2, <2>3
<1>5. Shuffled(x, y)
    BY <1>1, <1>2, <1>4 DEF Shuffled
<1>6. Shuffled(FlattenSeq(x), FlattenSeq(y))
    BY <1>1, <1>5, FlattenShuffled
<1>. QED BY <1>6 DEF x, y, RowsAt

\* Items that are brought together class by class.
LEMMA ClassesGathered ==
    ASSUME NEW D, NEW R \in RowMaps(D), NEW ins \in Seq(D), NEW n \in Nat,
           NEW C \in Seq(Seq(Row)), Len(C) = n, NEW of \in Seq(Seq(D)), Len(of) = n,
           Shuffled(FlattenSeq(of), ins),
           \A k \in 1..n : Shuffled(C[k], RowsAt(R, of[k]))
    PROVE  Shuffled(FlattenSeq(C), RowsAt(R, ins))
<1>. DEFINE T == Seq(Row)
            u == [k \in 1..n |-> RowsAt(R, of[k])]
<1>0. \A k \in 1..n : of[k] \in Seq(D)
  <2>. DEFINE X == Seq(D)
  <2>1. of \in Seq(X)
    OBVIOUS
  <2>. HIDE DEF X
  <2>2. \A k \in 1..n : of[k] \in X
    BY <2>1, SeqIs
  <2>. QED BY <2>2 DEF X
<1>1. \A k \in 1..n : RowsAt(R, of[k]) \in T
    BY <1>0, RowsAtIs
<1>2. u \in [1..n -> T] /\ \A k \in 1..n : u[k] = RowsAt(R, of[k])
    BY <1>1
<1>. HIDE DEF u
<1>3. u \in Seq(T) /\ Len(u) = n /\ DOMAIN u = 1..n
  <2>. HIDE DEF T
  <2>. QED BY <1>2, FunctionIsSeq
<1>4. u \in Seq(Seq(Row))
    BY <1>3
<1>. HIDE DEF T
<1>5. RowsAt(R, FlattenSeq(of)) = FlattenSeq(u)
  <2>1. Len(u) = Len(of) /\ \A k \in 1 .. Len(of) : u[k] = RowsAt(R, of[k])
    BY <1>2, <1>3
  <2>2. RowsEach(D, R, of, u)
    BY <1>4, <2>1 DEF RowsEach
  <2>. QED BY <2>2, RowsAtFlatten
<1>6. FlattenSeq(of) \in Seq(D)
    BY FlattenTyped
<1>7. Shuffled(FlattenSeq(u), RowsAt(R, ins))
    BY <1>5, <1>6, RowsAtShuffled
<1>8. Shuffled(FlattenSeq(C), FlattenSeq(u))
  <2>1. DOMAIN C = 1..n
    <3>1. C \in Seq(T)
      BY DEF T
    <3>. QED BY <3>1, SeqIs
  <2>2. Len(C) = Len(u) /\ \A k \in DOMAIN C : Shuffled(C[k], u[k])
    BY <1>2, <1>3, <2>1
  <2>. QED BY <1>4, <2>2, FlattenPointwise
<1>. QED BY <1>7, <1>8, ShuffledTwice
=============================================================================
