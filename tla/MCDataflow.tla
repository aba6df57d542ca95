----------------------------- MODULE MCDataflow -----------------------------
(* Logical plans for TLC. *)
EXTENDS Dataflow

CONSTANTS K1, K2

\* Rows 1 .. 4 are read by most plans, 5 .. 7 are what they are joined with.
Keys == <<K1, K2, K1, K2, K1, K2, K2>>

Producers == [hash |-> 2, shuffle |-> 2, even |-> 1, evenrows |-> 1, load |-> 2, user |-> 2,
              repeat |-> 1]

-----------------------------------------------------------------------------
(* Nodes *)

F(i, j, rows, part) == RowRange(<<-i, j>>, [r \in DOMAIN rows |-> <<rows[r]>>], part)

Left  == DataSource(<<F(2, 2, <<1, 2, 3>>, 1), F(2, 1, <<4>>, 0)>>)
Right == DataSource(<<F(1, 1, <<5>>, 0), F(1, 2, <<6, 7>>, 1)>>)
Single == DataSource(<<F(1, 1, <<5>>, 0)>>)

Hash(dep, n, dim) == HashPartition(<<dep>>, n, dim, FALSE, FALSE)
DuckHash(dep, n, dim) == HashPartition(<<dep>>, n, dim, FALSE, TRUE)
Even(dep, n, dim) == EvenlyDistributed(<<dep>>, n, dim, FALSE)
EvenRows(dep, n, dim) == EvenlyDistributed(<<dep>>, n, dim, TRUE)
Sql(deps) == SqlEngine(deps, <<>>)
Select(dep) == Sql(<<dep>>)

-----------------------------------------------------------------------------
(* Plans *)

\* Both sides of a join hashed alike.
HashJoin == <<Left, DuckHash(1, 2, 1), Right, DuckHash(3, 2, 1), Sql(<<2, 4>>)>>

\* A whole input joined with every partition.
BroadcastJoin == <<Left, EvenRows(1, 2, 1), Single, ArrowCompute(<<2, 3>>), Select(4)>>

\* Hash partitions, cut again, put together again.
Nested == <<Left, Hash(1, 2, 1), HashPartition(<<2>>, 2, 2, TRUE, TRUE), Select(3),
            Consolidate(4, {1}), Select(5)>>

\* Every partition meets a copy of the other side.
RepeatJoin == <<Left, EvenRows(1, 2, 1), Right, RepeatPartition(<<3>>, 2, 1),
                Sql(<<2, 4>>)>>

\* Two flows in one, distributed again.
UnionSpread == <<Left, Select(1), Right, UnionOf(<<2, 3>>), Even(4, 2, 1), Select(5)>>

\* Files that carry their partition.
Loaded == <<Left, LoadPartitioned(<<1>>, 2, 1), Projection(2),
            Right, LoadPartitioned(<<4>>, 2, 1), UnionOf(<<3, 5>>)>>

\* Some rows of many partitions, spread over more partitions than there are rows.
Limits == <<Left, Hash(1, 2, 1), Limit(2, 3), EvenRows(3, 4, 1), Select(4)>>

\* More rows than partitions, part of them named on the way.
NamedPart == <<Left, WithOutputName(Select(1)), EvenRows(2, 3, 1), Right, Sql(<<3, 4>>)>>

\* Hash partitions cut again in a dimension that comes first in order.
NestedFirst == <<Left, Hash(1, 2, 2), HashPartition(<<2>>, 2, 1, TRUE, FALSE)>>

\* Sides of a join that do not match.
Mismatch == <<Left, Hash(1, 2, 1), Right, Hash(3, 3, 1), Sql(<<2, 4>>)>>

\* The final results of a job are the one partition of what it has named.
OneResult == <<Left, EvenRows(1, 2, 1), WithOutputName(Select(2)), Even(3, 1, 2), Consolidate(4, {})>>

\* Files put where the user wants them, and rows where they want to be.
Chosen == <<Left, UserDefinedPartition(<<1>>, 2, 1), Select(2), Shuffle(<<3>>, 2, 2, FALSE)>>

SomePlans == {HashJoin, BroadcastJoin, Nested, RepeatJoin, UnionSpread, Loaded,
              Limits, NamedPart, NestedFirst, Mismatch, OneResult, Chosen}

\* They are plans in which the limits hold and the keys of files are found.
ASSUME Plans = SomePlans => LimitsApart /\ LoadsSources

\* A query over two flows that were brought together.
UnionThenSelect == {<<Left, Projection(1), Right, UnionOf(<<2, 3>>), Select(4)>>}

\* Some rows of two partitions, and a query over them.
LimitThenSelect == {<<Left, Hash(1, 2, 1), Limit(2, 1), Select(3)>>}

\* Files that carry their hash partition, loaded by it.
HashThenLoad == {<<Left, Hash(1, 3, 1), LoadPartitioned(<<2>>, 3, 2)>>}

\* Rows distributed evenly and written as they are.
RowsThenSink == {<<Left, EvenRows(1, 2, 1), DataSink(<<2>>, TRUE)>>}
=============================================================================
