----------------------------- MODULE LogicalPlan -----------------------------
(***************************************************************************)
(* The nodes that a logical plan is made of (logical/node.py), as their    *)
(* constructors leave them.  A plan is a sequence of nodes; deps are the   *)
(* positions of the input_deps, all of them earlier ones.  Dimensions are  *)
(* numbers: names are compared for equality and order only.                *)
(***************************************************************************)
EXTENDS Dataset

\* PartitionInfo.toplevel_dimension, of partitions that were never partitioned.
Top == 0

\* Every node has inputs, and possibly an output_name.
Node(op, deps) == [op |-> op, deps |-> deps, named |-> FALSE]
WithOutputName(node) == [node EXCEPT !.named = TRUE]

DataSource(files) == [op |-> "source", deps |-> <<>>, named |-> FALSE, files |-> files]
DataSink(deps, copy) == [op |-> "sink", deps |-> deps, named |-> FALSE, copy |-> copy]
RootOf(deps) == Node("root", deps)
UnionOf(deps) == Node("union", deps)
Projection(dep) == Node("projection", <<dep>>)

\* Tables in, a table out: a function of the user, or a query.  limits are those of
\* the queries that were fused into this one, in order.
Query(op, deps, limits) ==
    [op |-> op, deps |-> deps, named |-> FALSE, limits |-> limits]

ArrowCompute(deps) == Query("compute", deps, <<>>)
SqlEngine(deps, limits) == Query("sql", deps, limits)
Limit(dep, limit) == Query("limit", <<dep>>, <<limit>>)

\* The toplevel dimension is always kept.
Consolidate(dep, dims) ==
    [op |-> "consolidate", deps |-> <<dep>>, named |-> FALSE, dims |-> dims \cup {Top}]

Partition(kind, deps, n, dim, nested, duckdb) ==
    [op |-> "partition", deps |-> deps, named |-> FALSE, kind |-> kind, n |-> n, dim |-> dim,
     nested |-> nested, duckdb |-> duckdb]

\* A single partition is not cut by rows.
EvenlyDistributed(deps, n, dim, byRows) ==
    Partition(IF byRows /\ n > 1 THEN "evenrows" ELSE "even", deps, n, dim, FALSE, FALSE)

\* Always nested: every partition of the input is there n times.
RepeatPartition(deps, n, dim) == Partition("repeat", deps, n, dim, TRUE, FALSE)

\* The user's code decides on the partition of every file.
UserDefinedPartition(deps, n, dim) == Partition("user", deps, n, dim, FALSE, FALSE)

LoadPartitioned(deps, n, dim) == Partition("load", deps, n, dim, FALSE, FALSE)

HashPartition(deps, n, dim, nested, duckdb) ==
    Partition("hash", deps, n, dim, nested, duckdb)

\* The rows name their partition themselves.
Shuffle(deps, n, dim, duckdb) ==
    Partition("shuffle", deps, n, dim, FALSE, duckdb)

-----------------------------------------------------------------------------
(* Plans that can be built: what the parameters of the constructors may be. *)

Kinds == {"hash", "shuffle", "even", "evenrows", "load", "user", "repeat"}

Nodes ==
    [op : {"root", "union", "projection"}, deps : Seq(Nat), named : BOOLEAN]
    \cup [op : {"source"}, deps : {<<>>}, named : BOOLEAN, files : Seq(FileRange)]
    \cup [op : {"sink"}, deps : Seq(Nat), named : BOOLEAN, copy : BOOLEAN]
    \cup [op : {"compute", "sql", "limit"}, deps : Seq(Nat), named : BOOLEAN, limits : Seq(Nat)]
    \cup [op : {"consolidate"}, deps : Seq(Nat), named : BOOLEAN, dims : SUBSET Nat]
    \cup [op : {"partition"}, deps : Seq(Nat), named : BOOLEAN, kind : Kinds,
          n : Nat \ {0}, dim : Nat \ {Top}, nested : BOOLEAN, duckdb : BOOLEAN]

\* Inputs come first.  Nodes have some, one by one in some classes; in the model a
\* query has, too.  Files have no path that a task writes to.
WellFormed(p) ==
    /\ p \in Seq(Nodes) /\ p # <<>>
    /\ \A n \in DOMAIN p :
        /\ \A i \in DOMAIN p[n].deps : p[n].deps[i] \in 1 .. n - 1
        /\ p[n].op # "source" => p[n].deps # <<>>
        /\ p[n].op \in {"projection", "consolidate", "limit"} => Len(p[n].deps) = 1
        /\ p[n].op = "source" => \A i \in DOMAIN p[n].files : p[n].files[i].path[1] < 0
=============================================================================
