------------------------------ MODULE Dataflow ------------------------------
(***************************************************************************)
(* The tasks of a plan at work (the run and finalize methods of            *)
(* execution/task.py): what every task makes of the datasets of its        *)
(* inputs.  A joined row has the key of the first of its base rows.  SQL   *)
(* and user code are abstracted to the join of their inputs on that key,   *)
(* with the limits of the queries.                                         *)
(***************************************************************************)
EXTENDS Planner

CONSTANTS
    MaxHash,     \* hash values are 0 .. MaxHash
    SkipChoices, \* the settings of skip_task_with_empty_input
    TrimChoices  \* the settings of remove_empty_parquet

ASSUME DataflowAssumption ==
    MaxHash \in Nat /\ SkipChoices \subseteq BOOLEAN /\ TrimChoices \subseteq BOOLEAN

VARIABLES
    hash,   \* the hash function of the duckdb engine (TRUE) and of the arrow engine
    skip,   \* ctx.skip_task_with_empty_input
    trim,   \* ctx.remove_empty_parquet
    output  \* the datasets of the tasks that have run; of a producer, its partitions

vars == <<planVars, hash, skip, trim, output>>

Key(row) == KeyOf[row[1]]

\* The first rows that a query happens to find, as many as all its limits let pass.
LeastOf(S) == CHOOSE l \in S : \A m \in S : l <= m
Limited(rows, limits) == SubSeq(rows, 1, LeastOf({Len(rows)} \cup Range(limits)))

Joined(a, b) ==
    FlattenSeq([i \in DOMAIN a |->
        LET same == ItemsAt(b, {j \in DOMAIN b : Key(b[j]) = Key(a[i])})
        IN  [j \in DOMAIN same |-> a[i] \o same[j]]])

\* The inner join of the rows of all inputs.
Join(inputs) ==
    LET join[i \in DOMAIN inputs] ==
            IF i = 1 THEN inputs[1] ELSE Joined(join[i - 1], inputs[i])
    IN  join[Len(inputs)]

-----------------------------------------------------------------------------
(* Producers *)

\* The two engines hash differently; a shuffle takes a column for the partition.
Bucket(row, node) ==
    IF node.kind = "shuffle" THEN row[1] % node.n
    ELSE hash[node.duckdb][Key(row)] % node.n

\* HashPartitionTask.run, one batch: nothing is read of an empty input.  The
\* duckdb engine writes a file for every partition, the arrow engine only for
\* those that get rows.
HashPartitions(t, d) ==
    LET node == plan[tasks[t].node]
        all == RowsOf(ResolvedRanges(d))
        rows(k) == ItemsAt(all, {i \in DOMAIN all : Bucket(all[i], node) = k - 1})
        written(k) == NumRows(d) > 0 /\ (node.duckdb \/ rows(k) # <<>>)
    IN  [k \in 1 .. node.n |->
            IF written(k) THEN Files(<<RowRange(<<t, k>>, rows(k), k - 1)>>) ELSE NoFiles]

Partitions(t, d) ==
    LET node == plan[tasks[t].node]
    IN  CASE node.kind \in {"hash", "shuffle"} -> HashPartitions(t, d)
          [] node.kind = "even"     -> PartitionByFiles(d, node.n)
          [] node.kind = "evenrows" -> PartitionByRows(d, node.n)
          [] node.kind = "load"     -> LoadPartitionedDatasets(d, node.n)
          [] node.kind = "repeat"   -> [k \in 1 .. node.n |-> d]

\* partition_func may put a file of the dataset anywhere.
UserPartitions(d, n) ==
    LET part(f, k) == ItemsAt(ResolvedRanges(d), {i \in DOMAIN f : f[i] = k})
    IN  {[k \in 1..n |-> [ranges |-> part(f, k),
                          kind |-> IF d.kind = "files" THEN "files" ELSE "ranges"]] :
            f \in [DOMAIN d.ranges -> 1..n]}

\* mutant: empty partitions stay without a file.
FinalizedAsIs(t, parts) == parts

\* PartitionProducerTask.finalize: unless all partitions are empty, every empty
\* one gets a file, so that its consumers have something to read.
Finalized(t, parts) ==
    IF \A k \in DOMAIN parts : Empty(parts[k]) THEN parts
    ELSE [k \in DOMAIN parts |->
            IF Empty(parts[k]) THEN Files(<<RowRange(<<t, k>>, <<>>, k - 1)>>) ELSE parts[k]]

\* mutant: the last of the sorted partition_infos is taken for the partition.
ConsumedSorted(t) ==
    LET infos == tasks[t].infos
        last == CHOOSE d \in DOMAIN infos : \A c \in DOMAIN infos : c <= d
    IN  Merge([i \in DOMAIN tasks[t].inputs |-> output[tasks[t].inputs[i]][infos[last] + 1]])

\* PartitionConsumerTask.run: its partition of every producer, which is the last
\* of the partition_infos it is given (they are sorted only after that).
Consumed(t) ==
    LET idx == tasks[t].infos[plan[tasks[t].node].dim] + 1
        parts == Merge([i \in DOMAIN tasks[t].inputs |-> output[tasks[t].inputs[i]][idx]])
    IN  IF trim THEN RemoveEmptyFiles(parts) ELSE parts

-----------------------------------------------------------------------------
(* Tasks *)

Inputs(t) == [i \in DOMAIN tasks[t].inputs |-> output[tasks[t].inputs[i]]]

\* Task.initialize of a task that does not run on the scheduler.
TrimmedInputs(t) ==
    [i \in DOMAIN Inputs(t) |-> IF trim THEN RemoveEmptyFiles(Inputs(t)[i]) ELSE Inputs(t)[i]]

Ready(t) == t \notin DOMAIN output /\ \A i \in DOMAIN tasks[t].inputs :
                                            tasks[t].inputs[i] \in DOMAIN output

Produce(t, result) ==
    /\ output' = Extended(output, t, result)
    /\ UNCHANGED <<planVars, hash, skip, trim>>

\* The rows of a query are written to one file; none may be written for no rows.
RunCompute(t) ==
    LET ins == TrimmedInputs(t)
        rows == Limited(Join([i \in DOMAIN ins |-> RowsOf(ResolvedRanges(ins[i]))]),
                        plan[tasks[t].node].limits)
    IN  /\ tasks[t].type = "compute"
        /\ IF skip /\ \E i \in DOMAIN ins : Empty(ins[i])
           THEN Produce(t, NoFiles)
           ELSE \/ Produce(t, Files(<<RowRange(<<t, 1>>, rows, NoKey)>>))
                \/ rows = <<>> /\ Produce(t, NoFiles)

RunProducer(t) ==
    LET node == plan[tasks[t].node]
        d == IF node.kind \in {"even", "evenrows", "repeat"} THEN Inputs(t)[1]
             ELSE TrimmedInputs(t)[1]
    IN  /\ tasks[t].type = "producer"
        /\ \E parts \in IF node.kind = "user" THEN UserPartitions(d, node.n)
                         ELSE {Partitions(t, d)} :
                Produce(t, Finalized(t, parts))

\* A partition without any file is only accepted if such tasks are skipped.
RunConsumer(t) ==
    /\ tasks[t].type = "consumer"
    /\ IF skip \/ ~Empty(Consumed(t))
       THEN Produce(t, Consumed(t))
       ELSE /\ phase' = "failed"
            /\ UNCHANGED <<plan, tasks, group, hash, skip, trim, output>>

RunMerge(t) ==
    /\ tasks[t].type = "merge"
    /\ Produce(t, Merge(Inputs(t)))

\* DataSinkTask.collect_output_files: the files of all inputs are copied, linked or
\* listed, whatever rows of them the inputs have.
RunSink(t) ==
    /\ tasks[t].type = "sink"
    /\ Produce(t, Files(FlattenSeq([i \in DOMAIN Inputs(t) |-> WholeFiles(Inputs(t)[i])])))

RunSplit(t) ==
    /\ tasks[t].type = "split"
    /\ Produce(t, PartitionByFiles(Inputs(t)[1], tasks[t].n)[tasks[t].infos[Top] + 1])

RunOther(t) ==
    \/ /\ tasks[t].type = "source"
       /\ Produce(t, Files(plan[tasks[t].node].files))
    \/ /\ tasks[t].type = "projection"
       /\ Produce(t, Inputs(t)[1])
    \/ /\ tasks[t].type = "root"
       /\ Produce(t, NoFiles)

Run(t) ==
    /\ phase = "running"
    /\ Ready(t)
    /\ \/ RunCompute(t) \/ RunProducer(t) \/ RunConsumer(t)
       \/ RunMerge(t) \/ RunSink(t) \/ RunSplit(t) \/ RunOther(t)

Ended ==
    \/ phase = "failed"
    \/ phase = "running" /\ DOMAIN output = DOMAIN tasks

Next ==
    \/ PlannerNext /\ UNCHANGED <<hash, skip, trim, output>>
    \/ \E t \in DOMAIN tasks : Run(t)
    \/ Ended /\ UNCHANGED vars

Init ==
    /\ PlannerInit
    /\ hash \in [BOOLEAN -> [{KeyOf[r] : r \in DOMAIN KeyOf} -> 0 .. MaxHash]]
    /\ skip \in SkipChoices
    /\ trim \in TrimChoices
    /\ output = << >>

Spec == Init /\ [][Next]_vars

-----------------------------------------------------------------------------
(* Properties *)

Count(s, x) == Cardinality({i \in DOMAIN s : s[i] = x})
SameRows(s, u) == Len(s) = Len(u) /\ \A i \in DOMAIN s : Count(s, s[i]) = Count(u, s[i])
Within(s, u) == \A i \in DOMAIN s : Count(s, s[i]) <= Count(u, s[i])

\* Nodes all of whose tasks, and those of their inputs, have run.
Ran == {n \in DOMAIN group : \A i \in DOMAIN group[n] : group[n][i] \in DOMAIN output}
Done == {n \in Ran : \A i \in DOMAIN plan[n].deps : plan[n].deps[i] \in Ran}

\* The rows of node n, over all its tasks.
NodeRows(n) == FlattenSeq([i \in DOMAIN group[n] |-> RowsOf(output[group[n][i]].ranges)])

\* A repeated input counts once for a join that reads it.
IsRepeat(n) == plan[n].op = "partition" /\ plan[n].kind = "repeat"
DepRows(n) ==
    [i \in DOMAIN plan[n].deps |->
        LET d == plan[n].deps[i]
        IN  IF IsRepeat(d) /\ plan[n].op \in {"sql", "compute"}
            THEN NodeRows(plan[d].deps[1])
            ELSE NodeRows(d)]

\* What node n stands for, given the rows of its inputs.
Means(n, inputs) ==
    CASE plan[n].op = "source" -> RowsOf(plan[n].files)
      [] plan[n].op \in {"sql", "compute", "limit"} -> Join(inputs)
      [] OTHER -> FlattenSeq(inputs)

Meaning(n) == Means(n, DepRows(n))

\* What the plan stands for at every node, without limits.
Answer ==
    LET rows[n \in DOMAIN plan] ==
            Means(n, [i \in DOMAIN plan[n].deps |-> rows[plan[n].deps[i]]])
    IN  rows

\* Nodes that hand the rows of their inputs on, however they distribute them.  Files that
\* are loaded with the partition of each are the exception: a task reads only its own.
MovesRows(n) ==
    \/ plan[n].op \in {"source", "union", "projection", "consolidate"}
    \/ plan[n].op = "partition" /\ plan[n].kind # "load"

\* However a node that distributes rows is cut into tasks -- merged, split, hashed,
\* repeated, nested, consolidated, with empty partitions or none -- its tasks together
\* hand on the rows of its inputs, by files or by rows: no row is lost, none is there twice.
RowsKept ==
    \A n \in Done : MovesRows(n) =>
        SameRows(NodeRows(n), IF IsRepeat(n)
                              THEN FlattenSeq([k \in 1 .. plan[n].n |-> Meaning(n)])
                              ELSE Meaning(n))

\* A join partition by partition, a query, a limit, a sink or a load by partition gives
\* the rows it stands for (a limit, some of them), and the final results of a job are what
\* the whole plan stands for, whichever sinks they were taken from.
NodesCompute ==
    \A n \in Done : ~MovesRows(n) =>
        IF plan[n].op = "root"
        THEN (\A m \in DOMAIN plan : plan[m].op # "limit") =>
                 SameRows(NodeRows(n - 1), Answer[n - 1 - Len(plan[n].deps)])
        ELSE IF plan[n].op \in {"sql", "compute", "limit"} /\ plan[n].limits # <<>>
        THEN Within(NodeRows(n), Meaning(n))
        ELSE SameRows(NodeRows(n), Meaning(n))

\* DataFrame.limit and LimitNode: "limit the number of rows", over all partitions;
\* and as many as there are up to the limit.
LimitHolds ==
    \A n \in Done : plan[n].op \in {"sql", "compute", "limit"} /\ plan[n].limits # <<>> =>
        Len(NodeRows(n)) = LeastOf({Len(Meaning(n))} \cup Range(plan[n].limits))

\* A row is in the partition that its hash, or the key of its file, names, in every
\* dimension: partitions of different nodes that are joined hold the same keys.
RightPartition ==
    \A n \in Done : plan[n].op = "partition" =>
        \A i \in DOMAIN group[n] :
            LET t == group[n][i]
                idx == tasks[t].infos[plan[n].dim]
                ranges == output[t].ranges
            IN  \A j \in DOMAIN ranges :
                    IF plan[n].kind \in {"hash", "shuffle"}
                    THEN \A r \in DOMAIN ranges[j].rows :
                            Bucket(ranges[j].rows[r], plan[n]) = idx
                    ELSE plan[n].kind = "load" => ranges[j].part = idx

\* "Evenly distribute the output files or rows of input_deps into n partitions":
\* the partitions that one producer makes differ by one row, or one file, at most.
EvenParts ==
    \A t \in DOMAIN output :
        tasks[t].type = "producer" /\ plan[tasks[t].node].kind \in {"even", "evenrows"} =>
            LET parts == output[t]
                size(k) == IF plan[tasks[t].node].kind = "evenrows" \/ Ranged(parts[k])
                           THEN NumRows(parts[k])
                           ELSE Cardinality({j \in DOMAIN parts[k].ranges :
                                                parts[k].ranges[j].path[1] # t})
            IN  \A j, k \in DOMAIN parts : size(j) <= size(k) + 1

\* Two inputs of a node were cut in the same dimension into different numbers.
Mismatched(n) ==
    \E i, j \in DOMAIN plan[n].deps :
        LET d == plan[plan[n].deps[i]]
            e == plan[plan[n].deps[j]]
        IN  d.op = "partition" /\ e.op = "partition" /\ d.dim = e.dim /\ d.n # e.n

\* Before it runs a job fails if, and only if, inputs that are joined were cut into
\* different numbers of partitions.
PlanFailureHasReason ==
    phase \in {"running", "failed"} =>
        ((phase = "failed" /\ output = << >>) <=> \E n \in Needed : Mismatched(n))

\* A consumer that has no row to read, since empty files are removed or since a
\* producer had no row to give to any partition.
NothingToTake(t) ==
    /\ tasks[t].type = "consumer" /\ Ready(t) /\ NumRows(Consumed(t)) = 0
    /\ \/ trim
       \/ \E i \in DOMAIN Inputs(t) : \A k \in DOMAIN Inputs(t)[i] : NumRows(Inputs(t)[i][k]) = 0

\* Once it runs a job fails for an empty partition only: never when tasks with empty
\* inputs are skipped, and, unless empty files are removed, only if a producer had
\* no row to give to any partition.
RunFailureHasReason ==
    phase = "failed" /\ output # << >> => ~skip /\ \E t \in DOMAIN tasks : NothingToTake(t)

\* Plans in which no query has limits of its own, and none is fused with a limit that
\* it reads alone: every limit is planned for all partitions.
LimitsApart ==
    \A p \in Plans : \A n \in DOMAIN p :
        /\ p[n].op \in {"sql", "compute"} => p[n].limits = <<>>
        /\ p[n].op = "sql" /\ Len(p[n].deps) = 1 => p[p[n].deps[1]].op # "limit"

\* Plans that load partitioned files as they were given: the keys of files and their
\* row ranges are in the same order.
LoadsSources ==
    \A p \in Plans : \A n \in DOMAIN p : p[n].op = "partition" /\ p[n].kind = "load" =>
        \A i \in DOMAIN p[n].deps : p[p[n].deps[i]].op = "source"

DatasetOK(d) == d.kind \in {"files", "ranges", "merged"}

TypeOK ==
    /\ phase \in {"logical", "planning", "running", "failed"}
    /\ DOMAIN group \subseteq DOMAIN plan
    /\ \A t \in DOMAIN tasks :
        /\ tasks[t].node \in DOMAIN plan
        /\ \A i \in DOMAIN tasks[t].inputs : tasks[t].inputs[i] \in 1 .. t - 1
    /\ \A n \in DOMAIN group : \A i \in DOMAIN group[n] : group[n][i] \in DOMAIN tasks
    /\ \A t \in DOMAIN output :
        IF tasks[t].type = "producer"
        THEN Len(output[t]) = tasks[t].n /\ \A k \in 1 .. tasks[t].n : DatasetOK(output[t][k])
        ELSE DatasetOK(output[t])
=============================================================================
