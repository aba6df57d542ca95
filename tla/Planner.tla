------------------------------ MODULE Planner -------------------------------
(***************************************************************************)
(* From a logical plan to the tasks of an execution plan                   *)
(* (logical/planner.py, optimizer.py, node.py).  The nodes of a plan are   *)
(* numbered in the order in which a depth-first visit completes them, so a *)
(* node comes after its input_deps and the root comes last.                *)
(***************************************************************************)
EXTENDS LogicalPlan

CONSTANTS
    Plans,        \* the logical plans that users may write
    MaxProducers, \* max_num_producer_tasks of each kind of partition node
    MaxCard,      \* max_card_of_producers_x_consumers
    NumParallel   \* num_parallel_tasks: twice the tasks that fit the executors

ASSUME PlannerAssumption ==
    /\ MaxCard \in Nat \ {0} /\ NumParallel \in Nat
    /\ MaxProducers \in [Kinds -> Nat \ {0}]
    /\ \A p \in Plans : WellFormed(p)

VARIABLES
    plan,    \* the logical plan, a sequence of nodes
    phase,   \* what is done with it: "logical", "planning", "running", "failed"
    tasks,   \* the tasks created so far: a task's id is its position
    group    \* node_to_tasks: the tasks of each node that was visited

planVars == <<plan, phase, tasks, group>>

-----------------------------------------------------------------------------
(* Partitions.  The partition_infos of a task give an index in each of its
   dimensions.  Dimensions are ordered, the toplevel one first. *)

TopInfos(i) == [d \in {Top} |-> i]

\* f, and v at x unless f has a value there.
Extended(f, x, v) == [y \in DOMAIN f \cup {x} |-> IF y \in DOMAIN f THEN f[y] ELSE v]

Task(type, n, infos, npartitions, inputs) ==
    [type |-> type, node |-> n, infos |-> infos, n |-> npartitions, inputs |-> inputs]

Dims(t) == DOMAIN tasks[t].infos

\* Comparison of partition_infos, of tasks with the same dimensions.
InfosBefore(f, g) ==
    \E d \in DOMAIN f \cap DOMAIN g :
        /\ f[d] < g[d]
        /\ \A c \in DOMAIN f \cap DOMAIN g : c < d => f[c] = g[c]

\* The tasks of all input_deps of node n, in order.
InputTasks(n) == FlattenSeq([i \in DOMAIN plan[n].deps |-> group[plan[n].deps[i]]])

SameDims(ts) == \A i, j \in DOMAIN ts : Dims(ts[i]) = Dims(ts[j])

-----------------------------------------------------------------------------
(* Optimizer: consecutive SQL nodes are fused.  A LimitNode is a SqlEngineNode,
   so it is fused into the node above it, though not with the node below it. *)

IsSql(node) == node.op \in {"sql", "limit"}

Fused(node, child) ==
    [node EXCEPT !.deps = child.deps, !.limits = child.limits \o @]

OptimizedPlan ==
    LET opt[n \in DOMAIN plan] ==
            IF /\ plan[n].op = "sql"
               /\ Len(plan[n].deps) = 1
               /\ IsSql(opt[plan[n].deps[1]])
            THEN Fused(plan[n], opt[plan[n].deps[1]])
            ELSE plan[n]
    IN  opt

\* The nodes that the root still needs.
Needed ==
    LET needed[n \in DOMAIN plan] ==
            \/ n = Len(plan)
            \/ \E m \in n + 1 .. Len(plan) :
                    needed[m] /\ \E i \in DOMAIN plan[m].deps : plan[m].deps[i] = n
    IN  {n \in DOMAIN plan : needed[n]}

\* DataFrame._get_or_create_tasks optimizes the plan and plans it as it is.
Optimize ==
    /\ phase = "logical"
    /\ plan' = OptimizedPlan
    /\ phase' = "planning"
    /\ UNCHANGED <<tasks, group>>

\* create_exec_plan of a job adds a data sink for every named node, one for the
\* final results, and a root.  Final results that are in the sinks of named
\* nodes already are taken from there.
Named == Ascending({n \in DOMAIN plan : plan[n].named})
SinkOf(n) == Len(plan) + CHOOSE i \in DOMAIN Named : Named[i] = n

\* mutant: whatever is named is taken for the final results.
FinalDepsNamed == IF Named # <<>> THEN <<SinkOf(Named[1])>> ELSE <<Len(plan)>>

FinalDeps ==
    LET root == plan[Len(plan)]
        below == IF root.op = "consolidate" THEN plan[root.deps[1]] ELSE root
    IN  IF /\ root.op = "consolidate"
           /\ below.op = "partition" /\ below.kind \in {"even", "evenrows"}
           /\ \A i \in DOMAIN below.deps : plan[below.deps[i]].named
        THEN [i \in DOMAIN below.deps |-> SinkOf(below.deps[i])]
        ELSE IF root.named THEN <<SinkOf(Len(plan))>>
        ELSE <<Len(plan)>>

\* Files are copied if the user gave a path for the output, otherwise listed.
Assemble ==
    /\ phase = "logical"
    /\ \E copy \in BOOLEAN :
        LET sinks == [i \in DOMAIN Named |-> DataSink(<<Named[i]>>, copy)]
            final == DataSink(FinalDeps, copy /\ FinalDeps = <<Len(plan)>>)
        IN  plan' = plan \o sinks \o
                    <<final, RootOf([i \in 1 .. Len(Named) + 1 |-> Len(plan) + i])>>
    /\ phase' = "planning"
    /\ UNCHANGED <<tasks, group>>

-----------------------------------------------------------------------------
(* The tasks that the visit of node n creates, given the tasks there are, and
   those of them, or of its inputs, that stand for the node. *)

\* mutant: the ids start with that of the task created last.
IdOfLast(k) == Len(tasks) + k - 1

\* ctx.new_task_id of the k-th new task.
Id(k) == Len(tasks) + k

OneTask(n) ==
    [new |-> <<Task(plan[n].op, n, TopInfos(0), 1, InputTasks(n))>>, group |-> <<Id(1)>>]

\* Files are copied for every input in parallel, then brought together.
PlanSink(n) ==
    LET ins == InputTasks(n)
        m == Len(ins)
    IN  IF ~plan[n].copy THEN OneTask(n)
        ELSE [new |-> [i \in 1..m |-> Task("sink", n, TopInfos(i - 1), 1, <<ins[i]>>)]
                      \o <<Task("sink", n, TopInfos(0), 1, [i \in 1..m |-> Id(i)])>>,
              group |-> <<Id(m + 1)>>]

PlanUnion(n) == [new |-> <<>>, group |-> InputTasks(n)]

OnePerInput(n) ==
    LET ins == InputTasks(n)
    IN  [new |-> [i \in DOMAIN ins |->
                    Task(plan[n].op, n, tasks[ins[i]].infos, 1, <<ins[i]>>)],
         group |-> [i \in DOMAIN ins |-> Id(i)]]

\* The distinct values of a sequence, by first occurrence.
Distinct(s) == ItemsAt(s, {i \in DOMAIN s : \A j \in 1 .. i - 1 : s[j] # s[i]})

\* Tasks are grouped by their infos in the dimensions that are kept.
PlanConsolidate(n) ==
    LET ins == InputTasks(n)
        kept(i) == Restrict(tasks[ins[i]].infos, plan[n].dims \cap Dims(ins[i]))
        keys == Distinct([i \in DOMAIN ins |-> kept(i)])
        of(k) == ItemsAt(ins, {i \in DOMAIN ins : kept(i) = keys[k]})
    IN  [new |-> [k \in DOMAIN keys |-> Task("merge", n, keys[k], 1, of(k))],
         group |-> [k \in DOMAIN keys |-> Id(k)]]

\* Sub-partitions of every partition there is.
PlanNested(n) ==
    LET ins == InputTasks(n)
        np == plan[n].n
        m == Len(ins)
        producer(i) == Task("producer", n, tasks[ins[i]].infos, np, <<ins[i]>>)
        consumer(c) == LET i == (c - 1) \div np + 1 IN
            Task("consumer", n, Extended(tasks[ins[i]].infos, plan[n].dim, (c - 1) % np),
                 np, <<Id(i)>>)
    IN  [new |-> [i \in 1..m |-> producer(i)] \o [c \in 1 .. m * np |-> consumer(c)],
         group |-> [c \in 1 .. m * np |-> Id(m + c)]]

NumProducers(n) ==
    LET most == Least(MaxProducers[plan[n].kind], CeilDiv(MaxCard, plan[n].n))
    IN  Greatest(1, Least(most, NumParallel))

\* mutant: the inputs are merged for every producer.
SplitTasksWhole(n) ==
    LET np == NumProducers(n)
    IN  [k \in 1..np |-> Task("merge", n, TopInfos(k - 1), np, InputTasks(n))]

\* The inputs of the producers: with fewer inputs than producers they are merged
\* and split by files, otherwise each producer gets its share of them.
SplitTasks(n) ==
    LET ins == InputTasks(n)
        np == NumProducers(n)
    IN  IF Len(ins) < np
        THEN <<Task("merge", n, TopInfos(0), 1, ins)>> \o
             [k \in 1..np |-> Task("split", n, TopInfos(k - 1), np, <<Id(1)>>)]
        ELSE LET shares == SplitIntoRows(ins, np)
             IN  [k \in 1..np |-> Task("merge", n, TopInfos(k - 1), np, shares[k])]

PlanFlat(n) ==
    LET splits == SplitTasks(n)
        s == Len(splits)
        p == NumProducers(n)
        np == plan[n].n
        producers == [k \in 1..p |-> Id(s + k)]
    IN  [new |-> splits
                 \o [k \in 1..p |-> Task("producer", n, TopInfos(k - 1), np,
                                         <<Id(s - p + k)>>)]
                 \o [c \in 1..np |-> Task("consumer", n,
                                          Extended(TopInfos(0), plan[n].dim, c - 1),
                                          np, producers)],
         group |-> [c \in 1..np |-> Id(s + p + c)]]

PlanPartition(n) == IF plan[n].nested THEN PlanNested(n) ELSE PlanFlat(n)

\* Python's max over m items, less holds the pairs of one that is less than the
\* other: the first one that none after it exceeds.
PositionOfMax(m, less) ==
    LET best[i \in 1 .. m] ==
            IF i = 1 THEN 1 ELSE IF <<best[i - 1], i>> \in less THEN i ELSE best[i - 1]
    IN  best[m]

\* broadcast_input_deps.  The input with the most dimensions, and the highest
\* partition, decides the tasks; the other inputs are looked up by their infos,
\* in a dictionary in which the last task with the same infos stands.
MainInput(n) ==
    LET gs == [i \in DOMAIN plan[n].deps |-> group[plan[n].deps[i]]]
        infos(i) == [k \in DOMAIN gs[i] |-> tasks[gs[i][k]].infos]
        lower(i) == {p \in (DOMAIN gs[i]) \X (DOMAIN gs[i]) :
                        InfosBefore(infos(i)[p[1]], infos(i)[p[2]])}
        top(i) == infos(i)[PositionOfMax(Len(gs[i]), lower(i))]
        ndims(i) == Cardinality(Dims(gs[i][1]))
        less == {p \in (DOMAIN gs) \X (DOMAIN gs) :
                    \/ ndims(p[1]) < ndims(p[2])
                    \/ ndims(p[1]) = ndims(p[2]) /\ InfosBefore(top(p[1]), top(p[2]))}
    IN  gs[PositionOfMax(Len(gs), less)]

Matching(g, infos) ==
    {k \in DOMAIN g : tasks[g[k]].infos = Restrict(infos, DOMAIN infos \cap Dims(g[1]))}

LastMatch(g, infos) ==
    g[CHOOSE k \in Matching(g, infos) : \A j \in Matching(g, infos) : j <= k]

\* mutant: as many tasks are asked of every input, of one without partitions, too.
CompatibleEqual(n) ==
    \A d \in DOMAIN plan[n].deps : Len(group[plan[n].deps[d]]) = Len(MainInput(n))

Compatible(n) ==
    \A i \in DOMAIN MainInput(n) : \A d \in DOMAIN plan[n].deps :
        Matching(group[plan[n].deps[d]], tasks[MainInput(n)[i]].infos) # {}

PlanCompute(n) ==
    LET main == MainInput(n)
        inputs(i) == [d \in DOMAIN plan[n].deps |->
                        LastMatch(group[plan[n].deps[d]], tasks[main[i]].infos)]
    IN  [new |-> [i \in DOMAIN main |->
                    Task("compute", n, tasks[main[i]].infos, 1, inputs(i))],
         group |-> [i \in DOMAIN main |-> Id(i)]]

\* mutant: the partitions are limited one by one only.
PlanLimitPartial(n) ==
    LET ins == InputTasks(n)
    IN  [new |-> [i \in DOMAIN ins |->
                    Task("compute", n, tasks[ins[i]].infos, 1, <<ins[i]>>)],
         group |-> [i \in DOMAIN ins |-> Id(i)]]

\* Every partition is limited, then what is left of all of them.
PlanLimit(n) ==
    LET ins == InputTasks(n)
        m == Len(ins)
    IN  [new |-> [i \in 1..m |-> Task("compute", n, tasks[ins[i]].infos, 1, <<ins[i]>>)]
                 \o <<Task("merge", n, TopInfos(0), 1, [i \in 1..m |-> Id(i)]),
                      Task("compute", n, TopInfos(0), 1, <<Id(m + 1)>>)>>,
         group |-> <<Id(m + 2)>>]

-----------------------------------------------------------------------------
\* The assertions of the visits, and the one of Task on its dimensions: the one
\* that the visit of a nested partition makes of them never fails, it looks for a
\* dimension among tuples of dimensions.
Plannable(n) ==
    LET op == plan[n].op
        ins == InputTasks(n)
    IN  /\ op \in {"union", "partition", "consolidate"} => SameDims(ins)
        /\ op = "consolidate" => plan[n].dims \subseteq Dims(ins[1])
        /\ op = "partition" /\ plan[n].nested =>
                /\ Len(ins) * plan[n].n <= MaxCard
                /\ plan[n].dim \notin Dims(ins[1])
        /\ op \in {"sql", "compute"} => Compatible(n)

Planned(n) ==
    CASE plan[n].op \in {"source", "root"} -> OneTask(n)
      [] plan[n].op = "sink"        -> PlanSink(n)
      [] plan[n].op = "union"       -> PlanUnion(n)
      [] plan[n].op = "projection"  -> OnePerInput(n)
      [] plan[n].op = "consolidate" -> PlanConsolidate(n)
      [] plan[n].op = "partition"   -> PlanPartition(n)
      [] plan[n].op \in {"sql", "compute"} -> PlanCompute(n)
      [] plan[n].op = "limit"       -> PlanLimit(n)

\* Planner.visit of the next node; the tasks of a node are created once.
Visit(n) ==
    /\ phase = "planning"
    /\ n \in Needed \ DOMAIN group
    /\ \A m \in Needed \ DOMAIN group : n <= m
    /\ IF Plannable(n)
       THEN /\ tasks' = tasks \o Planned(n).new
            /\ group' = Extended(group, n, Planned(n).group)
            /\ phase' = IF n = Len(plan) THEN "running" ELSE phase
       ELSE /\ phase' = "failed"
            /\ UNCHANGED <<tasks, group>>
    /\ UNCHANGED plan

PlannerInit ==
    /\ plan \in Plans
    /\ phase = "logical"
    /\ tasks = <<>>
    /\ group = << >>

PlannerNext == Optimize \/ Assemble \/ \E n \in DOMAIN plan : Visit(n)
=============================================================================
