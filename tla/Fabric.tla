------------------------------- MODULE Fabric -------------------------------
(***************************************************************************)
(* What the scheduler and the executors of a job share: the task graph,    *)
(* the identities of task attempts, and the two work queues of every       *)
(* executor.  A queue is a directory with one file per item                *)
(* (workqueue.py), popped in the order of the file names, and it is        *)
(* modelled as a set of messages whose pop order is Before.                *)
(***************************************************************************)
EXTENDS Naturals, FiniteSets

CONSTANTS
    Task,        \* the keys of the tasks of the execution plan
    Root,        \* the plan's root task
    Deps,        \* Deps[t]: the keys of input_deps of t
    LocalTask,   \* tasks that run inside the scheduler process
    TrivialTask, \* those of them with exec_on_scheduler
    Executor,    \* ids of the remote executors
    Local,       \* id of the scheduler's own executor ("localhost")
    MaxMissed,   \* ctx.max_num_missed_probes
    CpuCount     \* ctx.usable_cpu_count, the same on every executor

ASSUME GraphAssumption ==
    /\ IsFiniteSet(Task)
    /\ Root \in Task
    /\ Deps \in [Task -> SUBSET Task]
    /\ TrivialTask \subseteq LocalTask
    /\ LocalTask \subseteq Task

\* ExecutionPlan: a DAG, in which every task is found from the root.
ASSUME PlanAssumption ==
    /\ \A S \in SUBSET Task : S # {} => \E t \in S : Deps[t] \cap S = {}
    /\ \A S \in SUBSET Task :
        Root \in S /\ (\A t \in S : Deps[t] \subseteq S) => S = Task

ASSUME FabricAssumption ==
    /\ IsFiniteSet(Executor)
    /\ Local \notin Executor
    /\ MaxMissed \in Nat
    /\ CpuCount \in Nat \ {0}

Node == Executor \cup {Local}

\* TaskRuntimeId: the identity of one attempt to run a task.
Attempt == [key : Task, epoch : Nat, retry : Nat]

\* A worker reports SUCCEED or FAILED itself; FAILED also stands for an
\* exception caught by WorkItem.exec.  CRASHED is the executor's own report on
\* a worker process that exited with a nonzero code.
Status == {"SUCCEED", "FAILED", "CRASHED"}

\* The epoch of a probe only matters through its distance to the current
\* probe epoch, kept up to the first value that means "missed too many".
Age == 0 .. MaxMissed + 1

ProbeMsg(age, low)      == [type |-> "Probe", age |-> age, low |-> low]
StopExecutorMsg         == [type |-> "StopExecutor"]
StopWorkMsg(key)        == [type |-> "StopWorkItem", key |-> key]
WorkMsg(works)          == [type |-> "Work", works |-> works]
ResultMsg(work, status) == [type |-> "Result", work |-> work, status |-> status]

Probes      == [type : {"Probe"}, age : Age, low : BOOLEAN]
StopRequest == [type : {"StopExecutor"}]
StopWorks   == [type : {"StopWorkItem"}, key : Task]
Works       == [type : {"Work"}, works : SUBSET Attempt]
Results     == [type : {"Result"}, work : Attempt, status : Status]
Orders      == Probes \cup StopRequest \cup StopWorks \cup Works
Completions == Probes \cup StopRequest \cup StopWorks \cup Results

\* Works are flushed together as one WorkBatch, and popped together.

\* File names start with the item's key, so ".Probe-..." sorts before
\* ".StopExecutor-...", before ".StopWorkItem-...", before any batch or task.
Rank(m) == CASE m.type = "Probe"        -> 0
             [] m.type = "StopExecutor" -> 1
             [] m.type = "StopWorkItem" -> 2
             [] OTHER                   -> 3

\* m is popped before n.  Two reports on one attempt have names that differ in
\* the time of the push only, and the exit code is reported last.
Before(m, n) ==
    \/ Rank(m) < Rank(n)
    \/ /\ m.type = "Result" /\ n.type = "Result"
       /\ m.work = n.work
       /\ m.status # "CRASHED" /\ n.status = "CRASHED"

\* The batches of at most count items that a pop of the queue Q returns.
Popped(Q, count) ==
    {S \in SUBSET Q :
        /\ S = Q \/ Cardinality(S) = count
        /\ Cardinality(S) <= count
        /\ \A m \in S, n \in Q \ S : ~Before(n, m)}

VARIABLES
    wq,         \* wq[e]: what was pushed to executor e and not popped yet
    cq,         \* cq[e]: what e pushed back and the scheduler did not pop yet
    jobStatus   \* the job status file that executors read

fabricVars == <<wq, cq, jobStatus>>

Send(Q, e, M) == [Q EXCEPT ![e] = @ \cup M]

\* All probes become one epoch older.
Older(m) == IF m.type # "Probe" THEN m
            ELSE ProbeMsg(IF m.age > MaxMissed THEN m.age ELSE m.age + 1, m.low)
AgeAll(Q) == [e \in Node |-> {Older(m) : m \in Q[e]}]

FabricInit ==
    /\ wq = [e \in Node |-> {}]
    /\ cq = [e \in Node |-> {}]
    /\ jobStatus = "running"

FabricTypeOK ==
    /\ wq \in [Node -> SUBSET Orders]
    /\ cq \in [Node -> SUBSET Completions]
    /\ jobStatus \in {"running", "success", "failure"}
=============================================================================
