# Smallpond in TLA+

Smallpond runs a plan of data-processing tasks on a set of executors, or, through
the DataFrame API, on Ray. This directory specifies how a plan is made, how its
tasks are run and retried, and what survives a crash; it checks that with TLC and
proves its main properties with TLAPS. Paths below are relative to `src/smallpond/`
unless they start with another directory.

## 1. The system

There are two ways to run a plan. A *job* is one scheduler process and any number
of executor processes on other machines. They share a file system and nothing
else: every executor has two queue directories, `wq` (orders to it) and `cq` (what
it pushed back), and the scheduler writes a job status file that executors read. A
*session* evaluates frames one after the other; its tasks run under Ray and leave
their results in a directory, where a later session finds them.

| Component | Source | State | Operations | Hard behaviour |
|---|---|---|---|---|
| Scheduler | `execution/scheduler.py` `Scheduler` | `sched_queue`, `local_queue`, `scheduled_tasks`, `finished_tasks`, `succeeded_tasks`, retry and fail counts, `probe_epoch`, `sched_epoch` | one loop: probe, update executor states, push local works, dispatch, stop idle executors, pop and process results | retries, speculation, duplicates, late results, failures that end the job |
| RemoteExecutor | `execution/scheduler.py` `RemoteExecutor` | state, `running_works`, last acknowledged probe, stop handshake | `push`, `flush`, `pop`, `probe`, `stop`, `update_state`, `reset_state` | false suspicion, stop requests overtaking works, accounting by key |
| LocalExecutor | `execution/scheduler.py` `LocalExecutor` | a thread and two in-memory queues | `run`, `start`, `stop` | stopping while works are queued |
| Executor | `execution/executor.py` | `running_works`, process pool, GPU quotas | `exec_loop`, `collect_finished_works`, `process_work` | workers that crash before or after their report, a stop that drops orders, crash of the executor |
| Work queue | `execution/workqueue.py` | files in `temp`, `enqueued`, `dequeued` | `push`, `flush`, `pop` | order of file names, batches, a consumer that dies after the rename |
| Job manager, driver | `execution/manager.py`, `execution/driver.py` | dumped scheduler state | start, dump, restart in the next epoch | a dump older than what executors did since |
| Streaming tasks | `execution/task.py` `ArrowStreamTask` | batch offset, files written, runtime and output directory | `initialize`, `run`, `dump_output`, `finalize`, `cleanup` | overlapping attempts, late checkpoints, commit of the output |
| Other tasks | `execution/task.py` | the datasets of inputs and output | `run` and `finalize` of producers, consumers, merge, split, SQL, compute, sinks | empty partitions, orders that must agree |
| Plans | `logical/node.py`, `logical/planner.py`, `logical/optimizer.py` | nodes, memo of visited nodes, tasks | constructors, fusion of queries, expansion of nodes into tasks | shape and matching of partitions |
| Datasets, partitions | `logical/dataset.py`, `io/arrow.py`, `common.py` | files and row ranges | merge, cut by files, rows or keys | boundaries, empty inputs |
| Session, DataFrame | `session.py`, `dataframe.py`, `Task.run_on_ray` | tasks by node, marker files, results on disk | evaluate, `recompute`, run a task, shutdown | stale results, attempts that meet what is left of others |
| ConcurrentIter | `utility.py` | bounded queue, stop event, thread | iterate, `join` | a consumer that leaves early, errors of the producer |

Scheduler and executors interact by messages only: scheduler to executor `Probe`,
`StopExecutor`, `StopWorkItem` and batches of works; executor to scheduler the
same probes and stop items, answered, and the works with their final status.
Inside the scheduler everything is one thread, but for the local executor. A
streaming task reports checkpoints through the same queue. Sessions and their
workers share a directory of markers and results.

What makes each component correct: the scheduler loses no task, runs them in
the order of their dependencies, accepts one result for each, retries within
its limits and ends, also if it dies and is started again; its view of an executor
agrees with what the executor does; an executor runs what it is given once and
reports it, and leaves when the job is over; a task that resumes computes nothing
twice and nothing less; the tasks of a plan give what the plan stands for; a session
uses no result that is older than its program. The list `hazards` in `PROJECT.json`
names, line by line, what can go wrong with that.

## 2. Modules

```
Job                 what a job promises: the abstract specification
Fabric              plan, attempts, messages, work queues, job status
  Scheduler         Scheduler, RemoteExecutor         EXTENDS Fabric
  Executor          Executor, workers, LocalExecutor  EXTENDS Fabric
    Smallpond       the job: both, and the properties EXTENDS Scheduler, Executor
      MCSmallpond      instances for TLC
      SmallpondProofs  theorems
      Recovery      dump, death and restart of the scheduler  EXTENDS Smallpond
        MCRecovery     instances for TLC
        RecoveryProofs theorems                       (uses SmallpondProofs)
WorkQueue           what a work queue promises: the abstract specification
  WorkQueueFS       the queue directory and its renames (uses WorkQueue)
    MCWorkQueue, WorkQueueProofs
StreamTask          checkpoints, retries and output of a streaming task
    MCStreamTask, StreamTaskProofs
Partitioning        the arithmetic of partitions
  Dataset           files and row ranges              EXTENDS Partitioning
    DatasetProofs   theorems
    LogicalPlan     the nodes users build             EXTENDS Dataset
      Planner       optimizer and planner             EXTENDS LogicalPlan
        Dataflow    what the tasks of a plan compute  EXTENDS Planner
          MCDataflow     plans for TLC
          DataflowProofs theorems                     (uses DatasetProofs)
RaySession          sessions of the DataFrame API on Ray
    MCRaySession, RaySessionProofs
ConcurrentIter      background iteration
    ConcurrentIterProofs
```

**Fabric.** `Task`, `Root`, `Deps` are the execution plan. An `Attempt` is a
`TaskRuntimeId`: key, epoch, retry. A queue is a *set* of messages: the file
system keeps no order but the names, and `Before` is what the names decide
(`.Probe` < `.StopExecutor` < `.StopWorkItem` < works, two reports on one
attempt by time). `Popped(Q, n)` is what a pop of at most `n` files may return.
The epoch of a probe is kept as its *age*, the distance to the current epoch,
up to the first age that counts as a missed deadline: nothing else is ever read
from it, and the state space stays finite without a bound on probing.
`jobStatus` is the status file.

**Scheduler.** `pc` is the phase of an iteration of `sched_loop`; each phase is
one action, and processing is one action per finished task, so that a run may
stop, retry or succeed between any two. `ProbeExecutors` is
`probe_executors` with `start_speculative_execution` (which slow works are
retried is a choice, restricted by the code's conditions),
`UpdateExecutorStates` the state machine with the rescheduling of works of
failed executors, `PushLocal`, `Dispatch`, `DropSucceeded`, `EndDispatch` the
dispatching with its buffers and flush, `StopIdleExecutor`, `KeepWaiting`,
`LeaveLoop` the end of the iteration with its assertion, `PopResults`,
`IgnoreResult`, `TaskFailed`, `TaskSucceeded` the processing of results, and
`Finish` the `finally` block of `run`. Failed assertions are phases of their own
(`stuck`, `localdead`), so that they can be properties. `Reached` is the
recursion of `try_enqueue` over tasks that have succeeded, written as the least
set closed under it. `running` is `running_works` without the stop item, which
`NumRunning` counts.

**Executor.** `proc` is the main loop, `works` its `running_works`, `live` the
worker processes at work. A work in `works` but not in `live` has reported and
waits for its exit code; one in `live` but not in `works` is a worker that its
executor no longer knows. Probes run in worker processes too, for some seconds,
so `AnswerProbe` is independent of the loop. `Report`, `WorkerCrash` and
`Collect` are the end of a worker, its death, and `collect_finished_works`.
`RunLocal` is a round of the local executor's thread.

**Smallpond.** The composition, `Fairness`, and the properties.

**Job.** Tasks are completed at most once, after the tasks they depend on and
before the job's status is decided, and the status is decided once.

**Recovery.** The same job, whose scheduler may die at any moment. `saved` is the
dumped state; it is taken at the end of any iteration in which no local work
runs, and at the end of the startup. `Die` loads it with the next epoch, while
queues and executors stay as they are: what was popped after the dump is lost, what was pushed is
not. `Restart` (every queued item is enqueued again), `StartupStep` and `PollAgain`
(results are processed until none comes), `StartupFails` and `Begin` (the works that ran at the dump are
enqueued again, good executors are reset) are the startup of `run`. What is enqueued again
(`Requeued`) is the item itself in the new epoch, with the retry count it had: a task with two
attempts under way, on two executors or with one of them queued, has two again. Probes under way carry
epochs that the restarted scheduler has not reached yet: they are made younger by
the number of epochs it has forgotten, which `probes` counts.

**WorkQueueFS.** One action per file operation: `Dump` (within `Push`, `Flush`)
writes to `temp`, `Enqueue` renames, `List` scans the directory, `Take` and
`Miss` are a rename that succeeds and one that finds the file gone, `Return`
ends the pop. Every process may die between two of them. A file's name is its
key and the time, `Before` their order, and the field `after` is history: which
pushes were over when this one began. The scan is atomic in the model, and the
producers of a queue share a clock, as the processes of one executor do.

**WorkQueue.** Push and pop as single steps. `WorkQueueFS` implements it with one
consumer if a pop takes effect when it lists the directory (`Chosen` are the
files it will then take); that is the atomic pop of `Fabric`, where a queue has
one consumer too. What a process has popped when it dies is lost to the queue;
who notices is the scheduler's business (`NothingLost`, `NothingForgotten`).

**StreamTask.** All attempts of one task and the scheduler's view of it.
`TakeOutput` is a batch, `Checkpoint` closes a file and reports the new
`RuntimeState`, `EndOfInput` the last file, `Finalize` links the files of earlier
attempts and renames the directory, `Report` and `Fail` end the attempt, the two
`Receive` actions are the branches of `process_finished_tasks` for it. `Fail` is
possible wherever a worker or its executor may die, also between the rename of the directory and the push of the
result. A row's result is represented by the row.

**Planner, Dataflow.** A plan is a sequence of nodes, in the order in which a
depth-first visit completes them. `Assemble` adds the sinks and the root of a job;
a plan of a DataFrame has none. `Optimize` fuses queries, `Visit(n)` is one call of the
planner's visitor for node `n`, with one operator per kind of node. `Run(t)` is the
`run` and `finalize` of task `t`, in any order that dependencies allow. A dataset is
a list of row ranges of files and whether it is used as files, ranges or a merge of others
(`Ranged`). `WellFormed` says what the constructors of `logical/node.py` accept. Base rows have keys; a query or a user function joins its inputs on
them. The hash functions of the two engines are variables without constraint: any
two functions may meet.

**RaySession.** `tasks` is the list of tasks of a session, `started` the marker
files, `completed` the pickled results, `dirs` the runtime directories. `Evaluate`
plans a frame and creates the tasks it needs that have no result on disk (`RunOnRay`);
`Begin` takes a retry count no marker has, `GiveUp` finds all of them used, `Execute`,
`Dump` and `Return` are the rest of `exec_task`. Sessions die (`Die`), end and clean up
(`Shutdown`), and start again with a node of the program changed and its frame
marked for recomputation. A result's value is what it was made from: nodes,
partitions and versions. The optimizer copies every node it visits, so evaluations within a session
share no tasks, as in the code.

**ConcurrentIter.** The producer thread and the consumer as two program counters,
one queue operation per step. `ClearMore` and `ClearEnd` are one call of
`get_nowait` in `clear`, which also ends at an item that is `None`. The iterable
may raise before, between and after its items, and the consumer may leave
whenever it is not inside `get`.

## 3. Runs

| Run | Instance | Checks |
|---|---|---|
| `crash_failover` | `MCSmallpond`: 1 task that may fail twice, 2 executors with 2 CPUs that may die at any time, `stop_executor_on_failure` (3.05 million states) | `NothingLost`, `NeverStuck`, `StopIsLast` |
| `speculation` | 1 slow task, 2 executors (1.9 million) | `OneSuccess`, `SuccessIsFinal`, `DispatchedOnce` |
| `job` | 2 tasks and a local one that joins them, 1 executor with 2 CPUs, readings of low resources, one task that fails, 1 failure tolerated (0.2 million) | `TypeOK`, `NoPhantomWork`, `FailureHasCause`, `ImplementsJob`, `JobEnds`, `ExecutorsLeave` |
| `recovery` | `MCRecovery`: a chain of a local, a remote and a local task, 1 executor, failures, a remote task slow enough for a speculative attempt, a scheduler that dies once (2.1 million) | `NothingForgotten`, `AttemptsAreNew`, `DependenciesFirst`, `LocalAlive` |
| `stream` | `MCStreamTask`: 2 inputs of 1 or 0 and 2 rows, batches of 1 or 2 rows, 3 attempts, 2 of them at the same time, failures anywhere (1.05 million) | `TypeOK`, `CheckpointSound`, `OutputComplete`, `LostFilesAreResults`, `Completes` |
| `planning` | `MCDataflow`: 12 plans, as a DataFrame and as a job, all hash functions to 2 values, empty tasks skipped or not, empty files removed or not (0.3 million) | `TypeOK`, `RowsKept`, `NodesCompute`, `LimitHolds`, `RightPartition`, `EvenParts`, `PlanFailureHasReason`, `RunFailureHasReason` |
| `ray_session` | `MCRaySession`: a source and a frame of 2 partitions, a program that grows, 1 retry, 1 change of the source (1.6 million) | `ResultIsCurrent`, `AttemptsApart` |
| `queue_race` | `MCWorkQueue`: 3 works of 2 keys, 2 producers, 2 consumers, one of each may die, pops of 2 | `HandedOutOnce`, `NoOvertaking`, `EverythingTaken` |
| `queue_atomic` | 4 works of 3 keys, 2 producers, 1 consumer that may die, pops of 2 | `ImplementsWorkQueue` |
| `iter_join` | `ConcurrentIter`: 6 items, one of them `None`, a buffer of 1 (the default), exceptions anywhere | `NoGaps`, `EndIsEnd`, `StopsSoon`, `RoomForProducer`, `JoinReturns` |
| `rows_written_twice` | `MCDataflow`: rows distributed evenly, then a data sink | violates `NodesCompute` |
| `stuck_after_restart` | `MCRecovery`: as `recovery`, with only the root local, without failures and speculation | violates `NeverStuck` |

### Bounds

*Jobs.* `MaxMissed = 1` (the default is 6): an executor is given up
after two unanswered probes, so late answers, false suspicion and true failure
all happen within a few rounds. `CpuCount` is the number of works an executor
may run; 1 makes executors busy as soon as possible. Nothing bounds time: probes, suspicions and crashes may happen in
any number and order. Retries are bounded by the code itself, by `MaxFail`,
`MaxRetry` and the number of executors that can be given up (a failed one is
never used again). Two executors are enough for every hazard that involves
"another executor"; a third adds only more of the same roles. Executors are
symmetric where no temporal property is checked; action properties are checked on
single steps, where symmetry is sound.

*Recovery.* `MaxDeaths = 1`: one restart from any dump is enough for an epoch that
overlaps with the one before. (With two deaths, a chain of two tasks without speculation and `FlakyTask` the root, 6.3 million states, the
same properties hold.) `SpeculativeTask = {t2}` and `MaxRetry = 1` give that task two attempts at a time, which
both `Restart` and `Begin` enqueue again with different retry counts. With `t1` remote as well and
`FlakyTask = {t1}`, 2.95 million states, the same properties hold. One executor, and no local task before the root
that fails, because two of the properties hold only then (see below). The dump of the code waits for an interval and some
progress; the model may make it at the end of any iteration, a superset. Ages of probes are
not below 0: a probe of an epoch still to come counts as one of the current epoch.
The end of the job (dump, status, stop requests) is one step, and a job that has
ended is not started again.

*Streams.* Two inputs of different lengths, one of which may be empty, have batches with one
cell or two and an end of one input before the other. Three attempts are
the least with a checkpoint of an attempt that itself resumed; `MaxFiles` bounds the
files of one attempt and is never reached before the rows are.

*Plans.* Each has four to seven rows in two files or three, some partitions
without rows, more partitions than rows or fewer; together they use every kind of
node, every way to match the inputs of a node, nested dimensions in both orders, and
one mismatch. `MaxProducers`, `MaxCard` and `NumParallel` make all three
limits on the number of producers count somewhere. They satisfy the hypotheses of the theorems about
plans (`LimitsApart`, `LoadsSources`, see section 4), which TLC evaluates.

*Sessions.* Two nodes are what it takes for a result to be older than what it was made
from. One change of the program and one retry, but any number of sessions:
markers and results are finite.

*Queues, iteration.* A queue of 3 or 4 works has batches, races for a file, listings that have gone
stale, and pops that leave something behind. Six items fill a
buffer of 1 several times.

Deadlock is not checked where the system really stops: `queue_atomic` (everybody may die),
`stream` (attempts run out) and `iter_join` (the thread is joined).

### Fairness

*Job* (`FairSpec` of `Smallpond`): the scheduler's loop and the executors' loops go on
(weak); workers end (weak); an executor process may die, and its death is never
required. The probe interval elapses again and again and every executor that
exists is found (strong on `ProbeExecutors`), and there are also iterations
between two probes (strong on `SkipProbes`): `pop` takes only as many files as
works are running, and answered probes come before results, so a scheduler that
sent a probe in every iteration might never see a result. The default probe
interval (30 s) against iterations of a fraction of a second justifies it.
Answering probes is deliberately not fair. `JobEnds` therefore assumes an
executor that stays good from some time on; without one the code does wait for
ever (`execution/scheduler.py:1195`).

*StreamTask*: processes go on until they end, the scheduler reads its queues and
retries a task whose attempts have all failed; failures are never required, and `Completes` is about a task
with rows in its first input. It leaves one way out, a report lost after the rename (next section). *Queues*: consumers poll again and again.
*ConcurrentIter*: both threads run. The other modules state no liveness: a plan is
finite and ends by deadlock freedom, and a restarted job does not end in all cases, as the next section shows.

### Where the code does not do what it says

Two runs end in a violation.

* `rows_written_twice`: partitions cut by rows are row ranges of the same files, and a data
  sink copies whole files: a row is written once per partition that has a part of its file.
* `stuck_after_restart`: a restarted scheduler takes the success of a task although the success of its
  input was lost with the scheduler that had popped it. The job finishes, with status
  "success", and then fails in the assertion "scheduler stuck in idle state".

The others were found while modelling and have no run of their own.

Scheduler and executors:

* With `stop_executor_on_failure`, works that share the executor with the failed one
  are forgotten: dropped behind the stop request, or ended with the report unread
  when the state becomes `STOPPED`. Nothing reschedules them, and the loop ends in
  "scheduler stuck in idle state". (The instance of `job` with `StopOnFailure = TRUE` and two executors
  violates `NeverStuck`.) So `NothingLost` and `NeverStuck` hold without the option (`NothingLostCorrect`), or with it
  as long as an executor has one work at a time (`crash_failover`).
* A worker that reports a failure and then exits with a nonzero code is reported
  twice; the second report removes the *retry* from `running_works`, because works
  are matched by key (`execution/scheduler.py:216`), and the retry is lost. `LateExit` allows that; it is `FALSE` in the runs, and
  with it and `MaxFail = 2` a chain of two tasks violates `NothingLost`.
* A `StopWorkItem` for a work still in the queue overtakes it and is returned; the
  scheduler frees the slot, fills it, and the executor runs both: `NoOversubscription`
  of `Smallpond` does not hold.
* Too many failures found while a restarted scheduler starts up stop a local executor
  whose thread does not exist: an exception outside of the `try` block (`StartupFails`).
* A restart with more than one executor may forget a task. If an executor is wrongly suspected, its
  task is retried on another one; the success of the first attempt comes, a request to stop the second one
  overtakes it in the queue and is returned, and the scheduler dies without having dumped any of this. The next one,
  which has the second attempt as running, pops the returned request and takes that attempt from
  `running_works`, although the success is lost and the attempt is still in the queue: nothing is waited for, and the
  loop may end in "scheduler stuck in idle state". (The instance of `recovery` with two executors, one remote
  task and a local one violates `NothingForgotten`.)
* A restarted scheduler may run a task and its successor in one batch of the local executor, because it takes the late
  success of a task between them. If the successor is the root and the first one fails, the local executor has been
  stopped when the retry is queued, and `assert self.local_executor.alive`
  (`execution/scheduler.py:1116`) fails. (`recovery` with `FlakyTask = {t1}` and `MaxFail = 1` violates
  `LocalAlive`; it holds in the run, where no local task before the root fails, and without restarts always: `LocalAliveCorrect`.)
* States are only dumped if there are few nontrivial tasks (20000,
  `execution/scheduler.py:361`) and while no local work runs; an epoch that ended before its first dump is used again,
  with the identities of its attempts. `AttemptsAreNew` holds because the startup dumps
  at its end, before anything is dispatched.
* With a buffer of 2, the producer of a `ConcurrentIter` that empties the queue after
  an exception may remove an item and leave the consumer the one
  after it. With the default size, used everywhere in `execution/`, it cannot.

Plans and tasks:

* The optimizer fuses a query with the query node it reads (`logical/optimizer.py:36`), and `LimitNode` is one. The
  fused node is planned once per partition, so that `df.repartition(n).limit(k).filter(..)` may give
  n times k rows ("Limit the number of rows to the given number.", `dataframe.py:609`; `Plans <- LimitThenSelect` of
  `MCDataflow` violates `LimitHolds`).
* Partition keys are read in the order of the sorted paths and paired with the row ranges in
  the order in which datasets were merged (`logical/dataset.py:949`). A partition made by several producers and loaded
  by its keys, with empty files removed, is taken apart wrongly (`Plans <- HashThenLoad` violates `RightPartition`).
* A query over a union loses one of its inputs: inputs of a node are matched in a dictionary by their
  `partition_infos`, and the parts of a `UnionNode` ("Union two or more nodes into one
  flow of data", `logical/node.py:1186`) have equal ones (`logical/planner.py:276`; plan `UnionThenSelect` of
  `MCDataflow`). For the same reason partitions of further dimensions of an input with
  fewer dimensions are not looked at.
* The assertion on duplicate dimensions (`logical/planner.py:188`) compares a name with
  a set of tuples and never fails.
* `0 <= key <= npartition` (`logical/dataset.py:948`) admits a key that is no partition: the next line raises an
  `IndexError` for it, and the assertion stops at greater ones. `LoadPartitionedDatasets` leaves such rows out instead; no plan
  of `planning` has any.
* A nested partition of an empty partition fails the job unless tasks with empty inputs are skipped.
* The two engines hash differently: tables hashed by one of each are not joined correctly.
* A streaming task whose first input is empty cannot resume from a checkpoint: an unbound loop variable
  (`execution/task.py:2250`, `RestoreFails`).
* A streaming task that loses a report on finished work may never complete. `finalize` renames the runtime directory
  (`execution/task.py:974`) before the result is pushed (`execution/executor.py:137`). If the worker or its executor
  dies in between, or `finalize` raises after the rename, the scheduler resumes from a checkpoint whose paths point into
  the old directory; `os.link` (`execution/task.py:2190`) fails in that attempt and every later one, until `max_fail_count`
  ends the job, although the complete output is on disk (`LostFilesAreResults`). "Smallpond can recover from failure and
  resume execution from the last checkpoint" (`docs/source/internals.rst:36`) is not true of this moment: the instance
  of `stream` violates `Completes` without its second disjunct. The attempt that was
  renamed took checkpoints; a task that ends before its first one is done again from the start.

Sessions:

* `recompute()` promises to "Always recompute the data regardless of whether it's already
  computed" (`dataframe.py:304`), but only removes results of the frame that is *evaluated*: if
  `b` is made from `a.recompute()` and only `b` is evaluated, the old results of `a` are used
  (`Programs <- OnlyDerived` of `MCRaySession` violates `ResultIsCurrent`).
* A result is found by its node and its task's number in the session. A program that evaluates other
  frames first gets the results of other partitions (`Programs <- Reordered`).
  `ResultIsCurrent` holds for programs that grow at their end (`ProgramsGrow`) and evaluate, as a frame
  of its own, whatever is made from a node that may change (`ChangesEvaluated`): this is proved.
* "Subsequent DataFrames can reuse the tasks" (`dataframe.py:33`): the optimizer copies the
  nodes, so no lookup by node succeeds within a session; results are reused from disk.
* Markers stay after a failed session, so a task that is recomputed in six sessions is refused in the seventh as if it
  had failed. An upstream task that was not needed has no Ray object, so a resumed session counts as failed at
  its shutdown and cleans up nothing, while a session that evaluates nothing counts as finished and removes earlier results.

## 4. Proofs

`SmallpondProofs` proves, for every plan, every finite set of executors and all
values of the other constants:

| Theorem | Property | Argument |
|---|---|---|
| `TypeCorrect` | `TypeOK` | inductive; one lemma per group of actions |
| `DispatchedOnceCorrect` | `DispatchedOnce` | inductive with `Known` (every attempt anywhere was recorded in `scheduled`) and `QueuesSplit` (the queues have no common key): an enqueued attempt is new, so it is nowhere; only dispatching moves one |
| `OneSuccessCorrect` | `OneSuccess` | a success is accepted only for a key that has none |
| `SuccessIsFinalCorrect` | `SuccessIsFinal` | every increment of a retry count is guarded by the absence of a success |
| `DependenciesFirstCorrect` | `DependenciesFirst` | `Reached` stays within tasks whose inputs are done, because that set is closed under it; a retry is of a task that was scheduled before, by `Known` |
| `JobImplemented` | `ImplementsJob` | refinement: `TaskSucceeded` is `Complete`, `Finish` is `Decide`, all else stutters; needs `DependenciesFirst`, `Known`, and that the status is open until `pc = "done"` |
| `StopIsLastCorrect` | `StopIsLast` | needs `UpdatedInv`: from `UpdateExecutorStates` to the end of dispatching no executor in good state has been asked to stop |

It goes on from there for plans in which every task is found from the root and
none depends on itself (`PlanAssumption`, which the construction of the DAG in
`execution/task.py:3510` establishes):

| Theorem | Property | Argument |
|---|---|---|
| `LocalAliveCorrect` | `LocalAlive` | `Books`: retry counts are never behind a recorded attempt (`RetryBound`), so an enqueued attempt is new; a local task is retried only after its attempt was seen to fail (`LocalOnce`), so what is queued locally is a first attempt and the thread is alive |
| `NoPhantomWorkCorrect` | `NoPhantomWork` | `OneReport`: an attempt has at most one report in the queue, and no report while it is ordered or at work, so what a report takes from `running_works` (by key) is that attempt or an attempt of a task that is done; needs `~LateExit` |
| `NothingLostCorrect` | `NothingLost` | inductive with `Books`, `OneReport` and what the stop handshake guarantees: an executor is `STOPPED` only after all its works were reported (`StopsDone`, `StopsIdle`); needs `~LateExit` and `~StopOnFailure` |
| `NeverStuckCorrect` | `NeverStuck` | if nothing is queued, running or popped then, by `NothingLost`, no task is runnable; the graph has no cycle, so the root has succeeded and the loop was not about to go on |
| `FailureHasCauseCorrect` | `FailureHasCause` | the other two ways to fail, the assertions, are excluded by `NeverStuck` and `LocalAlive` |

The two hypotheses are no convenience: TLC finds a behaviour that loses a task without either of them (section 3).

`RecoveryProofs`, for every plan and set of executors, any number of restarts and dumps taken at any
moment the code may take one. Restarts break `Known`, the invariant of `SmallpondProofs` that every
attempt anywhere is in the books: what was handed out after the dump is not. Its lemmas are therefore about
`Booked` (what is queued or said to be running is in the books) and about two kinds of steps: those that hand
nothing out (`Keeps`) and those that hand one queued attempt out (`HandsOut`).

| Theorem | Property | Argument |
|---|---|---|
| `RecoveryTypeCorrect` | `TypeOK`, and dumps that are well formed | with `Consistent`: the books of a dump agree with each other |
| `AttemptsAreNewCorrect` | `AttemptsAreNew` | `Epochs`: no attempt with an executor is of an epoch later than the dump's, so that the next scheduler's epoch is new; attempts of the current epoch are in the books, and there are none before the startup has dumped that epoch. What is enqueued again is new to the books, with whatever retry counts (`RequeuedFacts`). `Apart`: attempts with different executors differ |
| `DependenciesFirstOverRestarts` | `DependenciesFirst` | a retry or a rescheduled attempt is of a task in the books (`Booked`), loaded or not |

`StreamTaskProofs`, for any inputs, batch sizes and number of attempts:

| Theorem | Property | Argument |
|---|---|---|
| `TypeCorrect` | `TypeOK` | inductive, together with `Working` (an attempt at work has a batch size) |
| `CheckpointIsSound` | `CheckpointSound` | `IInv`: the files of a running attempt and its buffer hold exactly the rows before its position (`WorkingOf`), every checkpoint in a queue is sound when it is sent, and no step changes what a closed file holds (`Keeps`) |
| `OutputIsComplete` | `OutputComplete` | an attempt that leaves `stream` has read everything (`FinishedOf`); linking adds the files of its state and no other |
| `LostFilesAreDone` | `LostFilesAreResults` | `MovedInv`: what an attempt renamed holds every row and stays as it is, also if the attempt fails before its report (`Final`); a file is missing only when its directory was renamed |

`WorkQueueProofs`, for any number of works, producers and consumers:

| Theorem | Property | Argument |
|---|---|---|
| `HandedOutOnceCorrect` | `HandedOutOnce` | every work is in one place (`Places`), files have distinct times (`Stamps`), and a rename takes a file that no consumer holds (`Holders`) |
| `NoOvertakingCorrect` | `NoOvertaking` | a listing that has a file has all files it must not overtake, or they are dequeued (`Past`) |
| `AtomicQueue` | `ImplementsWorkQueue` | refinement, for one consumer: `List` is the pop of the files that are first in the listing, as many as the count or all (`FirstIsPopped`), since a finite set of files has a first and a last one; `Enqueue` is the push; `Take` moves a file from what is chosen to what is taken and the rest up by one, `Return` finds nothing chosen, `Miss` does not happen (`OneInv`) |

`RaySessionProofs`, for every plan, program and number of retries, any number of sessions and of changes:

| Theorem | Property | Argument |
|---|---|---|
| `Typed` | every variable's type | inductive |
| `AttemptsApartCorrect` | `AttemptsApart` | `Fresh`: a directory exists only with its marker, and a task about to make its directory has set a marker that nobody had before, so that it finds no directory |
| `ResultIsCurrentCorrect` | `ResultIsCurrent` | under `ProgramsGrow` and `ChangesEvaluated`. The tasks of any session are then the first tasks of one `Shape`, so the same number is the same task in all of them. `OnDisk`: a result is current unless something it is made from is marked; `DiskAfter`: nor then, once this session has evaluated the frame of its node, as that removed what was stale; `InTasks`: a task that runs has its inputs, whose values are current |

`ResultIsCurrentCorrect` needs to know what recursive functions are (`Lineage`, `Wanted` of `run_on_ray`, `Current`,
and the shape itself). Induction and recursion are stated there with sets and functions instead of operators
(`AllNumbers`, `RecursionUnique`, `RecursionExists`): whatever a step makes of the values of a function at places that measure less
defines a function. It is assumed that the tasks planned for a frame are of nodes it is made from (`PlanOfLineage`: `Planner.visit`
starts at the frame). TLC evaluates the two hypotheses for the programs of the run.

`ConcurrentIterProofs`, for every iterable and buffer size:

| Theorem | Property | Argument |
|---|---|---|
| `RoomForProducerCorrect` | `RoomForProducer` | when the consumer stops removing items there is room for one, and the producer removes one before it puts a second |
| `StopsSoonCorrect` | `StopsSoon` | a producer that has asked once after the stop event looks at the event before it asks again |
| `EndIsEndCorrect` | `EndIsEnd` | until the iterable fails, the items given are those the consumer got, those in the queue and the one being put; the last message comes after them |
| `NoGapsCorrect` | `NoGaps` | for a buffer of one, or an iterable that does not fail: what is in the queue follows what the consumer got (`InOrder`), and a queue that the producer clears while the consumer reads is empty afterwards |

`DatasetProofs`, for all numbers of items and groups: the groups of
`split_into_rows` follow each other without a gap from the first item to the last
(`SplitCovers`), differ in size by one at most (`SplitIsEven`), and are those that
`get_nth_partition` computes one at a time (`NthPartitionAgrees`). On these rest its lemmas about
datasets: sorting by path, merging and removing empty files keep every row and every file (a dataset is compared
with another one by a bijection of positions, `Shuffled`), cutting by rows gives each partition the rows of its
interval (the offsets of ranges are sums, `Concats`), and cutting by files, by rows, by hash or by the user's choice
loses no row and doubles none (`ClassesKeep`, `IntervalsKeep`).

`DataflowProofs`, for every set of plans that can be built, all hash functions, numbers of partitions and limits on
producers:

| Theorem | Property | Argument |
|---|---|---|
| `AlwaysIInv` | | the inductive invariant, below |
| `Typed` | `TypeOK` | from it |
| `Even` | `EvenParts` | a producer's partitions are `SplitIntoRows` of the sorted files, or the rows between two numbers of `RowsLeft`; the empty files that `finalize` adds are not counted |
| `FailsForReason` | `RunFailureHasReason` | a merge that is empty has a part that is; `finalize` gives every empty partition a file unless all are empty, so the producer of that part had no row for any partition |
| `InRightPartition` | `RightPartition` | files of a partition are marked (`Marked`): all rows have its hash, or its key is the partition; merging and removing files keep marks. Under `LoadsSources` |
| `LimitsHold` | `LimitHolds` | the number of rows that partial limits, the merge and the global limit let pass is that of one limit over the whole. Under `LimitsApart` |
| `KeepsRows` | `RowsKept` | `KeptSoFar`: what each finished task left has the rows of its inputs, cut, merged or taken from one partition of each producer. `ShapesOK`: the tasks of a node share its inputs and its partitions among them, each in one place. With both, the rows of the node are those of its inputs in another order |

The invariant has three parts. `PlannedOK` is about planning: the plan stays `WellFormed` under assembly and optimization; each task fits its
node and reads earlier tasks only (`TaskFits`); a consumer reads producers of its own node, which have as many partitions as
it counts, and no other task reads a producer; the tasks of a node have the shape of its kind (`GroupFits`: the consumers of a
partition, the tree of a limit). It is proved operator by operator of `Planner`. `OutputsOK` is about running: what
every finished task has left is what its kind may leave, given what its inputs left (`ResultOK`) - a file names the task
that wrote it, which is how `EvenParts` tells the files that `finalize` adds from those it distributes, and that is why plans must
not contain files with such names (`WellFormed`). `RunFailureHasReason` is inductive only with both: that a consumer found an
empty partition says nothing of its producers until it is known what they left.

`RowsKept` relates the tasks of a node to each other, and neither of its two parts speaks of all of them: `KeptSoFar` is about one
task and its inputs, whatever node they are of, and `ShapesOK` about the graph alone. A partition node is a matrix: producer `j`
has a dataset for partition `k`, the producers together the rows of the inputs (`ProducersGive`) and the consumers of partition `k` the column `k`
of every producer (`ConsumersGive`). The lemmas of `DatasetProofs` say that rows and columns of a matrix hold the same rows (`PartsByProducer`, `PartsByConsumer`), and
that items brought together class by class are the items (`ClassesKeep`). It is proved with bijections of positions, and
turned into equal numbers of every row at the end (`ShuffledRows`).

The two hypotheses are not true of every plan, and then the properties are not true either: the plans
`LimitThenSelect` and `HashThenLoad` of `MCDataflow` violate them. `LimitsApart` admits limits anywhere but under a query that reads only them, and no
`LIMIT` written in a query, which is one of each partition by intent; `LoadsSources` asks that what is loaded are
files as they were given.

The assumptions are those stated with the constants: finite sets, `Local` not an executor, at
least one CPU, positive sizes, flags that are Booleans, plans that are `WellFormed`. Of the graph of tasks, the first table of
`SmallpondProofs` uses only that `Deps` is a function to sets of tasks, the second also `PlanAssumption`. The theorems of
`SmallpondProofs` are about a job without restarts, those of `RecoveryProofs` about one with them.

Only model-checked: `NothingForgotten` and `LocalAlive` over restarts, which do not hold for every plan and set of executors
(section 3), but do for one executor when no local task before the root fails; `NodesCompute`, which is false of some plans (`rows_written_twice`, and
tables hashed by two engines) and needs, for the others, that hashes and dimensions of joined inputs agree along the
plan; and `PlanFailureHasReason`, whose two directions compare the dimensions of all tasks of a node
and which a union, or a nested partition joined with a flat one, may break. `IInv` of `DataflowProofs` itself is not
evaluated by TLC, as it speaks of all sequences of records; the properties that follow from it (and, for `RowsKept`, from two more parts) without a hypothesis, and those
that follow with one, are checked by `planning`. Liveness stays with TLC: fairness and
`ENABLED` are out of the prover's reach.

## 5. Not modelled, and why

* CPU, GPU and memory limits: `Busy` and `Fits` keep the number of works and the
  key only. A task that fits nowhere stays queued in the code and is dispatched
  in the model. The OOM boosts change limits only. With GPU quotas go two
  hazards of the executor: a task that waits for a GPU while the loop waits for it
  (`execution/executor.py:248`), and a quota that is never returned (258).
* `SimplePool` starts at most `usable_cpu_count + 1` processes; a work that waits
  for a slot is already `live` in the model, and `terminate()` of a pool task that
  never started (`execution/executor.py:226`) is not there.
* `SpeculativeTask` stands for the tasks that may ever be found slow; the statistics
  behind it (20 samples, percentiles) are data.
* `pool.map` goes on popping the completion queues while the first results are processed
  (`execution/scheduler.py:1251`); in the model all queues of a round are popped before. A result popped later is one that comes later.
* A batch of the local executor is one step; `stop()` waits for it, without the
  timeout of `execution/scheduler.py:352`.
* File-system errors other than a missing file: a push whose rename fails is lost
  (`execution/workqueue.py:264`). Removing a directory tree is one step.
* Reading and writing of data, columns and their projections, CSV and JSON, UDFs and
  the bodies of queries: a query is the join of its inputs, with its limits. Range
  partitions (not implemented in the code), random shuffling, resource limits of nodes, duplicate output names.
* Sessions: the start of a cluster and orphans of an external one, metrics, reading
  results. `wait()` of a frame whose `recompute()` is under way.
* Restart of a job that has ended; a death within the end of a job.
* The work queue reader, contributed sinks, platforms, argument parsing; observers, metrics,
  profiling and logging: input and output, or launching of processes, without a state that
  the rest of the system reads.

## 6. Plan

1. `ExecutorPool`: `SimplePool`, queued and running processes, GPU quotas,
   shown to implement `Executor`'s view of workers; `Resources`: allocation,
   boost and relaxation of limits, with real numbers of CPUs and memory.
2. Failing file operations in `WorkQueueFS`, and what a lost push means for `Smallpond`.
3. `DataSink`: the manifest and the copies of a sink whose attempts overlap.
4. Proofs: `NodesCompute` for joins of equally hashed inputs, on top of `KeepsRows` and `InRightPartition`;
   `NothingForgotten` for one executor.
