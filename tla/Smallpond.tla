----------------------------- MODULE Smallpond ------------------------------
(***************************************************************************)
(* A job: its scheduler and its executors, joined by the work queues.      *)
(***************************************************************************)
EXTENDS Scheduler, Executor

vars == <<fabricVars, schedVars, workerVars>>

Init == FabricInit /\ SchedulerInit /\ ExecutorInit

SchedulerStep == SchedulerNext /\ UNCHANGED workerVars
ExecutorStep  == ExecutorNext /\ UNCHANGED schedVars
LocalStep     == /\ \E m \in wq[Local] : m.type = "Work" /\ RunLocal(m, Working(Local))
                 /\ UNCHANGED schedVars

\* The job has ended and every process is gone: nothing is left to happen.
Terminated ==
    /\ pc = "done"
    /\ \A e \in Executor : proc[e] = "exited" /\ live[e] = {}
    /\ UNCHANGED vars

Next == SchedulerStep \/ ExecutorStep \/ LocalStep \/ Terminated

Spec == Init /\ [][Next]_vars

TypeOK == FabricTypeOK /\ SchedulerTypeOK /\ ExecutorTypeOK

-----------------------------------------------------------------------------
(* Fairness: the scheduler's loop goes on, the probe interval elapses again and
   again, every executor that did not die runs its loop, and works end. *)

Workers(e) ==
    \/ \E x \in live[e] : WorkerCrash(e, x) \/ \E s \in Status : Report(e, x, s)
    \/ \E x \in works[e] : Collect(e, x)

Fairness ==
    /\ WF_vars(SchedulerStep)
    /\ WF_vars(LocalStep)
    /\ SF_vars(SkipProbes /\ UNCHANGED workerVars)
    /\ \A e \in Executor :
        /\ SF_vars(ProbeExecutors /\ e \in available' /\ UNCHANGED workerVars)
        /\ WF_vars((PopWorks(e) \/ PopStop(e)) /\ UNCHANGED schedVars)
        /\ WF_vars(Workers(e) /\ UNCHANGED schedVars)
        /\ WF_vars((AckStop(e) \/ Quit(e)) /\ UNCHANGED schedVars)

FairSpec == Spec /\ Fairness

-----------------------------------------------------------------------------
(* Where the attempts are *)

OrderedWorks(e) == UNION {m.works : m \in {n \in wq[e] : n.type = "Work"}}
ReportedWorks(e) == {m.work : m \in {n \in cq[e] : n.type = "Result"}}

\* Attempts with executor e: buffered, ordered, at work, or reported and not
\* popped.
Placed(e) == outbound[e] \cup OrderedWorks(e) \cup ReportedWorks(e) \cup
             (IF e = Local THEN {} ELSE works[e] \cup live[e])

Queued == schedQueue \cup localQueue

\* Tasks that can run and have not succeeded.
Open == {t \in Task \ DoneKeys : Deps[t] \subseteq DoneKeys}

-----------------------------------------------------------------------------
(* Safety *)

\* The scheduler never finds itself with tasks left over, nothing queued and
\* nothing running: the assertion "scheduler stuck in idle state" of
\* sched_loop (scheduler.py).
NeverStuck == pc # "stuck"

\* Nothing is left for the local executor once it was stopped: the assertion
\* "self.local_executor.alive" of sched_loop.
LocalAlive == pc # "localdead"

\* An attempt is only ever made of a task whose inputs have succeeded, so
\* copy_task_for_execution finds the output of every dependency, and it goes on
\* finding it: retries after failures and speculation included.
DependenciesFirst == \A x \in scheduled : Deps[x.key] \subseteq DoneKeys

\* A task has one result: when several of its attempts end well, the first one
\* processed counts and the others are discarded.
OneSuccess == \A x, y \in succeeded : x.key = y.key => x = y

\* An attempt, which owns a runtime directory named after it, is never in two
\* places: with two executors, or with one and in a queue of the scheduler.
DispatchedOnce ==
    /\ \A e \in Node : Placed(e) \cap Queued = {}
    /\ \A e, f \in Node : e # f => Placed(e) \cap Placed(f) = {}

\* As long as a runnable task has not succeeded and the job is not given up, the
\* scheduler still has an attempt of it to wait for: queued, running on an
\* executor it believes alive, or popped and not yet processed.  No crash, false
\* suspicion, failure, stop or retry in any order drops a task.
NothingLost ==
    schedRunning =>
        \A t \in Open :
            \/ t \in KeysOf(Queued)
            \/ \E e \in available \cup {Local} : Alive(e) /\ t \in KeysOf(running[e])
            \/ \E r \in inbox : r.msg.work.key = t /\ r.msg.work \notin finished

\* What an executor believed alive has been ordered to run or is running is
\* what the scheduler charges it for, unless the task is done already.
NoPhantomWork ==
    \A e \in {x \in available : Alive(x)} :
        \A x \in OrderedWorks(e) \cup live[e] : x.key \in DoneKeys \/ x \in running[e]

\* An executor never runs more works at a time than max_running_works, the
\* limit that dispatch_tasks keeps on the scheduler's side.
NoOversubscription ==
    \A e \in available : Alive(e) => Cardinality(live[e]) <= MaxRunningWorks

\* A job only fails when one of its tasks failed more than max_fail_count
\* times; losing executors is no reason to fail.
FailureHasCause ==
    jobStatus = "failure" => \E t \in Task : failCount[t] > MaxFail

-----------------------------------------------------------------------------
(* What a step may never do *)

\* Once an executor was asked to stop, it is given no further work: the stop
\* request would overtake it in the queue.
StopIsLast ==
    [][\A e \in Executor : stopSent[e] => running'[e] \subseteq running[e]]_vars

\* A success is final: it is never replaced, and the task is never retried (the
\* assertion of get_retry_task).
SuccessIsFinal ==
    [][\A x \in succeeded :
        x \in succeeded' /\ retryCount'[x.key] = retryCount[x.key]]_vars

-----------------------------------------------------------------------------
(* Liveness, of FairSpec *)

\* The job ends if an executor stays in good state long enough, whatever
\* becomes of the others.
JobEnds ==
    \A e \in Executor : <>[](e \in available /\ Good(e)) => <>(pc = "done")

\* When the job has ended, by success or failure, every executor process
\* eventually ends as well.
ExecutorsLeave ==
    pc = "done" ~> \A e \in Executor : proc[e] = "exited"

-----------------------------------------------------------------------------
(* The scheduler and its executors implement the abstract job. *)

J == INSTANCE Job WITH done <- DoneKeys, status <- jobStatus

\* Tasks take effect once, in dependency order and before the status of the
\* job is decided; "success" means that the root task has succeeded.
ImplementsJob == J!JobSpec
=============================================================================
