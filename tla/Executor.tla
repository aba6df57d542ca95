------------------------------ MODULE Executor ------------------------------
(***************************************************************************)
(* The executor processes (execution/executor.py), each a loop that pops   *)
(* its work queue and runs every work in a worker process of a pool, and   *)
(* the local executor, a thread of the scheduler process                   *)
(* (LocalExecutor.run).                                                    *)
(***************************************************************************)
EXTENDS Fabric

CONSTANTS
    FlakyTask,  \* tasks of which an attempt may fail
    Faulty,     \* executors whose process may die
    LateExit,   \* may a worker exit with a nonzero code after its report?
    LowChoices  \* the readings of resource_low an executor may take

ASSUME ExecutorAssumption ==
    /\ FlakyTask \subseteq Task
    /\ Faulty \subseteq Executor
    /\ LateExit \in BOOLEAN
    /\ LowChoices \subseteq BOOLEAN /\ LowChoices # {}

VARIABLES
    proc,   \* proc[e]: the main loop, or what became of it
    works,  \* works[e]: its running_works, a work and its worker process
    live    \* live[e]: the works whose worker process is at work

workerVars == <<proc, works, live>>

ExecutorInit ==
    /\ proc = [e \in Executor |-> "running"]
    /\ works = [e \in Executor |-> {}]
    /\ live = [e \in Executor |-> {}]

\* Statuses a worker may report for a task.
Outcome(t) == {"SUCCEED"} \cup (IF t \in FlakyTask THEN {"FAILED"} ELSE {})

-----------------------------------------------------------------------------
\* Probes are run by worker processes like works, and take some seconds: when one
\* is popped does not matter, only when it is answered, so AnswerProbe does both.
Pending(e) == {m \in wq[e] : m.type # "Probe"}

\* One round of exec_loop without a stop request.  A work asked to be stopped is
\* terminated, which collect_finished_works reports, or the request is returned
\* if there is no such work; new works are started, in place of an earlier entry
\* of the same key.
PopWorks(e) ==
    /\ proc[e] = "running"
    /\ Pending(e) # {}
    /\ \E S \in Popped(Pending(e), CpuCount) :
        LET toStop == {m \in S : m.type = "StopWorkItem"}
            absent == {m \in toStop : \A a \in works[e] : a.key # m.key}
            hit    == {a \in works[e] \cap live[e] : StopWorkMsg(a.key) \in toStop}
            new    == UNION {m.works : m \in {n \in S : n.type = "Work"}}
        IN
        /\ StopExecutorMsg \notin S
        /\ wq' = [wq EXCEPT ![e] = @ \ S]
        /\ cq' = Send(cq, e, absent \cup {ResultMsg(a, "CRASHED") : a \in hit})
        /\ works' = [works EXCEPT ![e] =
                        {a \in @ \ hit : \A b \in new : a.key # b.key} \cup new]
        /\ live' = [live EXCEPT ![e] = (@ \ hit) \cup new]
    /\ UNCHANGED <<jobStatus, proc>>

\* The stop request sorts before all but probes: what is popped behind it is
\* dropped, and nothing is popped after it.
PopStop(e) ==
    /\ proc[e] = "running"
    /\ \E S \in Popped(Pending(e), CpuCount) :
        /\ StopExecutorMsg \in S
        /\ wq' = [wq EXCEPT ![e] = @ \ S]
    /\ proc' = [proc EXCEPT ![e] = "stopping"]
    /\ UNCHANGED <<cq, jobStatus, works, live>>

\* A probe has measured the load and pushes itself to the completion queue.
AnswerProbe(e) ==
    /\ proc[e] # "exited"
    /\ \E m \in wq[e] \ Pending(e), low \in LowChoices :
        /\ wq' = [wq EXCEPT ![e] = @ \ {m}]
        /\ cq' = Send(cq, e, {ProbeMsg(m.age, low)})
    /\ UNCHANGED <<jobStatus, proc, works, live>>

\* A worker process ends its work and pushes it to the completion queue.
Report(e, a, s) ==
    /\ a \in live[e]
    /\ s \in Outcome(a.key)
    /\ live' = [live EXCEPT ![e] = @ \ {a}]
    /\ cq' = Send(cq, e, {ResultMsg(a, s)})
    /\ UNCHANGED <<wq, jobStatus, proc, works>>

\* A worker process dies before it reports: of itself, or because it does not
\* end within the time a stopping executor grants.  Only a work that is still
\* in running_works is collected.
WorkerCrash(e, a) ==
    /\ a \in live[e]
    /\ a.key \in FlakyTask \/ proc[e] = "stopping"
    /\ live' = [live EXCEPT ![e] = @ \ {a}]
    /\ IF a \in works[e] /\ proc[e] # "exited"
       THEN /\ cq' = Send(cq, e, {ResultMsg(a, "CRASHED")})
            /\ works' = [works EXCEPT ![e] = @ \ {a}]
       ELSE UNCHANGED <<cq, works>>
    /\ UNCHANGED <<wq, jobStatus, proc>>

\* mutant: the exit code is not looked at.
CollectCrashed(e, a) ==
    /\ proc[e] # "exited"
    /\ a \in works[e] \ live[e]
    /\ works' = [works EXCEPT ![e] = @ \ {a}]
    /\ cq' = Send(cq, e, {ResultMsg(a, "CRASHED")})
    /\ UNCHANGED <<wq, jobStatus, proc, live>>

\* collect_finished_works of a worker that has reported: nothing more is sent
\* unless its exit code is nonzero all the same.
Collect(e, a) ==
    /\ proc[e] # "exited"
    /\ a \in works[e] \ live[e]
    /\ works' = [works EXCEPT ![e] = @ \ {a}]
    /\ \E M \in {{}} \cup (IF LateExit THEN {{ResultMsg(a, "CRASHED")}} ELSE {}) :
        cq' = Send(cq, e, M)
    /\ UNCHANGED <<wq, jobStatus, proc, live>>

\* Everything is collected: the stop request is acknowledged.
AckStop(e) ==
    /\ proc[e] = "stopping"
    /\ works[e] = {}
    /\ cq' = Send(cq, e, {StopExecutorMsg})
    /\ proc' = [proc EXCEPT ![e] = "exited"]
    /\ live' = [live EXCEPT ![e] = {}]
    /\ UNCHANGED <<wq, jobStatus, works>>

\* The executor process dies, or leaves because no probe has reached it for too
\* long (exec_loop).  Its workers may die with it or go on.
Crash(e) ==
    /\ e \in Faulty /\ proc[e] # "exited"
    /\ proc' = [proc EXCEPT ![e] = "exited"]
    /\ works' = [works EXCEPT ![e] = {}]
    /\ \E left \in SUBSET live[e] : live' = [live EXCEPT ![e] = left]
    /\ UNCHANGED fabricVars

\* mutant: only a success ends the executors.
QuitOnSuccess(e) ==
    /\ proc[e] = "running"
    /\ jobStatus = "success"
    /\ proc' = [proc EXCEPT ![e] = "exited"]
    /\ works' = [works EXCEPT ![e] = {}]
    /\ live' = [live EXCEPT ![e] = {}]
    /\ UNCHANGED fabricVars

\* The job is over: no order comes any more, or the queues have been removed
\* after a success and popping fails.
Quit(e) ==
    /\ proc[e] = "running"
    /\ \/ jobStatus = "success"
       \/ jobStatus = "failure" /\ Pending(e) = {}
    /\ proc' = [proc EXCEPT ![e] = "exited"]
    /\ works' = [works EXCEPT ![e] = {}]
    /\ live' = [live EXCEPT ![e] = {}]
    /\ UNCHANGED fabricVars

ExecutorNext ==
    \E e \in Executor :
        \/ PopWorks(e) \/ PopStop(e) \/ AnswerProbe(e)
        \/ AckStop(e) \/ Crash(e) \/ Quit(e)
        \/ \E a \in live[e] : WorkerCrash(e, a) \/ \E s \in Status : Report(e, a, s)
        \/ \E a \in works[e] : Collect(e, a)

-----------------------------------------------------------------------------
\* The local executor runs the works of a batch one by one and then flushes
\* their results; its thread ends when stop() clears localRunning.
RunLocal(m, localRunning) ==
    /\ localRunning
    /\ wq' = [wq EXCEPT ![Local] = @ \ {m}]
    /\ \E result \in [m.works -> Status] :
        /\ \A a \in m.works : result[a] \in Outcome(a.key)
        /\ cq' = Send(cq, Local, {ResultMsg(a, result[a]) : a \in m.works})
    /\ UNCHANGED <<jobStatus, workerVars>>

ExecutorTypeOK ==
    /\ proc \in [Executor -> {"running", "stopping", "exited"}]
    /\ works \in [Executor -> SUBSET Attempt]
    /\ live \in [Executor -> SUBSET Attempt]
=============================================================================
