----------------------------- MODULE Scheduler ------------------------------
(***************************************************************************)
(* The scheduler process of a job (execution/scheduler.py): the bodies of  *)
(* Scheduler.run and sched_loop, one action per phase of an iteration and  *)
(* per finished task it processes, and the RemoteExecutor objects through  *)
(* which it sees the executors.                                            *)
(*                                                                         *)
(* The loop is single-threaded, so a phase is atomic with respect to the   *)
(* scheduler's own state; the executors run between any two phases.        *)
(* Resources are abstracted to the number of works an executor may run.    *)
(***************************************************************************)
EXTENDS Fabric

CONSTANTS
    SpeculativeTask, \* tasks that may look slow and allow speculative execution
    MaxRetry,        \* max_retry_count: bounds speculative retries only
    MaxFail,         \* max_fail_count: failures of one task that are tolerated
    StopOnFailure    \* stop_executor_on_failure

ASSUME SchedulerAssumption ==
    /\ SpeculativeTask \subseteq Task \ LocalTask
    /\ MaxRetry \in Nat /\ MaxFail \in Nat
    /\ StopOnFailure \in BOOLEAN

VARIABLES
    pc,         \* phase of the scheduling loop
    schedRunning,
    schedEpoch,
    retryCount, \* tasks[t].retry_count
    failCount,  \* tasks[t].fail_count
    scheduled,  \* scheduled_tasks: the attempts ever enqueued
    finished,   \* finished_tasks: the attempts a final result was seen of
    succeeded,  \* succeeded_tasks: the attempt that succeeded, for its key
    schedQueue, \* sched_queue
    localQueue, \* local_queue
    available,  \* available_executors, the local one excepted
    state,      \* RemoteExecutor.state
    running,    \* running_works, the StopExecutor item excepted
    outbound,   \* the works buffered for an executor until the next flush
    acked,      \* last_acked_probe
    stopSent,   \* stop_request_sent
    stopAcked,  \* stop_request_acked
    toPop,      \* the executors still to be popped in this iteration
    inbox       \* results popped in this iteration and not processed yet

loopVars  == <<pc, schedRunning, schedEpoch>>
taskVars  == <<retryCount, failCount, scheduled, finished, succeeded>>
queueVars == <<schedQueue, localQueue>>
execVars  == <<available, state, running, outbound, acked, stopSent, stopAcked>>
popVars   == <<toPop, inbox>>
schedVars == <<loopVars, taskVars, queueVars, execVars, popVars>>

-----------------------------------------------------------------------------
(* RemoteExecutor *)

Good(e)    == state[e] = "GOOD"
Working(e) == state[e] \in {"GOOD", "RESOURCE_LOW"}
Alive(e)   == Working(e) \/ state[e] = "STOPPING"

GoodExecutors == {e \in available : Good(e)}

\* max_running_works
MaxRunningWorks == CpuCount - CpuCount \div 16

\* running_works holds the StopExecutor item from stop() to its acknowledgement.
NumRunning(e) ==
    Cardinality(running[e]) + (IF stopSent[e] /\ ~stopAcked[e] THEN 1 ELSE 0)

Idle(e) == NumRunning(e) = 0
Busy(e) == NumRunning(e) >= MaxRunningWorks

KeysOf(A) == {a.key : a \in A}

\* RemoteExecutor.stop of those executors in E that accept it.
Stoppable(E) == {e \in E \cap available : Working(e) /\ ~stopSent[e]}
StopRemote(E) ==
    /\ stopSent' = [e \in Node |-> stopSent[e] \/ e \in Stoppable(E)]
    /\ wq' = [e \in Node |->
                IF e \in Stoppable(E) THEN wq[e] \cup {StopExecutorMsg} ELSE wq[e]]

\* mutant: a stop request changes nothing until it is acknowledged.
UpdatedStateLate(e) ==
    IF state[e] = "STOPPED" \/ stopAcked[e] THEN "STOPPED"
    ELSE IF acked[e].age > MaxMissed THEN "FAIL"
    ELSE IF acked[e].low THEN "RESOURCE_LOW" ELSE "GOOD"

\* RemoteExecutor.update_state: the first condition that applies decides.
UpdatedState(e) ==
    IF state[e] = "STOPPED" THEN "STOPPED"
    ELSE IF acked[e].age > MaxMissed THEN "FAIL"
    ELSE IF state[e] = "STOPPING"
         THEN IF stopAcked[e] THEN "STOPPED" ELSE "STOPPING"
    ELSE IF stopSent[e] THEN "STOPPING"
    ELSE IF acked[e].low THEN "RESOURCE_LOW" ELSE "GOOD"

\* max(last_acked_probe, probe) for every probe of P: one of the latest epoch.
Latest(old, P) ==
    LET all == {old} \cup {[age |-> p.age, low |-> p.low] : p \in P}
    IN  {p \in all : \A q \in all : p.age <= q.age}

-----------------------------------------------------------------------------
(* Enqueueing tasks *)

DoneKeys == KeysOf(succeeded)

\* mutant: one finished input is enough.
RunnableAny(k, done) == {t \in Task : k \in Deps[t]}

\* get_runnable_tasks: successors of k all of whose inputs have succeeded.
Runnable(k, done) == {t \in Task : k \in Deps[t] /\ Deps[t] \subseteq done}

\* try_enqueue of a task that already succeeded goes on with its runnable
\* successors: what is looked at is the least set closed under that.
Reached(K, done) ==
    {t \in Task : \A S \in SUBSET Task :
        K \subseteq S /\ (\A k \in S \cap done : Runnable(k, done) \subseteq S)
            => t \in S}

\* mutant: attempts are counted from one.
CurrentAttemptFromOne(k, rc) == [key |-> k, epoch |-> schedEpoch, retry |-> rc[k] - 1]

CurrentAttempt(k, rc) == [key |-> k, epoch |-> schedEpoch, retry |-> rc[k]]

\* The attempts that try_enqueue accepts, among those of the keys K.
NewAttempts(K, done, rc) ==
    {CurrentAttempt(k, rc) : k \in Reached(K, done) \ done} \ scheduled

RemoteOf(A) == {a \in A : a.key \notin LocalTask}
LocalOf(A)  == {a \in A : a.key \in LocalTask}

Enqueue(new) ==
    /\ scheduled' = scheduled \cup new
    /\ schedQueue' = schedQueue \cup RemoteOf(new)
    /\ localQueue' = localQueue \cup LocalOf(new)

-----------------------------------------------------------------------------
SchedulerInit ==
    LET leaves == {t \in Task : Deps[t] = {}}
        new == {[key |-> t, epoch |-> 0, retry |-> 0] : t \in leaves}
    IN
    /\ pc = "probe"
    /\ schedRunning = TRUE
    /\ schedEpoch = 0
    /\ retryCount = [t \in Task |-> 0]
    /\ failCount = [t \in Task |-> 0]
    /\ scheduled = new
    /\ finished = {}
    /\ succeeded = {}
    /\ schedQueue = RemoteOf(new)
    /\ localQueue = LocalOf(new)
    /\ available = {}
    /\ state = [e \in Node |-> IF e = Local THEN "GOOD" ELSE "RESOURCE_LOW"]
    /\ running = [e \in Node |-> {}]
    /\ outbound = [e \in Node |-> {}]
    /\ acked = [e \in Node |-> [age |-> 0, low |-> TRUE]]
    /\ stopSent = [e \in Node |-> FALSE]
    /\ stopAcked = [e \in Node |-> FALSE]
    /\ toPop = {}
    /\ inbox = {}

-----------------------------------------------------------------------------
(* probe_executors *)

\* The probe interval has not elapsed.
SkipProbes ==
    /\ pc = "probe"
    /\ pc' = "update"
    /\ UNCHANGED <<fabricVars, schedRunning, schedEpoch, taskVars, queueVars,
                   execVars, popVars>>

\* mutant: a task that has succeeded may look slow.
SlowDone == {a \in UNION {running[e] : e \in {x \in available : Working(x)}} :
               a.key \in SpeculativeTask /\ a.retry < MaxRetry}

\* Works that start_speculative_execution may find to have run for too long.
Slow == {a \in UNION {running[e] : e \in {x \in available : Working(x)}} :
            /\ a.key \in SpeculativeTask \ DoneKeys
            /\ a.retry < MaxRetry
            /\ a.retry = retryCount[a.key]}

\* A new epoch: discover executors whose queue directory exists by now, probe
\* the working ones, then retry some of the slow works.
ProbeExecutors ==
    /\ pc = "probe"
    /\ \E new \in SUBSET (Executor \ available), slow \in SUBSET KeysOf(Slow) :
        LET probed == {e \in available : Working(e)} \cup new
            older == AgeAll(wq)
            rc == [t \in Task |-> retryCount[t] + (IF t \in slow THEN 1 ELSE 0)]
        IN
        /\ available' = available \cup new
        /\ wq' = [e \in Node |-> IF e \in probed
                                 THEN older[e] \cup {ProbeMsg(0, TRUE)} ELSE older[e]]
        /\ cq' = AgeAll(cq)
        /\ acked' = [e \in Node |->
                        IF e \in new THEN [age |-> 1, low |-> TRUE]
                        ELSE IF e \in available /\ acked[e].age <= MaxMissed
                        THEN [age |-> acked[e].age + 1, low |-> acked[e].low]
                        ELSE acked[e]]
        /\ retryCount' = rc
        /\ Enqueue(NewAttempts(slow, DoneKeys, rc))
    /\ pc' = "update"
    /\ UNCHANGED <<jobStatus, schedRunning, schedEpoch, failCount, finished,
                   succeeded, state, running, outbound, stopSent, stopAcked, popVars>>

-----------------------------------------------------------------------------
\* mutant: the copy is made before the retry count is incremented.
RetriesEarly(rc) ==
    UNION {{[key |-> t, epoch |-> schedEpoch, retry |-> n] :
               n \in retryCount[t] .. rc[t] - 1} : t \in Task}

\* get_retry_task until the retry counts are rc.
Retries(rc) ==
    UNION {{[key |-> t, epoch |-> schedEpoch, retry |-> n] :
               n \in retryCount[t] + 1 .. rc[t]} : t \in Task}

(* update_executor_states: works of a newly failed executor are retried, one
   retry for each failed executor that runs the task. *)
UpdateExecutorStates ==
    LET alive  == {e \in available : Alive(e)}
        failed == {e \in alive : UpdatedState(e) = "FAIL"}
        losers(t) == {e \in failed : t \in KeysOf(running[e]) \ DoneKeys}
        rc == [t \in Task |-> retryCount[t] + Cardinality(losers(t))]
    IN
    /\ pc = "update"
    /\ state' = [e \in Node |-> IF e \in alive THEN UpdatedState(e) ELSE state[e]]
    /\ retryCount' = rc
    /\ Enqueue(Retries(rc) \ scheduled)
    /\ pc' = "local"
    /\ UNCHANGED <<fabricVars, schedRunning, schedEpoch, failCount, finished,
                   succeeded, available, running, outbound, acked, stopSent,
                   stopAcked, popVars>>

-----------------------------------------------------------------------------
(* The local queue goes to the local executor, asserted to be alive; an item
   whose key is still running there stays in the queue. *)
PushLocal ==
    LET dead   == localQueue # {} /\ ~Alive(Local)
        pushed == IF dead THEN {}
                  ELSE {a \in localQueue : a.key \notin KeysOf(running[Local])}
    IN
    /\ pc = "local"
    /\ localQueue' = localQueue \ pushed
    /\ running' = [running EXCEPT ![Local] = @ \cup pushed]
    /\ wq' = Send(wq, Local, IF pushed = {} THEN {} ELSE {WorkMsg(pushed)})
    /\ pc' = IF dead THEN "localdead" ELSE "dispatch"
    /\ UNCHANGED <<cq, jobStatus, schedRunning, schedEpoch, taskVars,
                   schedQueue, available, state, outbound, acked, stopSent,
                   stopAcked, popVars>>

-----------------------------------------------------------------------------
(* dispatch_tasks: queued items are tried in turn, in an order that depends on
   their node, retry count and id, until none fits on any executor.  The items
   are buffered and flushed as one batch per executor at the end. *)

Usable == {e \in GoodExecutors : ~Busy(e)}

\* An attempt whose task has succeeded meanwhile is dropped.
DropSucceeded(a) ==
    /\ pc = "dispatch"
    /\ a \in schedQueue /\ a.key \in DoneKeys /\ Usable # {}
    /\ LET new == NewAttempts({a.key}, DoneKeys, retryCount) IN
        /\ scheduled' = scheduled \cup new
        /\ schedQueue' = (schedQueue \ {a}) \cup RemoteOf(new)
        /\ localQueue' = localQueue \cup LocalOf(new)
    /\ UNCHANGED <<fabricVars, loopVars, retryCount, failCount, finished,
                   succeeded, execVars, popVars>>

Fits(a, e) ==
    /\ a.key \notin DoneKeys
    /\ e \in Usable
    /\ a.key \notin KeysOf(running[e])

\* mutant: the item stays in the queue for the next round of the loop.
DispatchAgain(a, e) ==
    /\ pc = "dispatch"
    /\ a \in schedQueue /\ Fits(a, e)
    /\ schedQueue' = schedQueue
    /\ running' = [running EXCEPT ![e] = @ \cup {a}]
    /\ outbound' = [outbound EXCEPT ![e] = @ \cup {a}]
    /\ UNCHANGED <<fabricVars, loopVars, taskVars, localQueue, available,
                   state, acked, stopSent, stopAcked, popVars>>

Dispatch(a, e) ==
    /\ pc = "dispatch"
    /\ a \in schedQueue /\ Fits(a, e)
    /\ schedQueue' = schedQueue \ {a}
    /\ running' = [running EXCEPT ![e] = @ \cup {a}]
    /\ outbound' = [outbound EXCEPT ![e] = @ \cup {a}]
    /\ UNCHANGED <<fabricVars, loopVars, taskVars, localQueue, available,
                   state, acked, stopSent, stopAcked, popVars>>

EndDispatch ==
    /\ pc = "dispatch"
    /\ \A a \in schedQueue :
        /\ a.key \in DoneKeys => Usable = {}
        /\ \A e \in available : ~Fits(a, e)
    /\ wq' = [e \in Node |-> wq[e] \cup
                (IF outbound[e] = {} THEN {} ELSE {WorkMsg(outbound[e])})]
    /\ outbound' = [e \in Node |-> {}]
    /\ pc' = "idle"
    /\ UNCHANGED <<cq, jobStatus, schedRunning, schedEpoch, taskVars,
                   queueVars, available, state, running, acked, stopSent,
                   stopAcked, popVars>>

-----------------------------------------------------------------------------
(* End of an iteration: stop one idle executor that is no longer needed, or
   leave the loop when nothing is queued or running. *)

NumPendingTasks == Cardinality(Task \ DoneKeys)
NumPendingNontrivial == Cardinality((Task \ TrivialTask) \ DoneKeys)

Surplus == {e \in GoodExecutors :
              /\ Idle(e)
              /\ schedQueue = {}
              /\ NumPendingNontrivial + 1 < Cardinality(GoodExecutors)}

\* mutant: queued tasks are not looked at.
QuiescentRunning == \A e \in {x \in available : Alive(x)} \cup {Local} : Idle(e)

Quiescent ==
    /\ schedQueue = {} /\ localQueue = {}
    /\ \A e \in {x \in available : Alive(x)} \cup {Local} : Idle(e)

\* pool.map(RemoteExecutor.pop): only queues that hold something matter.
StartPop ==
    /\ toPop' = {e \in available \cup {Local} : cq[e] # {}}
    /\ pc' = "pop"

StopIdleExecutor(e) ==
    /\ pc = "idle"
    /\ e \in Surplus
    /\ StopRemote({e})
    /\ StartPop
    /\ UNCHANGED <<cq, jobStatus, schedRunning, schedEpoch, taskVars,
                   queueVars, available, state, running, outbound, acked,
                   stopAcked, inbox>>

KeepWaiting ==
    /\ pc = "idle"
    /\ Surplus = {} /\ ~Quiescent
    /\ StartPop
    /\ UNCHANGED <<fabricVars, schedRunning, schedEpoch, taskVars, queueVars,
                   execVars, inbox>>

\* "no queued or running works, stopping scheduler", or the assertion
\* "scheduler stuck in idle state" fails.
LeaveLoop ==
    /\ pc = "idle"
    /\ Surplus = {} /\ Quiescent
    /\ pc' = IF NumPendingTasks = 0 THEN "exit" ELSE "stuck"
    /\ UNCHANGED <<fabricVars, schedRunning, schedEpoch, taskVars, queueVars,
                   execVars, popVars>>

-----------------------------------------------------------------------------
(* RemoteExecutor.pop, and the same on the local executor, whose in-memory
   queue returns one flushed batch of results: some of them. *)

PopCount(e) == IF NumRunning(e) = 0 THEN 1 ELSE NumRunning(e)
PopChoices(e) == IF e = Local THEN SUBSET cq[e] \ {{}} ELSE Popped(cq[e], PopCount(e))

\* mutant: a work that failed is kept until its retry ends.
OverSucceeded(S) ==
    {m.work.key : m \in {n \in S : n.type = "Result" /\ n.status = "SUCCEED"}}

\* The keys of works that have ended, or were not there to be stopped.
Over(S) == {m.work.key : m \in {n \in S : n.type = "Result"}}
             \cup {m.key : m \in {n \in S : n.type = "StopWorkItem"}}

PopResults(e) ==
    /\ pc = "pop"
    /\ e \in toPop
    /\ \E S \in PopChoices(e) :
        LET results == {m \in S : m.type = "Result"}
        IN
        /\ cq' = [cq EXCEPT ![e] = @ \ S]
        /\ \E p \in Latest(acked[e], {m \in S : m.type = "Probe"}) :
                acked' = [acked EXCEPT ![e] = p]
        /\ stopAcked' = [stopAcked EXCEPT ![e] =
                        @ \/ (StopExecutorMsg \in S /\ state[e] # "STOPPED")]
        /\ running' = [running EXCEPT ![e] = {a \in @ : a.key \notin Over(S)}]
        /\ inbox' = inbox \cup {[from |-> e, msg |-> m] : m \in results}
    /\ toPop' = toPop \ {e}
    /\ UNCHANGED <<wq, jobStatus, loopVars, taskVars, queueVars,
                   available, state, outbound, stopSent>>

EndPop ==
    /\ pc = "pop" /\ toPop = {}
    /\ pc' = "process"
    /\ UNCHANGED <<fabricVars, schedRunning, schedEpoch, taskVars, queueVars,
                   execVars, popVars>>

-----------------------------------------------------------------------------
(* process_finished_tasks, one finished task at a time *)

NextResult(r) ==
    /\ pc = "process"
    /\ r \in inbox
    /\ \A q \in inbox : q.from = r.from => ~Before(q.msg, r.msg)
    /\ inbox' = inbox \ {r}

\* mutant: failures of an earlier scheduler's attempts are taken like any other.
ForeignNever(r) == FALSE

\* Reported by an earlier scheduler's attempt, not successful, and its inputs
\* are not available to this scheduler.
Foreign(r) ==
    /\ r.msg.work \notin scheduled
    /\ r.msg.status # "SUCCEED"
    /\ ~(Deps[r.msg.work.key] \subseteq DoneKeys)

\* Foreign results and second reports on an attempt change nothing; a result
\* of a task that already succeeded is only recorded.
IgnoreResult(r) ==
    /\ NextResult(r)
    /\ Foreign(r) \/ r.msg.work \in finished \/ r.msg.work.key \in DoneKeys
    /\ finished' = IF Foreign(r) THEN finished ELSE finished \cup {r.msg.work}
    /\ UNCHANGED <<fabricVars, loopVars, retryCount, failCount, scheduled,
                   succeeded, queueVars, execVars, toPop>>

\* mutant: a success of a task that has succeeded counts again.
FreshAttempt(r) == ~Foreign(r) /\ r.msg.work \notin finished

Fresh(r) ==
    /\ ~Foreign(r)
    /\ r.msg.work \notin finished
    /\ r.msg.work.key \notin DoneKeys

\* stop_executors, the local executor first.
StopAll ==
    /\ StopRemote(Executor)
    /\ state' = [state EXCEPT ![Local] = IF Working(Local) THEN "STOPPED" ELSE @]

TaskFailed(r) ==
    LET t == r.msg.work.key
        rc == [retryCount EXCEPT ![t] = @ + 1]
        tooMany == failCount[t] + 1 > MaxFail
    IN
    /\ NextResult(r) /\ Fresh(r)
    /\ r.msg.status # "SUCCEED"
    /\ finished' = finished \cup {r.msg.work}
    /\ failCount' = [failCount EXCEPT ![t] = @ + 1]
    /\ schedRunning' = (schedRunning /\ ~tooMany)
    /\ IF tooMany THEN StopAll
       ELSE /\ StopRemote(IF StopOnFailure THEN {r.from} \ {Local} ELSE {})
            /\ state' = state
    /\ retryCount' = rc
    /\ Enqueue(NewAttempts({t}, DoneKeys, rc))
    /\ UNCHANGED <<cq, jobStatus, pc, schedEpoch, succeeded, available,
                   running, outbound, acked, stopAcked, toPop>>

\* stop_running_tasks: ask every other executor that runs the task to stop it.
Redundant(t) == {e \in available : t \in KeysOf(running[e])}

TaskSucceeded(r) ==
    LET a == r.msg.work
        done == DoneKeys \cup {a.key}
        rc == [retryCount EXCEPT ![a.key] = a.retry]
        new == NewAttempts(Runnable(a.key, done), done, rc)
        stops == [e \in Node |-> (IF e \in Redundant(a.key)
                                  THEN {StopWorkMsg(a.key)} ELSE {})
                            \cup (IF a.key = Root /\ e \in Stoppable(Executor)
                                  THEN {StopExecutorMsg} ELSE {})]
    IN
    /\ NextResult(r) /\ Fresh(r)
    /\ r.msg.status = "SUCCEED"
    /\ finished' = finished \cup {a}
    /\ succeeded' = succeeded \cup {a}
    /\ retryCount' = rc
    /\ scheduled' = scheduled \cup new
    /\ schedQueue' = IF a.key = Root THEN {}
                     ELSE schedQueue \cup RemoteOf(new)
    /\ localQueue' = localQueue \cup LocalOf(new)
    /\ wq' = [e \in Node |-> wq[e] \cup stops[e]]
    /\ stopSent' = [e \in Node |-> stopSent[e] \/ StopExecutorMsg \in stops[e]]
    /\ state' = [state EXCEPT ![Local] =
                    IF a.key = Root /\ Working(Local) THEN "STOPPED" ELSE @]
    /\ UNCHANGED <<cq, jobStatus, loopVars, failCount, available,
                   running, outbound, acked, stopAcked, toPop>>

\* mutant: the loop goes on after too many failures.
EndProcessAlways ==
    /\ pc = "process" /\ inbox = {}
    /\ pc' = "probe"
    /\ UNCHANGED <<fabricVars, schedRunning, schedEpoch, taskVars, queueVars,
                   execVars, popVars>>

EndProcess ==
    /\ pc = "process" /\ inbox = {}
    /\ pc' = IF schedRunning THEN "probe" ELSE "exit"
    /\ UNCHANGED <<fabricVars, schedRunning, schedEpoch, taskVars, queueVars,
                   execVars, popVars>>

-----------------------------------------------------------------------------
(* The finally block of run(), reached by leaving the loop in any way: the job
   status is written and the executors still at work are asked to stop. *)
Finish ==
    /\ pc \in {"exit", "stuck", "localdead"}
    /\ pc' = "done"
    /\ schedRunning' = FALSE
    /\ jobStatus' = IF Root \in DoneKeys THEN "success" ELSE "failure"
    /\ StopAll
    /\ UNCHANGED <<cq, schedEpoch, taskVars, queueVars, available,
                   running, outbound, acked, stopAcked, popVars>>

SchedulerNext ==
    \/ SkipProbes \/ ProbeExecutors \/ UpdateExecutorStates
    \/ PushLocal
    \/ \E a \in schedQueue : DropSucceeded(a)
    \/ \E a \in schedQueue, e \in available : Dispatch(a, e)
    \/ EndDispatch
    \/ \E e \in available : StopIdleExecutor(e)
    \/ KeepWaiting \/ LeaveLoop
    \/ \E e \in toPop : PopResults(e)
    \/ EndPop
    \/ \E r \in inbox : IgnoreResult(r) \/ TaskFailed(r) \/ TaskSucceeded(r)
    \/ EndProcess \/ Finish

\* "down" is a phase of Recovery only.
SchedulerTypeOK ==
    /\ pc \in {"probe", "update", "local", "localdead", "dispatch", "idle",
               "stuck", "pop", "process", "exit", "done", "down"}
    /\ schedRunning \in BOOLEAN
    /\ schedEpoch \in Nat
    /\ retryCount \in [Task -> Nat]
    /\ failCount \in [Task -> Nat]
    /\ scheduled \subseteq Attempt
    /\ finished \subseteq Attempt
    /\ succeeded \subseteq Attempt
    /\ schedQueue \subseteq Attempt
    /\ localQueue \subseteq Attempt
    /\ available \subseteq Executor
    /\ state \in [Node -> {"GOOD", "FAIL", "RESOURCE_LOW", "STOPPING", "STOPPED"}]
    /\ running \in [Node -> SUBSET Attempt]
    /\ outbound \in [Node -> SUBSET Attempt]
    /\ acked \in [Node -> [age : Age, low : BOOLEAN]]
    /\ stopSent \in [Node -> BOOLEAN]
    /\ stopAcked \in [Node -> BOOLEAN]
    /\ toPop \subseteq Node
    /\ inbox \subseteq [from : Node, msg : Results]
=============================================================================
