------------------------------ MODULE Recovery ------------------------------
(***************************************************************************)
(* A job whose scheduler dies and is started again (JobManager.run with    *)
(* enable_sched_state_dump): the scheduler dumps itself now and then, and  *)
(* the next one continues from the last dump, under the next epoch, while  *)
(* the executors have gone on.  What was popped from a completion queue    *)
(* after the dump is lost, what was sent to a work queue is not.           *)
(*                                                                         *)
(* While the scheduler is down its variables hold what the next one loads. *)
(***************************************************************************)
EXTENDS Smallpond

CONSTANT MaxDeaths  \* bound: how often the scheduler may die

ASSUME RecoveryAssumption ==
    /\ MaxDeaths \in Nat
    /\ Root \in LocalTask

VARIABLES
    saved,   \* the dumped state, or nothing when no further death will read it
    deaths,  \* how often the scheduler has died
    startup  \* "no" in the loop; else whether the startup has found a result

recoveryVars == <<saved, deaths, startup>>
allVars == <<vars, recoveryVars>>

\* What SchedStateExporter dumps of the scheduler.  probes: the probe epochs
\* that have begun since, up to the first number of them that is too many.
Snapshot == [epoch |-> schedEpoch, retries |-> retryCount, fails |-> failCount,
             scheduled |-> scheduled, finished |-> finished,
             succeeded |-> succeeded, sched |-> schedQueue, local |-> localQueue,
             available |-> available, state |-> state, running |-> running,
             acked |-> acked, stopSent |-> stopSent, stopAcked |-> stopAcked,
             probes |-> 0]

\* A dump that no death will read any more need not be remembered.
Kept(s) == IF deaths < MaxDeaths THEN {s} ELSE {}

\* The dump is put off while works run on the local executor.
MayDump == running[Local] = {}

RecoveryInit ==
    /\ Init
    /\ deaths = 0
    /\ startup = "no"
    /\ saved = Kept([Snapshot EXCEPT !.state[Local] = "RESOURCE_LOW"])

-----------------------------------------------------------------------------
(* Death *)

\* The probes under way were sent in n epochs that the restarted scheduler does
\* not remember: they are as much younger.  One of an epoch yet to come counts
\* as one of the current epoch.
Younger(n, oldest, m) ==
    IF m.type # "Probe" THEN m
    ELSE IF m.age > MaxMissed THEN ProbeMsg(oldest, m.low)
    ELSE ProbeMsg(IF m.age < n THEN 0 ELSE m.age - n, m.low)

Rejuvenated(Q, n, oldest) ==
    [e \in Node |-> IF e = Local THEN {} ELSE {Younger(n, oldest, m) : m \in Q[e]}]

\* mutant: the next scheduler has the epoch of the last one, and no record of its
\* attempts.
LoadedAnew(s) == [s EXCEPT !.scheduled = {}]

\* The next scheduler: what was dumped, in the next epoch.
Loaded(s) == [s EXCEPT !.epoch = @ + 1]

\* The scheduler is what r says, and has new local queues.
Load(r) ==
    /\ pc' = "down"
    /\ toPop' = {} /\ inbox' = {}
    /\ schedRunning' = TRUE
    /\ schedEpoch' = r.epoch
    /\ retryCount' = r.retries /\ failCount' = r.fails
    /\ scheduled' = r.scheduled /\ finished' = r.finished
    /\ succeeded' = r.succeeded
    /\ schedQueue' = r.sched /\ localQueue' = r.local
    /\ available' = r.available /\ state' = r.state
    /\ running' = r.running /\ outbound' = [e \in Node |-> {}]
    /\ acked' = r.acked
    /\ stopSent' = r.stopSent /\ stopAcked' = r.stopAcked
    /\ startup' = "quiet"
    /\ UNCHANGED <<jobStatus, saved>>

\* The process is killed, at any time before the end of the job.
Die ==
    /\ pc \notin {"down", "done"}
    /\ \E s \in saved :
        /\ deaths < MaxDeaths
        /\ deaths' = deaths + 1
        /\ Load(Loaded(s))
        /\ \E oldest \in {a \in Age : a + s.probes > MaxMissed} :
            /\ wq' = Rejuvenated(wq, s.probes, oldest)
            /\ cq' = Rejuvenated(cq, s.probes, oldest)
    /\ UNCHANGED workerVars

-----------------------------------------------------------------------------
(* The startup of run() *)

Poll == toPop' = {e \in available : cq[e] # {}}

\* try_enqueue of items of an earlier epoch: each is copied into this epoch with the
\* retry count it has, not that of its task.  Of an item whose task has succeeded the
\* successors are enqueued instead, which come from the plan.
Requeued(items) ==
    LET done == {a \in items : a.key \in DoneKeys} IN
    ({[a EXCEPT !.epoch = schedEpoch] : a \in items \ done} \ scheduled)
        \cup NewAttempts(KeysOf(done), DoneKeys, retryCount)

\* Queued items are enqueued again.
Restart ==
    /\ pc = "down"
    /\ LET new == Requeued(Queued) IN
        /\ scheduled' = scheduled \cup new
        /\ schedQueue' = RemoteOf(new)
        /\ localQueue' = LocalOf(new)
    /\ pc' = "pop" /\ Poll
    /\ UNCHANGED <<fabricVars, schedRunning, schedEpoch, retryCount, failCount,
                   finished, succeeded, execVars, inbox, workerVars, recoveryVars>>

\* Results that came meanwhile are processed, until a round brings none.
PollAgain ==
    /\ startup = "busy" /\ pc = "process" /\ inbox = {}
    /\ pc' = "pop" /\ Poll
    /\ startup' = "quiet"
    /\ UNCHANGED <<fabricVars, schedRunning, schedEpoch, taskVars, queueVars,
                   execVars, inbox, workerVars, saved, deaths>>

\* stop_executors calls LocalExecutor.stop, which waits for the thread of an
\* executor in working state; at startup there is no thread yet.
StopsLocal(r) ==
    /\ r.msg.status # "SUCCEED" /\ failCount[r.msg.work.key] + 1 > MaxFail
    /\ Working(Local)

\* The startup ends in an exception outside of the try block: nothing is
\* dumped, the status file and the executors are left alone.
StartupFails(r) ==
    /\ startup # "no"
    /\ pc = "process" /\ Fresh(r) /\ StopsLocal(r)
    /\ \E s \in saved : Load(Loaded(s))
    /\ UNCHANGED <<wq, cq, workerVars, deaths>>

StartupPop == \E e \in toPop : PopResults(e)

StartupProcess(r) ==
    /\ ~(Fresh(r) /\ StopsLocal(r))
    /\ IgnoreResult(r) \/ TaskFailed(r) \/ TaskSucceeded(r)

\* process_finished_tasks, as in the loop.
StartupStep ==
    /\ startup # "no"
    /\ StartupPop \/ EndPop \/ \E r \in inbox : StartupProcess(r)
    /\ startup' = IF finished' # finished THEN "busy" ELSE startup
    /\ UNCHANGED <<workerVars, saved, deaths>>

\* mutant: the works that ran earlier are waited for.
EarlierNone == {}

\* The works that ran when the state was dumped, on one executor or on several.
EarlierRunning == UNION {running[e] : e \in {x \in available : Alive(x)}}

\* End of the startup: earlier running works are enqueued again, good executors
\* are suspended until they answer a probe (reset_state forgets what they run),
\* the state is dumped, and the local executor starts with nothing to run.
Begin ==
    /\ startup = "quiet" /\ pc = "process" /\ inbox = {}
    /\ startup' = "no"
    /\ Enqueue(Requeued(EarlierRunning))
    /\ running' = [e \in Node |-> IF e = Local \/ e \in GoodExecutors THEN {} ELSE running[e]]
    /\ state' = [e \in Node |-> IF e = Local THEN "GOOD"
                               ELSE IF e \in GoodExecutors THEN "RESOURCE_LOW" ELSE state[e]]
    /\ acked' = [e \in Node |-> IF e \in GoodExecutors THEN [age |-> 0, low |-> TRUE] ELSE acked[e]]
    /\ stopSent' = [e \in Node |-> stopSent[e] /\ e \notin GoodExecutors]
    /\ stopAcked' = [e \in Node |-> stopAcked[e] /\ e \notin GoodExecutors]
    /\ jobStatus' = "running"
    /\ pc' = IF Root \in DoneKeys \/ ~schedRunning THEN "exit" ELSE "probe"
    /\ UNCHANGED <<wq, cq, schedRunning, schedEpoch, retryCount, failCount, finished,
                   succeeded, available, outbound, popVars, workerVars, deaths>>
    /\ saved' = Kept([Snapshot' EXCEPT !.state[Local] = state[Local]])

-----------------------------------------------------------------------------
(* The loop, with its dumps *)

Aged(s) == [s EXCEPT !.probes = IF @ > MaxMissed THEN @ ELSE @ + 1]

\* The dump is made at most once in an interval, and after some progress: at
\* the end of any iteration, in the model.
EndIteration ==
    /\ KeepWaiting \/ \E e \in available : StopIdleExecutor(e)
    /\ \/ UNCHANGED saved
       \/ MayDump /\ saved' = Kept(Snapshot')

LoopStep ==
    /\ startup = "no"
    /\ \/ ProbeExecutors /\ saved' = {Aged(s) : s \in saved}
       \/ EndIteration
       \/ Finish /\ saved' = {}
       \/ /\ \/ SkipProbes \/ UpdateExecutorStates \/ PushLocal
             \/ \E a \in schedQueue : DropSucceeded(a)
             \/ \E a \in schedQueue, e \in available : Dispatch(a, e)
             \/ EndDispatch \/ LeaveLoop
             \/ \E e \in toPop : PopResults(e)
             \/ EndPop
             \/ \E r \in inbox : IgnoreResult(r) \/ TaskFailed(r) \/ TaskSucceeded(r)
             \/ EndProcess
          /\ UNCHANGED saved
    /\ UNCHANGED <<workerVars, deaths, startup>>

SchedulerAct ==
    \/ Restart \/ PollAgain \/ StartupStep \/ Begin \/ LoopStep
    \/ \E r \in inbox : StartupFails(r)

\* The thread of the local executor dies with the scheduler.
LocalAct == startup = "no" /\ LocalStep /\ UNCHANGED recoveryVars
ExecutorAct == ExecutorStep /\ UNCHANGED recoveryVars

RecoveryNext ==
    \/ Die \/ SchedulerAct \/ LocalAct \/ ExecutorAct
    \/ Terminated /\ UNCHANGED recoveryVars

RecoverySpec == RecoveryInit /\ [][RecoveryNext]_allVars

-----------------------------------------------------------------------------
(* Properties *)

\* A restart forgets no task: whatever was queued or running when the state was
\* dumped, and whatever has become of it since, there is an attempt to wait for
\* of every task that can run and has not succeeded, until the root succeeds.
NothingForgotten == pc # "down" /\ Root \notin DoneKeys => NothingLost

\* An attempt owns a runtime directory named after it: no restart hands one out
\* that an earlier scheduler has handed out after the dump, and that still runs
\* or waits in a queue of its executor.
AttemptsAreNew == pc # "down" => DispatchedOnce
=============================================================================
