-------------------------- MODULE SmallpondProofs ---------------------------
(***************************************************************************)
(* What TLAPS proves of Smallpond, for every task graph, every set of      *)
(* executors and every value of the other constants: first the scheduler's *)
(* books and the order of tasks, then its promise to lose no task -- the   *)
(* local executor outlives its queue, every runnable task has an attempt   *)
(* to wait for, so the loop is never stuck, and a job that fails has a     *)
(* cause.                                                                  *)
(***************************************************************************)
EXTENDS Smallpond, FiniteSetTheorems, TLAPS

-----------------------------------------------------------------------------
(* Messages *)

\* Ageing keeps an order an order: the age of a probe stays within its cap.
LEMMA OlderOrders == ASSUME NEW m \in Orders PROVE Older(m) \in Orders
<1> CASE m.type = "Probe"
    <2>1. m \in Probes
        BY DEF Orders, Probes, StopRequest, StopWorks, Works
    <2>. QED BY <2>1, FabricAssumption DEF Older, ProbeMsg, Orders, Probes, Age
<1> CASE m.type # "Probe"
    BY DEF Older
<1> QED OBVIOUS

\* The same for what lies in a completion queue.
LEMMA OlderCompletions == ASSUME NEW m \in Completions PROVE Older(m) \in Completions
<1> CASE m.type = "Probe"
    <2>1. m \in Probes
        BY DEF Completions, Probes, StopRequest, StopWorks, Results
    <2>. QED BY <2>1, FabricAssumption DEF Older, ProbeMsg, Completions, Probes, Age
<1> CASE m.type # "Probe"
    BY DEF Older
<1> QED OBVIOUS

\* So a new probe epoch keeps the type of the work queues ...
LEMMA AgeAllOrders ==
    ASSUME NEW Q \in [Node -> SUBSET Orders]
    PROVE  AgeAll(Q) \in [Node -> SUBSET Orders]
BY OlderOrders DEF AgeAll

\* ... and of the completion queues.
LEMMA AgeAllCompletions ==
    ASSUME NEW Q \in [Node -> SUBSET Completions]
    PROVE  AgeAll(Q) \in [Node -> SUBSET Completions]
BY OlderCompletions DEF AgeAll

\* The probe that update_state will look at is well formed.
LEMMA LatestType ==
    ASSUME NEW old \in [age : Age, low : BOOLEAN],
           NEW P, P \subseteq Probes
    PROVE  Latest(old, P) \subseteq [age : Age, low : BOOLEAN]
BY DEF Latest, Probes

\* try_enqueue makes attempts of tasks of the plan only.
LEMMA NewAttemptsType ==
    ASSUME SchedulerTypeOK, NEW K, NEW done, NEW rc \in [Task -> Nat]
    PROVE  NewAttempts(K, done, rc) \subseteq Attempt
BY DEF SchedulerTypeOK, NewAttempts, CurrentAttempt, Reached, Attempt

-----------------------------------------------------------------------------
(* Type correctness *)

\* The initial state has the declared types.
LEMMA TypeInit == Init => TypeOK
<1>. SUFFICES ASSUME Init PROVE TypeOK
    OBVIOUS
<1>1. FabricTypeOK
    BY DEF Init, FabricInit, FabricTypeOK
<1>2. SchedulerTypeOK
    BY FabricAssumption
    DEF Init, SchedulerInit, SchedulerTypeOK, Attempt, Age, RemoteOf, LocalOf
<1>3. ExecutorTypeOK
    BY DEF Init, ExecutorInit, ExecutorTypeOK
<1>. QED BY <1>1, <1>2, <1>3 DEF TypeOK

\* Enqueueing attempts keeps the types of the queues and of the record.
LEMMA EnqueueType ==
    ASSUME TypeOK, NEW new \in SUBSET Attempt, Enqueue(new)
    PROVE  /\ scheduled' \subseteq Attempt
           /\ schedQueue' \subseteq Attempt
           /\ localQueue' \subseteq Attempt
BY DEF TypeOK, SchedulerTypeOK, Enqueue, RemoteOf, LocalOf

\* probe_executors and start_speculative_execution keep the types.
LEMMA TypeProbe ==
    ASSUME TypeOK, SkipProbes \/ ProbeExecutors, UNCHANGED workerVars
    PROVE  TypeOK'
<1>. USE DEF TypeOK, FabricTypeOK, SchedulerTypeOK, ExecutorTypeOK, workerVars,
         fabricVars, taskVars, queueVars, execVars, popVars
<1>1. CASE SkipProbes
    BY <1>1 DEF SkipProbes
<1>2. CASE ProbeExecutors
  <2>1. PICK new \in SUBSET (Executor \ available), slow \in SUBSET KeysOf(Slow) :
        LET probed == {e \in available : Working(e)} \cup new
            older == AgeAll(wq)
            rc == [t \in Task |-> retryCount[t] + (IF t \in slow THEN 1 ELSE 0)]
        IN
        /\ available' = available \cup new
        /\ wq' = [e \in Node |-> IF e \in probed
                                 THEN older[e] \cup {ProbeMsg(0, TRUE)} ELSE older[e]]
        /\ cq' = AgeAll(cq)
        /\ acked' = [e \in Node |->
                        IF e \in new THEN [age |-> 1, low |-> TRUE]
                        ELSE IF e \in available /\ acked[e].age <= MaxMissed
                        THEN [age |-> acked[e].age + 1, low |-> acked[e].low]
                        ELSE acked[e]]
        /\ retryCount' = rc
        /\ Enqueue(NewAttempts(slow, DoneKeys, rc))
    BY <1>2 DEF ProbeExecutors
  <2>2. ProbeMsg(0, TRUE) \in Orders
    BY FabricAssumption DEF ProbeMsg, Orders, Probes, Age
  <2>3. AgeAll(wq) \in [Node -> SUBSET Orders] /\ cq' \in [Node -> SUBSET Completions]
    BY <2>1, AgeAllOrders, AgeAllCompletions
  <2>4. wq' \in [Node -> SUBSET Orders]
    BY <2>1, <2>2, <2>3
  <2>5. acked' \in [Node -> [age : Age, low : BOOLEAN]]
    <3>1. \A e \in Node : acked[e].age \in Nat /\ acked[e].age <= MaxMissed + 1
                          /\ acked[e].low \in BOOLEAN
        BY FabricAssumption DEF Age
    <3>. QED BY <2>1, <3>1, FabricAssumption DEF Age
  <2>6. retryCount' \in [Task -> Nat]
    BY <2>1
  <2>7. NewAttempts(slow, DoneKeys, retryCount') \subseteq Attempt
    BY <2>6, NewAttemptsType
  <2>8. /\ scheduled' \subseteq Attempt
        /\ schedQueue' \subseteq Attempt
        /\ localQueue' \subseteq Attempt
    BY <2>1, <2>7, EnqueueType
  <2>. QED BY <1>2, <2>1, <2>3, <2>4, <2>5, <2>6, <2>8 DEF ProbeExecutors
<1>. QED BY <1>1, <1>2

\* RemoteExecutor.stop puts well-formed requests in the work queues.
LEMMA StopRemoteType ==
    ASSUME TypeOK, NEW E, StopRemote(E)
    PROVE  /\ stopSent' \in [Node -> BOOLEAN]
           /\ wq' \in [Node -> SUBSET Orders]
<1>1. StopExecutorMsg \in Orders
    BY DEF StopExecutorMsg, Orders, StopRequest
<1>2. /\ stopSent \in [Node -> BOOLEAN]
      /\ wq \in [Node -> SUBSET Orders]
    BY DEF TypeOK, FabricTypeOK, SchedulerTypeOK
<1>. QED BY <1>1, <1>2 DEF StopRemote

\* get_retry_task makes attempts of tasks of the plan only.
LEMMA RetriesType ==
    ASSUME TypeOK, NEW rc \in [Task -> Nat]
    PROVE  Retries(rc) \subseteq Attempt
<1>. SUFFICES ASSUME NEW x \in Retries(rc) PROVE x \in Attempt
    OBVIOUS
<1>1. PICK t \in Task :
        x \in {[key |-> t, epoch |-> schedEpoch, retry |-> n] :
                   n \in retryCount[t] + 1 .. rc[t]}
    BY Zenon DEF Retries
<1>2. retryCount[t] \in Nat /\ rc[t] \in Nat /\ schedEpoch \in Nat
    BY DEF TypeOK, SchedulerTypeOK
<1>. QED BY <1>1, <1>2 DEF Attempt

\* update_executor_states keeps the types.
LEMMA TypeUpdate ==
    ASSUME TypeOK, UpdateExecutorStates, UNCHANGED workerVars
    PROVE  TypeOK'
<1>. DEFINE alive  == {e \in available : Alive(e)}
            failed == {e \in alive : UpdatedState(e) = "FAIL"}
            losers(t) == {e \in failed : t \in KeysOf(running[e]) \ DoneKeys}
            rc == [t \in Task |-> retryCount[t] + Cardinality(losers(t))]
<1>. USE DEF TypeOK, FabricTypeOK, SchedulerTypeOK, ExecutorTypeOK
<1>1. \A t \in Task : Cardinality(losers(t)) \in Nat
  <2>. TAKE t \in Task
  <2>1. losers(t) \subseteq Executor
    OBVIOUS
  <2>. QED BY <2>1, FabricAssumption, FS_Subset, FS_CardinalityType
<1>2. rc \in [Task -> Nat]
    BY <1>1
<1>3. Retries(rc) \subseteq Attempt
    BY <1>2, RetriesType
<1>4. retryCount' = rc /\ Enqueue(Retries(rc) \ scheduled)
    BY DEF UpdateExecutorStates
<1>5. state' \in [Node -> {"GOOD", "FAIL", "RESOURCE_LOW", "STOPPING", "STOPPED"}]
    BY DEF UpdateExecutorStates, UpdatedState
<1>6. /\ scheduled' \subseteq Attempt
      /\ schedQueue' \subseteq Attempt
      /\ localQueue' \subseteq Attempt
    BY <1>3, <1>4, EnqueueType
<1>7. retryCount' \in [Task -> Nat]
    BY <1>2, <1>4
<1>. HIDE DEF rc, losers, failed, alive
<1>. QED BY <1>5, <1>6, <1>7
     DEF UpdateExecutorStates, workerVars, fabricVars, taskVars, queueVars, execVars, popVars

\* Pushing the local queue and dispatch_tasks keep the types.
LEMMA TypeDispatch ==
    ASSUME TypeOK, UNCHANGED workerVars,
           \/ PushLocal
           \/ \E a \in schedQueue : DropSucceeded(a)
           \/ \E a \in schedQueue, e \in available : Dispatch(a, e)
           \/ EndDispatch
    PROVE  TypeOK'
<1>. USE DEF TypeOK, FabricTypeOK, SchedulerTypeOK, ExecutorTypeOK, workerVars,
         fabricVars, loopVars, taskVars, queueVars, execVars, popVars
<1>1. ASSUME NEW A \in SUBSET Attempt PROVE WorkMsg(A) \in Orders
    BY DEF WorkMsg, Orders, Works
<1>2. CASE PushLocal
  <2>. DEFINE dead == localQueue # {} /\ ~Alive(Local)
              pushed == IF dead THEN {}
                        ELSE {a \in localQueue : a.key \notin KeysOf(running[Local])}
              batch == IF pushed = {} THEN {} ELSE {WorkMsg(pushed)}
  <2>0. pushed \subseteq localQueue
    OBVIOUS
  <2>1. /\ localQueue' = localQueue \ pushed
        /\ running' = [running EXCEPT ![Local] = @ \cup pushed]
        /\ wq' = [wq EXCEPT ![Local] = @ \cup batch]
    BY <1>2 DEF PushLocal, Send
  <2>2. batch \subseteq Orders
    BY <1>1, <2>0
  <2>. HIDE DEF dead, pushed, batch
  <2>3. /\ localQueue' \subseteq Attempt
        /\ running' \in [Node -> SUBSET Attempt]
        /\ wq' \in [Node -> SUBSET Orders]
    BY <2>0, <2>1, <2>2
  <2>. QED BY <1>2, <2>3 DEF PushLocal
<1>3. ASSUME NEW a \in schedQueue, DropSucceeded(a)
      PROVE  TypeOK'
  <2>. DEFINE new == NewAttempts({a.key}, DoneKeys, retryCount)
  <2>1. new \subseteq Attempt
    BY NewAttemptsType
  <2>2. /\ scheduled' = scheduled \cup new
        /\ schedQueue' = (schedQueue \ {a}) \cup RemoteOf(new)
        /\ localQueue' = localQueue \cup LocalOf(new)
    BY <1>3 DEF DropSucceeded
  <2>. HIDE DEF new
  <2>3. /\ scheduled' \subseteq Attempt
        /\ schedQueue' \subseteq Attempt
        /\ localQueue' \subseteq Attempt
    BY <2>1, <2>2 DEF RemoteOf, LocalOf
  <2>. QED BY <1>3, <2>3 DEF DropSucceeded
<1>4. ASSUME NEW a \in schedQueue, NEW e \in available, Dispatch(a, e)
      PROVE  TypeOK'
    BY <1>4 DEF Dispatch
<1>5. CASE EndDispatch
  <2>1. ASSUME NEW e \in Node PROVE wq'[e] \subseteq Orders
    <3>1. WorkMsg(outbound[e]) \in Orders
        BY <1>1
    <3>. QED BY <1>5, <3>1 DEF EndDispatch
  <2>2. wq' \in [Node -> SUBSET Orders]
    BY <1>5, <2>1 DEF EndDispatch
  <2>3. outbound' \in [Node -> SUBSET Attempt]
    BY <1>5 DEF EndDispatch
  <2>. QED BY <1>5, <2>2, <2>3 DEF EndDispatch
<1>. QED BY <1>2, <1>3, <1>4, <1>5

\* The end of an iteration of sched_loop keeps the types.
LEMMA TypeIdle ==
    ASSUME TypeOK, UNCHANGED workerVars,
           \/ \E e \in available : StopIdleExecutor(e)
           \/ KeepWaiting
           \/ LeaveLoop
    PROVE  TypeOK'
<1>. USE DEF TypeOK, FabricTypeOK, SchedulerTypeOK, ExecutorTypeOK, workerVars,
         fabricVars, loopVars, taskVars, queueVars, execVars, popVars
<1>1. StartPop => toPop' \subseteq Node /\ pc' = "pop"
    BY DEF StartPop, Node
<1>2. ASSUME NEW e \in available, StopIdleExecutor(e)
      PROVE  TypeOK'
  <2>1. /\ stopSent' \in [Node -> BOOLEAN]
        /\ wq' \in [Node -> SUBSET Orders]
    BY <1>2, StopRemoteType DEF StopIdleExecutor
  <2>. QED BY <1>1, <1>2, <2>1 DEF StopIdleExecutor
<1>3. CASE KeepWaiting
    BY <1>1, <1>3 DEF KeepWaiting
<1>4. CASE LeaveLoop
    BY <1>4 DEF LeaveLoop
<1>. QED BY <1>2, <1>3, <1>4

\* RemoteExecutor.pop keeps the types.
LEMMA TypePop ==
    ASSUME TypeOK, UNCHANGED workerVars,
           (\E e \in toPop : PopResults(e)) \/ EndPop
    PROVE  TypeOK'
<1>. USE DEF TypeOK, FabricTypeOK, SchedulerTypeOK, ExecutorTypeOK, workerVars,
         fabricVars, loopVars, taskVars, queueVars, execVars, popVars
<1>1. ASSUME NEW e \in toPop, PopResults(e)
      PROVE  TypeOK'
  <2>1. PICK S \in PopChoices(e) :
        LET results == {m \in S : m.type = "Result"}
        IN
        /\ cq' = [cq EXCEPT ![e] = @ \ S]
        /\ \E p \in Latest(acked[e], {m \in S : m.type = "Probe"}) :
                acked' = [acked EXCEPT ![e] = p]
        /\ stopAcked' = [stopAcked EXCEPT ![e] =
                        @ \/ (StopExecutorMsg \in S /\ state[e] # "STOPPED")]
        /\ running' = [running EXCEPT ![e] = {a \in @ : a.key \notin Over(S)}]
        /\ inbox' = inbox \cup {[from |-> e, msg |-> m] : m \in results}
    BY <1>1 DEF PopResults
  <2>2. S \subseteq cq[e] /\ cq[e] \subseteq Completions
    BY DEF PopChoices, Popped
  <2>3. {m \in S : m.type = "Probe"} \subseteq Probes
    BY <2>2 DEF Completions, Probes, StopRequest, StopWorks, Results
  <2>4. {m \in S : m.type = "Result"} \subseteq Results
    BY <2>2 DEF Completions, Probes, StopRequest, StopWorks, Results
  <2>5. Latest(acked[e], {m \in S : m.type = "Probe"}) \subseteq [age : Age, low : BOOLEAN]
    BY <2>3, LatestType
  <2>6. acked' \in [Node -> [age : Age, low : BOOLEAN]]
    BY <2>1, <2>5
  <2>7. inbox' \subseteq [from : Node, msg : Results]
    BY <2>1, <2>4
  <2>8. /\ cq' \in [Node -> SUBSET Completions]
        /\ stopAcked' \in [Node -> BOOLEAN]
        /\ running' \in [Node -> SUBSET Attempt]
    BY <2>1
  <2>. QED BY <1>1, <2>6, <2>7, <2>8 DEF PopResults
<1>2. CASE EndPop
    BY <1>2 DEF EndPop
<1>. QED BY <1>1, <1>2

\* process_finished_tasks and the end of run keep the types.
LEMMA TypeProcess ==
    ASSUME TypeOK, UNCHANGED workerVars,
           \/ \E r \in inbox : IgnoreResult(r) \/ TaskFailed(r) \/ TaskSucceeded(r)
           \/ EndProcess
           \/ Finish
    PROVE  TypeOK'
<1>. USE DEF TypeOK, FabricTypeOK, SchedulerTypeOK, ExecutorTypeOK, workerVars,
         fabricVars, loopVars, taskVars, queueVars, execVars, popVars
<1>1. ASSUME NEW r \in inbox
      PROVE  /\ r.msg.work \in Attempt
             /\ r.msg.work.key \in Task
             /\ r.msg.work.retry \in Nat
    BY DEF Results, Attempt
<1>3. ASSUME NEW r \in inbox, IgnoreResult(r)
      PROVE  TypeOK'
  <2>1. finished' \subseteq Attempt /\ inbox' \subseteq inbox
    BY <1>1, <1>3 DEF IgnoreResult, NextResult
  <2>. QED BY <1>3, <2>1 DEF IgnoreResult
<1>4. ASSUME NEW r \in inbox, TaskFailed(r)
      PROVE  TypeOK'
  <2>. DEFINE t == r.msg.work.key
              rc == [retryCount EXCEPT ![t] = @ + 1]
              new == NewAttempts({t}, DoneKeys, rc)
  <2>0. /\ inbox' \subseteq inbox
        /\ schedRunning' \in BOOLEAN
    BY <1>4 DEF TaskFailed, NextResult
  <2>1. /\ finished' \subseteq Attempt
        /\ failCount' \in [Task -> Nat]
        /\ retryCount' = rc
        /\ rc \in [Task -> Nat]
    <3>1. finished' = finished \cup {r.msg.work} /\ retryCount' = rc
        BY <1>4 DEF TaskFailed
    <3>2. failCount' = [failCount EXCEPT ![t] = @ + 1]
        BY <1>4 DEF TaskFailed
    <3>. QED BY <1>1, <3>1, <3>2
  <2>2. \E E : StopRemote(E)
    BY <1>4 DEF TaskFailed, StopAll
  <2>3. /\ stopSent' \in [Node -> BOOLEAN]
        /\ wq' \in [Node -> SUBSET Orders]
    BY <2>2, StopRemoteType
  <2>4. state' \in [Node -> {"GOOD", "FAIL", "RESOURCE_LOW", "STOPPING", "STOPPED"}]
    BY <1>4 DEF TaskFailed, StopAll
  <2>5. new \subseteq Attempt
    BY <2>1, NewAttemptsType
  <2>6. Enqueue(new)
    BY <1>4 DEF TaskFailed
  <2>. HIDE DEF new
  <2>7. /\ scheduled' \subseteq Attempt
        /\ schedQueue' \subseteq Attempt
        /\ localQueue' \subseteq Attempt
    BY <2>5, <2>6, EnqueueType
  <2>. QED BY <1>4, <2>0, <2>1, <2>3, <2>4, <2>7 DEF TaskFailed
<1>5. ASSUME NEW r \in inbox, TaskSucceeded(r)
      PROVE  TypeOK'
  <2>. DEFINE a == r.msg.work
              done == DoneKeys \cup {a.key}
              rc == [retryCount EXCEPT ![a.key] = a.retry]
              new == NewAttempts(Runnable(a.key, done), done, rc)
              stops == [e \in Node |-> (IF e \in Redundant(a.key)
                                        THEN {StopWorkMsg(a.key)} ELSE {})
                                  \cup (IF a.key = Root /\ e \in Stoppable(Executor)
                                        THEN {StopExecutorMsg} ELSE {})]
  <2>1. rc \in [Task -> Nat]
    BY <1>1
  <2>2. new \subseteq Attempt
    BY <2>1, NewAttemptsType
  <2>3. StopWorkMsg(a.key) \in Orders /\ StopExecutorMsg \in Orders
    BY <1>1 DEF StopWorkMsg, StopExecutorMsg, Orders, StopWorks, StopRequest
  <2>4. stops \in [Node -> SUBSET Orders]
    BY <2>3
  <2>5. /\ finished' = finished \cup {a}
        /\ succeeded' = succeeded \cup {a}
        /\ retryCount' = rc
        /\ scheduled' = scheduled \cup new
        /\ schedQueue' = IF a.key = Root THEN {}
                         ELSE schedQueue \cup RemoteOf(new)
        /\ localQueue' = localQueue \cup LocalOf(new)
        /\ wq' = [e \in Node |-> wq[e] \cup stops[e]]
        /\ stopSent' = [e \in Node |-> stopSent[e] \/ StopExecutorMsg \in stops[e]]
    BY <1>5 DEF TaskSucceeded
  <2>6. /\ state' \in [Node -> {"GOOD", "FAIL", "RESOURCE_LOW", "STOPPING", "STOPPED"}]
        /\ inbox' \subseteq inbox
    BY <1>5 DEF TaskSucceeded, NextResult
  <2>. HIDE DEF new, rc, stops
  <2>7. /\ finished' \subseteq Attempt
        /\ succeeded' \subseteq Attempt
        /\ retryCount' \in [Task -> Nat]
        /\ scheduled' \subseteq Attempt
        /\ schedQueue' \subseteq Attempt
        /\ localQueue' \subseteq Attempt
        /\ wq' \in [Node -> SUBSET Orders]
        /\ stopSent' \in [Node -> BOOLEAN]
    BY <1>1, <2>1, <2>2, <2>4, <2>5 DEF RemoteOf, LocalOf
  <2>. QED BY <1>5, <2>6, <2>7 DEF TaskSucceeded
<1>6. CASE EndProcess
    BY <1>6 DEF EndProcess
<1>7. CASE Finish
  <2>1. /\ stopSent' \in [Node -> BOOLEAN]
        /\ wq' \in [Node -> SUBSET Orders]
    BY <1>7, StopRemoteType DEF Finish, StopAll
  <2>. QED BY <1>7, <2>1 DEF Finish, StopAll
<1>. QED BY <1>3, <1>4, <1>5, <1>6, <1>7

\* A report on an attempt is a well-formed completion.
LEMMA ResultMsgType ==
    ASSUME NEW a \in Attempt, NEW s \in Status
    PROVE  ResultMsg(a, s) \in Completions
BY DEF ResultMsg, Completions, Results

\* What a worker reports is a status.
LEMMA OutcomeType == \A t : Outcome(t) \subseteq Status
BY DEF Outcome, Status

\* What is pending for an executor is in its queue; the rest are probes.
LEMMA PendingType ==
    ASSUME TypeOK, NEW e \in Node
    PROVE  /\ Pending(e) \subseteq wq[e]
           /\ wq[e] \subseteq Orders
           /\ wq[e] \ Pending(e) \subseteq Probes
<1>1. wq[e] \subseteq Orders
    BY DEF TypeOK, FabricTypeOK
<1>. QED BY <1>1 DEF Pending, Orders, Probes, StopRequest, StopWorks, Works

\* Popping orders and answering probes keep the types.
LEMMA TypePopWorks ==
    ASSUME TypeOK, NEW e \in Executor, PopWorks(e) \/ PopStop(e) \/ AnswerProbe(e),
           UNCHANGED schedVars
    PROVE  TypeOK'
<1>. USE DEF TypeOK, FabricTypeOK, SchedulerTypeOK, ExecutorTypeOK, schedVars,
         loopVars, taskVars, queueVars, execVars, popVars
<1>1. e \in Node /\ LowChoices \subseteq BOOLEAN
    BY ExecutorAssumption DEF Node
<1>2. CASE PopWorks(e)
  <2>1. PICK S \in Popped(Pending(e), CpuCount) :
        LET toStop == {m \in S : m.type = "StopWorkItem"}
            absent == {m \in toStop : \A a \in works[e] : a.key # m.key}
            hit    == {a \in works[e] \cap live[e] : StopWorkMsg(a.key) \in toStop}
            new    == UNION {m.works : m \in {n \in S : n.type = "Work"}}
        IN
        /\ wq' = [wq EXCEPT ![e] = @ \ S]
        /\ cq' = Send(cq, e, absent \cup {ResultMsg(a, "CRASHED") : a \in hit})
        /\ works' = [works EXCEPT ![e] =
                        {a \in @ \ hit : \A b \in new : a.key # b.key} \cup new]
        /\ live' = [live EXCEPT ![e] = (@ \ hit) \cup new]
    BY <1>2 DEF PopWorks
  <2>. DEFINE toStop == {m \in S : m.type = "StopWorkItem"}
              absent == {m \in toStop : \A a \in works[e] : a.key # m.key}
              hit    == {a \in works[e] \cap live[e] : StopWorkMsg(a.key) \in toStop}
              new    == UNION {m.works : m \in {n \in S : n.type = "Work"}}
              crashed == {ResultMsg(a, "CRASHED") : a \in hit}
  <2>2. S \subseteq Orders
    BY <1>1, PendingType DEF Popped
  <2>3. absent \subseteq Completions
    BY <2>2 DEF Orders, Completions, Probes, StopRequest, StopWorks, Works
  <2>4. hit \subseteq Attempt
    OBVIOUS
  <2>5. ASSUME NEW m \in S, m.type = "Work" PROVE m.works \subseteq Attempt
    BY <2>2, <2>5 DEF Orders, Probes, StopRequest, StopWorks, Works
  <2>6. new \subseteq Attempt
    BY <2>5
  <2>7. crashed \subseteq Completions
    BY <2>4, ResultMsgType DEF Status
  <2>8. /\ wq' = [wq EXCEPT ![e] = @ \ S]
        /\ cq' = Send(cq, e, absent \cup crashed)
        /\ works' = [works EXCEPT ![e] =
                        {a \in @ \ hit : \A b \in new : a.key # b.key} \cup new]
        /\ live' = [live EXCEPT ![e] = (@ \ hit) \cup new]
    BY <2>1
  <2>. HIDE DEF absent, hit, new, crashed
  <2>9. cq' \in [Node -> SUBSET Completions]
    BY <2>3, <2>7, <2>8 DEF Send
  <2>10. wq' \in [Node -> SUBSET Orders]
    BY <2>8
  <2>11. works' \in [Executor -> SUBSET Attempt] /\ live' \in [Executor -> SUBSET Attempt]
    BY <2>6, <2>8
  <2>. QED BY <1>2, <2>9, <2>10, <2>11 DEF PopWorks
<1>3. CASE PopStop(e)
    BY <1>1, <1>3 DEF PopStop
<1>4. CASE AnswerProbe(e)
  <2>1. PICK m \in wq[e] \ Pending(e), low \in LowChoices :
            /\ wq' = [wq EXCEPT ![e] = @ \ {m}]
            /\ cq' = Send(cq, e, {ProbeMsg(m.age, low)})
    BY <1>4 DEF AnswerProbe
  <2>2. m \in Probes
    BY <1>1, PendingType
  <2>3. ProbeMsg(m.age, low) \in Completions
    BY <1>1, <2>2 DEF ProbeMsg, Probes, Completions
  <2>4. cq' \in [Node -> SUBSET Completions] /\ wq' \in [Node -> SUBSET Orders]
    BY <2>1, <2>3 DEF Send
  <2>. QED BY <1>4, <2>4 DEF AnswerProbe
<1>. QED BY <1>2, <1>3, <1>4

\* Worker processes, and executors that end, keep the types.
LEMMA TypeWorker ==
    ASSUME TypeOK, NEW e \in Executor, UNCHANGED schedVars,
           \/ AckStop(e) \/ Crash(e) \/ Quit(e)
           \/ \E a \in live[e] : WorkerCrash(e, a) \/ \E s \in Status : Report(e, a, s)
           \/ \E a \in works[e] : Collect(e, a)
    PROVE  TypeOK'
<1>. USE DEF TypeOK, FabricTypeOK, SchedulerTypeOK, ExecutorTypeOK, schedVars,
         fabricVars, loopVars, taskVars, queueVars, execVars, popVars, Send
<1>1. e \in Node
    BY DEF Node
<1>2. CASE AckStop(e)
  <2>1. StopExecutorMsg \in Completions
    BY DEF StopExecutorMsg, Completions, StopRequest
  <2>. QED BY <1>2, <2>1 DEF AckStop
<1>3. CASE Crash(e)
    BY <1>3 DEF Crash
<1>4. CASE Quit(e)
    BY <1>4 DEF Quit
<1>5. ASSUME NEW a \in live[e], WorkerCrash(e, a)
      PROVE  TypeOK'
  <2>1. ResultMsg(a, "CRASHED") \in Completions
    BY ResultMsgType DEF Status
  <2>2. cq' \in [Node -> SUBSET Completions] /\ works' \in [Executor -> SUBSET Attempt]
    <3>1. CASE a \in works[e] /\ proc[e] # "exited"
      <4>1. /\ cq' = [cq EXCEPT ![e] = @ \cup {ResultMsg(a, "CRASHED")}]
            /\ works' = [works EXCEPT ![e] = @ \ {a}]
        BY <1>5, <3>1 DEF WorkerCrash
      <4>. QED BY <2>1, <4>1
    <3>2. CASE ~(a \in works[e] /\ proc[e] # "exited")
        BY <1>5, <3>2 DEF WorkerCrash
    <3>. QED BY <3>1, <3>2
  <2>3. live' \in [Executor -> SUBSET Attempt] /\ UNCHANGED <<wq, jobStatus, proc>>
    BY <1>5 DEF WorkerCrash
  <2>. QED BY <2>2, <2>3
<1>6. ASSUME NEW a \in live[e], NEW s \in Status, Report(e, a, s)
      PROVE  TypeOK'
  <2>1. ResultMsg(a, s) \in Completions
    BY ResultMsgType
  <2>2. cq' \in [Node -> SUBSET Completions] /\ live' \in [Executor -> SUBSET Attempt]
    BY <1>6, <2>1 DEF Report
  <2>. QED BY <1>6, <2>2 DEF Report
<1>7. ASSUME NEW a \in works[e], Collect(e, a)
      PROVE  TypeOK'
  <2>1. ResultMsg(a, "CRASHED") \in Completions
    BY ResultMsgType DEF Status
  <2>2. PICK M \in {{}} \cup {{ResultMsg(a, "CRASHED")}} : cq' = Send(cq, e, M)
    BY <1>7 DEF Collect
  <2>3. M \subseteq Completions
    BY <2>1
  <2>4. cq' \in [Node -> SUBSET Completions]
    BY <2>2, <2>3
  <2>5. works' \in [Executor -> SUBSET Attempt]
    BY <1>7 DEF Collect
  <2>. QED BY <1>7, <2>4, <2>5 DEF Collect
<1>. QED BY <1>2, <1>3, <1>4, <1>5, <1>6, <1>7

\* The local executor keeps the types.
LEMMA TypeLocal ==
    ASSUME TypeOK, LocalStep
    PROVE  TypeOK'
<1>1. PICK m \in wq[Local] : m.type = "Work" /\ RunLocal(m, Working(Local))
    BY DEF LocalStep
<1>2. PICK result \in [m.works -> Status] :
        cq' = Send(cq, Local, {ResultMsg(a, result[a]) : a \in m.works})
    BY <1>1 DEF RunLocal
<1>3. m.works \subseteq Attempt
    BY <1>1 DEF TypeOK, FabricTypeOK, Node, Orders, Probes, StopRequest, StopWorks, Works
<1>4. {ResultMsg(a, result[a]) : a \in m.works} \subseteq Completions
    BY <1>2, <1>3, ResultMsgType
<1>5. cq' \in [Node -> SUBSET Completions] /\ wq' \in [Node -> SUBSET Orders]
    BY <1>1, <1>2, <1>4 DEF RunLocal, Send, TypeOK, FabricTypeOK
<1>. QED BY <1>1, <1>5
     DEF LocalStep, RunLocal, TypeOK, FabricTypeOK, SchedulerTypeOK, ExecutorTypeOK,
         workerVars, schedVars, loopVars, taskVars, queueVars, execVars, popVars

\* Every step keeps the types.
LEMMA TypeNext == TypeOK /\ [Next]_vars => TypeOK'
<1>. SUFFICES ASSUME TypeOK, [Next]_vars PROVE TypeOK'
    OBVIOUS
<1>1. CASE SchedulerStep
    BY <1>1, TypeProbe, TypeUpdate, TypeDispatch, TypeIdle, TypePop, TypeProcess
    DEF SchedulerStep, SchedulerNext
<1>2. CASE ExecutorStep
    BY <1>2, TypePopWorks, TypeWorker DEF ExecutorStep, ExecutorNext
<1>3. CASE LocalStep
    BY <1>3, TypeLocal
<1>4. CASE UNCHANGED vars
    BY <1>4 DEF vars, fabricVars, schedVars, workerVars, loopVars, taskVars, queueVars,
       execVars, popVars, TypeOK, FabricTypeOK, SchedulerTypeOK, ExecutorTypeOK
<1>. QED BY <1>1, <1>2, <1>3, <1>4 DEF Next, Terminated

\* Every reachable state is well typed: queues hold only the messages meant for
\* them, and the scheduler's books hold only attempts of tasks of the plan.
THEOREM TypeCorrect == Spec => []TypeOK
BY TypeInit, TypeNext, PTL DEF Spec

-----------------------------------------------------------------------------
(* Where attempts are: no attempt is known that the scheduler did not record,
   and an attempt is in one place. *)

\* Every attempt in a queue, with an executor or among the results is one that
\* the scheduler has scheduled.
Known ==
    /\ Queued \subseteq scheduled
    /\ \A e \in Node : Placed(e) \cup running[e] \subseteq scheduled
    /\ \A r \in inbox : r.msg.work \in scheduled

QueuesSplit ==
    /\ \A x \in schedQueue : x.key \notin LocalTask
    /\ \A x \in localQueue : x.key \in LocalTask

\* What every step but a dispatch does to them: attempts are enqueued when they
\* are new, results are of attempts that were with an executor, and otherwise
\* attempts only disappear.
Keeps ==
    /\ scheduled \subseteq scheduled'
    /\ Queued' \subseteq Queued \cup (scheduled' \ scheduled)
    /\ \A e \in Node : Placed(e)' \subseteq Placed(e) /\ running'[e] \subseteq running[e]
    /\ \A r \in inbox' \ inbox : \E e \in Node : r.msg.work \in Placed(e)

\* What a dispatch does: queued attempts go to one executor.
HandsOut ==
    \E e \in Node, sent \in SUBSET Queued :
        /\ UNCHANGED <<scheduled, inbox>>
        /\ Queued' \subseteq Queued \ sent
        /\ \A f \in Node : running'[f] \subseteq running[f] \cup sent
        /\ Placed(e)' \subseteq Placed(e) \cup sent
        /\ \A f \in Node \ {e} : Placed(f)' = Placed(f)

\* A step that only takes attempts out of places, or enqueues new ones, keeps
\* every attempt known and in one place.
LEMMA KeepsPlaces ==
    ASSUME Known, DispatchedOnce, Keeps
    PROVE  Known' /\ DispatchedOnce'
<1>1. Known'
  <2>1. ASSUME NEW r \in inbox' PROVE r.msg.work \in scheduled
    BY DEF Known, Keeps
  <2>. QED BY <2>1 DEF Known, Keeps
<1>2. ASSUME NEW e \in Node PROVE Placed(e)' \cap Queued' = {}
    BY DEF Known, Keeps, DispatchedOnce
<1>3. ASSUME NEW e \in Node, NEW f \in Node, e # f PROVE Placed(e)' \cap Placed(f)' = {}
    BY <1>3 DEF Keeps, DispatchedOnce
<1>. QED BY <1>1, <1>2, <1>3 DEF DispatchedOnce

\* Placed depends on the queues and on the executors only.
LEMMA SamePlaces ==
    ASSUME NEW e \in Node, UNCHANGED workerVars, UNCHANGED outbound,
           OrderedWorks(e)' \subseteq OrderedWorks(e),
           ReportedWorks(e)' \subseteq ReportedWorks(e)
    PROVE  Placed(e)' \subseteq Placed(e)
BY DEF Placed, workerVars

\* Ageing the probes of a queue leaves its works and results alone.
LEMMA AgedWorks ==
    ASSUME TypeOK, NEW e \in Node
    PROVE  /\ {n \in AgeAll(wq)[e] : n.type = "Work"} = {n \in wq[e] : n.type = "Work"}
           /\ {m.work : m \in {n \in AgeAll(cq)[e] : n.type = "Result"}} = ReportedWorks(e)
<1>1. \A m : m.type # "Probe" => Older(m) = m
    BY DEF Older
<1>2. \A m : m.type = "Probe" => Older(m).type = "Probe"
    BY DEF Older, ProbeMsg
<1>3. {n \in AgeAll(wq)[e] : n.type = "Work"} = {n \in wq[e] : n.type = "Work"}
    BY <1>1, <1>2 DEF AgeAll
<1>4. {n \in AgeAll(cq)[e] : n.type = "Result"} = {n \in cq[e] : n.type = "Result"}
    BY <1>1, <1>2 DEF AgeAll
<1>. QED BY <1>3, <1>4 DEF ReportedWorks

\* Asking executors to stop orders no work.
LEMMA StopPlaces ==
    ASSUME TypeOK, NEW E, StopRemote(E), NEW e \in Node
    PROVE  OrderedWorks(e)' \subseteq OrderedWorks(e)
BY DEF StopRemote, StopExecutorMsg, OrderedWorks

\* Enqueueing new attempts: the queues grow by what is recorded only.
LEMMA EnqueueKeeps ==
    ASSUME NEW new, Enqueue(new), new \cap scheduled = {}
    PROVE  /\ scheduled \subseteq scheduled'
           /\ Queued' \subseteq Queued \cup (scheduled' \ scheduled)
           /\ QueuesSplit => QueuesSplit'
BY DEF Enqueue, Queued, QueuesSplit, RemoteOf, LocalOf

\* try_enqueue never accepts an attempt a second time.
LEMMA NewAttemptsAreNew ==
    \A K, done, rc : NewAttempts(K, done, rc) \cap scheduled = {}
BY DEF NewAttempts

\* Probing and speculation give no attempt another place.
LEMMA KeepsProbe ==
    ASSUME TypeOK, QueuesSplit, SkipProbes \/ ProbeExecutors, UNCHANGED workerVars
    PROVE  Keeps /\ QueuesSplit'
<1>1. CASE SkipProbes
    BY <1>1 DEF SkipProbes, Keeps, Queued, QueuesSplit, Placed, OrderedWorks,
       ReportedWorks, workerVars, fabricVars, taskVars, queueVars, execVars, popVars
<1>2. CASE ProbeExecutors
  <2>1. PICK new \in SUBSET (Executor \ available), slow \in SUBSET KeysOf(Slow) :
        LET probed == {e \in available : Working(e)} \cup new
            older == AgeAll(wq)
            rc == [t \in Task |-> retryCount[t] + (IF t \in slow THEN 1 ELSE 0)]
        IN
        /\ wq' = [e \in Node |-> IF e \in probed
                                 THEN older[e] \cup {ProbeMsg(0, TRUE)} ELSE older[e]]
        /\ cq' = AgeAll(cq)
        /\ Enqueue(NewAttempts(slow, DoneKeys, rc))
    BY <1>2 DEF ProbeExecutors
  <2>2. /\ scheduled \subseteq scheduled'
        /\ Queued' \subseteq Queued \cup (scheduled' \ scheduled)
        /\ QueuesSplit'
    BY <2>1, EnqueueKeeps, NewAttemptsAreNew
  <2>3. UNCHANGED <<running, outbound, inbox>>
    BY <1>2 DEF ProbeExecutors, popVars
  <2>4. ASSUME NEW e \in Node PROVE Placed(e)' \subseteq Placed(e)
    <3>1. wq'[e] \in {AgeAll(wq)[e], AgeAll(wq)[e] \cup {ProbeMsg(0, TRUE)}}
        BY <2>1
    <3>2. ProbeMsg(0, TRUE).type # "Work"
        BY DEF ProbeMsg
    <3>3. {n \in wq'[e] : n.type = "Work"} = {n \in wq[e] : n.type = "Work"}
        BY <3>1, <3>2, AgedWorks
    <3>4. ReportedWorks(e)' = {m.work : m \in {n \in AgeAll(cq)[e] : n.type = "Result"}}
        BY <2>1 DEF ReportedWorks
    <3>. QED BY <2>3, <3>3, <3>4, AgedWorks, SamePlaces DEF OrderedWorks
  <2>. QED BY <2>2, <2>3, <2>4 DEF Keeps
<1>. QED BY <1>1, <1>2

\* Neither does giving up an executor: what is retried is a new attempt.
LEMMA KeepsUpdate ==
    ASSUME TypeOK, QueuesSplit, UpdateExecutorStates, UNCHANGED workerVars
    PROVE  Keeps /\ QueuesSplit'
<1>1. \E new : Enqueue(new \ scheduled)
    BY DEF UpdateExecutorStates
<1>2. /\ scheduled \subseteq scheduled'
      /\ Queued' \subseteq Queued \cup (scheduled' \ scheduled)
      /\ QueuesSplit'
    BY <1>1, EnqueueKeeps
<1>3. UNCHANGED <<wq, cq, running, outbound, inbox>>
    BY DEF UpdateExecutorStates, fabricVars, popVars
<1>4. ASSUME NEW e \in Node PROVE Placed(e)' \subseteq Placed(e)
    BY <1>3, SamePlaces DEF OrderedWorks, ReportedWorks
<1>. QED BY <1>2, <1>3, <1>4 DEF Keeps

\* Nor dropping a queued attempt whose task has succeeded.
LEMMA KeepsDrop ==
    ASSUME TypeOK, QueuesSplit, UNCHANGED workerVars,
           NEW a \in schedQueue, DropSucceeded(a)
    PROVE  Keeps /\ QueuesSplit'
<1>1. PICK new : /\ new \cap scheduled = {}
                 /\ scheduled' = scheduled \cup new
                 /\ schedQueue' = (schedQueue \ {a}) \cup RemoteOf(new)
                 /\ localQueue' = localQueue \cup LocalOf(new)
    BY NewAttemptsAreNew DEF DropSucceeded
<1>2. UNCHANGED <<wq, cq, running, outbound, inbox>>
    BY DEF DropSucceeded, fabricVars, execVars, popVars
<1>3. ASSUME NEW e \in Node PROVE Placed(e)' \subseteq Placed(e)
    BY <1>2, SamePlaces DEF OrderedWorks, ReportedWorks
<1>. QED BY <1>1, <1>2, <1>3 DEF Keeps, Queued, QueuesSplit, RemoteOf, LocalOf

\* The batches that EndDispatch flushes were with their executors already.
LEMMA KeepsFlush ==
    ASSUME TypeOK, QueuesSplit, UNCHANGED workerVars, EndDispatch
    PROVE  Keeps /\ QueuesSplit'
<1>1. UNCHANGED <<cq, running, inbox, scheduled, schedQueue, localQueue>>
    BY DEF EndDispatch, taskVars, queueVars, popVars
<1>2. ASSUME NEW e \in Node PROVE Placed(e)' \subseteq Placed(e)
  <2>1. wq'[e] \subseteq wq[e] \cup {WorkMsg(outbound[e])} /\ outbound'[e] = {}
    BY DEF EndDispatch
  <2>2. WorkMsg(outbound[e]).works = outbound[e]
    BY DEF WorkMsg
  <2>3. OrderedWorks(e)' \subseteq OrderedWorks(e) \cup outbound[e]
    BY <2>1, <2>2 DEF OrderedWorks
  <2>. QED BY <1>1, <2>1, <2>3 DEF Placed, ReportedWorks, workerVars
<1>. QED BY <1>1, <1>2 DEF Keeps, Queued, QueuesSplit

\* Nor the phases that only move the loop on or stop executors.
LEMMA KeepsIdle ==
    ASSUME TypeOK, QueuesSplit, UNCHANGED workerVars,
           \/ \E e \in available : StopIdleExecutor(e)
           \/ KeepWaiting \/ LeaveLoop \/ EndPop \/ EndProcess \/ Finish
    PROVE  Keeps /\ QueuesSplit'
<1>1. UNCHANGED <<cq, running, outbound, inbox, scheduled, schedQueue, localQueue>>
    BY DEF StopIdleExecutor, KeepWaiting, LeaveLoop, EndPop, EndProcess, Finish,
           fabricVars, taskVars, queueVars, execVars, popVars
<1>2. wq' = wq \/ \E E : StopRemote(E)
    BY DEF StopIdleExecutor, KeepWaiting, LeaveLoop, EndPop, EndProcess, Finish,
           fabricVars, StopAll
<1>3. ASSUME NEW e \in Node PROVE OrderedWorks(e)' \subseteq OrderedWorks(e)
    BY <1>2, StopPlaces DEF OrderedWorks
<1>4. ASSUME NEW e \in Node PROVE Placed(e)' \subseteq Placed(e)
    BY <1>1, <1>3, SamePlaces DEF ReportedWorks
<1>. QED BY <1>1, <1>4 DEF Keeps, Queued, QueuesSplit

\* Nor popping results.
LEMMA KeepsPop ==
    ASSUME TypeOK, QueuesSplit, UNCHANGED workerVars, NEW e \in toPop, PopResults(e)
    PROVE  Keeps /\ QueuesSplit'
<1>1. PICK S \in PopChoices(e) :
        LET results == {m \in S : m.type = "Result"}
        IN
        /\ cq' = [cq EXCEPT ![e] = @ \ S]
        /\ running' = [running EXCEPT ![e] = {a \in @ : a.key \notin Over(S)}]
        /\ inbox' = inbox \cup {[from |-> e, msg |-> m] : m \in results}
    BY DEF PopResults
<1>2. UNCHANGED <<wq, outbound, scheduled, schedQueue, localQueue>>
    BY DEF PopResults, taskVars, queueVars
<1>3. e \in Node /\ cq \in [Node -> SUBSET Completions] /\ running \in [Node -> SUBSET Attempt]
    BY DEF TypeOK, FabricTypeOK, SchedulerTypeOK
<1>4. S \subseteq cq[e]
    BY DEF PopChoices, Popped
<1>5. ASSUME NEW f \in Node
      PROVE  Placed(f)' \subseteq Placed(f) /\ running'[f] \subseteq running[f]
  <2>1. cq'[f] \subseteq cq[f]
    BY <1>1, <1>3
  <2>2. ReportedWorks(f)' \subseteq ReportedWorks(f)
    BY <2>1 DEF ReportedWorks
  <2>3. OrderedWorks(f)' \subseteq OrderedWorks(f)
    BY <1>2 DEF OrderedWorks
  <2>4. running'[f] \subseteq running[f]
    BY <1>1, <1>3
  <2>. QED BY <1>2, <2>2, <2>3, <2>4, SamePlaces
<1>6. ASSUME NEW r \in inbox' \ inbox PROVE r.msg.work \in Placed(e)
  <2>1. PICK m \in S : m.type = "Result" /\ r = [from |-> e, msg |-> m]
    BY <1>1
  <2>2. m.work \in ReportedWorks(e)
    BY <1>4, <2>1 DEF ReportedWorks
  <2>. QED BY <2>1, <2>2 DEF Placed
<1>. QED BY <1>2, <1>3, <1>5, <1>6 DEF Keeps, Queued, QueuesSplit

\* Nor processing them: only new attempts are enqueued.
LEMMA KeepsProcess ==
    ASSUME TypeOK, QueuesSplit, UNCHANGED workerVars,
           NEW r \in inbox, IgnoreResult(r) \/ TaskFailed(r) \/ TaskSucceeded(r)
    PROVE  Keeps /\ QueuesSplit'
<1>1. inbox' \subseteq inbox /\ UNCHANGED <<cq, running, outbound>>
    BY DEF IgnoreResult, TaskFailed, TaskSucceeded, NextResult, fabricVars, execVars
<1>2. SUFFICES /\ scheduled \subseteq scheduled'
               /\ Queued' \subseteq Queued \cup (scheduled' \ scheduled)
               /\ QueuesSplit'
               /\ \A e \in Node : OrderedWorks(e)' \subseteq OrderedWorks(e)
  <2>1. ASSUME NEW e \in Node PROVE Placed(e)' \subseteq Placed(e)
    BY <1>1, <1>2, SamePlaces DEF ReportedWorks
  <2>. QED BY <1>1, <1>2, <2>1 DEF Keeps
<1>3. CASE IgnoreResult(r)
    BY <1>3 DEF IgnoreResult, fabricVars, queueVars, Queued, QueuesSplit, OrderedWorks
<1>4. CASE TaskFailed(r)
  <2>1. \E new : Enqueue(new) /\ new \cap scheduled = {}
    BY <1>4, NewAttemptsAreNew DEF TaskFailed
  <2>2. \E E : StopRemote(E)
    BY <1>4 DEF TaskFailed, StopAll
  <2>. QED BY <2>1, <2>2, EnqueueKeeps, StopPlaces
<1>5. CASE TaskSucceeded(r)
  <2>. DEFINE t == r.msg.work.key
  <2>1. PICK new : /\ new \cap scheduled = {}
                   /\ scheduled' = scheduled \cup new
                   /\ schedQueue' = IF t = Root THEN {}
                                    ELSE schedQueue \cup RemoteOf(new)
                   /\ localQueue' = localQueue \cup LocalOf(new)
    BY <1>5, NewAttemptsAreNew DEF TaskSucceeded
  <2>2. ASSUME NEW e \in Node
        PROVE  wq'[e] \subseteq wq[e] \cup {StopWorkMsg(t), StopExecutorMsg}
    BY <1>5 DEF TaskSucceeded
  <2>3. StopWorkMsg(t).type # "Work" /\ StopExecutorMsg.type # "Work"
    BY DEF StopWorkMsg, StopExecutorMsg
  <2>4. ASSUME NEW e \in Node PROVE OrderedWorks(e)' \subseteq OrderedWorks(e)
    BY <2>2, <2>3 DEF OrderedWorks
  <2>. QED BY <2>1, <2>4 DEF Queued, QueuesSplit, RemoteOf, LocalOf
<1>. QED BY <1>3, <1>4, <1>5

\* An executor only ever holds, and reports, what was ordered from it.
LEMMA KeepsExecutor ==
    ASSUME TypeOK, QueuesSplit, ExecutorStep
    PROVE  Keeps /\ QueuesSplit'
<1>1. UNCHANGED <<scheduled, schedQueue, localQueue, running, outbound, inbox>>
    BY DEF ExecutorStep, schedVars, taskVars, queueVars, execVars, popVars
<1>2. PICK e \in Executor :
        \/ PopWorks(e) \/ PopStop(e) \/ AnswerProbe(e)
        \/ AckStop(e) \/ Crash(e) \/ Quit(e)
        \/ \E a \in live[e] : WorkerCrash(e, a) \/ \E s \in Status : Report(e, a, s)
        \/ \E a \in works[e] : Collect(e, a)
    BY DEF ExecutorStep, ExecutorNext
<1>3. e \in Node /\ e # Local
    BY FabricAssumption DEF Node
<1>4. /\ wq \in [Node -> SUBSET Orders] /\ cq \in [Node -> SUBSET Completions]
      /\ works \in [Executor -> SUBSET Attempt] /\ live \in [Executor -> SUBSET Attempt]
    BY DEF TypeOK, FabricTypeOK, ExecutorTypeOK
<1>5. SUFFICES /\ \A f \in Node \ {e} : wq'[f] = wq[f] /\ cq'[f] = cq[f]
               /\ \A f \in Executor \ {e} : works'[f] = works[f] /\ live'[f] = live[f]
               /\ OrderedWorks(e)' \subseteq Placed(e)
               /\ ReportedWorks(e)' \subseteq Placed(e)
               /\ works'[e] \cup live'[e] \subseteq Placed(e)
  <2>1. ASSUME NEW f \in Node PROVE Placed(f)' \subseteq Placed(f)
    <3>1. CASE f = e
        BY <1>1, <1>3, <1>5, <3>1 DEF Placed
    <3>2. CASE f # e
      <4>1. OrderedWorks(f)' = OrderedWorks(f) /\ ReportedWorks(f)' = ReportedWorks(f)
        BY <1>5, <3>2 DEF OrderedWorks, ReportedWorks
      <4>2. f # Local => works'[f] = works[f] /\ live'[f] = live[f]
        BY <1>5, <3>2 DEF Node
      <4>. QED BY <1>1, <4>1, <4>2 DEF Placed
    <3>. QED BY <3>1, <3>2
  <2>. QED BY <1>1, <2>1 DEF Keeps, Queued, QueuesSplit
<1>6. OrderedWorks(e) \cup ReportedWorks(e) \cup works[e] \cup live[e] \subseteq Placed(e)
    BY <1>3 DEF Placed
<1>7. ASSUME NEW a \in Placed(e), NEW s, cq' = Send(cq, e, {ResultMsg(a, s)})
      PROVE  /\ \A f \in Node \ {e} : cq'[f] = cq[f]
             /\ ReportedWorks(e)' \subseteq Placed(e)
    BY <1>3, <1>4, <1>6, <1>7 DEF Send, ReportedWorks, ResultMsg
<1>8. CASE PopWorks(e)
  <2>1. PICK S \in Popped(Pending(e), CpuCount) :
        LET toStop == {m \in S : m.type = "StopWorkItem"}
            absent == {m \in toStop : \A a \in works[e] : a.key # m.key}
            hit    == {a \in works[e] \cap live[e] : StopWorkMsg(a.key) \in toStop}
            new    == UNION {m.works : m \in {n \in S : n.type = "Work"}}
        IN
        /\ wq' = [wq EXCEPT ![e] = @ \ S]
        /\ cq' = Send(cq, e, absent \cup {ResultMsg(a, "CRASHED") : a \in hit})
        /\ works' = [works EXCEPT ![e] =
                        {a \in @ \ hit : \A b \in new : a.key # b.key} \cup new]
        /\ live' = [live EXCEPT ![e] = (@ \ hit) \cup new]
    BY <1>8 DEF PopWorks
  <2>. DEFINE toStop == {m \in S : m.type = "StopWorkItem"}
              absent == {m \in toStop : \A a \in works[e] : a.key # m.key}
              hit    == {a \in works[e] \cap live[e] : StopWorkMsg(a.key) \in toStop}
              new    == UNION {m.works : m \in {n \in S : n.type = "Work"}}
              crashed == {ResultMsg(a, "CRASHED") : a \in hit}
  <2>2. S \subseteq wq[e]
    BY <1>3, PendingType DEF Popped
  <2>3. new \subseteq OrderedWorks(e)
    BY <2>2 DEF OrderedWorks
  <2>4. \A m \in absent : m.type # "Result"
    OBVIOUS
  <2>5. hit \subseteq works[e]
    OBVIOUS
  <2>6. \A m \in crashed : m.type = "Result" /\ m.work \in hit
    BY DEF ResultMsg
  <2>7. /\ wq' = [wq EXCEPT ![e] = @ \ S]
        /\ cq' = Send(cq, e, absent \cup crashed)
        /\ works' = [works EXCEPT ![e] =
                        {a \in @ \ hit : \A b \in new : a.key # b.key} \cup new]
        /\ live' = [live EXCEPT ![e] = (@ \ hit) \cup new]
    BY <2>1
  <2>. HIDE DEF absent, hit, new, crashed
  <2>8. ReportedWorks(e)' \subseteq ReportedWorks(e) \cup hit
    BY <1>3, <1>4, <2>4, <2>6, <2>7 DEF Send, ReportedWorks
  <2>9. \A f \in Node \ {e} : wq'[f] = wq[f] /\ cq'[f] = cq[f]
    BY <1>3, <1>4, <2>7 DEF Send
  <2>10. OrderedWorks(e)' \subseteq OrderedWorks(e)
    BY <1>3, <1>4, <2>7 DEF OrderedWorks
  <2>11. /\ \A f \in Executor \ {e} : works'[f] = works[f] /\ live'[f] = live[f]
         /\ works'[e] \cup live'[e] \subseteq works[e] \cup live[e] \cup new
    BY <1>4, <2>7
  <2>. QED BY <1>6, <2>3, <2>5, <2>8, <2>9, <2>10, <2>11
<1>9. CASE PopStop(e) \/ AnswerProbe(e)
  <2>1. ReportedWorks(e)' \subseteq ReportedWorks(e)
    BY <1>3, <1>4, <1>9 DEF PopStop, AnswerProbe, Send, ReportedWorks, ProbeMsg
  <2>2. OrderedWorks(e)' \subseteq OrderedWorks(e)
    BY <1>3, <1>4, <1>9 DEF PopStop, AnswerProbe, OrderedWorks
  <2>3. /\ \A f \in Node \ {e} : wq'[f] = wq[f] /\ cq'[f] = cq[f]
        /\ UNCHANGED <<works, live>>
    BY <1>3, <1>4, <1>9 DEF PopStop, AnswerProbe, Send
  <2>. QED BY <1>6, <2>1, <2>2, <2>3
<1>10. CASE AckStop(e)
  <2>1. ReportedWorks(e)' \subseteq ReportedWorks(e)
    BY <1>3, <1>4, <1>10 DEF AckStop, Send, ReportedWorks, StopExecutorMsg
  <2>. QED BY <1>3, <1>4, <1>6, <1>10, <2>1 DEF AckStop, Send, OrderedWorks
<1>11. CASE Crash(e)
    BY <1>3, <1>4, <1>6, <1>11 DEF Crash, fabricVars, OrderedWorks, ReportedWorks
<1>12. CASE Quit(e)
    BY <1>3, <1>4, <1>6, <1>12 DEF Quit, fabricVars, OrderedWorks, ReportedWorks
<1>13. ASSUME NEW a \in live[e], WorkerCrash(e, a)
       PROVE  /\ \A f \in Node \ {e} : wq'[f] = wq[f] /\ cq'[f] = cq[f]
              /\ \A f \in Executor \ {e} : works'[f] = works[f] /\ live'[f] = live[f]
              /\ OrderedWorks(e)' \subseteq Placed(e)
              /\ ReportedWorks(e)' \subseteq Placed(e)
              /\ works'[e] \cup live'[e] \subseteq Placed(e)
  <2>1. /\ wq' = wq
        /\ \A f \in Executor \ {e} : works'[f] = works[f] /\ live'[f] = live[f]
        /\ works'[e] \cup live'[e] \subseteq works[e] \cup live[e]
    BY <1>4, <1>13 DEF WorkerCrash
  <2>2. OrderedWorks(e)' = OrderedWorks(e)
    BY <2>1 DEF OrderedWorks
  <2>3. CASE cq' = Send(cq, e, {ResultMsg(a, "CRASHED")})
    BY <1>6, <1>7, <2>1, <2>2, <2>3
  <2>4. CASE cq' = cq
    BY <1>6, <2>1, <2>2, <2>4 DEF ReportedWorks
  <2>. QED BY <1>13, <2>3, <2>4 DEF WorkerCrash
<1>14. ASSUME NEW a \in live[e], NEW s \in Status, Report(e, a, s)
       PROVE  /\ \A f \in Node \ {e} : wq'[f] = wq[f] /\ cq'[f] = cq[f]
              /\ \A f \in Executor \ {e} : works'[f] = works[f] /\ live'[f] = live[f]
              /\ OrderedWorks(e)' \subseteq Placed(e)
              /\ ReportedWorks(e)' \subseteq Placed(e)
              /\ works'[e] \cup live'[e] \subseteq Placed(e)
    BY <1>4, <1>6, <1>7, <1>14 DEF Report, OrderedWorks
<1>15. ASSUME NEW a \in works[e], Collect(e, a)
       PROVE  /\ \A f \in Node \ {e} : wq'[f] = wq[f] /\ cq'[f] = cq[f]
              /\ \A f \in Executor \ {e} : works'[f] = works[f] /\ live'[f] = live[f]
              /\ OrderedWorks(e)' \subseteq Placed(e)
              /\ ReportedWorks(e)' \subseteq Placed(e)
              /\ works'[e] \cup live'[e] \subseteq Placed(e)
  <2>1. cq' = Send(cq, e, {}) \/ cq' = Send(cq, e, {ResultMsg(a, "CRASHED")})
    BY <1>15 DEF Collect
  <2>2. CASE cq' = Send(cq, e, {ResultMsg(a, "CRASHED")})
    BY <1>4, <1>6, <1>7, <1>15, <2>2 DEF Collect, OrderedWorks
  <2>3. CASE cq' = Send(cq, e, {})
    BY <1>3, <1>4, <1>6, <1>15, <2>3 DEF Collect, Send, OrderedWorks, ReportedWorks
  <2>. QED BY <2>1, <2>2, <2>3
<1>. QED BY <1>2, <1>8, <1>9, <1>10, <1>11, <1>12, <1>13, <1>14, <1>15

\* So does the local executor.
LEMMA KeepsLocal ==
    ASSUME TypeOK, QueuesSplit, LocalStep
    PROVE  Keeps /\ QueuesSplit'
<1>1. PICK m \in wq[Local] : m.type = "Work" /\ RunLocal(m, Working(Local))
    BY DEF LocalStep
<1>2. UNCHANGED <<scheduled, schedQueue, localQueue, running, outbound, inbox, works, live>>
    BY <1>1 DEF LocalStep, RunLocal, schedVars, workerVars, taskVars, queueVars, execVars, popVars
<1>3. /\ wq \in [Node -> SUBSET Orders] /\ cq \in [Node -> SUBSET Completions]
      /\ Local \in Node
    BY DEF TypeOK, FabricTypeOK, Node
<1>4. PICK result :
      /\ wq' = [wq EXCEPT ![Local] = @ \ {m}]
      /\ cq' = [cq EXCEPT ![Local] = @ \cup {ResultMsg(a, result[a]) : a \in m.works}]
    BY <1>1 DEF RunLocal, Send
<1>5. m.works \subseteq OrderedWorks(Local)
    BY <1>1 DEF OrderedWorks
<1>6. OrderedWorks(Local)' \subseteq OrderedWorks(Local)
    BY <1>3, <1>4 DEF OrderedWorks
<1>7. ReportedWorks(Local)' \subseteq ReportedWorks(Local) \cup m.works
    BY <1>3, <1>4 DEF ReportedWorks, ResultMsg
<1>8. ASSUME NEW f \in Node PROVE Placed(f)' \subseteq Placed(f)
  <2>1. CASE f = Local
    BY <1>2, <1>5, <1>6, <1>7, <2>1 DEF Placed
  <2>2. CASE f # Local
    BY <1>2, <1>3, <1>4, <2>2 DEF Placed, OrderedWorks, ReportedWorks
  <2>. QED BY <2>1, <2>2
<1>. QED BY <1>2, <1>8 DEF Keeps, Queued, QueuesSplit

\* An attempt taken from a queue goes to one executor.
LEMMA DispatchHandsOut ==
    ASSUME TypeOK, QueuesSplit, UNCHANGED workerVars,
           PushLocal \/ \E a \in schedQueue, e \in available : Dispatch(a, e)
    PROVE  HandsOut /\ QueuesSplit'
<1>1. UNCHANGED <<cq, scheduled, inbox>>
    BY DEF PushLocal, Dispatch, fabricVars, taskVars, popVars
<1>2. /\ wq \in [Node -> SUBSET Orders] /\ running \in [Node -> SUBSET Attempt]
      /\ outbound \in [Node -> SUBSET Attempt]
      /\ Local \in Node /\ available \subseteq Node /\ Local \notin available
    BY FabricAssumption DEF TypeOK, FabricTypeOK, SchedulerTypeOK, Node
<1>3. PICK e \in Node, sent \in SUBSET Queued :
        /\ running' = [running EXCEPT ![e] = @ \cup sent]
        /\ Queued' \subseteq Queued \ sent
        /\ schedQueue' \subseteq schedQueue
        /\ localQueue' \subseteq localQueue
        /\ outbound'[e] \cup OrderedWorks(e)' \subseteq outbound[e] \cup OrderedWorks(e) \cup sent
        /\ \A f \in Node \ {e} : outbound'[f] = outbound[f] /\ wq'[f] = wq[f]
  <2>1. CASE PushLocal
    <3>1. PICK sent \in SUBSET localQueue :
            /\ localQueue' = localQueue \ sent
            /\ running' = [running EXCEPT ![Local] = @ \cup sent]
            /\ wq' = [wq EXCEPT ![Local] = @ \cup (IF sent = {} THEN {} ELSE {WorkMsg(sent)})]
        BY <2>1 DEF PushLocal, Send
    <3>2. schedQueue' = schedQueue /\ outbound' = outbound
        BY <2>1 DEF PushLocal
    <3>3. Queued' \subseteq Queued \ sent /\ sent \in SUBSET Queued
        BY <3>1, <3>2 DEF Queued, QueuesSplit
    <3>4. WorkMsg(sent).works = sent
        BY DEF WorkMsg
    <3>5. OrderedWorks(Local)' \subseteq OrderedWorks(Local) \cup sent
        BY <1>2, <3>1, <3>4 DEF OrderedWorks
    <3>6. \A f \in Node \ {Local} : wq'[f] = wq[f]
        BY <1>2, <3>1
    <3>. QED BY <1>2, <3>1, <3>2, <3>3, <3>5, <3>6
  <2>2. ASSUME NEW a \in schedQueue, NEW e \in available, Dispatch(a, e)
        PROVE  \E f \in Node, sent \in SUBSET Queued :
                /\ running' = [running EXCEPT ![f] = @ \cup sent]
                /\ Queued' \subseteq Queued \ sent
                /\ schedQueue' \subseteq schedQueue
                /\ localQueue' \subseteq localQueue
                /\ outbound'[f] \cup OrderedWorks(f)' \subseteq outbound[f] \cup OrderedWorks(f) \cup sent
                /\ \A g \in Node \ {f} : outbound'[g] = outbound[g] /\ wq'[g] = wq[g]
    <3>1. /\ schedQueue' = schedQueue \ {a}
          /\ localQueue' = localQueue
          /\ running' = [running EXCEPT ![e] = @ \cup {a}]
          /\ outbound' = [outbound EXCEPT ![e] = @ \cup {a}]
          /\ wq' = wq
        BY <2>2 DEF Dispatch, fabricVars
    <3>2. Queued' \subseteq Queued \ {a} /\ {a} \in SUBSET Queued
        BY <3>1 DEF Queued, QueuesSplit
    <3>3. OrderedWorks(e)' = OrderedWorks(e)
        BY <3>1 DEF OrderedWorks
    <3>. QED BY <1>2, <3>1, <3>2, <3>3
  <2>. QED BY <2>1, <2>2
<1>4. Placed(e)' \subseteq Placed(e) \cup sent
    BY <1>1, <1>3 DEF Placed, ReportedWorks, workerVars
<1>5. ASSUME NEW f \in Node, f # e PROVE Placed(f)' = Placed(f)
    BY <1>1, <1>3, <1>5 DEF Placed, OrderedWorks, ReportedWorks, workerVars
<1>6. ASSUME NEW f \in Node
      PROVE  running'[f] \subseteq running[f] \cup sent
    BY <1>2, <1>3
<1>7. QueuesSplit'
    BY <1>3 DEF QueuesSplit
<1>. QED BY <1>1, <1>3, <1>4, <1>5, <1>6, <1>7 DEF HandsOut

\* There it is known, and in one place.
LEMMA HandsOutPlaces ==
    ASSUME Known, DispatchedOnce, HandsOut
    PROVE  Known' /\ DispatchedOnce'
<1>1. PICK e \in Node, sent \in SUBSET Queued :
        /\ UNCHANGED <<scheduled, inbox>>
        /\ Queued' \subseteq Queued \ sent
        /\ \A f \in Node : running'[f] \subseteq running[f] \cup sent
        /\ Placed(e)' \subseteq Placed(e) \cup sent
        /\ \A f \in Node \ {e} : Placed(f)' = Placed(f)
    BY DEF HandsOut
<1>2. Known'
  <2>1. Queued' \subseteq scheduled'
    BY <1>1 DEF Known
  <2>2. ASSUME NEW f \in Node PROVE (Placed(f) \cup running[f])' \subseteq scheduled'
    BY <1>1 DEF Known
  <2>. QED BY <1>1, <2>1, <2>2 DEF Known
<1>3. ASSUME NEW f \in Node PROVE Placed(f)' \cap Queued' = {}
    BY <1>1 DEF DispatchedOnce
<1>4. ASSUME NEW f \in Node, NEW g \in Node, f # g PROVE Placed(f)' \cap Placed(g)' = {}
    BY <1>1, <1>4 DEF DispatchedOnce
<1>. QED BY <1>2, <1>3, <1>4 DEF DispatchedOnce

\* There is no other kind of step.
LEMMA PlacesMove ==
    ASSUME TypeOK, QueuesSplit, [Next]_vars
    PROVE  (Keeps \/ HandsOut) /\ QueuesSplit'
<1>1. CASE SchedulerStep
    BY <1>1, KeepsProbe, KeepsUpdate, KeepsDrop, KeepsFlush, KeepsIdle, KeepsPop, KeepsProcess,
       DispatchHandsOut
    DEF SchedulerStep, SchedulerNext
<1>2. CASE ExecutorStep
    BY <1>2, KeepsExecutor
<1>3. CASE LocalStep
    BY <1>3, KeepsLocal
<1>4. CASE UNCHANGED vars
    BY <1>4 DEF vars, fabricVars, schedVars, workerVars, loopVars, taskVars, queueVars,
       execVars, popVars, Keeps, QueuesSplit, Placed, Queued, OrderedWorks, ReportedWorks
<1>. QED BY <1>1, <1>2, <1>3, <1>4 DEF Next, Terminated

\* The attempts are known and in one place after every step.
LEMMA PlacesNext ==
    ASSUME TypeOK, Known, QueuesSplit, DispatchedOnce, [Next]_vars
    PROVE  Known' /\ QueuesSplit' /\ DispatchedOnce'
BY PlacesMove, KeepsPlaces, HandsOutPlaces

\* At first the leaves of the plan are queued and nothing is placed.
LEMMA PlacesInit == Init => Known /\ QueuesSplit /\ DispatchedOnce
<1>. SUFFICES ASSUME Init PROVE Known /\ QueuesSplit /\ DispatchedOnce
    OBVIOUS
<1>1. \A e \in Node : Placed(e) = {} /\ running[e] = {}
    BY DEF Init, FabricInit, SchedulerInit, ExecutorInit, Placed, OrderedWorks,
       ReportedWorks, Node
<1>2. Queued \subseteq scheduled /\ QueuesSplit /\ inbox = {}
    BY DEF Init, SchedulerInit, Queued, QueuesSplit, RemoteOf, LocalOf
<1>. QED BY <1>1, <1>2 DEF Known, DispatchedOnce

PlacesInv == TypeOK /\ Known /\ QueuesSplit /\ DispatchedOnce

\* No interleaving of scheduler, executors, crashes, false suspicions, retries
\* and speculation puts one attempt in two places, so two worker processes never
\* share a runtime directory.
THEOREM DispatchedOnceCorrect == Spec => []DispatchedOnce
<1>1. Init => PlacesInv
    BY TypeInit, PlacesInit DEF PlacesInv
<1>2. PlacesInv /\ [Next]_vars => PlacesInv'
    BY TypeNext, PlacesNext DEF PlacesInv
<1>3. PlacesInv => DispatchedOnce
    BY DEF PlacesInv
<1>. QED BY <1>1, <1>2, <1>3, PTL DEF Spec

-----------------------------------------------------------------------------
(* Successes *)

\* Successes only add up.
LEMMA SuccessesGrow ==
    ASSUME [Next]_vars
    PROVE  \/ UNCHANGED succeeded
           \/ /\ UNCHANGED workerVars
              /\ \E r \in inbox : TaskSucceeded(r)
<1>1. CASE SchedulerStep
    BY <1>1 DEF SchedulerStep, SchedulerNext, SkipProbes, ProbeExecutors,
       UpdateExecutorStates, PushLocal, DropSucceeded, Dispatch, EndDispatch,
       StopIdleExecutor, KeepWaiting, LeaveLoop, PopResults, EndPop, IgnoreResult,
       TaskFailed, EndProcess, Finish, taskVars
<1>2. CASE ExecutorStep \/ LocalStep \/ UNCHANGED vars
    BY <1>2 DEF ExecutorStep, LocalStep, vars, schedVars, taskVars
<1>. QED BY <1>1, <1>2 DEF Next, Terminated

\* A success is of a task that had none.
LEMMA SuccessIsNew ==
    ASSUME TypeOK, NEW r \in inbox, TaskSucceeded(r)
    PROVE  /\ r.msg.work \in Attempt
           /\ r.msg.work.key \in Task \ DoneKeys
           /\ succeeded' = succeeded \cup {r.msg.work}
           /\ DoneKeys' = DoneKeys \cup {r.msg.work.key}
<1>1. r.msg.work \in Attempt /\ r.msg.work.key \in Task
    BY DEF TypeOK, SchedulerTypeOK, Results, Attempt
<1>. QED BY <1>1 DEF TaskSucceeded, Fresh, DoneKeys, KeysOf

\* Of all attempts of a task one success is recorded.
THEOREM OneSuccessCorrect == Spec => []OneSuccess
<1>1. Init => OneSuccess
    BY DEF Init, SchedulerInit, OneSuccess
<1>2. TypeOK /\ OneSuccess /\ [Next]_vars => OneSuccess'
  <2>. SUFFICES ASSUME TypeOK, OneSuccess, [Next]_vars PROVE OneSuccess'
    OBVIOUS
  <2>1. CASE UNCHANGED succeeded
    BY <2>1 DEF OneSuccess
  <2>2. ASSUME NEW r \in inbox, TaskSucceeded(r)
        PROVE  OneSuccess'
    BY <2>2, SuccessIsNew DEF OneSuccess, DoneKeys, KeysOf
  <2>. QED BY <2>1, <2>2, SuccessesGrow
<1>. QED BY <1>1, <1>2, TypeCorrect, PTL DEF Spec

\* A recorded success stays, and its task is never retried: neither after a
\* late failure, nor after the loss of an executor, nor for being slow.
THEOREM SuccessIsFinalCorrect == Spec => SuccessIsFinal
<1>1. ASSUME TypeOK, [Next]_vars, NEW x \in succeeded
      PROVE  x \in succeeded' /\ retryCount'[x.key] = retryCount[x.key]
  <2>1. x \in Attempt /\ x.key \in DoneKeys /\ x.key \in Task
    BY <1>1 DEF TypeOK, SchedulerTypeOK, Attempt, DoneKeys, KeysOf
  <2>2. x \in succeeded'
    BY <1>1, SuccessesGrow, SuccessIsNew
  <2>3. CASE UNCHANGED retryCount
    BY <2>2, <2>3
  <2>4. CASE ProbeExecutors
    <3>1. PICK slow \in SUBSET KeysOf(Slow) :
            retryCount' = [t \in Task |-> retryCount[t] + (IF t \in slow THEN 1 ELSE 0)]
        BY <2>4 DEF ProbeExecutors
    <3>2. x.key \notin slow
        BY <2>1 DEF Slow, KeysOf
    <3>3. retryCount[x.key] \in Nat
        BY <1>1, <2>1 DEF TypeOK, SchedulerTypeOK
    <3>. QED BY <2>1, <2>2, <3>1, <3>2, <3>3
  <2>5. CASE UpdateExecutorStates
    <3>. DEFINE alive  == {e \in available : Alive(e)}
                failed == {e \in alive : UpdatedState(e) = "FAIL"}
                losers(t) == {e \in failed : t \in KeysOf(running[e]) \ DoneKeys}
    <3>1. retryCount' = [t \in Task |-> retryCount[t] + Cardinality(losers(t))]
        BY <2>5 DEF UpdateExecutorStates
    <3>2. losers(x.key) = {}
        BY <2>1
    <3>3. Cardinality(losers(x.key)) = 0
        BY <3>2, FS_EmptySet
    <3>4. retryCount[x.key] \in Nat
        BY <1>1, <2>1 DEF TypeOK, SchedulerTypeOK
    <3>. HIDE DEF losers
    <3>. QED BY <2>1, <2>2, <3>1, <3>3, <3>4
  <2>6. ASSUME NEW r \in inbox, TaskFailed(r) \/ TaskSucceeded(r)
        PROVE  x \in succeeded' /\ retryCount'[x.key] = retryCount[x.key]
    <3>1. r.msg.work.key # x.key
        BY <2>1, <2>6 DEF TaskFailed, TaskSucceeded, Fresh
    <3>2. retryCount \in [Task -> Nat]
        BY <1>1 DEF TypeOK, SchedulerTypeOK
    <3>. QED BY <2>1, <2>2, <2>6, <3>1, <3>2 DEF TaskFailed, TaskSucceeded
  <2>7. CASE SchedulerStep
    BY <2>3, <2>4, <2>5, <2>6, <2>7
    DEF SchedulerStep, SchedulerNext, SkipProbes, PushLocal, DropSucceeded, Dispatch,
        EndDispatch, StopIdleExecutor, KeepWaiting, LeaveLoop, PopResults, EndPop,
        IgnoreResult, EndProcess, Finish, taskVars
  <2>8. CASE ExecutorStep \/ LocalStep \/ UNCHANGED vars
    BY <2>3, <2>8 DEF ExecutorStep, LocalStep, vars, schedVars, taskVars
  <2>. QED BY <1>1, <2>7, <2>8 DEF Next, Terminated
<1>2. TypeOK /\ [Next]_vars =>
        [\A x \in succeeded :
            x \in succeeded' /\ retryCount'[x.key] = retryCount[x.key]]_vars
    BY <1>1
<1>. QED BY <1>2, TypeCorrect, PTL DEF Spec, SuccessIsFinal

-----------------------------------------------------------------------------
(* Dependencies *)

\* What can be reached from tasks whose inputs are done has its inputs done:
\* the tasks with that property are closed under enqueueing successors.
LEMMA ReachedReady ==
    ASSUME NEW K, NEW done, K \subseteq Task,
           \A k \in K : Deps[k] \subseteq done
    PROVE  \A t \in Reached(K, done) : Deps[t] \subseteq done
<1>. DEFINE ready == {t \in Task : Deps[t] \subseteq done}
<1>1. ready \in SUBSET Task /\ K \subseteq ready
    OBVIOUS
<1>2. \A k \in ready \cap done : Runnable(k, done) \subseteq ready
    BY DEF Runnable
<1>3. ASSUME NEW t \in Reached(K, done) PROVE t \in ready
    <2>. HIDE DEF ready
    <2>. QED BY <1>1, <1>2 DEF Reached
<1>. QED BY <1>3

\* So try_enqueue of tasks that are ready makes attempts of ready tasks only.
LEMMA NewAttemptsReady ==
    ASSUME NEW K, NEW done, NEW rc, K \subseteq Task,
           \A k \in K : Deps[k] \subseteq done
    PROVE  \A x \in NewAttempts(K, done, rc) : Deps[x.key] \subseteq done
BY ReachedReady DEF NewAttempts, CurrentAttempt

\* What is queued, or said to be running, was scheduled.
Booked == Queued \subseteq scheduled /\ \A e \in Node : running[e] \subseteq scheduled

DepsInv == TypeOK /\ Booked /\ DependenciesFirst

\* A step that schedules nothing but attempts of tasks with their inputs done
\* preserves DependenciesFirst.
LEMMA ReadyStep ==
    ASSUME DependenciesFirst, DoneKeys \subseteq DoneKeys',
           \A x \in scheduled' \ scheduled : Deps[x.key] \subseteq DoneKeys'
    PROVE  DependenciesFirst'
BY DEF DependenciesFirst

\* The retries, speculative ones included, are of tasks whose inputs have
\* succeeded, because an attempt of the same task was known already.
LEMMA DepsEnqueue ==
    ASSUME DepsInv,
           \/ ProbeExecutors
           \/ UpdateExecutorStates
           \/ \E a \in schedQueue : DropSucceeded(a)
           \/ \E r \in inbox : TaskFailed(r)
    PROVE  DependenciesFirst'
<1>1. UNCHANGED DoneKeys
    BY DEF ProbeExecutors, UpdateExecutorStates, DropSucceeded, TaskFailed, taskVars,
       DoneKeys
<1>2. \A x \in scheduled : x \in Attempt /\ x.key \in Task /\ Deps[x.key] \subseteq DoneKeys
    BY DEF DepsInv, TypeOK, SchedulerTypeOK, Attempt, DependenciesFirst
<1>3. SUFFICES \A x \in scheduled' \ scheduled : Deps[x.key] \subseteq DoneKeys
    BY <1>1, ReadyStep DEF DepsInv
<1>4. \A e \in available : e \in Node /\ running[e] \subseteq scheduled
    BY DEF DepsInv, TypeOK, SchedulerTypeOK, Booked, Node
<1>5. CASE ProbeExecutors
  <2>1. PICK slow \in SUBSET KeysOf(Slow) :
            \E rc : Enqueue(NewAttempts(slow, DoneKeys, rc))
    BY <1>5 DEF ProbeExecutors
  <2>2. Slow \subseteq scheduled
    BY <1>4 DEF Slow
  <2>3. slow \subseteq Task /\ \A k \in slow : Deps[k] \subseteq DoneKeys
    BY <1>2, <2>2 DEF KeysOf
  <2>. QED BY <2>1, <2>3, NewAttemptsReady DEF Enqueue
<1>6. CASE UpdateExecutorStates
  <2>. DEFINE alive  == {e \in available : Alive(e)}
              failed == {e \in alive : UpdatedState(e) = "FAIL"}
              losers(t) == {e \in failed : t \in KeysOf(running[e]) \ DoneKeys}
              rc == [t \in Task |-> retryCount[t] + Cardinality(losers(t))]
              retries(t) == {[key |-> t, epoch |-> schedEpoch, retry |-> n] :
                                n \in retryCount[t] + 1 .. rc[t]}
  <2>1. Enqueue((UNION {retries(t) : t \in Task}) \ scheduled)
    BY <1>6 DEF UpdateExecutorStates, Retries
  <2>2. ASSUME NEW t \in Task, retries(t) # {}
        PROVE  Deps[t] \subseteq DoneKeys
    <3>1. losers(t) # {}
      <4>. SUFFICES ASSUME losers(t) = {} PROVE FALSE
        OBVIOUS
      <4>1. Cardinality(losers(t)) = 0
        BY FS_EmptySet
      <4>2. retryCount[t] \in Nat
        BY DEF DepsInv, TypeOK, SchedulerTypeOK
      <4>. HIDE DEF losers
      <4>3. rc[t] = retryCount[t]
        BY <4>1, <4>2
      <4>. HIDE DEF rc
      <4>4. retryCount[t] + 1 .. rc[t] = {}
        BY <4>2, <4>3
      <4>. QED BY <2>2, <4>4
    <3>2. PICK e \in available : t \in KeysOf(running[e])
      BY <3>1
    <3>3. PICK a \in running[e] : t = a.key
      BY <3>2 DEF KeysOf
    <3>. QED BY <1>2, <1>4, <3>3
  <2>3. ASSUME NEW t \in Task, NEW x \in retries(t) PROVE x.key = t
    <3>. HIDE DEF rc
    <3>. QED OBVIOUS
  <2>. HIDE DEF retries
  <2>4. ASSUME NEW x \in scheduled' \ scheduled
        PROVE  \E t \in Task : x \in retries(t)
    BY <2>1 DEF Enqueue
  <2>. QED BY <2>2, <2>3, <2>4
<1>7. ASSUME NEW a \in schedQueue, DropSucceeded(a)
      PROVE  \A x \in scheduled' \ scheduled : Deps[x.key] \subseteq DoneKeys
  <2>1. a \in scheduled
    BY DEF DepsInv, Booked, Queued
  <2>2. scheduled' = scheduled \cup NewAttempts({a.key}, DoneKeys, retryCount)
    BY <1>7 DEF DropSucceeded
  <2>. QED BY <1>2, <2>1, <2>2, NewAttemptsReady
<1>8. ASSUME NEW r \in inbox, TaskFailed(r)
      PROVE  \A x \in scheduled' \ scheduled : Deps[x.key] \subseteq DoneKeys
  <2>1. r.msg.work.key \in Task
    BY DEF DepsInv, TypeOK, SchedulerTypeOK, Results, Attempt
  <2>2. Deps[r.msg.work.key] \subseteq DoneKeys
    BY <1>2, <1>8 DEF TaskFailed, Fresh, Foreign
  <2>3. PICK rc : Enqueue(NewAttempts({r.msg.work.key}, DoneKeys, rc))
    BY <1>8 DEF TaskFailed
  <2>. QED BY <2>1, <2>2, <2>3, NewAttemptsReady DEF Enqueue
<1>. QED BY <1>5, <1>6, <1>7, <1>8

\* A success enqueues successors all of whose inputs have succeeded.
LEMMA DepsSucceeded ==
    ASSUME DepsInv, NEW r \in inbox, TaskSucceeded(r)
    PROVE  DependenciesFirst'
<1>. DEFINE t == r.msg.work.key
            done == DoneKeys \cup {t}
<1>1. DoneKeys' = done
    BY SuccessIsNew DEF DepsInv
<1>2. PICK rc : scheduled' = scheduled \cup NewAttempts(Runnable(t, done), done, rc)
    BY DEF TaskSucceeded
<1>3. Runnable(t, done) \subseteq Task /\ \A k \in Runnable(t, done) : Deps[k] \subseteq done
    BY DEF Runnable
<1>. QED BY <1>1, <1>2, <1>3, NewAttemptsReady, ReadyStep DEF DepsInv

\* Every step keeps DependenciesFirst.
LEMMA DepsNext ==
    ASSUME DepsInv, [Next]_vars
    PROVE  DependenciesFirst'
<1>1. CASE UNCHANGED <<scheduled, succeeded>>
    BY <1>1 DEF DepsInv, DependenciesFirst, DoneKeys
<1>2. CASE SchedulerStep
    BY <1>1, <1>2, DepsEnqueue, DepsSucceeded
    DEF SchedulerStep, SchedulerNext, SkipProbes, PushLocal, Dispatch, EndDispatch,
        StopIdleExecutor, KeepWaiting, LeaveLoop, PopResults, EndPop, IgnoreResult,
        EndProcess, Finish, taskVars
<1>3. CASE ExecutorStep \/ LocalStep \/ UNCHANGED vars
    BY <1>1, <1>3 DEF ExecutorStep, LocalStep, vars, schedVars, taskVars
<1>. QED BY <1>2, <1>3 DEF Next, Terminated

\* Only the leaves of the plan are enqueued at first.
LEMMA DepsInit == Init => DependenciesFirst
BY DEF Init, SchedulerInit, DependenciesFirst, DoneKeys, KeysOf

\* No attempt of a task is ever made, queued or run before all of its inputs
\* have succeeded, whatever is retried, speculated or lost.
THEOREM DependenciesFirstCorrect == Spec => []DependenciesFirst
<1>1. Init => PlacesInv /\ DependenciesFirst
    BY TypeInit, PlacesInit, DepsInit DEF PlacesInv
<1>2. PlacesInv /\ DependenciesFirst /\ [Next]_vars => (PlacesInv /\ DependenciesFirst)'
    BY TypeNext, PlacesNext, DepsNext DEF PlacesInv, DepsInv, Known, Booked
<1>. QED BY <1>1, <1>2, PTL DEF Spec

-----------------------------------------------------------------------------
(* Refinement *)

\* The status of the job is decided by the scheduler's last step.
StatusInv == jobStatus = "running" <=> pc # "done"

\* Every step keeps the status consistent with the phase of the loop.
LEMMA StatusNext == StatusInv /\ [Next]_vars => StatusInv'
<1>. SUFFICES ASSUME StatusInv, [Next]_vars PROVE StatusInv'
    OBVIOUS
<1>1. CASE SchedulerStep
    BY <1>1 DEF StatusInv, SchedulerStep, SchedulerNext, SkipProbes, ProbeExecutors,
       UpdateExecutorStates, PushLocal, DropSucceeded, Dispatch, EndDispatch,
       StopIdleExecutor, KeepWaiting, LeaveLoop, PopResults, EndPop, IgnoreResult,
       TaskFailed, TaskSucceeded, NextResult, EndProcess, Finish, StartPop, fabricVars, loopVars
<1>2. CASE ExecutorStep
    BY <1>2 DEF StatusInv, ExecutorStep, ExecutorNext, PopWorks, PopStop, AnswerProbe, AckStop, Crash,
       Quit, WorkerCrash, Report, Collect, fabricVars, schedVars, loopVars
<1>3. CASE LocalStep
    BY <1>3 DEF StatusInv, LocalStep, RunLocal, schedVars, loopVars
<1>4. CASE UNCHANGED vars
    BY <1>4 DEF StatusInv, vars, fabricVars, schedVars, loopVars
<1>. QED BY <1>1, <1>2, <1>3, <1>4 DEF Next, Terminated

JobInv == PlacesInv /\ DependenciesFirst /\ StatusInv

\* The scheduler and its executors implement the abstract job: results take
\* effect one task at a time, once, after their inputs, and before the status
\* is decided, which never changes again.
THEOREM JobImplemented == Spec => ImplementsJob
<1>1. Init => JobInv
    BY TypeInit, PlacesInit, DepsInit
    DEF JobInv, PlacesInv, StatusInv, Init, SchedulerInit, FabricInit
<1>2. JobInv /\ [Next]_vars => JobInv'
    BY TypeNext, PlacesNext, DepsNext, StatusNext DEF JobInv, PlacesInv, DepsInv, Known, Booked
<1>3. Init => J!JobInit
    BY DEF Init, SchedulerInit, FabricInit, DoneKeys, KeysOf, J!JobInit
<1>4. ASSUME JobInv, [Next]_vars PROVE [J!JobNext]_(J!jobVars)
  <2>1. CASE UNCHANGED <<succeeded, jobStatus>>
    BY <2>1 DEF DoneKeys, J!jobVars
  <2>2. ASSUME NEW r \in inbox, TaskSucceeded(r)
        PROVE  J!Complete(r.msg.work.key)
    <3>1. /\ r.msg.work.key \in Task \ DoneKeys
          /\ DoneKeys' = DoneKeys \cup {r.msg.work.key}
        BY <1>4, <2>2, SuccessIsNew DEF JobInv, PlacesInv
    <3>2. jobStatus = "running" /\ UNCHANGED jobStatus
        BY <1>4, <2>2 DEF TaskSucceeded, NextResult, JobInv, StatusInv
    <3>3. Deps[r.msg.work.key] \subseteq DoneKeys
        BY <1>4 DEF JobInv, PlacesInv, Known, DependenciesFirst
    <3>. QED BY <3>1, <3>2, <3>3 DEF J!Complete
  <2>3. ASSUME Finish PROVE J!Decide
    BY <1>4, <2>3 DEF Finish, taskVars, DoneKeys, J!Decide, JobInv, StatusInv
  <2>4. CASE SchedulerStep /\ ~Finish /\ ~(\E r \in inbox : TaskSucceeded(r))
    BY <2>1, <2>4 DEF SchedulerStep, SchedulerNext, SkipProbes, ProbeExecutors,
       UpdateExecutorStates, PushLocal, DropSucceeded, Dispatch, EndDispatch,
       StopIdleExecutor, KeepWaiting, LeaveLoop, PopResults, EndPop, IgnoreResult,
       TaskFailed, EndProcess, fabricVars, taskVars
  <2>5. CASE ExecutorStep \/ LocalStep \/ UNCHANGED vars
    BY <2>1, <2>5 DEF ExecutorStep, ExecutorNext, PopWorks, PopStop, AnswerProbe, AckStop, Crash, Quit,
       WorkerCrash, Report, Collect, LocalStep, RunLocal, vars, fabricVars, schedVars, taskVars
  <2>6. ASSUME NEW r \in inbox, TaskSucceeded(r) PROVE J!JobNext
    BY <1>4, <2>2, <2>6, SuccessIsNew DEF JobInv, PlacesInv, J!JobNext
  <2>7. Finish => J!JobNext
    BY <2>3 DEF J!JobNext
  <2>. QED BY <1>4, <2>4, <2>5, <2>6, <2>7 DEF Next, Terminated, SchedulerStep
<1>. QED BY <1>1, <1>2, <1>3, <1>4, PTL DEF Spec, ImplementsJob, J!JobSpec

-----------------------------------------------------------------------------
(* Stopping executors *)

\* Between the update of the states and the dispatch nobody is asked to stop.
UpdatedInv ==
    pc \in {"local", "dispatch"} => \A e \in available : Good(e) => ~stopSent[e]

\* The scheduler's view of the executors changes in its own steps only.
LEMMA UpdatedNext == TypeOK /\ UpdatedInv /\ [Next]_vars => UpdatedInv'
<1>. SUFFICES ASSUME TypeOK, UpdatedInv, [Next]_vars PROVE UpdatedInv'
    OBVIOUS
<1>1. CASE UpdateExecutorStates
  <2>. SUFFICES ASSUME NEW e \in available', Good(e)' PROVE ~stopSent'[e]
    BY DEF UpdatedInv
  <2>1. e \in available /\ e \in Node /\ stopSent' = stopSent
    BY <1>1 DEF UpdateExecutorStates, TypeOK, SchedulerTypeOK, Node
  <2>2. state'[e] = IF Alive(e) THEN UpdatedState(e) ELSE state[e]
    BY <1>1, <2>1 DEF UpdateExecutorStates
  <2>. QED BY <2>1, <2>2 DEF Good, Alive, Working, UpdatedState
<1>2. CASE SchedulerStep /\ ~UpdateExecutorStates
  <2>1. pc' \in {"local", "dispatch"} =>
            /\ pc \in {"local", "dispatch"}
            /\ UNCHANGED <<available, state, stopSent>>
    BY <1>2 DEF SchedulerStep, SchedulerNext, SkipProbes, ProbeExecutors, PushLocal,
       DropSucceeded, Dispatch, EndDispatch, StopIdleExecutor, KeepWaiting, LeaveLoop,
       StartPop, PopResults, EndPop, IgnoreResult, TaskFailed, TaskSucceeded, NextResult,
       EndProcess, Finish, loopVars, execVars
  <2>. QED BY <2>1 DEF UpdatedInv, Good
<1>3. CASE ExecutorStep \/ LocalStep \/ UNCHANGED vars
    BY <1>3 DEF ExecutorStep, LocalStep, vars, schedVars, loopVars, execVars, UpdatedInv, Good
<1>. QED BY <1>1, <1>2, <1>3 DEF Next, Terminated, SchedulerStep

\* An executor that was asked to stop is never charged with another work,
\* although dispatch_tasks looks at the executor's state only.
THEOREM StopIsLastCorrect == Spec => StopIsLast
<1>1. Init => UpdatedInv
    BY DEF Init, SchedulerInit, UpdatedInv
<1>2. ASSUME TypeOK, UpdatedInv, [Next]_vars, NEW e \in Executor, stopSent[e]
      PROVE  running'[e] \subseteq running[e]
  <2>1. /\ e \in Node /\ e # Local /\ Local \in Node
        /\ running \in [Node -> SUBSET Attempt]
        /\ toPop \subseteq Node /\ available \subseteq Node
    BY <1>2, FabricAssumption DEF TypeOK, SchedulerTypeOK, Node
  <2>2. CASE UNCHANGED running
    BY <2>2
  <2>3. CASE PushLocal
    BY <2>1, <2>3 DEF PushLocal
  <2>4. ASSUME NEW a \in schedQueue, NEW f \in available, Dispatch(a, f)
        PROVE  running'[e] \subseteq running[e]
    <3>1. f # e
        BY <1>2, <2>4 DEF Dispatch, Fits, Usable, GoodExecutors, UpdatedInv
    <3>. QED BY <2>1, <2>4, <3>1 DEF Dispatch
  <2>5. ASSUME NEW f \in toPop, PopResults(f)
        PROVE  running'[e] \subseteq running[e]
    <3>1. PICK over : running' = [running EXCEPT ![f] = {a \in @ : a.key \notin over}]
        BY <2>5 DEF PopResults
    <3>. QED BY <2>1, <3>1
  <2>6. CASE SchedulerStep
    BY <2>2, <2>3, <2>4, <2>5, <2>6
    DEF SchedulerStep, SchedulerNext, SkipProbes, ProbeExecutors, UpdateExecutorStates,
        DropSucceeded, EndDispatch, StopIdleExecutor, KeepWaiting, LeaveLoop, EndPop,
        IgnoreResult, TaskFailed, TaskSucceeded, EndProcess, Finish, execVars
  <2>7. CASE ExecutorStep \/ LocalStep \/ UNCHANGED vars
    BY <2>2, <2>7 DEF ExecutorStep, LocalStep, vars, schedVars, execVars
  <2>. QED BY <1>2, <2>6, <2>7 DEF Next, Terminated
<1>3. TypeOK /\ UpdatedInv /\ [Next]_vars =>
        [\A e \in Executor : stopSent[e] => running'[e] \subseteq running[e]]_vars
    BY <1>2
<1>. QED BY <1>1, <1>3, UpdatedNext, TypeCorrect, PTL DEF Spec, StopIsLast

-----------------------------------------------------------------------------
(* The scheduler's books *)

\* The attempts whose results are popped and not processed.
InboxWorks == {r.msg.work : r \in inbox}

\* Results and successes are of recorded attempts.
Recorded == finished \cup succeeded \subseteq scheduled

\* Every attempt is of the current epoch, and no attempt of an unfinished task is
\* ahead of the task's retry count, so counting a retry makes a new attempt.
RetryBound ==
    \A x \in scheduled :
        /\ x.epoch = schedEpoch
        /\ x.key \notin DoneKeys => x.retry <= retryCount[x.key]

\* The current attempt of a runnable task has been made.
CountsKnown == \A t \in Open : CurrentAttempt(t, retryCount) \in scheduled

\* A local task is retried only when its last attempt was seen to fail.
LocalOnce ==
    \A x \in scheduled \ finished : x.key \in LocalTask =>
        /\ x.key \notin DoneKeys
        /\ \A y \in scheduled \ finished : y.key = x.key => y = x

\* What is queued has not been reported.
QueuedIsNew == Queued \cap (InboxWorks \cup finished) = {}

\* An executor is charged with one attempt of a task at a time, and a remote one
\* with no local task.
RunningKeys ==
    /\ \A e \in Node : \A x, y \in running[e] : x.key = y.key => x = y
    /\ \A e \in Executor : \A x \in running[e] : x.key \notin LocalTask

\* Results are held only while they are popped and processed; a job that is given
\* up leaves the loop when they are.
Phases ==
    /\ inbox # {} => pc \in {"pop", "process"}
    /\ ~schedRunning => pc \in {"process", "exit", "done"}

\* The local executor is stopped by the end of the job only.
LocalGood == schedRunning /\ Root \notin DoneKeys => state[Local] = "GOOD"

Counts == Recorded /\ RetryBound /\ CountsKnown
Books  == /\ Counts /\ LocalOnce /\ QueuedIsNew /\ RunningKeys /\ Phases /\ LocalGood
          /\ LocalAlive

BooksInv == PlacesInv /\ DependenciesFirst /\ Books

-----------------------------------------------------------------------------
(* What try_enqueue and get_retry_task make *)

\* try_enqueue of tasks that have not succeeded looks at no other task.
LEMMA ReachedSelf ==
    ASSUME NEW K, NEW done, K \subseteq Task, K \cap done = {}
    PROVE  Reached(K, done) = K
BY DEF Reached

\* So it makes their current attempts.
LEMMA NewAttemptsOf ==
    ASSUME NEW K, NEW done, NEW rc, K \subseteq Task, K \cap done = {}
    PROVE  NewAttempts(K, done, rc) = {CurrentAttempt(k, rc) : k \in K} \ scheduled
<1>1. Reached(K, done) \ done = K
    BY ReachedSelf
<1>. QED BY <1>1 DEF NewAttempts

\* The attempts that get_retry_task makes until the retry counts are rc.
LEMMA RetriesMembers ==
    ASSUME TypeOK, NEW rc \in [Task -> Nat], NEW x
    PROVE  x \in Retries(rc) <=>
                /\ x \in Attempt
                /\ x.epoch = schedEpoch
                /\ retryCount[x.key] < x.retry /\ x.retry <= rc[x.key]
<1>1. schedEpoch \in Nat /\ retryCount \in [Task -> Nat]
    BY DEF TypeOK, SchedulerTypeOK
<1>2. ASSUME x \in Retries(rc)
      PROVE  /\ x \in Attempt /\ x.epoch = schedEpoch
             /\ retryCount[x.key] < x.retry /\ x.retry <= rc[x.key]
  <2>1. PICK t \in Task : x \in {[key |-> t, epoch |-> schedEpoch, retry |-> n] :
                                    n \in retryCount[t] + 1 .. rc[t]}
    BY <1>2, Zenon DEF Retries
  <2>. QED BY <1>1, <2>1 DEF Attempt
<1>3. ASSUME x \in Attempt, x.epoch = schedEpoch,
             retryCount[x.key] < x.retry, x.retry <= rc[x.key]
      PROVE  x \in Retries(rc)
  <2>1. /\ x.key \in Task
        /\ x.retry \in retryCount[x.key] + 1 .. rc[x.key]
        /\ x = [key |-> x.key, epoch |-> schedEpoch, retry |-> x.retry]
    BY <1>1, <1>3 DEF Attempt
  <2>2. x \in {[key |-> x.key, epoch |-> schedEpoch, retry |-> n] :
                   n \in retryCount[x.key] + 1 .. rc[x.key]}
    BY <2>1
  <2>. QED BY <2>1, <2>2, Zenon DEF Retries
<1>. QED BY <1>2, <1>3

\* A step of the retry counts to rc, none of them of a task that has succeeded.
RetriesTo(rc) ==
    /\ rc \in [Task -> Nat] /\ retryCount' = rc
    /\ \A t \in Task : rc[t] >= retryCount[t]
    /\ \A t \in DoneKeys : rc[t] = retryCount[t]
    /\ scheduled' = scheduled \cup Retries(rc)
    /\ UNCHANGED <<schedEpoch, succeeded>>

\* Retries are new attempts, and the counts stay those of the last ones.
LEMMA RetryStep ==
    ASSUME BooksInv, NEW rc, RetriesTo(rc), finished' \subseteq scheduled
    PROVE  /\ Retries(rc) \cap scheduled = {}
           /\ \A t \in Task : rc[t] # retryCount[t] => CurrentAttempt(t, rc) \in Retries(rc)
           /\ Counts'
<1>1. /\ TypeOK /\ schedEpoch \in Nat
      /\ retryCount \in [Task -> Nat] /\ rc \in [Task -> Nat]
      /\ scheduled \subseteq Attempt
      /\ DoneKeys' = DoneKeys /\ Open' = Open
    BY DEF BooksInv, PlacesInv, TypeOK, SchedulerTypeOK, RetriesTo, DoneKeys, Open
<1>2. ASSUME NEW x \in Retries(rc) PROVE x \notin scheduled
  <2>1. x \in Attempt /\ retryCount[x.key] < x.retry /\ x.retry <= rc[x.key]
    BY <1>1, RetriesMembers
  <2>2. x.key \in Task /\ x.retry \in Nat
    BY <2>1 DEF Attempt
  <2>3. x.key \notin DoneKeys
    BY <1>1, <2>1, <2>2 DEF RetriesTo
  <2>. QED BY <1>1, <2>1, <2>2, <2>3 DEF BooksInv, Books, Counts, RetryBound
<1>3. ASSUME NEW t \in Task, rc[t] # retryCount[t] PROVE CurrentAttempt(t, rc) \in Retries(rc)
  <2>1. /\ CurrentAttempt(t, rc) \in Attempt
        /\ CurrentAttempt(t, rc).key = t
        /\ CurrentAttempt(t, rc).epoch = schedEpoch
        /\ CurrentAttempt(t, rc).retry = rc[t]
    BY <1>1 DEF CurrentAttempt, Attempt
  <2>2. retryCount[t] < rc[t]
    BY <1>1, <1>3 DEF RetriesTo
  <2>. QED BY <1>1, <2>1, <2>2, RetriesMembers
<1>4. RetryBound'
  <2>. SUFFICES ASSUME NEW x \in scheduled'
                PROVE  /\ x.epoch = schedEpoch'
                       /\ x.key \notin DoneKeys => x.retry <= rc[x.key]
    BY <1>1 DEF RetryBound, RetriesTo
  <2>1. CASE x \in scheduled
    <3>1. x.key \in Task /\ x.retry \in Nat
        BY <1>1, <2>1 DEF Attempt
    <3>2. rc[x.key] >= retryCount[x.key]
        BY <3>1 DEF RetriesTo
    <3>. QED BY <1>1, <2>1, <3>1, <3>2 DEF BooksInv, Books, Counts, RetryBound, RetriesTo
  <2>2. CASE x \in Retries(rc)
    BY <1>1, <2>2, RetriesMembers DEF RetriesTo
  <2>. QED BY <2>1, <2>2 DEF RetriesTo
<1>5. CountsKnown'
  <2>. SUFFICES ASSUME NEW t \in Open PROVE CurrentAttempt(t, rc) \in scheduled'
    BY <1>1 DEF CountsKnown, RetriesTo, CurrentAttempt
  <2>1. CASE rc[t] = retryCount[t]
    <3>1. CurrentAttempt(t, rc) = CurrentAttempt(t, retryCount)
        BY <2>1 DEF CurrentAttempt
    <3>. QED BY <3>1 DEF BooksInv, Books, Counts, CountsKnown, RetriesTo
  <2>2. CASE rc[t] # retryCount[t]
    BY <1>3, <2>2 DEF Open, RetriesTo
  <2>. QED BY <2>1, <2>2
<1>6. Recorded'
    BY DEF RetriesTo, BooksInv, Books, Counts, Recorded
<1>. QED BY <1>2, <1>3, <1>4, <1>5, <1>6 DEF Counts

\* The root succeeds last: all inputs of a task succeed before it is scheduled.
LEMMA RootLast ==
    ASSUME TypeOK, DependenciesFirst, Recorded, Root \in DoneKeys
    PROVE  DoneKeys = Task
<1>1. DoneKeys \subseteq Task
    BY DEF TypeOK, SchedulerTypeOK, DoneKeys, KeysOf, Attempt
<1>2. \A t \in DoneKeys : Deps[t] \subseteq DoneKeys
    BY DEF DependenciesFirst, Recorded, DoneKeys, KeysOf
<1>. QED BY <1>1, <1>2, PlanAssumption

-----------------------------------------------------------------------------
(* Every step keeps the books *)

\* A step that leaves them alone.
LEMMA BooksSame ==
    ASSUME BooksInv, UNCHANGED <<schedEpoch, taskVars, queueVars, running, inbox>>
    PROVE  Counts' /\ LocalOnce' /\ QueuedIsNew' /\ RunningKeys'
BY DEF BooksInv, Books, Counts, Recorded, RetryBound, CountsKnown, Open, CurrentAttempt,
   LocalOnce, QueuedIsNew, Queued, InboxWorks, RunningKeys, DoneKeys, taskVars, queueVars

\* The local executor is there for what is queued for it.
LEMMA LocalQueueServed ==
    ASSUME BooksInv, pc = "local", localQueue # {}
    PROVE  Alive(Local)
<1>1. schedRunning
    BY DEF BooksInv, Books, Phases
<1>2. CASE Root \notin DoneKeys
    BY <1>1, <1>2 DEF BooksInv, Books, LocalGood, Alive, Working
<1>3. CASE Root \in DoneKeys
  <2>1. DoneKeys = Task
    BY <1>3, RootLast DEF BooksInv, PlacesInv, Books, Counts
  <2>2. PICK x \in localQueue : TRUE
    OBVIOUS
  <2>3. x \in Queued /\ x.key \in LocalTask /\ x \in scheduled /\ x \notin finished
    BY <2>2 DEF BooksInv, PlacesInv, QueuesSplit, Known, Queued, Books, QueuedIsNew
  <2>4. x.key \notin DoneKeys
    BY <2>3 DEF BooksInv, Books, LocalOnce
  <2>. QED BY <2>1, <2>3, <2>4, GraphAssumption
<1>. QED BY <1>2, <1>3

\* The loop's phases, and the local executor in them.
LEMMA PhasesNext ==
    ASSUME BooksInv, SchedulerStep
    PROVE  Phases' /\ LocalGood' /\ LocalAlive'
<1>. USE DEF Phases, LocalGood, LocalAlive, DoneKeys
<1>1. /\ Phases /\ LocalGood /\ LocalAlive
      /\ available \subseteq Executor /\ Local \notin Executor /\ Local \in Node
      /\ state \in [Node -> {"GOOD", "FAIL", "RESOURCE_LOW", "STOPPING", "STOPPED"}]
      /\ schedRunning \in BOOLEAN
    BY FabricAssumption DEF BooksInv, PlacesInv, TypeOK, SchedulerTypeOK, Books, Node
<1>2. CASE SkipProbes
    BY <1>1, <1>2 DEF SkipProbes, taskVars, execVars, popVars
<1>3. CASE ProbeExecutors
    BY <1>1, <1>3 DEF ProbeExecutors, popVars
<1>4. CASE UpdateExecutorStates
  <2>1. state'[Local] = state[Local]
    BY <1>1, <1>4 DEF UpdateExecutorStates
  <2>. QED BY <1>1, <1>4, <2>1 DEF UpdateExecutorStates, popVars
<1>5. CASE PushLocal
  <2>1. localQueue # {} => Alive(Local)
    BY <1>5, LocalQueueServed DEF PushLocal
  <2>. QED BY <1>1, <1>5, <2>1 DEF PushLocal, taskVars, popVars
<1>6. ASSUME NEW a \in schedQueue, DropSucceeded(a) PROVE Phases' /\ LocalGood' /\ LocalAlive'
    BY <1>1, <1>6 DEF DropSucceeded, loopVars, execVars, popVars
<1>7. ASSUME NEW a \in schedQueue, NEW e \in available, Dispatch(a, e)
      PROVE  Phases' /\ LocalGood' /\ LocalAlive'
    BY <1>1, <1>7 DEF Dispatch, loopVars, taskVars, popVars
<1>8. CASE EndDispatch
    BY <1>1, <1>8 DEF EndDispatch, taskVars, popVars
<1>9. CASE KeepWaiting \/ LeaveLoop \/ \E e \in available : StopIdleExecutor(e)
    BY <1>1, <1>9 DEF KeepWaiting, LeaveLoop, StopIdleExecutor, StartPop, taskVars, execVars, popVars
<1>10. ASSUME NEW e \in toPop, PopResults(e) PROVE Phases' /\ LocalGood' /\ LocalAlive'
    BY <1>1, <1>10 DEF PopResults, loopVars, taskVars
<1>11. CASE EndPop
    BY <1>1, <1>11 DEF EndPop, taskVars, execVars, popVars
<1>12. ASSUME NEW r \in inbox, IgnoreResult(r) PROVE Phases' /\ LocalGood' /\ LocalAlive'
    BY <1>1, <1>12 DEF IgnoreResult, NextResult, loopVars, execVars
<1>13. ASSUME NEW r \in inbox, TaskFailed(r) PROVE Phases' /\ LocalGood' /\ LocalAlive'
    BY <1>1, <1>13 DEF TaskFailed, NextResult, StopAll
<1>14. ASSUME NEW r \in inbox, TaskSucceeded(r) PROVE Phases' /\ LocalGood' /\ LocalAlive'
  <2>1. DoneKeys \subseteq DoneKeys' /\ r.msg.work.key \in DoneKeys'
    BY <1>14 DEF TaskSucceeded, KeysOf
  <2>2. r.msg.work.key # Root => state' = state
    BY <1>1, <1>14 DEF TaskSucceeded
  <2>. QED BY <1>1, <1>14, <2>1, <2>2 DEF TaskSucceeded, NextResult, loopVars
<1>15. CASE EndProcess
    BY <1>1, <1>15 DEF EndProcess, taskVars, execVars, popVars
<1>16. CASE Finish
    BY <1>1, <1>16 DEF Finish, popVars
<1>. QED BY <1>2, <1>3, <1>4, <1>5, <1>6, <1>7, <1>8, <1>9, <1>10, <1>11, <1>12, <1>13,
            <1>14, <1>15, <1>16 DEF SchedulerStep, SchedulerNext

\* try_enqueue of tasks that have not succeeded, each retried once more, makes
\* their retries.
LEMMA OneRetry ==
    ASSUME TypeOK, RetryBound, NEW S, S \subseteq Task, S \cap DoneKeys = {},
           NEW rc \in [Task -> Nat],
           \A t \in Task : rc[t] = IF t \in S THEN retryCount[t] + 1 ELSE retryCount[t]
    PROVE  NewAttempts(S, DoneKeys, rc) = Retries(rc)
<1>1. /\ schedEpoch \in Nat /\ retryCount \in [Task -> Nat]
      /\ scheduled \subseteq Attempt
    BY DEF TypeOK, SchedulerTypeOK
<1>2. NewAttempts(S, DoneKeys, rc) = {CurrentAttempt(t, rc) : t \in S} \ scheduled
    BY NewAttemptsOf
<1>3. ASSUME NEW x \in Retries(rc) PROVE x \in {CurrentAttempt(t, rc) : t \in S} \ scheduled
  <2>1. /\ x \in Attempt /\ x.epoch = schedEpoch
        /\ retryCount[x.key] < x.retry /\ x.retry <= rc[x.key]
    BY RetriesMembers
  <2>2. x.key \in S /\ x.retry = rc[x.key]
    BY <1>1, <2>1 DEF Attempt
  <2>3. x = CurrentAttempt(x.key, rc)
    BY <2>1, <2>2 DEF Attempt, CurrentAttempt
  <2>4. x \notin scheduled
    BY <1>1, <2>1, <2>2 DEF RetryBound, Attempt
  <2>. QED BY <2>2, <2>3, <2>4
<1>4. ASSUME NEW t \in S PROVE CurrentAttempt(t, rc) \in Retries(rc)
  <2>1. t \in Task /\ rc[t] = retryCount[t] + 1 /\ retryCount[t] \in Nat
    BY <1>1
  <2>2. CurrentAttempt(t, rc) = [key |-> t, epoch |-> schedEpoch, retry |-> rc[t]]
    BY DEF CurrentAttempt
  <2>. QED BY <1>1, <2>1, <2>2, RetriesMembers DEF Attempt
<1>. QED BY <1>2, <1>3, <1>4

\* A retry of each task of S, none of which has succeeded.
LEMMA OneRetryTo ==
    ASSUME BooksInv, NEW S, S \subseteq Task, S \cap DoneKeys = {},
           NEW rc \in [Task -> Nat],
           \A t \in Task : rc[t] = IF t \in S THEN retryCount[t] + 1 ELSE retryCount[t],
           retryCount' = rc, Enqueue(NewAttempts(S, DoneKeys, rc)),
           UNCHANGED <<schedEpoch, succeeded>>
    PROVE  RetriesTo(rc) /\ Enqueue(Retries(rc))
<1>1. TypeOK /\ retryCount \in [Task -> Nat] /\ DoneKeys \subseteq Task
    BY DEF BooksInv, PlacesInv, TypeOK, SchedulerTypeOK, DoneKeys, KeysOf, Attempt
<1>2. Enqueue(Retries(rc))
    BY <1>1, OneRetry DEF BooksInv, Books, Counts
<1>3. \A t \in Task : rc[t] >= retryCount[t]
    BY <1>1
<1>4. \A t \in DoneKeys : rc[t] = retryCount[t]
    BY <1>1
<1>. QED BY <1>2, <1>3, <1>4 DEF RetriesTo, Enqueue

\* start_speculative_execution counts a retry of each slow task.
LEMMA ProbeRetries ==
    ASSUME BooksInv, ProbeExecutors
    PROVE  \E rc :
            /\ RetriesTo(rc) /\ Enqueue(Retries(rc))
            /\ \A t \in Task : rc[t] # retryCount[t] => t \notin LocalTask
<1>1. PICK slow \in SUBSET KeysOf(Slow) :
        LET rc == [t \in Task |-> retryCount[t] + (IF t \in slow THEN 1 ELSE 0)]
        IN  retryCount' = rc /\ Enqueue(NewAttempts(slow, DoneKeys, rc))
    BY DEF ProbeExecutors
<1>. DEFINE rc == [t \in Task |-> retryCount[t] + (IF t \in slow THEN 1 ELSE 0)]
<1>2. retryCount \in [Task -> Nat]
    BY DEF BooksInv, PlacesInv, TypeOK, SchedulerTypeOK
<1>3. slow \subseteq Task \ LocalTask /\ slow \cap DoneKeys = {}
    BY <1>1, SchedulerAssumption DEF KeysOf, Slow
<1>4. /\ rc \in [Task -> Nat]
      /\ \A t \in Task : rc[t] = IF t \in slow THEN retryCount[t] + 1 ELSE retryCount[t]
    BY <1>2
<1>5. /\ retryCount' = rc /\ Enqueue(NewAttempts(slow, DoneKeys, rc))
      /\ UNCHANGED <<schedEpoch, succeeded>>
    BY <1>1 DEF ProbeExecutors
<1>. HIDE DEF rc
<1>. QED BY <1>3, <1>4, <1>5, OneRetryTo

\* process_finished_tasks counts a retry of the task that failed.
LEMMA FailedRetries ==
    ASSUME BooksInv, NEW r \in inbox, TaskFailed(r)
    PROVE  \E rc :
            /\ RetriesTo(rc) /\ Enqueue(Retries(rc))
            /\ \A t \in Task : rc[t] # retryCount[t] <=> t = r.msg.work.key
            /\ rc[r.msg.work.key] = retryCount[r.msg.work.key] + 1
<1>. DEFINE t == r.msg.work.key
            rc == [retryCount EXCEPT ![t] = @ + 1]
<1>1. /\ retryCount \in [Task -> Nat]
      /\ t \in Task /\ t \notin DoneKeys
    BY DEF BooksInv, PlacesInv, TypeOK, SchedulerTypeOK, Results, Attempt, TaskFailed, Fresh
<1>2. /\ rc \in [Task -> Nat]
      /\ \A u \in Task : rc[u] = IF u \in {t} THEN retryCount[u] + 1 ELSE retryCount[u]
    BY <1>1
<1>3. /\ retryCount' = rc /\ Enqueue(NewAttempts({t}, DoneKeys, rc))
      /\ UNCHANGED <<schedEpoch, succeeded>>
    BY DEF TaskFailed
<1>. HIDE DEF rc
<1>4. RetriesTo(rc) /\ Enqueue(Retries(rc))
    BY <1>1, <1>2, <1>3, OneRetryTo
<1>. QED BY <1>1, <1>2, <1>4

\* update_executor_states counts retries of what runs on executors given up, and
\* at least one of each such task.
LEMMA UpdateRetries ==
    ASSUME BooksInv, UpdateExecutorStates
    PROVE  \E rc :
            /\ RetriesTo(rc) /\ Enqueue(Retries(rc))
            /\ \A t \in Task : rc[t] # retryCount[t] => t \notin LocalTask
            /\ \A e \in available : Alive(e) /\ UpdatedState(e) = "FAIL" =>
                \A t \in KeysOf(running[e]) \ DoneKeys : rc[t] # retryCount[t]
<1>. DEFINE alive  == {e \in available : Alive(e)}
            failed == {e \in alive : UpdatedState(e) = "FAIL"}
            losers(t) == {e \in failed : t \in KeysOf(running[e]) \ DoneKeys}
            rc == [t \in Task |-> retryCount[t] + Cardinality(losers(t))]
<1>1. /\ TypeOK /\ retryCount \in [Task -> Nat] /\ available \subseteq Executor
      /\ running \in [Node -> SUBSET Attempt] /\ DoneKeys \subseteq Task
      /\ Executor \subseteq Node
    BY DEF BooksInv, PlacesInv, TypeOK, SchedulerTypeOK, DoneKeys, KeysOf, Attempt, Node
<1>2. /\ retryCount' = rc /\ Enqueue(Retries(rc) \ scheduled)
      /\ UNCHANGED <<schedEpoch, succeeded, finished>>
    BY DEF UpdateExecutorStates
<1>3. ASSUME NEW t \in Task
      PROVE  /\ Cardinality(losers(t)) \in Nat
             /\ Cardinality(losers(t)) = 0 <=> losers(t) = {}
  <2>1. losers(t) \in SUBSET Executor
    BY <1>1
  <2>. QED BY <2>1, FabricAssumption, FS_Subset, FS_CardinalityType, FS_EmptySet
<1>4. /\ rc \in [Task -> Nat]
      /\ \A t \in Task : rc[t] >= retryCount[t]
      /\ \A t \in Task : rc[t] # retryCount[t] <=> losers(t) # {}
  <2>. HIDE DEF losers
  <2>. QED BY <1>1, <1>3
<1>5. \A t \in DoneKeys : losers(t) = {}
    OBVIOUS
<1>6. ASSUME NEW t \in Task, losers(t) # {} PROVE t \notin LocalTask
    BY <1>1, <1>6 DEF KeysOf, BooksInv, Books, RunningKeys
<1>7. ASSUME NEW e \in available, Alive(e), UpdatedState(e) = "FAIL",
             NEW t \in KeysOf(running[e]) \ DoneKeys
      PROVE  losers(t) # {} /\ t \in Task
    BY <1>1, <1>7 DEF KeysOf, Attempt
<1>. HIDE DEF losers, rc
<1>8. RetriesTo(rc)
    BY <1>1, <1>2, <1>4, <1>5 DEF RetriesTo, Enqueue
<1>9. Retries(rc) \ scheduled = Retries(rc)
    BY <1>2, <1>8, RetryStep DEF BooksInv, Books, Counts, Recorded
<1>. QED BY <1>2, <1>4, <1>6, <1>7, <1>8, <1>9

\* An attempt enqueued for the first time has not been reported.
LEMMA QueuedGrow ==
    ASSUME BooksInv, NEW new, new \cap scheduled = {}, Queued' \subseteq Queued \cup new,
           InboxWorks' \cup finished' \subseteq InboxWorks \cup finished
    PROVE  QueuedIsNew'
<1>1. InboxWorks \cup finished \subseteq scheduled
    BY DEF BooksInv, PlacesInv, Known, InboxWorks, Books, Counts, Recorded
<1>. QED BY <1>1 DEF BooksInv, Books, QueuedIsNew

\* A local task is only retried when no attempt of it is left.
LEMMA RetriedOnce ==
    ASSUME BooksInv, NEW rc, RetriesTo(rc), finished \subseteq finished',
           \A t \in LocalTask : rc[t] # retryCount[t] =>
                /\ rc[t] = retryCount[t] + 1
                /\ \A y \in scheduled \ finished' : y.key # t
    PROVE  LocalOnce'
<1>1. /\ TypeOK /\ retryCount \in [Task -> Nat] /\ rc \in [Task -> Nat]
      /\ DoneKeys' = DoneKeys /\ scheduled' = scheduled \cup Retries(rc)
      /\ LocalTask \subseteq Task
    BY GraphAssumption
    DEF BooksInv, PlacesInv, TypeOK, SchedulerTypeOK, RetriesTo, DoneKeys
<1>2. ASSUME NEW x \in Retries(rc), x.key \in LocalTask
      PROVE  /\ x.key \notin DoneKeys
             /\ \A y \in scheduled \ finished' : y.key # x.key
             /\ x = CurrentAttempt(x.key, rc)
  <2>1. /\ x \in Attempt /\ x.epoch = schedEpoch
        /\ retryCount[x.key] < x.retry /\ x.retry <= rc[x.key]
    BY <1>1, RetriesMembers
  <2>2. rc[x.key] # retryCount[x.key]
    BY <1>1, <2>1 DEF Attempt
  <2>3. x.retry = rc[x.key]
    BY <1>1, <1>2, <2>1, <2>2 DEF Attempt
  <2>. QED BY <1>2, <2>1, <2>2, <2>3 DEF RetriesTo, CurrentAttempt, Attempt
<1>3. ASSUME NEW x \in scheduled \ finished', x.key \in LocalTask
      PROVE  /\ x.key \notin DoneKeys
             /\ \A y \in scheduled \ finished' : y.key = x.key => y = x
    BY <1>3 DEF BooksInv, Books, LocalOnce
<1>. QED BY <1>1, <1>2, <1>3 DEF LocalOnce

\* The books after a step that retries tasks and processes no result.
LEMMA BooksRetry ==
    ASSUME BooksInv, NEW rc, RetriesTo(rc), Enqueue(Retries(rc)),
           \A t \in Task : rc[t] # retryCount[t] => t \notin LocalTask,
           UNCHANGED <<finished, inbox, running>>
    PROVE  Counts' /\ LocalOnce' /\ QueuedIsNew' /\ RunningKeys'
<1>1. finished \subseteq scheduled
    BY DEF BooksInv, Books, Counts, Recorded
<1>2. Counts' /\ Retries(rc) \cap scheduled = {}
    BY <1>1, RetryStep
<1>3. LocalOnce'
    BY RetriedOnce, GraphAssumption
<1>4. Queued' \subseteq Queued \cup Retries(rc)
    BY DEF Enqueue, Queued, RemoteOf, LocalOf
<1>5. QueuedIsNew'
    BY <1>2, <1>4, QueuedGrow DEF InboxWorks
<1>6. RunningKeys'
    BY DEF BooksInv, Books, RunningKeys
<1>. QED BY <1>2, <1>3, <1>5, <1>6

\* The result r leaves the inbox for the finished works, if it was not foreign.
LEMMA ProcessedWorks ==
    ASSUME TypeOK, NEW r \in inbox, IgnoreResult(r) \/ TaskFailed(r) \/ TaskSucceeded(r)
    PROVE  /\ InboxWorks' \cup finished' \subseteq InboxWorks \cup finished
           /\ finished \subseteq finished'
           /\ ~IgnoreResult(r) => finished' = finished \cup {r.msg.work}
<1>1. inbox' \subseteq inbox
    BY DEF IgnoreResult, TaskFailed, TaskSucceeded, NextResult
<1>2. finished' \in {finished, finished \cup {r.msg.work}}
    BY DEF IgnoreResult, TaskFailed, TaskSucceeded
<1>. QED BY <1>1, <1>2 DEF InboxWorks, TaskFailed, TaskSucceeded

\* A failure is processed.
LEMMA BooksFailed ==
    ASSUME BooksInv, NEW r \in inbox, TaskFailed(r)
    PROVE  Counts' /\ LocalOnce' /\ QueuedIsNew' /\ RunningKeys'
<1>. DEFINE a == r.msg.work
<1>1. PICK rc : /\ RetriesTo(rc) /\ Enqueue(Retries(rc))
                /\ \A t \in Task : rc[t] # retryCount[t] <=> t = a.key
                /\ rc[a.key] = retryCount[a.key] + 1
    BY FailedRetries
<1>2. /\ InboxWorks' \cup finished' \subseteq InboxWorks \cup finished
      /\ finished' = finished \cup {a}
    BY ProcessedWorks DEF BooksInv, PlacesInv, TaskFailed, IgnoreResult, Fresh
<1>3. a \in scheduled \ finished
    BY DEF BooksInv, PlacesInv, Known, TaskFailed, Fresh
<1>4. finished' \subseteq scheduled
    BY <1>2, <1>3 DEF BooksInv, Books, Counts, Recorded
<1>5. Counts' /\ Retries(rc) \cap scheduled = {}
    BY <1>1, <1>4, RetryStep
<1>6. a.key \in LocalTask => \A y \in scheduled \ finished' : y.key # a.key
    BY <1>2, <1>3 DEF BooksInv, Books, LocalOnce
<1>7. LocalOnce'
    BY <1>1, <1>2, <1>6, RetriedOnce, GraphAssumption
<1>8. Queued' \subseteq Queued \cup Retries(rc)
    BY <1>1 DEF Enqueue, Queued, RemoteOf, LocalOf
<1>9. QueuedIsNew'
    BY <1>2, <1>5, <1>8, QueuedGrow
<1>10. RunningKeys'
    BY DEF TaskFailed, BooksInv, Books, RunningKeys
<1>. QED BY <1>5, <1>7, <1>9, <1>10

\* The attempts made for a success: of tasks of which it was the last input, and
\* which had none.
LEMMA SuccessNew ==
    ASSUME BooksInv, NEW r \in inbox, TaskSucceeded(r)
    PROVE  \E new, rc :
            /\ rc \in [Task -> Nat] /\ retryCount' = rc
            /\ \A t \in Task \ DoneKeys' : rc[t] = retryCount[t]
            /\ new \cap scheduled = {} /\ scheduled' = scheduled \cup new
            /\ schedQueue' = IF r.msg.work.key = Root THEN {} ELSE schedQueue \cup RemoteOf(new)
            /\ localQueue' = localQueue \cup LocalOf(new)
            /\ \A x \in new :
                /\ x = CurrentAttempt(x.key, rc)
                /\ x.key \in Task \ DoneKeys'
                /\ ~(Deps[x.key] \subseteq DoneKeys)
            /\ \A t \in Open' : ~(Deps[t] \subseteq DoneKeys) => CurrentAttempt(t, rc) \in new
<1>. DEFINE a == r.msg.work
            done == DoneKeys \cup {a.key}
            rc == [retryCount EXCEPT ![a.key] = a.retry]
            new == NewAttempts(Runnable(a.key, done), done, rc)
<1>1. /\ retryCount \in [Task -> Nat] /\ schedEpoch \in Nat
      /\ a \in Attempt /\ a.key \in Task \ DoneKeys /\ DoneKeys' = done
    BY SuccessIsNew DEF BooksInv, PlacesInv, TypeOK, SchedulerTypeOK
<1>2. /\ retryCount' = rc
      /\ scheduled' = scheduled \cup new
      /\ schedQueue' = IF a.key = Root THEN {} ELSE schedQueue \cup RemoteOf(new)
      /\ localQueue' = localQueue \cup LocalOf(new)
    BY DEF TaskSucceeded
<1>3. /\ rc \in [Task -> Nat]
      /\ \A t \in Task \ done : rc[t] = retryCount[t]
    BY <1>1 DEF Attempt
<1>4. Runnable(a.key, done) \subseteq Task /\ \A k \in Runnable(a.key, done) : Deps[k] \subseteq done
    BY DEF Runnable
<1>. HIDE DEF rc
<1>5. new \cap scheduled = {}
    BY NewAttemptsAreNew
<1>6. ASSUME NEW x \in new
      PROVE  /\ x = CurrentAttempt(x.key, rc)
             /\ x.key \in Task \ done
             /\ Deps[x.key] \subseteq done
  <2>1. Deps[x.key] \subseteq done
    BY <1>4, NewAttemptsReady
  <2>2. Reached(Runnable(a.key, done), done) \subseteq Task
    BY DEF Reached
  <2>3. PICK k \in Reached(Runnable(a.key, done), done) \ done : x = CurrentAttempt(k, rc)
    BY DEF NewAttempts
  <2>. QED BY <2>1, <2>2, <2>3 DEF CurrentAttempt
<1>7. ASSUME NEW x \in new PROVE ~(Deps[x.key] \subseteq DoneKeys)
  <2>. SUFFICES ASSUME Deps[x.key] \subseteq DoneKeys PROVE FALSE
    OBVIOUS
  <2>1. x.key \in Open
    BY <1>6 DEF Open
  <2>2. CurrentAttempt(x.key, retryCount) \in scheduled
    BY <2>1 DEF BooksInv, Books, Counts, CountsKnown
  <2>3. CurrentAttempt(x.key, retryCount) = CurrentAttempt(x.key, rc)
    BY <1>3, <1>6 DEF CurrentAttempt
  <2>. QED BY <1>5, <1>6, <2>2, <2>3
<1>8. ASSUME NEW t \in Open', ~(Deps[t] \subseteq DoneKeys)
      PROVE  CurrentAttempt(t, rc) \in new
  <2>1. t \in Task \ done /\ Deps[t] \subseteq done
    BY <1>1 DEF Open
  <2>2. t \in Runnable(a.key, done)
    BY <1>8, <2>1 DEF Runnable
  <2>3. t \in Reached(Runnable(a.key, done), done) \ done
    BY <2>1, <2>2 DEF Reached
  <2>4. CurrentAttempt(t, rc) \notin scheduled
    BY <1>8 DEF BooksInv, DependenciesFirst, CurrentAttempt
  <2>. QED BY <2>3, <2>4 DEF NewAttempts
<1>. HIDE DEF new
<1>. QED BY <1>1, <1>2, <1>3, <1>5, <1>6, <1>7, <1>8

\* A success is processed.
LEMMA BooksSucceeded ==
    ASSUME BooksInv, NEW r \in inbox, TaskSucceeded(r)
    PROVE  Counts' /\ LocalOnce' /\ QueuedIsNew' /\ RunningKeys'
<1>. DEFINE a == r.msg.work
<1>1. PICK new, rc :
        /\ rc \in [Task -> Nat] /\ retryCount' = rc
        /\ \A t \in Task \ DoneKeys' : rc[t] = retryCount[t]
        /\ new \cap scheduled = {} /\ scheduled' = scheduled \cup new
        /\ schedQueue' = IF a.key = Root THEN {} ELSE schedQueue \cup RemoteOf(new)
        /\ localQueue' = localQueue \cup LocalOf(new)
        /\ \A x \in new :
            /\ x = CurrentAttempt(x.key, rc)
            /\ x.key \in Task \ DoneKeys'
            /\ ~(Deps[x.key] \subseteq DoneKeys)
        /\ \A t \in Open' : ~(Deps[t] \subseteq DoneKeys) => CurrentAttempt(t, rc) \in new
    BY SuccessNew
<1>2. /\ InboxWorks' \cup finished' \subseteq InboxWorks \cup finished
      /\ finished' = finished \cup {a}
    BY ProcessedWorks DEF BooksInv, PlacesInv, TaskSucceeded, IgnoreResult, Fresh
<1>3. /\ a \in scheduled \ finished /\ a.key \notin DoneKeys
      /\ succeeded' = succeeded \cup {a} /\ DoneKeys' = DoneKeys \cup {a.key}
      /\ schedEpoch' = schedEpoch /\ retryCount \in [Task -> Nat]
      /\ scheduled \subseteq Attempt
    BY SuccessIsNew
    DEF BooksInv, PlacesInv, TypeOK, SchedulerTypeOK, Known, TaskSucceeded, Fresh, loopVars
<1>4. Recorded'
    BY <1>1, <1>2, <1>3 DEF BooksInv, Books, Counts, Recorded
<1>5. RetryBound'
  <2>. SUFFICES ASSUME NEW x \in scheduled'
                PROVE  /\ x.epoch = schedEpoch
                       /\ x.key \notin DoneKeys' => x.retry <= rc[x.key]
    BY <1>1, <1>3 DEF RetryBound
  <2>1. CASE x \in scheduled
    <3>1. /\ x.epoch = schedEpoch
          /\ x.key \notin DoneKeys => x.retry <= retryCount[x.key]
        BY <2>1 DEF BooksInv, Books, Counts, RetryBound
    <3>2. x.key \in Task
        BY <1>3, <2>1 DEF Attempt
    <3>. QED BY <1>1, <1>3, <3>1, <3>2
  <2>2. CASE x \in new
    <3>1. x.epoch = schedEpoch /\ x.retry = rc[x.key]
        BY <1>1, <2>2 DEF CurrentAttempt
    <3>2. rc[x.key] \in Nat
        BY <1>1, <2>2
    <3>. QED BY <3>1, <3>2
  <2>. QED BY <1>1, <2>1, <2>2
<1>6. CountsKnown'
  <2>. SUFFICES ASSUME NEW t \in Open' PROVE CurrentAttempt(t, rc) \in scheduled'
    BY <1>1, <1>3 DEF CountsKnown, CurrentAttempt
  <2>1. CASE Deps[t] \subseteq DoneKeys
    <3>1. t \in Open /\ rc[t] = retryCount[t]
        BY <1>1, <1>3, <2>1 DEF Open
    <3>2. CurrentAttempt(t, retryCount) \in scheduled
        BY <3>1 DEF BooksInv, Books, Counts, CountsKnown
    <3>. QED BY <1>1, <3>1, <3>2 DEF CurrentAttempt
  <2>2. CASE ~(Deps[t] \subseteq DoneKeys)
    BY <1>1, <2>2
  <2>. QED BY <2>1, <2>2
<1>7. LocalOnce'
  <2>1. \A x \in scheduled, y \in new : x.key # y.key
    BY <1>1 DEF BooksInv, DependenciesFirst
  <2>2. ASSUME NEW x \in scheduled \ finished', x.key \in LocalTask
        PROVE  x.key \notin DoneKeys' /\ \A y \in scheduled \ finished' : y.key = x.key => y = x
    BY <1>2, <1>3, <2>2 DEF BooksInv, Books, LocalOnce
  <2>3. ASSUME NEW x \in new
        PROVE  x.key \notin DoneKeys' /\ \A y \in new : y.key = x.key => y = x
    BY <1>1
  <2>. QED BY <1>1, <2>1, <2>2, <2>3 DEF LocalOnce
<1>8. QueuedIsNew'
  <2>1. Queued' \subseteq Queued \cup new
    BY <1>1 DEF Queued, RemoteOf, LocalOf
  <2>. QED BY <1>1, <1>2, <2>1, QueuedGrow
<1>9. RunningKeys'
    BY DEF TaskSucceeded, BooksInv, Books, RunningKeys
<1>. QED BY <1>4, <1>5, <1>6, <1>7, <1>8, <1>9 DEF Counts

\* A result that changes nothing is dropped or recorded.
LEMMA BooksIgnored ==
    ASSUME BooksInv, NEW r \in inbox, IgnoreResult(r)
    PROVE  Counts' /\ LocalOnce' /\ QueuedIsNew' /\ RunningKeys'
<1>1. /\ InboxWorks' \cup finished' \subseteq InboxWorks \cup finished
      /\ finished \subseteq finished'
    BY ProcessedWorks DEF BooksInv, PlacesInv
<1>2. UNCHANGED <<schedEpoch, retryCount, scheduled, succeeded, schedQueue, localQueue, running>>
    BY DEF IgnoreResult, loopVars, queueVars, execVars
<1>3. r.msg.work \in scheduled
    BY DEF BooksInv, PlacesInv, Known
<1>4. Recorded'
    BY <1>2, <1>3 DEF IgnoreResult, BooksInv, Books, Counts, Recorded
<1>5. RetryBound' /\ CountsKnown' /\ LocalOnce' /\ RunningKeys'
    BY <1>1, <1>2 DEF BooksInv, Books, Counts, RetryBound, CountsKnown, Open, CurrentAttempt,
       LocalOnce, RunningKeys, DoneKeys
<1>6. QueuedIsNew'
    BY <1>1, <1>2 DEF BooksInv, Books, QueuedIsNew, Queued
<1>. QED BY <1>4, <1>5, <1>6 DEF Counts

\* A queued attempt of a task that has succeeded is dropped, and nothing is
\* enqueued for it: its successors have their attempts.
LEMMA DropEffect ==
    ASSUME BooksInv, NEW a \in schedQueue, DropSucceeded(a)
    PROVE  /\ schedQueue' = schedQueue \ {a} /\ a.key \in DoneKeys
           /\ UNCHANGED <<localQueue, scheduled>>
<1>. DEFINE new == NewAttempts({a.key}, DoneKeys, retryCount)
<1>1. a \in scheduled /\ a.key \in Task
    BY DEF BooksInv, PlacesInv, Known, Queued, TypeOK, SchedulerTypeOK, Attempt
<1>2. Deps[a.key] \subseteq DoneKeys
    BY <1>1 DEF BooksInv, DependenciesFirst
<1>3. Reached({a.key}, DoneKeys) \ DoneKeys \subseteq Open
  <2>1. \A t \in Reached({a.key}, DoneKeys) : Deps[t] \subseteq DoneKeys
    BY <1>1, <1>2, ReachedReady
  <2>2. Reached({a.key}, DoneKeys) \subseteq Task
    BY DEF Reached
  <2>. QED BY <2>1, <2>2 DEF Open
<1>4. new = {}
    BY <1>3 DEF NewAttempts, BooksInv, Books, Counts, CountsKnown
<1>5. /\ scheduled' = scheduled \cup new
      /\ schedQueue' = (schedQueue \ {a}) \cup RemoteOf(new)
      /\ localQueue' = localQueue \cup LocalOf(new)
      /\ a.key \in DoneKeys
    BY DEF DropSucceeded
<1>. QED BY <1>4, <1>5 DEF RemoteOf, LocalOf

LEMMA BooksDrop ==
    ASSUME BooksInv, NEW a \in schedQueue, DropSucceeded(a)
    PROVE  Counts' /\ LocalOnce' /\ QueuedIsNew' /\ RunningKeys'
<1>1. /\ schedQueue' \subseteq schedQueue
      /\ UNCHANGED <<localQueue, schedEpoch, retryCount, scheduled, finished, succeeded,
                     running, inbox>>
    BY DropEffect DEF DropSucceeded, loopVars, execVars, popVars
<1>2. Counts' /\ LocalOnce' /\ RunningKeys'
    BY <1>1 DEF BooksInv, Books, Counts, Recorded, RetryBound, CountsKnown, Open, CurrentAttempt,
       LocalOnce, RunningKeys, DoneKeys
<1>3. QueuedIsNew'
    BY <1>1 DEF BooksInv, Books, QueuedIsNew, Queued, InboxWorks
<1>. QED BY <1>2, <1>3

\* Attempts go from a queue to an executor that runs no other one of their tasks.
LEMMA BooksDispatch ==
    ASSUME BooksInv, PushLocal \/ \E a \in schedQueue, e \in available : Dispatch(a, e)
    PROVE  Counts' /\ LocalOnce' /\ QueuedIsNew' /\ RunningKeys'
<1>1. /\ Queued' \subseteq Queued
      /\ UNCHANGED <<schedEpoch, retryCount, scheduled, finished, succeeded, inbox>>
    BY DEF PushLocal, Dispatch, Queued, loopVars, taskVars, popVars
<1>2. Counts' /\ LocalOnce'
    BY <1>1 DEF BooksInv, Books, Counts, Recorded, RetryBound, CountsKnown, Open, CurrentAttempt,
       LocalOnce, DoneKeys
<1>3. QueuedIsNew'
    BY <1>1 DEF BooksInv, Books, QueuedIsNew, InboxWorks
<1>4. /\ running \in [Node -> SUBSET Attempt] /\ Local \in Node /\ Local \notin Executor
      /\ available \subseteq Executor /\ Executor \subseteq Node
    BY FabricAssumption DEF BooksInv, PlacesInv, TypeOK, SchedulerTypeOK, Node
<1>5. ASSUME NEW x \in localQueue
      PROVE  /\ x.key \in LocalTask /\ x \in scheduled \ finished
    BY DEF BooksInv, PlacesInv, QueuesSplit, Known, Queued, Books, QueuedIsNew
<1>6. CASE PushLocal
  <2>. DEFINE pushed == IF localQueue # {} /\ ~Alive(Local) THEN {}
                        ELSE {x \in localQueue : x.key \notin KeysOf(running[Local])}
  <2>1. /\ running' = [running EXCEPT ![Local] = @ \cup pushed]
        /\ pushed \subseteq localQueue
        /\ \A x \in pushed : x.key \notin KeysOf(running[Local])
    BY <1>6 DEF PushLocal
  <2>. HIDE DEF pushed
  <2>2. \A x, y \in pushed : x.key = y.key => x = y
    BY <1>5, <2>1 DEF BooksInv, Books, LocalOnce
  <2>3. running'[Local] = running[Local] \cup pushed
    BY <1>4, <2>1
  <2>4. \A x, y \in running'[Local] : x.key = y.key => x = y
    BY <1>4, <2>1, <2>2, <2>3 DEF BooksInv, Books, RunningKeys, KeysOf
  <2>. QED BY <1>2, <1>3, <1>4, <2>1, <2>4 DEF BooksInv, Books, RunningKeys
<1>7. ASSUME NEW a \in schedQueue, NEW e \in available, Dispatch(a, e) PROVE RunningKeys'
  <2>1. /\ running' = [running EXCEPT ![e] = @ \cup {a}]
        /\ a.key \notin KeysOf(running[e])
        /\ a.key \notin LocalTask
    BY <1>7 DEF Dispatch, Fits, BooksInv, PlacesInv, QueuesSplit
  <2>2. \A x, y \in running'[e] : x.key = y.key => x = y
    BY <1>4, <2>1 DEF BooksInv, Books, RunningKeys, KeysOf
  <2>. QED BY <1>4, <2>1, <2>2 DEF BooksInv, Books, RunningKeys
<1>. QED BY <1>2, <1>3, <1>6, <1>7

\* What RemoteExecutor.pop does: works that have ended are no longer charged, and
\* their results wait to be processed.
LEMMA PopEffect ==
    ASSUME TypeOK, NEW e \in toPop, PopResults(e)
    PROVE  \E S \in SUBSET cq[e] :
            /\ e \in Node
            /\ cq' = [cq EXCEPT ![e] = @ \ S]
            /\ running' = [running EXCEPT ![e] = {a \in @ : a.key \notin Over(S)}]
            /\ inbox' = inbox \cup {[from |-> e, msg |-> m] : m \in {n \in S : n.type = "Result"}}
            /\ UNCHANGED <<wq, pc, schedRunning, schedEpoch, taskVars, queueVars, available,
                           state, outbound, stopSent>>
<1>1. e \in Node
    BY DEF TypeOK, SchedulerTypeOK
<1>2. PICK S \in PopChoices(e) :
        LET results == {m \in S : m.type = "Result"}
        IN
        /\ cq' = [cq EXCEPT ![e] = @ \ S]
        /\ running' = [running EXCEPT ![e] = {a \in @ : a.key \notin Over(S)}]
        /\ inbox' = inbox \cup {[from |-> e, msg |-> m] : m \in results}
    BY DEF PopResults
<1>3. S \in SUBSET cq[e]
    BY DEF PopChoices, Popped
<1>. QED BY <1>1, <1>2, <1>3 DEF PopResults, loopVars

LEMMA BooksPop ==
    ASSUME BooksInv, NEW e \in toPop, PopResults(e)
    PROVE  Counts' /\ LocalOnce' /\ QueuedIsNew' /\ RunningKeys'
<1>1. PICK S \in SUBSET cq[e] :
        /\ e \in Node
        /\ running' = [running EXCEPT ![e] = {a \in @ : a.key \notin Over(S)}]
        /\ inbox' = inbox \cup {[from |-> e, msg |-> m] : m \in {n \in S : n.type = "Result"}}
        /\ UNCHANGED <<schedEpoch, taskVars, queueVars>>
    BY PopEffect DEF BooksInv, PlacesInv
<1>2. Counts' /\ LocalOnce'
    BY <1>1 DEF BooksInv, Books, Counts, Recorded, RetryBound, CountsKnown, Open, CurrentAttempt,
       LocalOnce, DoneKeys, taskVars
<1>3. InboxWorks' \subseteq InboxWorks \cup ReportedWorks(e)
    BY <1>1 DEF InboxWorks, ReportedWorks
<1>4. ReportedWorks(e) \cap Queued = {}
    BY <1>1 DEF BooksInv, PlacesInv, DispatchedOnce, Placed
<1>5. QueuedIsNew'
    BY <1>1, <1>3, <1>4 DEF BooksInv, Books, QueuedIsNew, Queued, queueVars, taskVars
<1>6. \A f \in Node : running'[f] \subseteq running[f]
    BY <1>1 DEF BooksInv, PlacesInv, TypeOK, SchedulerTypeOK
<1>7. RunningKeys'
    BY <1>6 DEF BooksInv, Books, RunningKeys, Node
<1>. QED BY <1>2, <1>5, <1>7

\* Every step keeps the books.
LEMMA BooksNext == BooksInv /\ [Next]_vars => BooksInv'
<1>. SUFFICES ASSUME BooksInv, [Next]_vars PROVE BooksInv'
    OBVIOUS
<1>1. PlacesInv' /\ DependenciesFirst'
    BY TypeNext, PlacesNext, DepsNext DEF BooksInv, PlacesInv, DepsInv, Known, Booked
<1>2. SUFFICES Books'
    BY <1>1 DEF BooksInv
<1>3. CASE SchedulerStep
  <2>1. Phases' /\ LocalGood' /\ LocalAlive'
    BY <1>3, PhasesNext
  <2>2. SUFFICES Counts' /\ LocalOnce' /\ QueuedIsNew' /\ RunningKeys'
    BY <2>1 DEF Books
  <2>3. CASE ProbeExecutors \/ UpdateExecutorStates
    <3>1. UNCHANGED <<finished, inbox, running>>
        BY <2>3 DEF ProbeExecutors, UpdateExecutorStates, popVars
    <3>2. \E rc : /\ RetriesTo(rc) /\ Enqueue(Retries(rc))
                  /\ \A t \in Task : rc[t] # retryCount[t] => t \notin LocalTask
        BY <2>3, ProbeRetries, UpdateRetries
    <3>. QED BY <3>1, <3>2, BooksRetry
  <2>4. CASE \/ SkipProbes \/ EndDispatch \/ KeepWaiting \/ LeaveLoop
             \/ \E e \in available : StopIdleExecutor(e)
             \/ EndPop \/ EndProcess \/ Finish
    <3>1. UNCHANGED <<schedEpoch, taskVars, queueVars, running, inbox>>
        BY <2>4 DEF SkipProbes, EndDispatch, KeepWaiting, LeaveLoop, StopIdleExecutor, EndPop,
           EndProcess, Finish, execVars, popVars
    <3>. QED BY <3>1, BooksSame
  <2>. QED BY <1>3, <2>3, <2>4, BooksDispatch, BooksDrop, BooksPop, BooksIgnored, BooksFailed,
           BooksSucceeded DEF SchedulerStep, SchedulerNext
<1>4. CASE ExecutorStep \/ LocalStep \/ UNCHANGED vars
  <2>1. UNCHANGED schedVars
    BY <1>4 DEF ExecutorStep, LocalStep, vars
  <2>2. Counts' /\ LocalOnce' /\ QueuedIsNew' /\ RunningKeys'
    BY <2>1, BooksSame DEF schedVars, loopVars, execVars, popVars
  <2>3. Phases' /\ LocalGood' /\ LocalAlive'
    BY <2>1 DEF schedVars, loopVars, execVars, popVars, taskVars, BooksInv, Books, Phases,
       LocalGood, LocalAlive, DoneKeys
  <2>. QED BY <2>2, <2>3 DEF Books
<1>. QED BY <1>3, <1>4 DEF Next, Terminated

\* The books at first: the leaves of the plan are queued.
LEMMA BooksInit == Init => BooksInv
<1>. SUFFICES ASSUME Init PROVE BooksInv
    OBVIOUS
<1>1. PlacesInv /\ DependenciesFirst
    BY TypeInit, PlacesInit, DepsInit DEF PlacesInv
<1>2. /\ DoneKeys = {} /\ finished = {} /\ succeeded = {} /\ inbox = {} /\ InboxWorks = {}
      /\ schedEpoch = 0 /\ retryCount = [t \in Task |-> 0]
      /\ scheduled = {[key |-> t, epoch |-> 0, retry |-> 0] : t \in {u \in Task : Deps[u] = {}}}
      /\ pc = "probe" /\ schedRunning = TRUE /\ state[Local] = "GOOD"
      /\ \A e \in Node : running[e] = {}
    BY DEF Init, SchedulerInit, DoneKeys, KeysOf, InboxWorks, Node
<1>3. Counts
    BY <1>2 DEF Counts, Recorded, RetryBound, CountsKnown, Open, CurrentAttempt
<1>4. LocalOnce /\ QueuedIsNew
    BY <1>2 DEF LocalOnce, QueuedIsNew
<1>5. RunningKeys
    BY <1>2 DEF RunningKeys, Node
<1>6. Phases /\ LocalGood /\ LocalAlive
    BY <1>2 DEF Phases, LocalGood, LocalAlive
<1>. QED BY <1>1, <1>3, <1>4, <1>5, <1>6 DEF BooksInv, Books

\* The local executor is there as long as something is queued for it, so the
\* assertion on it in sched_loop never fails: it is stopped when the root has
\* succeeded, and then no local task is left, for each is attempted again only
\* after its last attempt was seen to fail.
THEOREM LocalAliveCorrect == Spec => []LocalAlive
<1>1. BooksInv => LocalAlive
    BY DEF BooksInv, Books
<1>. QED BY <1>1, BooksInit, BooksNext, PTL DEF Spec

-----------------------------------------------------------------------------
(* One report on every attempt *)

\* Attempts on their way to a report by e.
Ahead(e) == outbound[e] \cup OrderedWorks(e) \cup (IF e = Local THEN {} ELSE live[e])

\* What has been seen of the attempts.
Seen == InboxWorks \cup finished

\* An attempt with e is buffered, or in one batch of orders, or at work.
OnWay(e) ==
    /\ outbound[e] \cap OrderedWorks(e) = {}
    /\ e # Local => live[e] \cap (outbound[e] \cup OrderedWorks(e)) = {}
    /\ \A m, n \in wq[e] :
        m.type = "Work" /\ n.type = "Work" /\ m # n => m.works \cap n.works = {}

\* It is reported once, at the end of its way.
ReportedOnce(e) ==
    /\ Ahead(e) \cap ReportedWorks(e) = {}
    /\ \A m, n \in cq[e] :
        m.type = "Result" /\ n.type = "Result" /\ m.work = n.work => m = n
    /\ (Ahead(e) \cup ReportedWorks(e)) \cap Seen = {}

OneReport ==
    /\ \A e \in Node : OnWay(e) /\ ReportedOnce(e)
    /\ InboxWorks \cap finished = {}
    /\ \A q, r \in inbox : q.msg.work = r.msg.work => q = r

ReportsInv == BooksInv /\ OneReport

\* An executor that gets no attempt and reports none.
LEMMA ReportsKept ==
    ASSUME NEW e \in Node, OnWay(e), ReportedOnce(e),
           outbound'[e] \subseteq outbound[e],
           \A m \in wq'[e] : m.type = "Work" => m \in wq[e],
           \A m \in cq'[e] : m.type = "Result" => m \in cq[e],
           e # Local => live'[e] \subseteq live[e],
           (Ahead(e) \cup ReportedWorks(e)) \cap Seen' = {}
    PROVE  OnWay(e)' /\ ReportedOnce(e)'
<1>1. OrderedWorks(e)' \subseteq OrderedWorks(e) /\ ReportedWorks(e)' \subseteq ReportedWorks(e)
    BY DEF OrderedWorks, ReportedWorks
<1>2. Ahead(e)' \subseteq Ahead(e)
    BY <1>1 DEF Ahead
<1>3. OnWay(e)'
    BY <1>1 DEF OnWay
<1>4. ReportedOnce(e)'
    BY <1>1, <1>2 DEF ReportedOnce
<1>. QED BY <1>3, <1>4

\* Attempts that e gets are new to it, and to the scheduler's results.
LEMMA ReportsSent ==
    ASSUME NEW e \in Node, OnWay(e), ReportedOnce(e), NEW sent,
           \/ /\ outbound'[e] = outbound[e] \cup sent
              /\ \A m \in wq'[e] : m.type = "Work" => m \in wq[e]
           \/ /\ outbound'[e] = outbound[e]
              /\ \A m \in wq'[e] : m.type = "Work" => m \in wq[e] \/ m = WorkMsg(sent),
           sent \cap (Ahead(e) \cup ReportedWorks(e) \cup Seen) = {},
           UNCHANGED <<cq, live, inbox, finished>>
    PROVE  OnWay(e)' /\ ReportedOnce(e)'
<1>1. WorkMsg(sent).works = sent
    BY DEF WorkMsg
<1>2. /\ OrderedWorks(e)' \subseteq OrderedWorks(e) \cup sent
      /\ outbound'[e] # outbound[e] => OrderedWorks(e)' \subseteq OrderedWorks(e)
    BY <1>1 DEF OrderedWorks
<1>3. /\ ReportedWorks(e)' = ReportedWorks(e) /\ Seen' = Seen
      /\ Ahead(e)' \subseteq Ahead(e) \cup sent
    BY <1>2 DEF ReportedWorks, Seen, InboxWorks, Ahead
<1>4. OnWay(e)'
  <2>1. /\ outbound'[e] \cap OrderedWorks(e)' = {}
        /\ e # Local => live'[e] \cap (outbound'[e] \cup OrderedWorks(e)') = {}
    BY <1>2 DEF OnWay, Ahead
  <2>2. \A m \in wq[e] : m.type = "Work" => m.works \subseteq Ahead(e)
    BY DEF Ahead, OrderedWorks
  <2>3. \A m, n \in wq'[e] :
            m.type = "Work" /\ n.type = "Work" /\ m # n => m.works \cap n.works = {}
    BY <1>1, <2>2 DEF OnWay
  <2>. QED BY <2>1, <2>3 DEF OnWay
<1>5. ReportedOnce(e)'
    BY <1>3 DEF ReportedOnce
<1>. QED BY <1>4, <1>5

\* Attempts that e reports have come to the end of their way.
LEMMA ReportsMade ==
    ASSUME NEW e \in Node, OnWay(e), ReportedOnce(e), NEW ended, NEW status,
           ended \subseteq Ahead(e),
           outbound'[e] = outbound[e],
           \A m \in wq'[e] : m.type = "Work" => m \in wq[e],
           Ahead(e)' \subseteq Ahead(e) \ ended,
           e # Local => live'[e] \cap (outbound[e] \cup OrderedWorks(e)') = {},
           \A m \in cq'[e] : m.type = "Result" =>
                m \in cq[e] \/ \E x \in ended : m = ResultMsg(x, status[x]),
           UNCHANGED <<inbox, finished>>
    PROVE  OnWay(e)' /\ ReportedOnce(e)'
<1>1. \A x, s : ResultMsg(x, s).work = x
    BY DEF ResultMsg
<1>2. /\ ReportedWorks(e)' \subseteq ReportedWorks(e) \cup ended
      /\ Seen' = Seen
      /\ OrderedWorks(e)' \subseteq OrderedWorks(e)
    BY <1>1 DEF ReportedWorks, Seen, InboxWorks, OrderedWorks
<1>3. OnWay(e)'
    BY <1>2 DEF OnWay
<1>4. \A m \in cq[e] : m.type = "Result" => m.work \in ReportedWorks(e)
    BY DEF ReportedWorks
<1>5. \A m, n \in cq'[e] :
        m.type = "Result" /\ n.type = "Result" /\ m.work = n.work => m = n
    BY <1>1, <1>4 DEF ReportedOnce
<1>6. ReportedOnce(e)'
    BY <1>2, <1>5 DEF ReportedOnce
<1>. QED BY <1>3, <1>6

\* An aged message is a probe if it was one, and the same message if not.
LEMMA AgedSame ==
    ASSUME NEW Q, NEW e \in Node, NEW m \in AgeAll(Q)[e], m.type # "Probe"
    PROVE  m \in Q[e]
<1>1. PICK n \in Q[e] : m = Older(n)
    BY DEF AgeAll
<1>. QED BY <1>1 DEF Older, ProbeMsg

\* Steps of the scheduler that order no work: they send probes and stop requests.
LEMMA QuietMessages ==
    ASSUME BooksInv, UNCHANGED workerVars,
           \/ SkipProbes \/ ProbeExecutors \/ UpdateExecutorStates
           \/ \E a \in schedQueue : DropSucceeded(a)
           \/ \E e \in available : StopIdleExecutor(e)
           \/ KeepWaiting \/ LeaveLoop \/ EndPop \/ EndProcess \/ Finish
           \/ \E r \in inbox : IgnoreResult(r) \/ TaskFailed(r) \/ TaskSucceeded(r)
    PROVE  /\ UNCHANGED <<outbound, live>>
           /\ \A e \in Node : \A m \in wq'[e] : m.type = "Work" => m \in wq[e]
           /\ \A e \in Node : \A m \in cq'[e] : m.type = "Result" => m \in cq[e]
<1>1. UNCHANGED <<outbound, live>>
    BY DEF SkipProbes, ProbeExecutors, UpdateExecutorStates, DropSucceeded, StopIdleExecutor,
       KeepWaiting, LeaveLoop, EndPop, EndProcess, Finish, IgnoreResult, TaskFailed,
       TaskSucceeded, execVars, workerVars
<1>2. CASE ProbeExecutors
  <2>1. /\ cq' = AgeAll(cq)
        /\ \A e \in Node : wq'[e] \subseteq AgeAll(wq)[e] \cup {ProbeMsg(0, TRUE)}
    BY <1>2 DEF ProbeExecutors
  <2>2. ProbeMsg(0, TRUE).type = "Probe"
    BY DEF ProbeMsg
  <2>. QED BY <1>1, <2>1, <2>2, AgedSame
<1>3. CASE ~ProbeExecutors
  <2>1. cq' = cq
    BY <1>3 DEF SkipProbes, UpdateExecutorStates, DropSucceeded, StopIdleExecutor, KeepWaiting,
       LeaveLoop, EndPop, EndProcess, Finish, IgnoreResult, TaskFailed, TaskSucceeded, fabricVars
  <2>2. CASE wq' = wq
    BY <1>1, <2>1, <2>2
  <2>3. CASE \E E : StopRemote(E)
    BY <1>1, <2>1, <2>3 DEF StopRemote, StopExecutorMsg
  <2>4. CASE \E r \in inbox : TaskSucceeded(r)
    <3>1. PICK r \in inbox : TaskSucceeded(r)
        BY <2>4
    <3>2. \A e \in Node :
            wq'[e] \subseteq wq[e] \cup {StopWorkMsg(r.msg.work.key), StopExecutorMsg}
        BY <3>1 DEF TaskSucceeded
    <3>3. StopWorkMsg(r.msg.work.key).type # "Work" /\ StopExecutorMsg.type # "Work"
        BY DEF StopWorkMsg, StopExecutorMsg
    <3>. QED BY <1>1, <2>1, <3>2, <3>3
  <2>. QED BY <1>3, <2>2, <2>3, <2>4
       DEF SkipProbes, UpdateExecutorStates, DropSucceeded, StopIdleExecutor, KeepWaiting,
       LeaveLoop, EndPop, EndProcess, Finish, StopAll, IgnoreResult, TaskFailed, fabricVars
<1>. QED BY <1>2, <1>3

\* They keep OneReport: at most, a result goes from the inbox to the finished works.
LEMMA ReportsQuiet ==
    ASSUME ReportsInv, UNCHANGED workerVars,
           \/ SkipProbes \/ ProbeExecutors \/ UpdateExecutorStates
           \/ \E a \in schedQueue : DropSucceeded(a)
           \/ \E e \in available : StopIdleExecutor(e)
           \/ KeepWaiting \/ LeaveLoop \/ EndPop \/ EndProcess \/ Finish
           \/ \E r \in inbox : IgnoreResult(r) \/ TaskFailed(r) \/ TaskSucceeded(r)
    PROVE  OneReport'
<1>1. /\ UNCHANGED <<outbound, live>>
      /\ \A e \in Node : \A m \in wq'[e] : m.type = "Work" => m \in wq[e]
      /\ \A e \in Node : \A m \in cq'[e] : m.type = "Result" => m \in cq[e]
    BY QuietMessages DEF ReportsInv
<1>2. /\ Seen' \subseteq Seen
      /\ InboxWorks' \cap finished' = {}
      /\ \A q, r \in inbox' : q.msg.work = r.msg.work => q = r
  <2>1. CASE \E r \in inbox : IgnoreResult(r) \/ TaskFailed(r) \/ TaskSucceeded(r)
    <3>1. PICK r \in inbox : IgnoreResult(r) \/ TaskFailed(r) \/ TaskSucceeded(r)
        BY <2>1
    <3>2. inbox' = inbox \ {r} /\ Seen' \subseteq Seen
        BY <3>1, ProcessedWorks
        DEF IgnoreResult, TaskFailed, TaskSucceeded, NextResult, Seen, ReportsInv, BooksInv, PlacesInv
    <3>3. finished' \subseteq finished \cup {r.msg.work}
        BY <3>1 DEF IgnoreResult, TaskFailed, TaskSucceeded
    <3>4. r.msg.work \notin InboxWorks'
        BY <3>2 DEF InboxWorks, ReportsInv, OneReport
    <3>. QED BY <3>2, <3>3, <3>4 DEF InboxWorks, ReportsInv, OneReport
  <2>2. CASE UNCHANGED <<inbox, finished>>
    BY <2>2 DEF Seen, InboxWorks, ReportsInv, OneReport
  <2>. QED BY <2>1, <2>2
       DEF SkipProbes, ProbeExecutors, UpdateExecutorStates, DropSucceeded, StopIdleExecutor,
       KeepWaiting, LeaveLoop, EndPop, EndProcess, Finish, taskVars, popVars
<1>3. ASSUME NEW e \in Node PROVE OnWay(e)' /\ ReportedOnce(e)'
  <2>1. OnWay(e) /\ ReportedOnce(e)
    BY DEF ReportsInv, OneReport
  <2>2. (Ahead(e) \cup ReportedWorks(e)) \cap Seen' = {}
    BY <1>2, <2>1 DEF ReportedOnce
  <2>. QED BY <1>1, <2>1, <2>2, ReportsKept
<1>. QED BY <1>2, <1>3 DEF OneReport

\* What is queued is with no executor, and has not been seen.
LEMMA QueuedApart ==
    ASSUME BooksInv, NEW e \in Node
    PROVE  /\ Queued \cap (Ahead(e) \cup ReportedWorks(e) \cup Seen) = {}
           /\ Ahead(e) \cup ReportedWorks(e) \subseteq Placed(e)
<1>1. Ahead(e) \cup ReportedWorks(e) \subseteq Placed(e)
    BY DEF Ahead, Placed
<1>. QED BY <1>1 DEF BooksInv, PlacesInv, DispatchedOnce, Books, QueuedIsNew, Seen

\* Attempts are sent from a queue, and batches are flushed.
LEMMA ReportsDispatch ==
    ASSUME ReportsInv, UNCHANGED workerVars,
           \/ PushLocal \/ EndDispatch
           \/ \E a \in schedQueue, e \in available : Dispatch(a, e)
    PROVE  OneReport'
<1>1. UNCHANGED <<cq, inbox, finished, live>>
    BY DEF PushLocal, EndDispatch, Dispatch, fabricVars, taskVars, popVars, workerVars
<1>2. /\ wq \in [Node -> SUBSET Orders] /\ outbound \in [Node -> SUBSET Attempt]
      /\ Local \in Node /\ available \subseteq Node
    BY DEF ReportsInv, BooksInv, PlacesInv, TypeOK, FabricTypeOK, SchedulerTypeOK, Node
<1>3. InboxWorks' = InboxWorks /\ Seen' = Seen
    BY <1>1 DEF InboxWorks, Seen
<1>4. SUFFICES ASSUME NEW f \in Node PROVE OnWay(f)' /\ ReportedOnce(f)'
    BY <1>1, <1>3 DEF ReportsInv, OneReport
<1>5. OnWay(f) /\ ReportedOnce(f)
    BY DEF ReportsInv, OneReport
<1>6. UNCHANGED <<outbound[f], wq[f]>> => OnWay(f)' /\ ReportedOnce(f)'
  <2>1. (Ahead(f) \cup ReportedWorks(f)) \cap Seen' = {}
    BY <1>3, <1>5 DEF ReportedOnce
  <2>. QED BY <1>1, <1>5, <2>1, ReportsKept
<1>7. CASE PushLocal
  <2>. DEFINE pushed == IF localQueue # {} /\ ~Alive(Local) THEN {}
                        ELSE {x \in localQueue : x.key \notin KeysOf(running[Local])}
              batch == IF pushed = {} THEN {} ELSE {WorkMsg(pushed)}
  <2>1. /\ pushed \subseteq localQueue
        /\ wq' = [wq EXCEPT ![Local] = @ \cup batch]
        /\ outbound' = outbound
    BY <1>7 DEF PushLocal, Send
  <2>2. batch \subseteq {WorkMsg(pushed)}
    OBVIOUS
  <2>. HIDE DEF pushed, batch
  <2>3. CASE f # Local
    BY <1>2, <1>6, <2>1, <2>3
  <2>4. CASE f = Local
    <3>1. pushed \cap (Ahead(f) \cup ReportedWorks(f) \cup Seen) = {}
        BY <2>1, QueuedApart DEF ReportsInv, Queued
    <3>2. \A m \in wq'[f] : m.type = "Work" => m \in wq[f] \/ m = WorkMsg(pushed)
        BY <1>2, <2>1, <2>2, <2>4
    <3>. QED BY <1>1, <1>5, <2>1, <3>1, <3>2, ReportsSent
  <2>. QED BY <2>3, <2>4
<1>8. ASSUME NEW a \in schedQueue, NEW e \in available, Dispatch(a, e)
      PROVE  OnWay(f)' /\ ReportedOnce(f)'
  <2>1. wq' = wq /\ outbound' = [outbound EXCEPT ![e] = @ \cup {a}]
    BY <1>8 DEF Dispatch, fabricVars
  <2>2. CASE f # e
    BY <1>2, <1>6, <2>1, <2>2
  <2>3. CASE f = e
    <3>1. {a} \cap (Ahead(f) \cup ReportedWorks(f) \cup Seen) = {}
        BY QueuedApart DEF ReportsInv, Queued
    <3>2. outbound'[f] = outbound[f] \cup {a}
        BY <1>2, <2>1, <2>3
    <3>. QED BY <1>1, <1>5, <2>1, <3>1, <3>2, ReportsSent
  <2>. QED BY <2>2, <2>3
<1>9. CASE EndDispatch
  <2>1. /\ outbound'[f] = {}
        /\ wq'[f] \subseteq wq[f] \cup {WorkMsg(outbound[f])}
    BY <1>9 DEF EndDispatch
  <2>2. WorkMsg(outbound[f]).works = outbound[f]
    BY DEF WorkMsg
  <2>3. \A m \in wq[f] : m.type = "Work" => m.works \subseteq OrderedWorks(f)
    BY DEF OrderedWorks
  <2>4. OrderedWorks(f)' \subseteq OrderedWorks(f) \cup outbound[f]
    BY <2>1, <2>2 DEF OrderedWorks
  <2>5. OnWay(f)'
    <3>1. \A m, n \in wq'[f] :
            m.type = "Work" /\ n.type = "Work" /\ m # n => m.works \cap n.works = {}
        BY <1>5, <2>1, <2>2, <2>3 DEF OnWay
    <3>. QED BY <1>1, <1>5, <2>1, <2>4, <3>1 DEF OnWay
  <2>6. Ahead(f)' \subseteq Ahead(f) /\ ReportedWorks(f)' = ReportedWorks(f)
    BY <1>1, <2>1, <2>4 DEF Ahead, ReportedWorks
  <2>7. ReportedOnce(f)'
    BY <1>1, <1>3, <1>5, <2>6 DEF ReportedOnce
  <2>. QED BY <2>5, <2>7
<1>. QED BY <1>7, <1>8, <1>9

\* Results that are popped were nowhere else.
LEMMA ReportsPopped ==
    ASSUME ReportsInv, UNCHANGED workerVars, NEW e \in toPop, PopResults(e)
    PROVE  OneReport'
<1>1. PICK S \in SUBSET cq[e] :
        /\ e \in Node
        /\ cq' = [cq EXCEPT ![e] = @ \ S]
        /\ inbox' = inbox \cup {[from |-> e, msg |-> m] : m \in {n \in S : n.type = "Result"}}
        /\ UNCHANGED <<wq, taskVars, outbound>>
    BY PopEffect DEF ReportsInv, BooksInv, PlacesInv
<1>. DEFINE popped == {m.work : m \in {n \in S : n.type = "Result"}}
<1>2. InboxWorks' = InboxWorks \cup popped /\ Seen' = Seen \cup popped
  <2>1. \A m : [from |-> e, msg |-> m].msg = m
    OBVIOUS
  <2>2. InboxWorks' \subseteq InboxWorks \cup popped
    BY <1>1 DEF InboxWorks
  <2>3. InboxWorks \cup popped \subseteq InboxWorks'
    BY <1>1, <2>1 DEF InboxWorks
  <2>. QED BY <1>1, <2>2, <2>3 DEF Seen, taskVars
<1>3. popped \subseteq ReportedWorks(e) /\ ReportedWorks(e) \cap Seen = {}
    BY <1>1 DEF ReportedWorks, ReportsInv, OneReport, ReportedOnce
<1>4. cq \in [Node -> SUBSET Completions]
    BY DEF ReportsInv, BooksInv, PlacesInv, TypeOK, FabricTypeOK
<1>5. ASSUME NEW f \in Node PROVE OnWay(f)' /\ ReportedOnce(f)'
  <2>1. OnWay(f) /\ ReportedOnce(f)
    BY DEF ReportsInv, OneReport
  <2>2. CASE f # e
    <3>1. (Ahead(f) \cup ReportedWorks(f)) \cap ReportedWorks(e) = {}
        BY <1>1, <2>2, QueuedApart DEF ReportsInv, BooksInv, PlacesInv, DispatchedOnce
    <3>2. (Ahead(f) \cup ReportedWorks(f)) \cap Seen' = {}
        BY <1>2, <1>3, <2>1, <3>1 DEF ReportedOnce
    <3>. QED BY <1>1, <1>4, <2>1, <2>2, <3>2, ReportsKept DEF workerVars
  <2>3. CASE f = e
    <3>1. cq'[e] = cq[e] \ S
        BY <1>1, <1>4
    <3>2. Ahead(e)' = Ahead(e) /\ OnWay(e)'
        BY <1>1, <2>1, <2>3 DEF Ahead, OrderedWorks, OnWay, workerVars
    <3>3. ReportedWorks(e)' \subseteq ReportedWorks(e)
        BY <3>1 DEF ReportedWorks
    <3>4. ReportedWorks(e)' \cap popped = {}
        BY <2>1, <2>3, <3>1 DEF ReportedWorks, ReportedOnce
    <3>5. Ahead(e) \cap popped = {}
        BY <1>3, <2>1, <2>3 DEF ReportedOnce
    <3>. HIDE DEF popped
    <3>6. Ahead(e)' \cap ReportedWorks(e)' = {}
        BY <2>1, <2>3, <3>2, <3>3 DEF ReportedOnce
    <3>7. (Ahead(e)' \cup ReportedWorks(e)') \cap Seen' = {}
        BY <1>2, <2>1, <2>3, <3>2, <3>3, <3>4, <3>5 DEF ReportedOnce
    <3>8. \A m, n \in cq'[e] :
            m.type = "Result" /\ n.type = "Result" /\ m.work = n.work => m = n
        BY <2>1, <2>3, <3>1 DEF ReportedOnce
    <3>. QED BY <2>3, <3>2, <3>6, <3>7, <3>8 DEF ReportedOnce
  <2>. QED BY <2>2, <2>3
<1>6. InboxWorks' \cap finished' = {}
    BY <1>1, <1>2, <1>3 DEF ReportsInv, OneReport, Seen, taskVars
<1>7. \A q, r \in inbox' : q.msg.work = r.msg.work => q = r
  <2>1. \A q \in inbox : q.msg.work \notin ReportedWorks(e)
    BY <1>3 DEF Seen, InboxWorks
  <2>2. \A m, n \in S : m.type = "Result" /\ n.type = "Result" /\ m.work = n.work => m = n
    BY <1>1 DEF ReportsInv, OneReport, ReportedOnce
  <2>3. \A m \in S : m.type = "Result" => m.work \in ReportedWorks(e)
    BY DEF ReportedWorks
  <2>. QED BY <1>1, <2>1, <2>2, <2>3 DEF ReportsInv, OneReport
<1>. QED BY <1>5, <1>6, <1>7 DEF OneReport

\* The inbox and the results seen are the scheduler's; the other executors are not
\* touched.
LEMMA ReportsElsewhere ==
    ASSUME ReportsInv, NEW e \in Node, UNCHANGED <<outbound, inbox, finished>>,
           \A f \in Node \ {e} : wq'[f] = wq[f] /\ cq'[f] = cq[f],
           \A f \in Executor \ {e} : live'[f] = live[f],
           OnWay(e)' /\ ReportedOnce(e)'
    PROVE  OneReport'
<1>1. InboxWorks' = InboxWorks /\ Seen' = Seen
    BY DEF InboxWorks, Seen
<1>2. ASSUME NEW f \in Node, f # e PROVE OnWay(f)' /\ ReportedOnce(f)'
  <2>1. OnWay(f) /\ ReportedOnce(f)
    BY DEF ReportsInv, OneReport
  <2>2. f # Local => f \in Executor
    BY DEF Node
  <2>3. (Ahead(f) \cup ReportedWorks(f)) \cap Seen' = {}
    BY <1>1, <2>1 DEF ReportedOnce
  <2>. QED BY <1>2, <2>1, <2>2, <2>3, ReportsKept
<1>. QED BY <1>1, <1>2 DEF ReportsInv, OneReport

\* A round of exec_loop: works are started, or terminated and reported.
LEMMA ReportsPopWorks ==
    ASSUME ReportsInv, UNCHANGED schedVars, NEW e \in Executor, PopWorks(e)
    PROVE  OneReport'
<1>1. /\ e \in Node /\ e # Local
      /\ UNCHANGED <<outbound, inbox, finished>>
      /\ OnWay(e) /\ ReportedOnce(e)
    BY FabricAssumption DEF Node, schedVars, taskVars, execVars, popVars, ReportsInv, OneReport
<1>2. /\ wq \in [Node -> SUBSET Orders] /\ cq \in [Node -> SUBSET Completions]
      /\ live \in [Executor -> SUBSET Attempt] /\ TypeOK
    BY DEF ReportsInv, BooksInv, PlacesInv, TypeOK, FabricTypeOK, ExecutorTypeOK
<1>3. PICK S \in Popped(Pending(e), CpuCount) :
        LET toStop == {m \in S : m.type = "StopWorkItem"}
            absent == {m \in toStop : \A a \in works[e] : a.key # m.key}
            hit    == {a \in works[e] \cap live[e] : StopWorkMsg(a.key) \in toStop}
            new    == UNION {m.works : m \in {n \in S : n.type = "Work"}}
        IN
        /\ wq' = [wq EXCEPT ![e] = @ \ S]
        /\ cq' = Send(cq, e, absent \cup {ResultMsg(a, "CRASHED") : a \in hit})
        /\ live' = [live EXCEPT ![e] = (@ \ hit) \cup new]
    BY DEF PopWorks
<1>. DEFINE toStop == {m \in S : m.type = "StopWorkItem"}
            absent == {m \in toStop : \A a \in works[e] : a.key # m.key}
            hit    == {a \in works[e] \cap live[e] : StopWorkMsg(a.key) \in toStop}
            new    == UNION {m.works : m \in {n \in S : n.type = "Work"}}
            crashed == {ResultMsg(a, "CRASHED") : a \in hit}
<1>4. /\ wq' = [wq EXCEPT ![e] = @ \ S]
      /\ cq' = [cq EXCEPT ![e] = @ \cup (absent \cup crashed)]
      /\ live' = [live EXCEPT ![e] = (@ \ hit) \cup new]
    BY <1>3 DEF Send
<1>5. S \subseteq wq[e]
    BY <1>1, <1>2, PendingType DEF Popped
<1>6. /\ new \subseteq OrderedWorks(e)
      /\ hit \subseteq live[e]
      /\ \A m \in absent : m.type # "Result"
    BY <1>5 DEF OrderedWorks
<1>7. \A m \in crashed : \E x \in hit : m = ResultMsg(x, [y \in hit |-> "CRASHED"][x])
    OBVIOUS
<1>8. \A m \in wq[e] : m.type = "Work" /\ m \notin S => m.works \cap new = {}
    BY <1>1, <1>5 DEF OnWay
<1>. HIDE DEF absent, hit, new, crashed
<1>9. wq'[e] = wq[e] \ S /\ cq'[e] = cq[e] \cup (absent \cup crashed)
      /\ live'[e] = (live[e] \ hit) \cup new
    BY <1>1, <1>2, <1>4
<1>10. OrderedWorks(e)' \cap new = {} /\ OrderedWorks(e)' \subseteq OrderedWorks(e)
    BY <1>8, <1>9 DEF OrderedWorks
<1>11. /\ Ahead(e) = outbound[e] \cup OrderedWorks(e) \cup live[e]
       /\ Ahead(e)' = outbound[e] \cup OrderedWorks(e)' \cup live'[e]
    BY <1>1 DEF Ahead
<1>12. Ahead(e)' \subseteq Ahead(e) \ hit
    BY <1>1, <1>6, <1>9, <1>10, <1>11 DEF OnWay
<1>13. live'[e] \cap (outbound[e] \cup OrderedWorks(e)') = {}
    BY <1>1, <1>6, <1>9, <1>10 DEF OnWay
<1>14. hit \subseteq Ahead(e)
    BY <1>6, <1>11
<1>15. \A m \in cq'[e] : m.type = "Result" =>
            m \in cq[e] \/ \E x \in hit : m = ResultMsg(x, [y \in hit |-> "CRASHED"][x])
    BY <1>6, <1>7, <1>9
<1>16. OnWay(e)' /\ ReportedOnce(e)'
    BY <1>1, <1>9, <1>12, <1>13, <1>14, <1>15, ReportsMade
<1>. QED BY <1>1, <1>2, <1>4, <1>16, ReportsElsewhere

\* A worker ends: its work is reported, by itself or by the executor.
LEMMA ReportsWorker ==
    ASSUME ReportsInv, ~LateExit, UNCHANGED schedVars, NEW e \in Executor,
           \/ \E a \in live[e] : WorkerCrash(e, a) \/ \E s \in Status : Report(e, a, s)
           \/ \E a \in works[e] : Collect(e, a)
    PROVE  OneReport'
<1>1. /\ e \in Node /\ e # Local
      /\ UNCHANGED <<outbound, inbox, finished>>
      /\ OnWay(e) /\ ReportedOnce(e)
    BY FabricAssumption DEF Node, schedVars, taskVars, execVars, popVars, ReportsInv, OneReport
<1>2. /\ cq \in [Node -> SUBSET Completions] /\ live \in [Executor -> SUBSET Attempt]
    BY DEF ReportsInv, BooksInv, PlacesInv, TypeOK, FabricTypeOK, ExecutorTypeOK
<1>3. (Ahead(e) \cup ReportedWorks(e)) \cap Seen' = {}
    BY <1>1 DEF ReportedOnce, Seen, InboxWorks
<1>4. ASSUME wq' = wq, NEW a \in live[e], live' = [live EXCEPT ![e] = @ \ {a}],
             cq' = cq \/ \E s : cq' = Send(cq, e, {ResultMsg(a, s)})
      PROVE  OneReport'
  <2>1. live'[e] = live[e] \ {a}
    BY <1>2, <1>4
  <2>2. CASE cq' = cq
    BY <1>1, <1>2, <1>3, <1>4, <2>1, <2>2, ReportsKept, ReportsElsewhere
  <2>3. ASSUME NEW s, cq' = Send(cq, e, {ResultMsg(a, s)})
        PROVE  OneReport'
    <3>1. cq'[e] = cq[e] \cup {ResultMsg(a, s)} /\ \A f \in Node \ {e} : cq'[f] = cq[f]
        BY <1>1, <1>2, <2>3 DEF Send
    <3>2. OrderedWorks(e)' = OrderedWorks(e)
        BY <1>4 DEF OrderedWorks
    <3>3. {a} \subseteq Ahead(e) /\ Ahead(e)' \subseteq Ahead(e) \ {a}
        BY <1>1, <1>4, <2>1, <3>2 DEF Ahead, OnWay
    <3>4. live'[e] \cap (outbound[e] \cup OrderedWorks(e)') = {}
        BY <1>1, <2>1, <3>2 DEF OnWay
    <3>5. \A m \in cq'[e] : m.type = "Result" =>
            m \in cq[e] \/ \E x \in {a} : m = ResultMsg(x, [y \in {a} |-> s][x])
        BY <3>1
    <3>6. OnWay(e)' /\ ReportedOnce(e)'
        BY <1>1, <1>4, <3>3, <3>4, <3>5, ReportsMade
    <3>. QED BY <1>1, <1>2, <1>4, <3>1, <3>6, ReportsElsewhere
  <2>. QED BY <1>4, <2>2, <2>3
<1>5. ASSUME NEW a \in live[e], WorkerCrash(e, a) PROVE OneReport'
    BY <1>4, <1>5 DEF WorkerCrash
<1>6. ASSUME NEW a \in live[e], NEW s \in Status, Report(e, a, s) PROVE OneReport'
    BY <1>4, <1>6 DEF Report
<1>7. ASSUME NEW a \in works[e], Collect(e, a) PROVE OneReport'
  <2>1. UNCHANGED <<wq, live>> /\ cq' = Send(cq, e, {})
    BY <1>7 DEF Collect
  <2>2. cq' = cq
    BY <1>1, <1>2, <2>1 DEF Send
  <2>. QED BY <1>1, <1>3, <2>1, <2>2, ReportsKept, ReportsElsewhere
<1>. QED BY <1>5, <1>6, <1>7

\* The rest of what an executor does reports no work.
LEMMA ReportsExecutor ==
    ASSUME ReportsInv, UNCHANGED schedVars, NEW e \in Executor,
           PopStop(e) \/ AnswerProbe(e) \/ AckStop(e) \/ Crash(e) \/ Quit(e)
    PROVE  OneReport'
<1>1. /\ e \in Node /\ e # Local
      /\ UNCHANGED <<outbound, inbox, finished>>
      /\ OnWay(e) /\ ReportedOnce(e)
    BY FabricAssumption DEF Node, schedVars, taskVars, execVars, popVars, ReportsInv, OneReport
<1>2. /\ cq \in [Node -> SUBSET Completions] /\ live \in [Executor -> SUBSET Attempt]
      /\ wq \in [Node -> SUBSET Orders]
    BY DEF ReportsInv, BooksInv, PlacesInv, TypeOK, FabricTypeOK, ExecutorTypeOK
<1>3. (Ahead(e) \cup ReportedWorks(e)) \cap Seen' = {}
    BY <1>1 DEF ReportedOnce, Seen, InboxWorks
<1>4. /\ wq'[e] \subseteq wq[e] /\ live'[e] \subseteq live[e]
      /\ \A f \in Node \ {e} : wq'[f] = wq[f] /\ cq'[f] = cq[f]
      /\ \A f \in Executor \ {e} : live'[f] = live[f]
    BY <1>1, <1>2 DEF PopStop, AnswerProbe, AckStop, Crash, Quit, fabricVars, Send
<1>5. \A m \in cq'[e] : m.type = "Result" => m \in cq[e]
    BY <1>1, <1>2 DEF PopStop, AnswerProbe, AckStop, Crash, Quit, fabricVars, Send, ProbeMsg,
       StopExecutorMsg
<1>6. OnWay(e)' /\ ReportedOnce(e)'
    BY <1>1, <1>3, <1>4, <1>5, ReportsKept
<1>. QED BY <1>1, <1>4, <1>6, ReportsElsewhere

\* The local executor runs a batch and reports each of its works.
LEMMA ReportsLocal ==
    ASSUME ReportsInv, LocalStep
    PROVE  OneReport'
<1>1. PICK m \in wq[Local] : m.type = "Work" /\ RunLocal(m, Working(Local))
    BY DEF LocalStep
<1>2. PICK result :
      /\ wq' = [wq EXCEPT ![Local] = @ \ {m}]
      /\ cq' = [cq EXCEPT ![Local] = @ \cup {ResultMsg(a, result[a]) : a \in m.works}]
    BY <1>1 DEF RunLocal, Send
<1>3. /\ Local \in Node /\ UNCHANGED <<outbound, inbox, finished, live>>
      /\ OnWay(Local) /\ ReportedOnce(Local)
    BY <1>1 DEF Node, LocalStep, RunLocal, schedVars, workerVars, taskVars, execVars, popVars,
       ReportsInv, OneReport
<1>4. wq \in [Node -> SUBSET Orders] /\ cq \in [Node -> SUBSET Completions]
    BY DEF ReportsInv, BooksInv, PlacesInv, TypeOK, FabricTypeOK
<1>5. /\ wq'[Local] = wq[Local] \ {m}
      /\ cq'[Local] = cq[Local] \cup {ResultMsg(a, result[a]) : a \in m.works}
    BY <1>2, <1>3, <1>4
<1>6. OrderedWorks(Local)' \cap m.works = {} /\ OrderedWorks(Local)' \subseteq OrderedWorks(Local)
    BY <1>1, <1>3, <1>5 DEF OrderedWorks, OnWay
<1>7. m.works \subseteq OrderedWorks(Local)
    BY <1>1 DEF OrderedWorks
<1>8. m.works \subseteq Ahead(Local) /\ Ahead(Local)' \subseteq Ahead(Local) \ m.works
    BY <1>3, <1>6, <1>7 DEF Ahead, OnWay
<1>9. \A n \in cq'[Local] : n.type = "Result" =>
        n \in cq[Local] \/ \E x \in m.works : n = ResultMsg(x, result[x])
    BY <1>5
<1>10. OnWay(Local)' /\ ReportedOnce(Local)'
    BY <1>3, <1>5, <1>8, <1>9, ReportsMade
<1>. QED BY <1>2, <1>3, <1>4, <1>10, ReportsElsewhere

\* Every step keeps OneReport, if no worker fails once more after its report.
LEMMA ReportsNext == ReportsInv /\ ~LateExit /\ [Next]_vars => OneReport'
<1>. SUFFICES ASSUME ReportsInv, ~LateExit, [Next]_vars PROVE OneReport'
    OBVIOUS
<1>1. CASE SchedulerStep
    BY <1>1, ReportsQuiet, ReportsDispatch, ReportsPopped DEF SchedulerStep, SchedulerNext
<1>2. CASE ExecutorStep
    BY <1>2, ReportsPopWorks, ReportsWorker, ReportsExecutor DEF ExecutorStep, ExecutorNext
<1>3. CASE LocalStep
    BY <1>3, ReportsLocal
<1>4. CASE UNCHANGED vars
    BY <1>4 DEF vars, fabricVars, schedVars, workerVars, taskVars, execVars, popVars, ReportsInv,
       OneReport, OnWay, ReportedOnce, Ahead, OrderedWorks, ReportedWorks, InboxWorks, Seen
<1>. QED BY <1>1, <1>2, <1>3, <1>4 DEF Next, Terminated

\* At first nothing is with an executor, and nothing has been seen.
LEMMA ReportsInit == Init => OneReport
<1>. SUFFICES ASSUME Init PROVE OneReport
    OBVIOUS
<1>1. /\ InboxWorks = {} /\ inbox = {} /\ finished = {}
      /\ \A e \in Node : wq[e] = {} /\ cq[e] = {} /\ outbound[e] = {}
      /\ \A e \in Executor : live[e] = {}
    BY DEF Init, FabricInit, SchedulerInit, ExecutorInit, InboxWorks
<1>2. \A e \in Node : OnWay(e) /\ ReportedOnce(e)
    BY <1>1 DEF OnWay, ReportedOnce, Ahead, OrderedWorks, ReportedWorks, Seen, Node
<1>. QED BY <1>1, <1>2 DEF OneReport

-----------------------------------------------------------------------------
(* Who is asked to stop *)

\* Only works of tasks that have succeeded are asked to stop.
StopsDone ==
    \A e \in Node : \A m \in wq[e] \cup cq[e] :
        m.type = "StopWorkItem" => m.key \in DoneKeys

\* Until the job is over, only executors with nothing to run are asked to stop.
StopsIdle ==
    schedRunning /\ Root \notin DoneKeys =>
        \A e \in Executor :
            /\ stopSent[e] => running[e] = {}
            /\ state[e] \in {"STOPPING", "STOPPED"} => stopSent[e]

\* A request to stop a work is returned as it is, and made for a success only.
LEMMA StopsDoneNext == ReportsInv /\ StopsDone /\ [Next]_vars => StopsDone'
<1>. SUFFICES ASSUME ReportsInv, StopsDone, [Next]_vars PROVE StopsDone'
    OBVIOUS
<1>1. TypeOK /\ wq \in [Node -> SUBSET Orders] /\ cq \in [Node -> SUBSET Completions]
      /\ Local \in Node /\ Executor \subseteq Node
    BY DEF ReportsInv, BooksInv, PlacesInv, TypeOK, FabricTypeOK, Node
<1>2. DoneKeys \subseteq DoneKeys'
    BY <1>1, SuccessesGrow, SuccessIsNew DEF DoneKeys
<1>3. SUFFICES ASSUME NEW e \in Node, NEW m \in wq'[e] \cup cq'[e], m.type = "StopWorkItem"
               PROVE  m \in wq[e] \cup cq[e] \/ m.key \in DoneKeys'
    BY <1>2 DEF StopsDone
<1>4. /\ \A A : WorkMsg(A).type # "StopWorkItem"
      /\ \A a, s : ResultMsg(a, s).type # "StopWorkItem"
      /\ \A a, l : ProbeMsg(a, l).type # "StopWorkItem"
      /\ StopExecutorMsg.type # "StopWorkItem"
    BY DEF WorkMsg, ResultMsg, ProbeMsg, StopExecutorMsg
<1>5. CASE SchedulerStep
  <2>1. CASE ProbeExecutors
    <3>1. /\ cq' = AgeAll(cq)
          /\ wq'[e] \subseteq AgeAll(wq)[e] \cup {ProbeMsg(0, TRUE)}
        BY <2>1 DEF ProbeExecutors
    <3>. QED BY <1>3, <1>4, <3>1, AgedSame
  <2>2. ASSUME NEW f \in toPop, PopResults(f) PROVE m \in wq[e] \cup cq[e]
    BY <1>1, <1>3, <2>2, PopEffect
  <2>3. ASSUME NEW r \in inbox, TaskSucceeded(r) PROVE m \in wq[e] \cup cq[e] \/ m.key \in DoneKeys'
    <3>1. /\ cq' = cq
          /\ wq'[e] \subseteq wq[e] \cup {StopWorkMsg(r.msg.work.key), StopExecutorMsg}
        BY <2>3 DEF TaskSucceeded
    <3>2. StopWorkMsg(r.msg.work.key).key \in DoneKeys'
        BY <1>1, <2>3, SuccessIsNew DEF StopWorkMsg
    <3>. QED BY <1>3, <1>4, <3>1, <3>2
  <2>4. CASE PushLocal
    <3>. DEFINE pushed == IF localQueue # {} /\ ~Alive(Local) THEN {}
                          ELSE {x \in localQueue : x.key \notin KeysOf(running[Local])}
                batch == IF pushed = {} THEN {} ELSE {WorkMsg(pushed)}
    <3>1. cq' = cq /\ wq' = [wq EXCEPT ![Local] = @ \cup batch]
        BY <2>4 DEF PushLocal, Send
    <3>2. batch \subseteq {WorkMsg(pushed)}
        OBVIOUS
    <3>. HIDE DEF pushed, batch
    <3>. QED BY <1>1, <1>3, <1>4, <3>1, <3>2
  <2>5. CASE EndDispatch
    <3>1. cq' = cq /\ wq'[e] \subseteq wq[e] \cup {WorkMsg(outbound[e])}
        BY <2>5 DEF EndDispatch
    <3>. QED BY <1>3, <1>4, <3>1
  <2>6. CASE cq' = cq /\ (wq' = wq \/ \E E : StopRemote(E))
    BY <1>3, <1>4, <2>6 DEF StopRemote
  <2>. QED BY <1>5, <2>1, <2>2, <2>3, <2>4, <2>5, <2>6
       DEF SchedulerStep, SchedulerNext, SkipProbes, UpdateExecutorStates, DropSucceeded, Dispatch,
       StopIdleExecutor, KeepWaiting, LeaveLoop, EndPop, IgnoreResult, TaskFailed, EndProcess,
       Finish, StopAll, fabricVars
<1>6. CASE ExecutorStep
  <2>1. PICK f \in Executor :
        \/ PopWorks(f) \/ PopStop(f) \/ AnswerProbe(f)
        \/ AckStop(f) \/ Crash(f) \/ Quit(f)
        \/ \E a \in live[f] : WorkerCrash(f, a) \/ \E s \in Status : Report(f, a, s)
        \/ \E a \in works[f] : Collect(f, a)
    BY <1>6 DEF ExecutorStep, ExecutorNext
  <2>2. f \in Node
    BY <1>1
  <2>3. wq'[e] \subseteq wq[e]
    BY <1>1, <2>1, <2>2 DEF PopWorks, PopStop, AnswerProbe, AckStop, Crash, Quit, WorkerCrash, Report,
       Collect, fabricVars
  <2>4. CASE PopWorks(f)
    <3>0. PICK S \in Popped(Pending(f), CpuCount) :
          \E absent, crashed :
            /\ cq' = Send(cq, f, absent \cup crashed)
            /\ absent \subseteq S
            /\ \A n \in crashed : n.type # "StopWorkItem"
      <4>1. PICK S \in Popped(Pending(f), CpuCount) :
            LET toStop == {n \in S : n.type = "StopWorkItem"}
                absent == {n \in toStop : \A a \in works[f] : a.key # n.key}
                hit    == {a \in works[f] \cap live[f] : StopWorkMsg(a.key) \in toStop}
            IN  cq' = Send(cq, f, absent \cup {ResultMsg(a, "CRASHED") : a \in hit})
        BY <2>4 DEF PopWorks
      <4>. DEFINE toStop == {n \in S : n.type = "StopWorkItem"}
                  absent == {n \in toStop : \A a \in works[f] : a.key # n.key}
                  hit    == {a \in works[f] \cap live[f] : StopWorkMsg(a.key) \in toStop}
                  crashed == {ResultMsg(a, "CRASHED") : a \in hit}
      <4>2. cq' = Send(cq, f, absent \cup crashed)
        BY <4>1
      <4>3. absent \subseteq S
        OBVIOUS
      <4>4. \A n \in crashed : n.type # "StopWorkItem"
        BY <1>4
      <4>. HIDE DEF absent, crashed
      <4>. QED BY <4>2, <4>3, <4>4
    <3>1. PICK absent, crashed :
            /\ cq' = Send(cq, f, absent \cup crashed)
            /\ absent \subseteq S
            /\ \A n \in crashed : n.type # "StopWorkItem"
        BY <3>0
    <3>2. S \subseteq wq[f]
        BY <1>1, <2>2, PendingType DEF Popped
    <3>3. cq'[e] \subseteq cq[e] \cup (IF e = f THEN absent \cup crashed ELSE {})
        BY <1>1, <2>2, <3>1 DEF Send
    <3>. QED BY <1>3, <2>3, <3>1, <3>2, <3>3
  <2>5. ASSUME NEW M, cq' = Send(cq, f, M), \A n \in M : n.type # "StopWorkItem"
        PROVE  m \in wq[e] \cup cq[e]
    <3>1. cq'[e] \subseteq cq[e] \cup M
        BY <1>1, <2>2, <2>5 DEF Send
    <3>. QED BY <1>3, <2>3, <2>5, <3>1
  <2>6. CASE AnswerProbe(f)
    <3>1. PICK a, low : cq' = Send(cq, f, {ProbeMsg(a, low)})
        BY <2>6 DEF AnswerProbe
    <3>. QED BY <1>4, <2>5, <3>1
  <2>7. CASE AckStop(f)
    <3>1. cq' = Send(cq, f, {StopExecutorMsg})
        BY <2>7 DEF AckStop
    <3>. QED BY <1>4, <2>5, <3>1
  <2>8. CASE cq' = cq
    BY <1>3, <2>3, <2>8
  <2>9. ASSUME NEW a \in live[f], WorkerCrash(f, a) \/ \E s \in Status : Report(f, a, s)
        PROVE  m \in wq[e] \cup cq[e]
    <3>1. cq' = cq \/ \E s : cq' = Send(cq, f, {ResultMsg(a, s)})
        BY <2>9 DEF WorkerCrash, Report
    <3>2. ASSUME NEW s, cq' = Send(cq, f, {ResultMsg(a, s)}) PROVE m \in wq[e] \cup cq[e]
      <4>1. \A n \in {ResultMsg(a, s)} : n.type # "StopWorkItem"
        BY <1>4
      <4>. QED BY <2>5, <3>2, <4>1
    <3>. QED BY <1>3, <2>3, <3>1, <3>2
  <2>10. ASSUME NEW a \in works[f], Collect(f, a) PROVE m \in wq[e] \cup cq[e]
    <3>1. PICK M \in {{}, {ResultMsg(a, "CRASHED")}} : cq' = Send(cq, f, M)
        BY <2>10 DEF Collect
    <3>. QED BY <1>4, <2>5, <3>1
  <2>. QED BY <2>1, <2>4, <2>6, <2>7, <2>8, <2>9, <2>10 DEF PopStop, Crash, Quit, fabricVars
<1>7. CASE LocalStep
  <2>0. PICK n \in wq[Local] : RunLocal(n, Working(Local))
    BY <1>7 DEF LocalStep
  <2>1. PICK result :
        /\ wq' = [wq EXCEPT ![Local] = @ \ {n}]
        /\ cq' = [cq EXCEPT ![Local] = @ \cup {ResultMsg(a, result[a]) : a \in n.works}]
    BY <2>0 DEF RunLocal, Send
  <2>2. m \in wq[e] \/ m \in cq[e] \/ \E a, s : m = ResultMsg(a, s)
    BY <1>1, <1>3, <2>1
  <2>. QED BY <1>3, <1>4, <2>2
<1>8. CASE UNCHANGED vars
    BY <1>3, <1>8 DEF vars, fabricVars
<1>. QED BY <1>5, <1>6, <1>7, <1>8 DEF Next, Terminated

\* RunningKeys bounds what an executor is charged with.
LEMMA RunningFinite ==
    ASSUME BooksInv, NEW e \in Node
    PROVE  IsFiniteSet(running[e])
<1>. DEFINE f == [x \in running[e] |-> x.key]
<1>1. running[e] \subseteq Attempt
    BY DEF BooksInv, PlacesInv, TypeOK, SchedulerTypeOK
<1>2. f \in Injection(running[e], Task)
    BY <1>1 DEF Injection, IsInjective, Attempt, BooksInv, Books, RunningKeys
<1>. QED BY <1>2, GraphAssumption, FS_Injection

\* An idle executor is charged with nothing.
LEMMA IdleIsEmpty ==
    ASSUME BooksInv, NEW e \in Node, Idle(e)
    PROVE  running[e] = {}
<1>1. IsFiniteSet(running[e]) /\ Cardinality(running[e]) \in Nat
    BY RunningFinite, FS_CardinalityType
<1>2. Cardinality(running[e]) = 0
    BY <1>1 DEF Idle, NumRunning
<1>. QED BY <1>1, <1>2, FS_EmptySet

\* Without stop_executor_on_failure, the scheduler stops executors that are idle
\* and gives them no work any more.
LEMMA StopsIdleNext ==
    ASSUME BooksInv, UpdatedInv, StopsIdle, ~StopOnFailure, [Next]_vars
    PROVE  StopsIdle'
<1>1. /\ TypeOK /\ available \subseteq Executor
      /\ Local \notin Executor /\ Executor \subseteq Node
      /\ state \in [Node -> {"GOOD", "FAIL", "RESOURCE_LOW", "STOPPING", "STOPPED"}]
      /\ running \in [Node -> SUBSET Attempt] /\ stopSent \in [Node -> BOOLEAN]
    BY FabricAssumption DEF BooksInv, PlacesInv, TypeOK, SchedulerTypeOK, Node
<1>2. DoneKeys \subseteq DoneKeys'
    BY <1>1, SuccessesGrow, SuccessIsNew DEF DoneKeys
<1>3. SUFFICES ASSUME schedRunning', Root \notin DoneKeys', NEW e \in Executor
               PROVE  /\ stopSent'[e] => running'[e] = {}
                      /\ state'[e] \in {"STOPPING", "STOPPED"} => stopSent'[e]
    BY DEF StopsIdle
<1>. DEFINE Goal == /\ stopSent'[e] => running'[e] = {}
                    /\ state'[e] \in {"STOPPING", "STOPPED"} => stopSent'[e]
<1>4. ASSUME schedRunning
      PROVE  /\ stopSent[e] => running[e] = {}
             /\ state[e] \in {"STOPPING", "STOPPED"} => stopSent[e]
    BY <1>2, <1>3, <1>4 DEF StopsIdle
<1>5. ASSUME schedRunning' = schedRunning, running'[e] \subseteq running[e],
             stopSent'[e] = stopSent[e], state'[e] = state[e]
      PROVE  Goal
    BY <1>3, <1>4, <1>5
<1>6. CASE SchedulerStep
  <2>1. CASE UpdateExecutorStates
    <3>1. UNCHANGED <<schedRunning, running, stopSent>>
        BY <2>1 DEF UpdateExecutorStates
    <3>2. state'[e] \in {state[e], UpdatedState(e)}
        BY <1>1, <2>1 DEF UpdateExecutorStates
    <3>3. UpdatedState(e) \in {"STOPPING", "STOPPED"} =>
            stopSent[e] \/ state[e] \in {"STOPPING", "STOPPED"}
        BY DEF UpdatedState
    <3>. QED BY <1>3, <1>4, <3>1, <3>2, <3>3
  <2>2. CASE PushLocal
    <3>1. UNCHANGED <<schedRunning, state, stopSent>> /\ running'[e] = running[e]
        BY <1>1, <2>2 DEF PushLocal
    <3>. QED BY <1>5, <3>1
  <2>3. ASSUME NEW a \in schedQueue, NEW f \in available, Dispatch(a, f) PROVE Goal
    <3>1. /\ UNCHANGED <<schedRunning, state, stopSent>>
          /\ running' = [running EXCEPT ![f] = @ \cup {a}]
          /\ ~stopSent[f]
        BY <2>3 DEF Dispatch, loopVars, Fits, Usable, GoodExecutors, UpdatedInv
    <3>2. running'[e] = IF e = f THEN running[e] \cup {a} ELSE running[e]
        BY <1>1, <3>1
    <3>. QED BY <1>3, <1>4, <3>1, <3>2
  <2>4. ASSUME NEW f \in available, StopIdleExecutor(f) PROVE Goal
    <3>1. /\ UNCHANGED <<schedRunning, state, running>> /\ StopRemote({f}) /\ Idle(f)
        BY <2>4 DEF StopIdleExecutor, Surplus
    <3>2. stopSent'[e] => stopSent[e] \/ e = f
        BY <1>1, <3>1 DEF StopRemote, Stoppable
    <3>3. running[f] = {} /\ (stopSent[e] => stopSent'[e])
        BY <1>1, <3>1, IdleIsEmpty DEF StopRemote
    <3>. QED BY <1>3, <1>4, <3>1, <3>2, <3>3
  <2>5. ASSUME NEW f \in toPop, PopResults(f) PROVE Goal
    <3>1. /\ UNCHANGED <<schedRunning, state, stopSent>>
          /\ running'[e] \subseteq running[e]
        BY <1>1, <2>5, PopEffect
    <3>. QED BY <1>5, <3>1
  <2>6. ASSUME NEW r \in inbox, TaskFailed(r) PROVE Goal
    <3>1. /\ schedRunning' = schedRunning /\ UNCHANGED <<state, running>> /\ StopRemote({})
        BY <1>3, <2>6 DEF TaskFailed
    <3>2. stopSent'[e] = stopSent[e]
        BY <1>1, <3>1 DEF StopRemote, Stoppable
    <3>. QED BY <1>5, <3>1, <3>2
  <2>7. ASSUME NEW r \in inbox, TaskSucceeded(r) PROVE Goal
    <3>1. r.msg.work.key # Root
        BY <1>1, <1>3, <2>7, SuccessIsNew
    <3>2. StopWorkMsg(r.msg.work.key) # StopExecutorMsg
        BY DEF StopWorkMsg, StopExecutorMsg
    <3>3. stopSent'[e] = stopSent[e]
        BY <1>1, <2>7, <3>1, <3>2 DEF TaskSucceeded
    <3>4. UNCHANGED <<schedRunning, running>> /\ state'[e] = state[e]
        BY <1>1, <2>7 DEF TaskSucceeded, loopVars
    <3>. QED BY <1>5, <3>3, <3>4
  <2>8. CASE Finish
    BY <1>3, <2>8 DEF Finish
  <2>. QED BY <1>5, <1>6, <2>1, <2>2, <2>3, <2>4, <2>5, <2>6, <2>7, <2>8
       DEF SchedulerStep, SchedulerNext, SkipProbes, ProbeExecutors, DropSucceeded, EndDispatch,
       KeepWaiting, LeaveLoop, EndPop, IgnoreResult, EndProcess, loopVars, execVars
<1>7. CASE UNCHANGED schedVars
    BY <1>5, <1>7 DEF schedVars, loopVars, execVars
<1>. QED BY <1>6, <1>7 DEF Next, ExecutorStep, LocalStep, Terminated, vars

-----------------------------------------------------------------------------
(* No task is lost *)

\* There is an attempt of t to wait for.
Awaits(t) ==
    \/ t \in KeysOf(Queued)
    \/ \E e \in available \cup {Local} : Alive(e) /\ t \in KeysOf(running[e])
    \/ \E r \in inbox : r.msg.work.key = t /\ r.msg.work \notin finished

LostInv == ReportsInv /\ UpdatedInv /\ StopsDone /\ StopsIdle /\ NothingLost

\* A step that takes nothing away from what the scheduler waits for.
LEMMA LostKept ==
    ASSUME NothingLost, schedRunning' => schedRunning, UNCHANGED <<succeeded, state, inbox, finished>>,
           Queued \subseteq Queued', available \subseteq available',
           \A e \in available \cup {Local} : running[e] \subseteq running'[e]
    PROVE  NothingLost'
<1>1. Open' = Open
    BY DEF Open, DoneKeys
<1>. SUFFICES ASSUME schedRunning', NEW t \in Open PROVE Awaits(t)'
    BY <1>1 DEF NothingLost, Awaits
<1>2. Awaits(t)
    BY DEF NothingLost, Awaits
<1>3. ASSUME NEW e \in available \cup {Local}, Alive(e), t \in KeysOf(running[e])
      PROVE  Awaits(t)'
    BY <1>3 DEF Awaits, Alive, Working, KeysOf
<1>. QED BY <1>2, <1>3 DEF Awaits, KeysOf

\* What an executor that has failed was running is retried; one that has stopped
\* was running nothing.
LEMMA LostUpdate ==
    ASSUME LostInv, UpdateExecutorStates
    PROVE  NothingLost'
<1>1. PICK rc :
        /\ RetriesTo(rc) /\ Enqueue(Retries(rc))
        /\ \A e \in available : Alive(e) /\ UpdatedState(e) = "FAIL" =>
            \A t \in KeysOf(running[e]) \ DoneKeys : rc[t] # retryCount[t]
    BY UpdateRetries DEF LostInv, ReportsInv
<1>2. /\ UNCHANGED <<schedRunning, succeeded, available, running, inbox, finished>>
      /\ state' = [e \in Node |-> IF e \in {f \in available : Alive(f)} THEN UpdatedState(e)
                                  ELSE state[e]]
    BY DEF UpdateExecutorStates, popVars
<1>3. /\ BooksInv /\ TypeOK /\ available \subseteq Executor /\ Local \notin Executor
      /\ Local \in Node /\ Executor \subseteq Node
      /\ finished' \subseteq scheduled
    BY <1>2, FabricAssumption
    DEF LostInv, ReportsInv, BooksInv, PlacesInv, TypeOK, SchedulerTypeOK, Node, Books, Counts, Recorded
<1>4. Queued' = Queued \cup Retries(rc)
    BY <1>1 DEF Enqueue, Queued, RemoteOf, LocalOf
<1>5. Open' = Open
    BY <1>2 DEF Open, DoneKeys
<1>. SUFFICES ASSUME schedRunning', NEW t \in Open PROVE Awaits(t)'
    BY <1>5 DEF NothingLost, Awaits
<1>6. Awaits(t) /\ schedRunning /\ t \in Task \ DoneKeys
    BY <1>2 DEF LostInv, NothingLost, Awaits, Open
<1>7. Root \notin DoneKeys
    BY <1>3, <1>6, RootLast DEF BooksInv, Books, Counts
<1>8. ASSUME t \in KeysOf(Queued) \/ \E r \in inbox : r.msg.work.key = t /\ r.msg.work \notin finished
      PROVE  Awaits(t)'
    BY <1>2, <1>4, <1>8 DEF Awaits, KeysOf
<1>9. CASE Alive(Local) /\ t \in KeysOf(running[Local])
  <2>1. state'[Local] = state[Local]
    BY <1>2, <1>3
  <2>. QED BY <1>2, <1>9, <2>1 DEF Awaits, Alive, Working
<1>10. ASSUME NEW e \in available, Alive(e), t \in KeysOf(running[e]) PROVE Awaits(t)'
  <2>1. state'[e] = UpdatedState(e)
    BY <1>2, <1>3, <1>10
  <2>2. CASE UpdatedState(e) = "FAIL"
    <3>1. rc[t] # retryCount[t]
        BY <1>1, <1>6, <1>10, <2>2
    <3>2. CurrentAttempt(t, rc) \in Queued'
        BY <1>1, <1>3, <1>4, <1>6, <3>1, RetryStep
    <3>3. CurrentAttempt(t, rc).key = t
        BY DEF CurrentAttempt
    <3>. QED BY <3>2, <3>3 DEF Awaits, KeysOf
  <2>3. UpdatedState(e) # "STOPPED"
    <3>. SUFFICES ASSUME UpdatedState(e) = "STOPPED" PROVE FALSE
        OBVIOUS
    <3>1. state[e] \in {"STOPPING", "STOPPED"}
        BY DEF UpdatedState
    <3>2. running[e] = {}
        BY <1>3, <1>6, <1>7, <3>1 DEF LostInv, StopsIdle
    <3>. QED BY <1>10, <3>2 DEF KeysOf
  <2>4. UpdatedState(e) \in {"STOPPED", "FAIL", "STOPPING", "RESOURCE_LOW", "GOOD"}
    BY DEF UpdatedState
  <2>5. CASE UpdatedState(e) \in {"STOPPING", "RESOURCE_LOW", "GOOD"}
    <3>1. Alive(e)'
        BY <2>1, <2>5 DEF Alive, Working
    <3>. QED BY <1>2, <1>10, <3>1 DEF Awaits
  <2>. QED BY <2>2, <2>3, <2>4, <2>5
<1>. QED BY <1>6, <1>8, <1>9, <1>10 DEF Awaits

\* Attempts go from a queue to an executor believed alive, or are of tasks that
\* have succeeded.
LEMMA LostDispatch ==
    ASSUME LostInv,
           \/ PushLocal
           \/ \E a \in schedQueue : DropSucceeded(a)
           \/ \E a \in schedQueue, e \in available : Dispatch(a, e)
    PROVE  NothingLost'
<1>1. /\ BooksInv /\ running \in [Node -> SUBSET Attempt]
      /\ available \subseteq Node /\ Local \in Node
    BY DEF LostInv, ReportsInv, BooksInv, PlacesInv, TypeOK, SchedulerTypeOK, Node
<1>2. UNCHANGED <<schedRunning, succeeded, available, state, inbox, finished>>
    BY DEF PushLocal, DropSucceeded, Dispatch, loopVars, taskVars, execVars, popVars
<1>3. \A e \in Node : running[e] \subseteq running'[e]
    BY <1>1 DEF PushLocal, DropSucceeded, Dispatch, execVars
<1>4. Open' = Open
    BY <1>2 DEF Open, DoneKeys
<1>. SUFFICES ASSUME schedRunning', NEW t \in Open PROVE Awaits(t)'
    BY <1>4 DEF NothingLost, Awaits
<1>5. Awaits(t) /\ t \notin DoneKeys
    BY <1>2 DEF LostInv, NothingLost, Awaits, Open
<1>6. ASSUME \/ \E e \in available \cup {Local} : Alive(e) /\ t \in KeysOf(running[e])
             \/ \E r \in inbox : r.msg.work.key = t /\ r.msg.work \notin finished
      PROVE  Awaits(t)'
    BY <1>1, <1>2, <1>3, <1>6 DEF Awaits, KeysOf, Alive, Working
<1>7. ASSUME NEW x \in Queued, x.key = t PROVE Awaits(t)'
  <2>1. CASE x \in Queued'
    BY <1>7, <2>1 DEF Awaits, KeysOf
  <2>2. CASE PushLocal /\ x \notin Queued'
    <3>. DEFINE pushed == IF localQueue # {} /\ ~Alive(Local) THEN {}
                          ELSE {y \in localQueue : y.key \notin KeysOf(running[Local])}
    <3>1. /\ localQueue' = localQueue \ pushed /\ schedQueue' = schedQueue /\ pc = "local"
          /\ running' = [running EXCEPT ![Local] = @ \cup pushed]
        BY <2>2 DEF PushLocal
    <3>2. x \in pushed /\ x \in localQueue
        BY <1>7, <2>2, <3>1 DEF Queued
    <3>3. Alive(Local)
        BY <1>1, <3>1, <3>2, LocalQueueServed
    <3>. HIDE DEF pushed
    <3>4. x \in running'[Local]
        BY <1>1, <3>1, <3>2
    <3>. QED BY <1>2, <1>7, <3>3, <3>4 DEF Awaits, KeysOf, Alive, Working
  <2>3. ASSUME NEW a \in schedQueue, DropSucceeded(a), x \notin Queued' PROVE FALSE
    BY <1>1, <1>5, <1>7, <2>3, DropEffect DEF Queued
  <2>4. ASSUME NEW a \in schedQueue, NEW e \in available, Dispatch(a, e), x \notin Queued'
        PROVE  Awaits(t)'
    <3>1. /\ x = a /\ Alive(e) /\ running' = [running EXCEPT ![e] = @ \cup {a}]
        BY <1>7, <2>4 DEF Dispatch, Queued, Fits, Usable, GoodExecutors, Good, Alive, Working
    <3>2. x \in running'[e] /\ available' = available /\ Alive(e)'
        BY <1>1, <1>2, <3>1 DEF Alive, Working
    <3>. QED BY <1>7, <3>2 DEF Awaits, KeysOf
  <2>. QED BY <2>1, <2>2, <2>3, <2>4
<1>. QED BY <1>5, <1>6, <1>7 DEF Awaits, KeysOf

\* A work leaves running_works for the inbox; one that could not be found to be
\* stopped is of a task that has succeeded.
LEMMA LostPop ==
    ASSUME LostInv, NEW e \in toPop, PopResults(e)
    PROVE  NothingLost'
<1>1. /\ TypeOK /\ running \in [Node -> SUBSET Attempt]
      /\ available \cup {Local} \subseteq Node
    BY DEF LostInv, ReportsInv, BooksInv, PlacesInv, TypeOK, SchedulerTypeOK, Node
<1>2. PICK S \in SUBSET cq[e] :
        /\ e \in Node
        /\ running' = [running EXCEPT ![e] = {a \in @ : a.key \notin Over(S)}]
        /\ inbox' = inbox \cup {[from |-> e, msg |-> m] : m \in {n \in S : n.type = "Result"}}
        /\ UNCHANGED <<schedRunning, taskVars, queueVars, available, state>>
    BY <1>1, PopEffect
<1>3. UNCHANGED <<succeeded, finished, schedQueue, localQueue>>
    BY <1>2 DEF taskVars, queueVars
<1>4. Open' = Open /\ Queued' = Queued
    BY <1>3 DEF Open, DoneKeys, Queued
<1>. SUFFICES ASSUME schedRunning', NEW t \in Open PROVE Awaits(t)'
    BY <1>4 DEF NothingLost, Awaits
<1>5. Awaits(t) /\ t \notin DoneKeys
    BY <1>2 DEF LostInv, NothingLost, Awaits, Open
<1>6. ASSUME t \in KeysOf(Queued) \/ \E r \in inbox : r.msg.work.key = t /\ r.msg.work \notin finished
      PROVE  Awaits(t)'
    BY <1>2, <1>3, <1>4, <1>6 DEF Awaits
<1>7. ASSUME NEW f \in available \cup {Local}, Alive(f), NEW x \in running[f], x.key = t
      PROVE  Awaits(t)'
  <2>1. CASE x \in running'[f]
    BY <1>2, <1>7, <2>1 DEF Awaits, KeysOf, Alive, Working
  <2>2. CASE x \notin running'[f]
    <3>1. t \in Over(S)
        BY <1>1, <1>2, <1>7, <2>2
    <3>2. \A m \in S : m.type = "StopWorkItem" => m.key # t
        BY <1>2, <1>5 DEF LostInv, StopsDone
    <3>3. PICK m \in S : m.type = "Result" /\ m.work.key = t
        BY <3>1, <3>2 DEF Over
    <3>4. m.work \in ReportedWorks(e)
        BY <3>3 DEF ReportedWorks
    <3>5. m.work \notin finished
        BY <1>2, <3>4 DEF LostInv, ReportsInv, OneReport, ReportedOnce, Seen
    <3>6. [from |-> e, msg |-> m] \in inbox'
        BY <1>2, <3>3
    <3>. QED BY <1>3, <3>3, <3>5, <3>6 DEF Awaits
  <2>. QED BY <2>1, <2>2
<1>. QED BY <1>5, <1>6, <1>7 DEF Awaits, KeysOf

\* A result whose processing leaves its task without success was a failure, and
\* the task was retried.
LEMMA LostProcessed ==
    ASSUME LostInv, ~StopOnFailure, NEW r \in inbox, IgnoreResult(r) \/ TaskFailed(r)
    PROVE  NothingLost'
<1>1. BooksInv /\ Phases
    BY DEF LostInv, ReportsInv, BooksInv, Books
<1>2. /\ UNCHANGED <<succeeded, available, running>>
      /\ inbox' = inbox \ {r}
      /\ finished' \subseteq finished \cup {r.msg.work}
      /\ schedRunning' => schedRunning /\ state' = state
  <2>1. CASE IgnoreResult(r)
    BY <2>1 DEF IgnoreResult, NextResult, loopVars, execVars
  <2>2. CASE TaskFailed(r)
    <3>1. schedRunning' => schedRunning /\ state' = state
        BY <2>2 DEF TaskFailed
    <3>. QED BY <2>2, <3>1 DEF TaskFailed, NextResult
  <2>. QED BY <2>1, <2>2
<1>3. Queued \subseteq Queued'
    BY DEF IgnoreResult, TaskFailed, Enqueue, Queued, queueVars
<1>4. Open' = Open
    BY <1>2 DEF Open, DoneKeys
<1>. SUFFICES ASSUME schedRunning', NEW t \in Open PROVE Awaits(t)'
    BY <1>4 DEF NothingLost, Awaits
<1>5. Awaits(t) /\ t \notin DoneKeys /\ t \in Task
    BY <1>2 DEF LostInv, NothingLost, Awaits, Open
<1>6. ASSUME t \in KeysOf(Queued) PROVE Awaits(t)'
    BY <1>3, <1>6 DEF Awaits, KeysOf
<1>7. ASSUME NEW e \in available \cup {Local}, Alive(e), t \in KeysOf(running[e])
      PROVE  Awaits(t)'
    BY <1>2, <1>7 DEF Awaits, Alive, Working
<1>8. ASSUME NEW q \in inbox, q # r, q.msg.work.key = t, q.msg.work \notin finished
      PROVE  Awaits(t)'
  <2>1. q.msg.work # r.msg.work
    BY <1>8 DEF LostInv, ReportsInv, OneReport
  <2>. QED BY <1>2, <1>8, <2>1 DEF Awaits
<1>9. ASSUME r.msg.work.key = t, r.msg.work \notin finished PROVE Awaits(t)'
  <2>1. ~IgnoreResult(r)
    BY <1>1, <1>5, <1>9 DEF IgnoreResult, Foreign, BooksInv, PlacesInv, Known
  <2>2. PICK rc :
        /\ RetriesTo(rc) /\ Enqueue(Retries(rc))
        /\ rc[t] # retryCount[t]
    BY <1>1, <1>5, <1>9, <2>1, FailedRetries
  <2>3. finished' \subseteq scheduled
    BY <1>1, <1>2 DEF BooksInv, PlacesInv, Known, Books, Counts, Recorded
  <2>4. CurrentAttempt(t, rc) \in Retries(rc)
    BY <1>1, <1>5, <2>2, <2>3, RetryStep
  <2>5. CurrentAttempt(t, rc) \in Queued' /\ CurrentAttempt(t, rc).key = t
    BY <2>2, <2>4 DEF Enqueue, Queued, RemoteOf, LocalOf, CurrentAttempt
  <2>. QED BY <2>5 DEF Awaits, KeysOf
<1>. QED BY <1>5, <1>6, <1>7, <1>8, <1>9 DEF Awaits

\* A success makes attempts of the tasks it makes runnable; with the root's, no
\* task is left.
LEMMA LostSucceeded ==
    ASSUME LostInv, NEW r \in inbox, TaskSucceeded(r), BooksInv'
    PROVE  NothingLost'
<1>1. BooksInv /\ TypeOK /\ Local \notin Executor /\ available \subseteq Executor
    BY FabricAssumption DEF LostInv, ReportsInv, BooksInv, PlacesInv, TypeOK, SchedulerTypeOK
<1>2. DoneKeys' = DoneKeys \cup {r.msg.work.key}
    BY <1>1, SuccessIsNew
<1>3. PICK new, rc :
        /\ schedQueue' = IF r.msg.work.key = Root THEN {} ELSE schedQueue \cup RemoteOf(new)
        /\ localQueue' = localQueue \cup LocalOf(new)
        /\ \A t \in Open' : ~(Deps[t] \subseteq DoneKeys) => CurrentAttempt(t, rc) \in new
    BY <1>1, SuccessNew
<1>4. /\ UNCHANGED <<schedRunning, available, running>>
      /\ r.msg.work.key # Root => state' = state
      /\ inbox' = inbox \ {r}
      /\ finished' = finished \cup {r.msg.work}
  <2>1. state' = [state EXCEPT ![Local] =
                    IF r.msg.work.key = Root /\ Working(Local) THEN "STOPPED" ELSE @]
    BY DEF TaskSucceeded
  <2>2. state \in [Node -> {"GOOD", "FAIL", "RESOURCE_LOW", "STOPPING", "STOPPED"}]
    BY <1>1 DEF TypeOK, SchedulerTypeOK
  <2>. QED BY <2>1, <2>2 DEF TaskSucceeded, NextResult, loopVars
<1>5. CASE r.msg.work.key = Root
  <2>1. DoneKeys' = Task
    <3>1. TypeOK' /\ DependenciesFirst' /\ Recorded' /\ Root \in DoneKeys'
        BY <1>2, <1>5 DEF BooksInv, PlacesInv, Books, Counts
    <3>2. DoneKeys' \subseteq Task
        BY <3>1 DEF TypeOK, SchedulerTypeOK, DoneKeys, KeysOf, Attempt
    <3>3. \A t \in DoneKeys' : Deps[t] \subseteq DoneKeys'
        BY <3>1 DEF DependenciesFirst, Recorded, DoneKeys, KeysOf
    <3>. QED BY <3>1, <3>2, <3>3, PlanAssumption
  <2>. QED BY <2>1 DEF NothingLost, Open
<1>6. CASE r.msg.work.key # Root
  <2>. SUFFICES ASSUME schedRunning', NEW t \in Open' PROVE Awaits(t)'
    BY DEF NothingLost, Awaits
  <2>1. Queued' = Queued \cup new
    BY <1>3, <1>6 DEF Queued, RemoteOf, LocalOf
  <2>2. CASE ~(Deps[t] \subseteq DoneKeys)
    <3>1. CurrentAttempt(t, rc) \in Queued' /\ CurrentAttempt(t, rc).key = t
        BY <1>3, <2>1, <2>2 DEF CurrentAttempt
    <3>. QED BY <3>1 DEF Awaits, KeysOf
  <2>3. CASE Deps[t] \subseteq DoneKeys
    <3>1. t \in Open /\ t # r.msg.work.key
        BY <1>2, <2>3 DEF Open
    <3>2. Awaits(t)
        BY <1>4, <3>1 DEF LostInv, NothingLost, Awaits
    <3>3. ASSUME NEW q \in inbox, q.msg.work.key = t, q.msg.work \notin finished
          PROVE  q \in inbox' /\ q.msg.work \notin finished'
        BY <1>4, <3>1, <3>3
    <3>. QED BY <1>4, <1>6, <2>1, <3>2, <3>3 DEF Awaits, KeysOf, Alive, Working
  <2>. QED BY <2>2, <2>3
<1>. QED BY <1>5, <1>6

\* Every step keeps an attempt of every runnable task to wait for.
LEMMA LostNext == LostInv /\ ~StopOnFailure /\ ~LateExit /\ [Next]_vars => LostInv'
<1>. SUFFICES ASSUME LostInv, ~StopOnFailure, ~LateExit, [Next]_vars PROVE LostInv'
    OBVIOUS
<1>1. ReportsInv' /\ UpdatedInv' /\ StopsDone' /\ StopsIdle'
    BY BooksNext, ReportsNext, UpdatedNext, StopsDoneNext, StopsIdleNext
    DEF LostInv, ReportsInv, BooksInv, PlacesInv
<1>2. SUFFICES NothingLost'
    BY <1>1 DEF LostInv
<1>3. CASE SchedulerStep
  <2>1. CASE \/ SkipProbes \/ ProbeExecutors \/ EndDispatch
             \/ \E e \in available : StopIdleExecutor(e)
             \/ KeepWaiting \/ LeaveLoop \/ EndPop \/ EndProcess
    <3>1. /\ UNCHANGED <<schedRunning, succeeded, state, running, inbox, finished>>
          /\ available \subseteq available' /\ Queued \subseteq Queued'
        BY <2>1 DEF SkipProbes, ProbeExecutors, Enqueue, EndDispatch, StopIdleExecutor, KeepWaiting,
           LeaveLoop, EndPop, EndProcess, Queued, taskVars, queueVars, execVars, popVars
    <3>. QED BY <3>1, LostKept DEF LostInv
  <2>2. CASE Finish
    BY <2>2 DEF Finish, NothingLost
  <2>. QED BY <1>1, <1>3, <2>1, <2>2, LostUpdate, LostDispatch, LostPop, LostProcessed, LostSucceeded
       DEF SchedulerStep, SchedulerNext, ReportsInv
<1>4. CASE UNCHANGED schedVars
  <2>1. /\ UNCHANGED <<schedRunning, succeeded, state, running, inbox, finished, available>>
        /\ Queued' = Queued
    BY <1>4 DEF schedVars, loopVars, taskVars, queueVars, execVars, popVars, Queued
  <2>. QED BY <2>1, LostKept DEF LostInv
<1>. QED BY <1>3, <1>4 DEF Next, ExecutorStep, LocalStep, Terminated, vars

\* At first, what can run is queued.
LEMMA LostInit == Init => LostInv
<1>. SUFFICES ASSUME Init PROVE LostInv
    OBVIOUS
<1>1. ReportsInv
    BY BooksInit, ReportsInit DEF ReportsInv
<1>2. /\ \A e \in Node : wq[e] = {} /\ cq[e] = {}
      /\ \A e \in Executor : stopSent[e] = FALSE /\ state[e] = "RESOURCE_LOW"
      /\ pc = "probe"
    BY FabricAssumption DEF Init, FabricInit, SchedulerInit, Node
<1>3. UpdatedInv /\ StopsDone /\ StopsIdle
    BY <1>2 DEF UpdatedInv, StopsDone, StopsIdle
<1>4. NothingLost
  <2>. SUFFICES ASSUME NEW t \in Open PROVE t \in KeysOf(Queued)
    BY DEF NothingLost
  <2>. DEFINE x == [key |-> t, epoch |-> 0, retry |-> 0]
  <2>1. DoneKeys = {}
    BY DEF Init, SchedulerInit, DoneKeys, KeysOf
  <2>2. t \in {u \in Task : Deps[u] = {}}
    BY <2>1 DEF Open
  <2>3. x \in Queued /\ x.key = t
    BY <2>2 DEF Init, SchedulerInit, Queued, RemoteOf, LocalOf
  <2>. QED BY <2>3 DEF KeysOf
<1>. QED BY <1>1, <1>3, <1>4 DEF LostInv

\* The scheduler has something to wait for as long as a runnable task has not
\* succeeded and the job is not given up: no order of crashes, false suspicions,
\* failures, stops and retries drops a task.  Stopping an executor for one failure
\* can (see StopsIdle), and so can an attempt that is reported twice.
THEOREM NothingLostCorrect ==
    ASSUME ~StopOnFailure, ~LateExit
    PROVE  Spec => []NothingLost
<1>1. LostInv /\ [Next]_vars => LostInv'
    BY LostNext
<1>2. LostInv => NothingLost
    BY DEF LostInv
<1>. QED BY <1>1, <1>2, LostInit, PTL DEF Spec

-----------------------------------------------------------------------------
(* So the loop is only left at the end *)

\* Of the tasks that have not succeeded, one can run.
LEMMA SomeOpen ==
    ASSUME Task \ DoneKeys # {}
    PROVE  Open # {}
<1>1. PICK t \in Task \ DoneKeys : Deps[t] \cap (Task \ DoneKeys) = {}
    BY PlanAssumption
<1>2. Deps[t] \subseteq Task
    BY GraphAssumption
<1>. QED BY <1>1, <1>2 DEF Open

\* When nothing is queued or running, every task has succeeded.
LEMMA LeaveDone ==
    ASSUME LostInv, LeaveLoop
    PROVE  DoneKeys = Task /\ pc' = "exit"
<1>1. /\ BooksInv /\ schedRunning /\ inbox = {}
      /\ available \cup {Local} \subseteq Node
    BY DEF LostInv, ReportsInv, BooksInv, PlacesInv, TypeOK, SchedulerTypeOK, Books, Phases,
       LeaveLoop, Node
<1>2. /\ Queued = {}
      /\ \A e \in available \cup {Local} : Alive(e) => running[e] = {}
    BY <1>1, IdleIsEmpty DEF LeaveLoop, Quiescent, Queued
<1>3. Open = {}
    BY <1>1, <1>2 DEF LostInv, NothingLost, KeysOf
<1>4. Task \ DoneKeys = {}
    BY <1>3, SomeOpen
<1>5. DoneKeys \subseteq Task
    BY <1>1 DEF BooksInv, PlacesInv, TypeOK, SchedulerTypeOK, DoneKeys, KeysOf, Attempt
<1>6. NumPendingTasks = 0
    BY <1>4, FS_EmptySet DEF NumPendingTasks
<1>. QED BY <1>4, <1>5, <1>6 DEF LeaveLoop

\* The steps of the loop that neither leave it nor give up the job.
LEMMA LoopGoesOn ==
    ASSUME SchedulerStep,
           ~(LeaveLoop \/ EndProcess \/ Finish \/ \E r \in inbox : TaskFailed(r))
    PROVE  /\ UNCHANGED <<failCount, schedRunning, jobStatus>>
           /\ pc # "done" /\ pc' \notin {"exit", "stuck"}
<1>. DEFINE Goal == /\ UNCHANGED <<failCount, schedRunning, jobStatus>>
                    /\ pc # "done" /\ pc' \notin {"exit", "stuck"}
<1>1. CASE SkipProbes \/ ProbeExecutors \/ UpdateExecutorStates \/ PushLocal
    BY <1>1 DEF SkipProbes, ProbeExecutors, UpdateExecutorStates, PushLocal, taskVars, fabricVars
<1>2. ASSUME NEW a \in schedQueue, DropSucceeded(a) \/ \E e \in available : Dispatch(a, e)
      PROVE  Goal
    BY <1>2 DEF DropSucceeded, Dispatch, loopVars, taskVars, fabricVars
<1>3. CASE EndDispatch \/ KeepWaiting \/ \E e \in available : StopIdleExecutor(e)
    BY <1>3 DEF EndDispatch, KeepWaiting, StopIdleExecutor, StartPop, taskVars, fabricVars
<1>4. CASE EndPop \/ \E e \in toPop : PopResults(e)
    BY <1>4 DEF EndPop, PopResults, loopVars, taskVars, fabricVars
<1>5. ASSUME NEW r \in inbox, IgnoreResult(r) PROVE Goal
    BY <1>5 DEF IgnoreResult, NextResult, loopVars, fabricVars
<1>6. ASSUME NEW r \in inbox, TaskSucceeded(r) PROVE Goal
    BY <1>6 DEF TaskSucceeded, NextResult, loopVars
<1>. QED BY <1>1, <1>2, <1>3, <1>4, <1>5, <1>6 DEF SchedulerStep, SchedulerNext

\* The assertion "scheduler stuck in idle state" of sched_loop never fails:
\* when nothing is queued or running any more, all tasks have succeeded.
THEOREM NeverStuckCorrect ==
    ASSUME ~StopOnFailure, ~LateExit
    PROVE  Spec => []NeverStuck
<1>1. Init => NeverStuck
    BY DEF Init, SchedulerInit, NeverStuck
<1>2. LostInv /\ NeverStuck /\ [Next]_vars => NeverStuck'
  <2>. SUFFICES ASSUME LostInv, NeverStuck, [Next]_vars PROVE NeverStuck'
    OBVIOUS
  <2>1. CASE LeaveLoop
    BY <2>1, LeaveDone DEF NeverStuck
  <2>2. CASE EndProcess \/ Finish \/ \E r \in inbox : TaskFailed(r)
    BY <2>2 DEF NeverStuck, EndProcess, Finish, TaskFailed, NextResult
  <2>3. CASE UNCHANGED pc
    BY <2>3 DEF NeverStuck
  <2>. QED BY <2>1, <2>2, <2>3, LoopGoesOn DEF Next, ExecutorStep, LocalStep, Terminated, vars,
           schedVars, loopVars, NeverStuck
<1>3. LostInv /\ [Next]_vars => LostInv'
    BY LostNext
<1>. QED BY <1>1, <1>2, <1>3, LostInit, PTL DEF Spec

\* A task has failed too often.
TooMany == \E t \in Task : failCount[t] > MaxFail

\* The loop is left because of that, or because the root has succeeded.
Causes ==
    /\ ~schedRunning /\ pc # "done" => TooMany
    /\ pc = "exit" => Root \in DoneKeys \/ TooMany
    /\ StatusInv /\ FailureHasCause

\* Every step keeps a cause for leaving the loop.
LEMMA CausesNext == LostInv /\ NeverStuck /\ Causes /\ [Next]_vars => Causes'
<1>. SUFFICES ASSUME LostInv, NeverStuck, Causes, [Next]_vars PROVE Causes'
    OBVIOUS
<1>1. /\ TypeOK /\ LocalAlive /\ failCount \in [Task -> Nat] /\ MaxFail \in Nat
      /\ schedRunning \in BOOLEAN
    BY SchedulerAssumption
    DEF LostInv, ReportsInv, BooksInv, PlacesInv, TypeOK, SchedulerTypeOK, Books
<1>2. StatusInv'
    BY StatusNext DEF Causes
<1>3. DoneKeys \subseteq DoneKeys'
    BY <1>1, SuccessesGrow, SuccessIsNew DEF DoneKeys
<1>4. ASSUME failCount' = failCount, schedRunning' = schedRunning, jobStatus' = jobStatus,
             pc # "done" \/ pc' = "done", pc' = "exit" => pc = "exit"
      PROVE  Causes'
    BY <1>2, <1>3, <1>4 DEF Causes, TooMany, FailureHasCause
<1>5. CASE SchedulerStep
  <2>1. ASSUME NEW r \in inbox, TaskFailed(r) PROVE Causes'
    <3>. DEFINE t == r.msg.work.key
    <3>1. /\ t \in Task
          /\ failCount' = [failCount EXCEPT ![t] = @ + 1]
          /\ ~schedRunning' => ~schedRunning \/ failCount[t] + 1 > MaxFail
          /\ jobStatus' = jobStatus /\ pc' = "process" /\ pc = "process"
        BY <1>1, <2>1 DEF TaskFailed, NextResult, TypeOK, SchedulerTypeOK, Results, Attempt
    <3>2. TooMany => TooMany'
        BY <1>1, <3>1 DEF TooMany
    <3>3. failCount[t] + 1 > MaxFail => TooMany'
        BY <1>1, <3>1 DEF TooMany
    <3>4. jobStatus # "failure"
        BY <3>1 DEF Causes, StatusInv
    <3>. QED BY <1>2, <3>1, <3>2, <3>3, <3>4 DEF Causes, FailureHasCause
  <2>2. CASE LeaveLoop
    <3>1. Root \in DoneKeys' /\ pc = "idle" /\ UNCHANGED <<schedRunning, failCount, jobStatus>>
        BY <1>3, <2>2, LeaveDone, GraphAssumption DEF LeaveLoop, fabricVars, taskVars
    <3>. QED BY <1>2, <3>1 DEF Causes, TooMany, FailureHasCause
  <2>3. CASE EndProcess
    <3>1. /\ UNCHANGED <<schedRunning, failCount, jobStatus>>
          /\ pc = "process" /\ (pc' = "exit" => ~schedRunning)
        BY <2>3 DEF EndProcess, fabricVars, taskVars
    <3>. QED BY <1>2, <3>1 DEF Causes, TooMany, FailureHasCause
  <2>4. CASE Finish
    <3>1. /\ pc = "exit" /\ pc' = "done" /\ failCount' = failCount
          /\ jobStatus' = "failure" => Root \notin DoneKeys
        BY <1>1, <2>4 DEF Finish, NeverStuck, LocalAlive, taskVars
    <3>. QED BY <1>2, <3>1 DEF Causes, TooMany, FailureHasCause
  <2>5. CASE ~(LeaveLoop \/ EndProcess \/ Finish \/ \E r \in inbox : TaskFailed(r))
    BY <1>4, <1>5, <2>5, LoopGoesOn
  <2>. QED BY <2>1, <2>2, <2>3, <2>4, <2>5
<1>6. CASE UNCHANGED <<schedVars, jobStatus>>
    BY <1>4, <1>6 DEF schedVars, loopVars, taskVars
<1>7. ExecutorStep \/ LocalStep => jobStatus' = jobStatus
    BY DEF ExecutorStep, ExecutorNext, LocalStep, RunLocal, PopWorks, PopStop, AnswerProbe, AckStop,
       Crash, Quit, WorkerCrash, Report, Collect, fabricVars
<1>. QED BY <1>5, <1>6, <1>7 DEF Next, ExecutorStep, LocalStep, Terminated, vars, fabricVars

\* A job only fails when one of its tasks failed more than max_fail_count times:
\* losing executors, however many and whenever, is no reason to fail.
THEOREM FailureHasCauseCorrect ==
    ASSUME ~StopOnFailure, ~LateExit
    PROVE  Spec => []FailureHasCause
<1>1. Init => Causes
    BY DEF Init, FabricInit, SchedulerInit, Causes, StatusInv, FailureHasCause
<1>2. Causes => FailureHasCause
    BY DEF Causes
<1>3. LostInv /\ [Next]_vars => LostInv'
    BY LostNext
<1>4. Spec => []NeverStuck
    BY NeverStuckCorrect
<1>. QED BY <1>1, <1>2, <1>3, <1>4, LostInit, CausesNext, PTL DEF Spec

-----------------------------------------------------------------------------
(* What an executor has is what it is charged with *)

With(e) == Ahead(e) \cup ReportedWorks(e)

\* What an executor believed alive has, reports on the way back included, is in its
\* running_works, unless the task is done.
Charged ==
    \A e \in Executor : Alive(e) =>
        \A x \in With(e) : x.key \in DoneKeys \/ x \in running[e]

\* An executor that gets nothing, of which the scheduler forgets nothing.
LEMMA ChargedKept ==
    ASSUME Charged, NEW e \in Executor, DoneKeys \subseteq DoneKeys',
           Alive(e)' => Alive(e), With(e)' \subseteq With(e), running[e] \subseteq running'[e]
    PROVE  Alive(e)' => \A x \in With(e)' : x.key \in DoneKeys' \/ x \in running'[e]
BY DEF Charged

\* An executor starts what was ordered, and reports what it runs.
LEMMA ChargedExecutor ==
    ASSUME TypeOK, ~LateExit, ExecutorStep, NEW e \in Executor
    PROVE  With(e)' \subseteq With(e)
<1>1. /\ e \in Node /\ e # Local /\ Executor \subseteq Node
      /\ wq \in [Node -> SUBSET Orders] /\ cq \in [Node -> SUBSET Completions]
      /\ live \in [Executor -> SUBSET Attempt]
      /\ outbound' = outbound
    BY FabricAssumption DEF TypeOK, FabricTypeOK, ExecutorTypeOK, Node, ExecutorStep, schedVars, execVars
<1>2. PICK f \in Executor :
        \/ PopWorks(f) \/ PopStop(f) \/ AnswerProbe(f)
        \/ AckStop(f) \/ Crash(f) \/ Quit(f)
        \/ \E a \in live[f] : WorkerCrash(f, a) \/ \E s \in Status : Report(f, a, s)
        \/ \E a \in works[f] : Collect(f, a)
    BY DEF ExecutorStep, ExecutorNext
<1>3. /\ \A a, s : ResultMsg(a, s).type = "Result" /\ ResultMsg(a, s).work = a
      /\ \A a, l : ProbeMsg(a, l).type # "Result"
      /\ StopExecutorMsg.type # "Result"
    BY DEF ResultMsg, ProbeMsg, StopExecutorMsg
<1>4. SUFFICES /\ \A m \in wq'[e] : m \in wq[e]
               /\ live'[e] \subseteq live[e] \cup OrderedWorks(e)
               /\ \A m \in cq'[e] : m.type = "Result" => m \in cq[e] \/ m.work \in live[e]
  <2>1. ASSUME /\ \A m \in wq'[e] : m \in wq[e]
               /\ live'[e] \subseteq live[e] \cup OrderedWorks(e)
               /\ \A m \in cq'[e] : m.type = "Result" => m \in cq[e] \/ m.work \in live[e]
        PROVE  With(e)' \subseteq With(e)
    <3>1. OrderedWorks(e)' \subseteq OrderedWorks(e)
        BY <2>1 DEF OrderedWorks
    <3>2. ReportedWorks(e)' \subseteq ReportedWorks(e) \cup live[e]
        BY <2>1 DEF ReportedWorks
    <3>. QED BY <1>1, <2>1, <3>1, <3>2 DEF With, Ahead
  <2>. QED BY <2>1
<1>5. CASE PopWorks(f)
  <2>1. PICK S \in Popped(Pending(f), CpuCount) :
        LET toStop == {m \in S : m.type = "StopWorkItem"}
            absent == {m \in toStop : \A a \in works[f] : a.key # m.key}
            hit    == {a \in works[f] \cap live[f] : StopWorkMsg(a.key) \in toStop}
            new    == UNION {m.works : m \in {n \in S : n.type = "Work"}}
        IN
        /\ wq' = [wq EXCEPT ![f] = @ \ S]
        /\ cq' = Send(cq, f, absent \cup {ResultMsg(a, "CRASHED") : a \in hit})
        /\ live' = [live EXCEPT ![f] = (@ \ hit) \cup new]
    BY <1>5 DEF PopWorks
  <2>. DEFINE toStop == {m \in S : m.type = "StopWorkItem"}
              absent == {m \in toStop : \A a \in works[f] : a.key # m.key}
              hit    == {a \in works[f] \cap live[f] : StopWorkMsg(a.key) \in toStop}
              new    == UNION {m.works : m \in {n \in S : n.type = "Work"}}
              crashed == {ResultMsg(a, "CRASHED") : a \in hit}
  <2>2. /\ wq' = [wq EXCEPT ![f] = @ \ S]
        /\ cq' = [cq EXCEPT ![f] = @ \cup (absent \cup crashed)]
        /\ live' = [live EXCEPT ![f] = (@ \ hit) \cup new]
    BY <2>1 DEF Send
  <2>3. S \subseteq wq[f]
    BY <1>1, PendingType DEF Popped
  <2>4. /\ new \subseteq OrderedWorks(f)
        /\ \A m \in absent : m.type # "Result"
        /\ \A m \in crashed : m.work \in live[f]
    BY <1>3, <2>3 DEF OrderedWorks
  <2>. HIDE DEF absent, hit, new, crashed
  <2>. QED BY <1>1, <2>2, <2>4
<1>6. CASE PopStop(f) \/ Crash(f) \/ Quit(f)
    BY <1>1, <1>6 DEF PopStop, Crash, Quit, fabricVars
<1>7. CASE AnswerProbe(f)
    BY <1>1, <1>3, <1>7 DEF AnswerProbe, Send
<1>8. CASE AckStop(f)
    BY <1>1, <1>3, <1>8 DEF AckStop, Send
<1>9. ASSUME NEW a \in live[f], WorkerCrash(f, a) \/ \E s \in Status : Report(f, a, s)
      PROVE  /\ \A m \in wq'[e] : m \in wq[e]
             /\ live'[e] \subseteq live[e] \cup OrderedWorks(e)
             /\ \A m \in cq'[e] : m.type = "Result" => m \in cq[e] \/ m.work \in live[e]
  <2>1. /\ wq' = wq /\ live' = [live EXCEPT ![f] = @ \ {a}]
        /\ cq' = cq \/ \E s : cq' = Send(cq, f, {ResultMsg(a, s)})
    BY <1>9 DEF WorkerCrash, Report
  <2>. QED BY <1>1, <1>3, <2>1 DEF Send
<1>10. ASSUME NEW a \in works[f], Collect(f, a)
       PROVE  UNCHANGED <<wq, live>> /\ cq' = cq
    BY <1>1, <1>10 DEF Collect, Send
<1>. QED BY <1>2, <1>5, <1>6, <1>7, <1>8, <1>9, <1>10

\* A report takes the work off the books with it, and no other one, because an
\* executor is charged with one attempt of a task.
LEMMA ChargedPop ==
    ASSUME ReportsInv, StopsDone, Charged, UNCHANGED workerVars, NEW f \in toPop, PopResults(f),
           NEW e \in Executor
    PROVE  Alive(e)' => \A x \in With(e)' : x.key \in DoneKeys' \/ x \in running'[e]
<1>1. /\ TypeOK /\ e \in Node /\ e # Local
      /\ cq \in [Node -> SUBSET Completions] /\ running \in [Node -> SUBSET Attempt]
    BY FabricAssumption
    DEF ReportsInv, BooksInv, PlacesInv, TypeOK, FabricTypeOK, SchedulerTypeOK, Node
<1>2. PICK S \in SUBSET cq[f] :
        /\ f \in Node
        /\ cq' = [cq EXCEPT ![f] = @ \ S]
        /\ running' = [running EXCEPT ![f] = {a \in @ : a.key \notin Over(S)}]
        /\ UNCHANGED <<wq, taskVars, state, outbound>>
    BY <1>1, PopEffect
<1>3. /\ DoneKeys' = DoneKeys /\ (Alive(e)' => Alive(e))
      /\ Ahead(e)' = Ahead(e)
    BY <1>2 DEF taskVars, DoneKeys, Alive, Working, Ahead, OrderedWorks, workerVars
<1>4. ReportedWorks(e)' \subseteq ReportedWorks(e)
    BY <1>1, <1>2 DEF ReportedWorks
<1>5. CASE f # e
    BY <1>1, <1>2, <1>3, <1>4, <1>5, ChargedKept DEF With
<1>6. CASE f = e
  <2>. SUFFICES ASSUME Alive(e), NEW x \in With(e)', x.key \notin DoneKeys
                PROVE  x \in running'[e]
    BY <1>3
  <2>1. x \in With(e) /\ x \in running[e]
    BY <1>3, <1>4 DEF With, Charged
  <2>. SUFFICES ASSUME x.key \in Over(S) PROVE FALSE
    BY <1>1, <1>2, <1>6, <2>1
  <2>2. \A m \in S : m.type = "StopWorkItem" => m.key \in DoneKeys
    BY <1>1, <1>6 DEF StopsDone
  <2>3. PICK m \in S : m.type = "Result" /\ m.work.key = x.key
    BY <2>2 DEF Over
  <2>4. m \in cq[e] /\ m.work \in ReportedWorks(e)
    BY <1>6, <2>3 DEF ReportedWorks
  <2>5. m.work \in running[e]
    BY <2>3, <2>4 DEF With, Charged
  <2>6. m.work = x
    BY <1>1, <2>1, <2>3, <2>5 DEF ReportsInv, BooksInv, Books, RunningKeys
  <2>7. ReportedOnce(e)
    BY <1>1 DEF ReportsInv, OneReport
  <2>8. x \in ReportedWorks(e)'
    BY <1>3, <2>4, <2>6, <2>7 DEF With, ReportedOnce
  <2>9. PICK n \in cq'[e] : n.type = "Result" /\ n.work = x
    BY <2>8 DEF ReportedWorks
  <2>10. n \in cq[e] /\ n \notin S
    BY <1>1, <1>2, <1>6, <2>9
  <2>. QED BY <2>3, <2>4, <2>6, <2>7, <2>9, <2>10 DEF ReportedOnce
<1>. QED BY <1>5, <1>6

\* Steps of the scheduler that order no work charge for none and revive no executor.
LEMMA QuietCharges ==
    ASSUME TypeOK, NEW e \in Executor,
           \/ SkipProbes \/ ProbeExecutors \/ UpdateExecutorStates
           \/ \E a \in schedQueue : DropSucceeded(a)
           \/ \E f \in available : StopIdleExecutor(f)
           \/ KeepWaiting \/ LeaveLoop \/ EndPop \/ EndProcess \/ Finish
           \/ \E r \in inbox : IgnoreResult(r) \/ TaskFailed(r) \/ TaskSucceeded(r)
    PROVE  running' = running /\ (Alive(e)' => Alive(e))
<1>1. /\ e \in Node /\ e # Local
      /\ state \in [Node -> {"GOOD", "FAIL", "RESOURCE_LOW", "STOPPING", "STOPPED"}]
    BY FabricAssumption DEF TypeOK, SchedulerTypeOK, Node
<1>2. state'[e] = state[e] => (Alive(e)' => Alive(e))
    BY DEF Alive, Working
<1>3. CASE UpdateExecutorStates
    BY <1>1, <1>3 DEF UpdateExecutorStates, Alive, Working
<1>4. CASE \/ SkipProbes \/ ProbeExecutors \/ \E a \in schedQueue : DropSucceeded(a)
           \/ KeepWaiting \/ LeaveLoop \/ EndPop \/ EndProcess
  <2>1. UNCHANGED <<running, state>>
    BY <1>4 DEF SkipProbes, ProbeExecutors, DropSucceeded, KeepWaiting, LeaveLoop, EndPop,
       EndProcess, execVars
  <2>. QED BY <1>2, <2>1
<1>5. CASE Finish \/ \E f \in available : StopIdleExecutor(f)
    BY <1>1, <1>2, <1>5 DEF Finish, StopAll, StopIdleExecutor
<1>6. ASSUME NEW r \in inbox, IgnoreResult(r) PROVE running' = running /\ state' = state
    BY <1>6 DEF IgnoreResult, execVars
<1>7. ASSUME NEW r \in inbox, TaskFailed(r) PROVE running' = running /\ state'[e] = state[e]
    BY <1>1, <1>7 DEF TaskFailed, StopAll
<1>8. ASSUME NEW r \in inbox, TaskSucceeded(r) PROVE running' = running /\ state'[e] = state[e]
    BY <1>1, <1>8 DEF TaskSucceeded
<1>. QED BY <1>2, <1>3, <1>4, <1>5, <1>6, <1>7, <1>8

\* Every step keeps Charged.
LEMMA ChargedNext == ReportsInv /\ StopsDone /\ Charged /\ ~LateExit /\ [Next]_vars => Charged'
<1>. SUFFICES ASSUME ReportsInv, StopsDone, Charged, ~LateExit, [Next]_vars, NEW e \in Executor
              PROVE  Alive(e)' => \A x \in With(e)' : x.key \in DoneKeys' \/ x \in running'[e]
    BY DEF Charged
<1>. DEFINE Goal == Alive(e)' => \A x \in With(e)' : x.key \in DoneKeys' \/ x \in running'[e]
<1>1. /\ BooksInv /\ TypeOK /\ e \in Node /\ e # Local /\ Local \in Node
      /\ available \subseteq Node
      /\ wq \in [Node -> SUBSET Orders] /\ outbound \in [Node -> SUBSET Attempt]
      /\ running \in [Node -> SUBSET Attempt]
      /\ state \in [Node -> {"GOOD", "FAIL", "RESOURCE_LOW", "STOPPING", "STOPPED"}]
    BY FabricAssumption
    DEF ReportsInv, BooksInv, PlacesInv, TypeOK, FabricTypeOK, SchedulerTypeOK, Node
<1>2. DoneKeys \subseteq DoneKeys'
    BY <1>1, SuccessesGrow, SuccessIsNew DEF DoneKeys
<1>3. CASE SchedulerStep
  <2>0. UNCHANGED workerVars
    BY <1>3 DEF SchedulerStep
  <2>1. CASE \/ SkipProbes \/ ProbeExecutors \/ UpdateExecutorStates
             \/ \E a \in schedQueue : DropSucceeded(a)
             \/ \E f \in available : StopIdleExecutor(f)
             \/ KeepWaiting \/ LeaveLoop \/ EndPop \/ EndProcess \/ Finish
             \/ \E r \in inbox : IgnoreResult(r) \/ TaskFailed(r) \/ TaskSucceeded(r)
    <3>1. /\ UNCHANGED <<outbound, live>>
          /\ \A m \in wq'[e] : m.type = "Work" => m \in wq[e]
          /\ \A m \in cq'[e] : m.type = "Result" => m \in cq[e]
        BY <1>1, <2>0, <2>1, QuietMessages
    <3>2. With(e)' \subseteq With(e)
        BY <3>1 DEF With, Ahead, OrderedWorks, ReportedWorks
    <3>. QED BY <1>1, <1>2, <2>1, <3>2, QuietCharges, ChargedKept
  <2>2. CASE PushLocal
    <3>1. UNCHANGED <<cq, outbound, state>> /\ wq'[e] = wq[e] /\ running'[e] = running[e]
        BY <1>1, <2>2 DEF PushLocal, Send
    <3>2. With(e)' \subseteq With(e)
        BY <2>0, <3>1 DEF With, Ahead, OrderedWorks, ReportedWorks, workerVars
    <3>. QED BY <1>2, <3>1, <3>2, ChargedKept DEF Alive, Working
  <2>3. ASSUME NEW a \in schedQueue, NEW f \in available, Dispatch(a, f) PROVE Goal
    <3>1. /\ UNCHANGED <<wq, cq, state>>
          /\ outbound'[e] = IF e = f THEN outbound[e] \cup {a} ELSE outbound[e]
          /\ running'[e] = IF e = f THEN running[e] \cup {a} ELSE running[e]
        BY <1>1, <2>3 DEF Dispatch, fabricVars
    <3>2. With(e)' \subseteq With(e) \cup (IF e = f THEN {a} ELSE {})
        BY <2>0, <3>1 DEF With, Ahead, OrderedWorks, ReportedWorks, workerVars
    <3>. QED BY <1>2, <3>1, <3>2 DEF Charged, Alive, Working
  <2>4. CASE EndDispatch
    <3>1. /\ UNCHANGED <<cq, state, running>> /\ outbound'[e] = {}
          /\ wq'[e] \subseteq wq[e] \cup {WorkMsg(outbound[e])}
        BY <1>1, <2>4 DEF EndDispatch
    <3>2. OrderedWorks(e)' \subseteq OrderedWorks(e) \cup outbound[e]
        BY <3>1 DEF OrderedWorks, WorkMsg
    <3>3. With(e)' \subseteq With(e)
        BY <2>0, <3>1, <3>2 DEF With, Ahead, ReportedWorks, workerVars
    <3>. QED BY <1>2, <3>1, <3>3, ChargedKept DEF Alive, Working
  <2>5. ASSUME NEW f \in toPop, PopResults(f) PROVE Goal
    BY <2>0, <2>5, ChargedPop
  <2>. QED BY <1>3, <2>1, <2>2, <2>3, <2>4, <2>5 DEF SchedulerStep, SchedulerNext
<1>4. CASE ExecutorStep
  <2>1. UNCHANGED <<running, state>>
    BY <1>4 DEF ExecutorStep, schedVars, execVars
  <2>2. With(e)' \subseteq With(e)
    BY <1>1, <1>4, ChargedExecutor
  <2>. QED BY <1>2, <2>1, <2>2, ChargedKept DEF Alive, Working
<1>5. CASE LocalStep
  <2>1. UNCHANGED <<running, state, outbound, live>> /\ wq'[e] = wq[e] /\ cq'[e] = cq[e]
    BY <1>1, <1>5 DEF LocalStep, RunLocal, Send, schedVars, execVars, workerVars, TypeOK, FabricTypeOK
  <2>2. With(e)' \subseteq With(e)
    BY <2>1 DEF With, Ahead, OrderedWorks, ReportedWorks
  <2>. QED BY <1>2, <2>1, <2>2, ChargedKept DEF Alive, Working
<1>6. CASE UNCHANGED vars
  <2>1. UNCHANGED <<running, state, outbound, live, wq, cq>>
    BY <1>6 DEF vars, fabricVars, schedVars, execVars, workerVars
  <2>2. With(e)' \subseteq With(e)
    BY <2>1 DEF With, Ahead, OrderedWorks, ReportedWorks
  <2>. QED BY <1>2, <2>1, <2>2, ChargedKept DEF Alive, Working
<1>. QED BY <1>3, <1>4, <1>5, <1>6 DEF Next, Terminated

\* What an executor believed alive has been ordered to run or is running is what
\* the scheduler charges it for: neither retries of the task elsewhere, nor
\* speculation, nor requests to stop a work take a running work off the books.
THEOREM NoPhantomWorkCorrect ==
    ASSUME ~LateExit
    PROVE  Spec => []NoPhantomWork
<1>1. Init => Charged
  <2>. SUFFICES ASSUME Init, NEW e \in Executor PROVE With(e) = {}
    BY DEF Charged
  <2>. QED BY DEF Init, FabricInit, SchedulerInit, ExecutorInit, With, Ahead, OrderedWorks,
       ReportedWorks, Node
<1>2. Init => ReportsInv /\ StopsDone
    BY LostInit DEF LostInv
<1>3. ReportsInv /\ StopsDone /\ Charged /\ [Next]_vars => ReportsInv' /\ StopsDone' /\ Charged'
    BY BooksNext, ReportsNext, StopsDoneNext, ChargedNext DEF ReportsInv
<1>4. ReportsInv /\ Charged => NoPhantomWork
  <2>. SUFFICES ASSUME ReportsInv, Charged, NEW e \in available, Alive(e),
                       NEW x \in OrderedWorks(e) \cup live[e]
                PROVE  x.key \in DoneKeys \/ x \in running[e]
    BY DEF NoPhantomWork
  <2>1. e \in Executor /\ e # Local
    BY FabricAssumption DEF ReportsInv, BooksInv, PlacesInv, TypeOK, SchedulerTypeOK
  <2>. QED BY <2>1 DEF Charged, With, Ahead
<1>. QED BY <1>1, <1>2, <1>3, <1>4, PTL DEF Spec
=============================================================================
