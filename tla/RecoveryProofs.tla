--------------------------- MODULE RecoveryProofs ---------------------------
(***************************************************************************)
(* What TLAPS proves of a job whose scheduler dies and is started again,   *)
(* any number of times and at any moment: attempts keep identities of      *)
(* their own, and no task is attempted before its inputs.                  *)
(***************************************************************************)
EXTENDS Recovery, SmallpondProofs

-----------------------------------------------------------------------------
(* What a dump holds *)

Dumps == [epoch : Nat, retries : [Task -> Nat], fails : [Task -> Nat],
          scheduled : SUBSET Attempt, finished : SUBSET Attempt,
          succeeded : SUBSET Attempt, sched : SUBSET Attempt, local : SUBSET Attempt,
          available : SUBSET Executor,
          state : [Node -> {"GOOD", "FAIL", "RESOURCE_LOW", "STOPPING", "STOPPED"}],
          running : [Node -> SUBSET Attempt],
          acked : [Node -> [age : Age, low : BOOLEAN]],
          stopSent : [Node -> BOOLEAN], stopAcked : [Node -> BOOLEAN],
          probes : Nat]

\* The books of a dump agree with each other like those of a scheduler.
Consistent(s) ==
    /\ \A x \in s.sched : x.key \notin LocalTask
    /\ \A x \in s.local : x.key \in LocalTask
    /\ s.sched \cup s.local \subseteq s.scheduled
    /\ \A e \in Node : s.running[e] \subseteq s.scheduled
    /\ \A x \in s.scheduled : Deps[x.key] \subseteq KeysOf(s.succeeded)

BooksOK == TypeOK /\ QueuesSplit /\ Booked /\ DependenciesFirst

SavedOK == saved \subseteq Dumps /\ \A s \in saved : Consistent(s)

\* An attempt that is with an executor is not of an epoch still to come.  One of
\* the current epoch is in the books, and there is none before the scheduler has
\* dumped itself in that epoch: the next one never starts in an epoch in which
\* work was handed out.
Epochs ==
    /\ startup = "no" => pc # "down" /\ \A s \in saved : s.epoch = schedEpoch
    /\ \A e \in Node : \A x \in Placed(e) :
        /\ x.epoch <= schedEpoch
        /\ x.epoch = schedEpoch => x \in scheduled /\ startup = "no"
        /\ \A s \in saved : x.epoch <= s.epoch
    /\ pc # "down" => \A x \in Queued : x.epoch = schedEpoch

\* Attempts with different executors are different, also while the scheduler is
\* down.
Apart == \A e, f \in Node : e # f => Placed(e) \cap Placed(f) = {}

RecoveryInv == BooksOK /\ SavedOK /\ Epochs /\ Apart /\ AttemptsAreNew

-----------------------------------------------------------------------------
(* Steps of the loop and of executors *)

\* Attempts are made for the current epoch.
LEMMA ScheduledNow ==
    ASSUME [Next]_vars
    PROVE  /\ schedEpoch' = schedEpoch
           /\ \A x \in scheduled' \ scheduled : x.epoch = schedEpoch
           /\ pc' = "down" <=> pc = "down"
<1>1. \A K, done, rc : \A x \in NewAttempts(K, done, rc) : x.epoch = schedEpoch
    BY DEF NewAttempts, CurrentAttempt
<1>2. \A rc : \A x \in Retries(rc) : x.epoch = schedEpoch
    BY DEF Retries
<1>3. CASE SkipProbes \/ ProbeExecutors \/ UpdateExecutorStates
    BY <1>1, <1>2, <1>3 DEF SkipProbes, ProbeExecutors, UpdateExecutorStates, Enqueue, taskVars
<1>4. CASE PushLocal \/ EndDispatch \/ KeepWaiting \/ LeaveLoop \/ EndPop \/ EndProcess \/ Finish
    BY <1>4 DEF PushLocal, EndDispatch, KeepWaiting, LeaveLoop, EndPop, EndProcess, Finish,
       StartPop, taskVars
<1>5. ASSUME NEW a \in schedQueue, DropSucceeded(a) \/ \E e \in available : Dispatch(a, e)
      PROVE  /\ schedEpoch' = schedEpoch
             /\ \A x \in scheduled' \ scheduled : x.epoch = schedEpoch
             /\ pc' = "down" <=> pc = "down"
    BY <1>1, <1>5 DEF DropSucceeded, Dispatch, taskVars, loopVars
<1>6. ASSUME NEW e, StopIdleExecutor(e) \/ PopResults(e)
      PROVE  /\ schedEpoch' = schedEpoch
             /\ \A x \in scheduled' \ scheduled : x.epoch = schedEpoch
             /\ pc' = "down" <=> pc = "down"
    BY <1>6 DEF StopIdleExecutor, PopResults, StartPop, taskVars, loopVars
<1>7. ASSUME NEW r \in inbox, IgnoreResult(r) \/ TaskFailed(r) \/ TaskSucceeded(r)
      PROVE  /\ schedEpoch' = schedEpoch
             /\ \A x \in scheduled' \ scheduled : x.epoch = schedEpoch
             /\ pc' = "down" <=> pc = "down"
    BY <1>1, <1>7 DEF IgnoreResult, TaskFailed, TaskSucceeded, NextResult, Enqueue, loopVars
<1>8. CASE SchedulerStep
    BY <1>3, <1>4, <1>5, <1>6, <1>7, <1>8 DEF SchedulerStep, SchedulerNext
<1>9. CASE ExecutorStep \/ LocalStep \/ UNCHANGED vars
    BY <1>9 DEF ExecutorStep, LocalStep, vars, schedVars, loopVars, taskVars
<1>. QED BY <1>8, <1>9 DEF Next, Terminated

\* What is queued or said to be running stays within the books.
LEMMA BookedMoves ==
    ASSUME Booked, Keeps \/ HandsOut
    PROVE  Booked'
<1>1. CASE Keeps
    BY <1>1 DEF Keeps, Booked
<1>2. CASE HandsOut
    BY <1>2 DEF HandsOut, Booked
<1>. QED BY <1>1, <1>2

\* The books stay in order in every step but a death and the startup's own.
LEMMA BooksStep ==
    ASSUME BooksOK, [Next]_vars
    PROVE  BooksOK' /\ (Keeps \/ HandsOut)
<1>1. QueuesSplit' /\ (Keeps \/ HandsOut)
    BY PlacesMove DEF BooksOK
<1>2. TypeOK' /\ DependenciesFirst'
    BY TypeNext, DepsNext DEF BooksOK, DepsInv
<1>. QED BY <1>1, <1>2, BookedMoves DEF BooksOK

\* A step that hands nothing out keeps the places and epochs of attempts.
LEMMA EpochsKeep ==
    ASSUME RecoveryInv, BooksOK', Keeps, schedEpoch' = schedEpoch,
           pc' = "down" <=> pc = "down",
           \A x \in scheduled' \ scheduled : x.epoch = schedEpoch,
           \A s \in saved' : (\E q \in saved : s.epoch = q.epoch) \/ s.epoch = schedEpoch,
           startup' = "no" => pc' # "down" /\ \A s \in saved' : s.epoch = schedEpoch,
           startup = "no" => startup' = "no"
    PROVE  Epochs' /\ Apart' /\ AttemptsAreNew'
<1>1. /\ scheduled \subseteq scheduled'
      /\ Queued' \subseteq Queued \cup (scheduled' \ scheduled)
      /\ \A e \in Node : Placed(e)' \subseteq Placed(e)
    BY DEF Keeps
<1>2. Apart'
    BY <1>1 DEF RecoveryInv, Apart
<1>3. ASSUME pc' # "down", NEW x \in Queued' PROVE x.epoch = schedEpoch
    BY <1>1, <1>3 DEF RecoveryInv, Epochs
<1>4. ASSUME NEW e \in Node, NEW x \in Placed(e)'
      PROVE  /\ x.epoch <= schedEpoch
             /\ x.epoch = schedEpoch => x \in scheduled /\ startup = "no"
             /\ \A s \in saved : x.epoch <= s.epoch
    BY <1>1, <1>4 DEF RecoveryInv, Epochs
<1>5. Epochs'
    BY <1>1, <1>3, <1>4 DEF Epochs
<1>6. ASSUME pc' # "down", NEW e \in Node, NEW x \in Placed(e)' \cap Queued'
      PROVE  FALSE
  <2>1. x \in Placed(e) /\ pc # "down"
    BY <1>1, <1>6
  <2>2. x \in Queued => FALSE
    BY <2>1 DEF RecoveryInv, AttemptsAreNew, DispatchedOnce
  <2>3. x \in scheduled' \ scheduled /\ x.epoch = schedEpoch
    BY <1>1, <1>6, <2>2
  <2>. QED BY <1>4, <1>6, <2>3
<1>. QED BY <1>2, <1>5, <1>6 DEF AttemptsAreNew, DispatchedOnce, Apart

\* Handing out an attempt keeps them too: it is of this epoch, and the dump that
\* the next scheduler will read is of this epoch as well.
LEMMA EpochsHand ==
    ASSUME RecoveryInv, HandsOut, schedEpoch' = schedEpoch, pc' # "down",
           startup = "no", startup' = "no",
           \A s \in saved' : s.epoch = schedEpoch
    PROVE  Epochs' /\ Apart' /\ AttemptsAreNew'
<1>1. PICK e \in Node, sent \in SUBSET Queued :
        /\ UNCHANGED <<scheduled, inbox>>
        /\ Queued' \subseteq Queued \ sent
        /\ Placed(e)' \subseteq Placed(e) \cup sent
        /\ \A f \in Node \ {e} : Placed(f)' = Placed(f)
    BY DEF HandsOut
<1>2. pc # "down"
    BY DEF RecoveryInv, Epochs
<1>3. ASSUME NEW x \in Queued
      PROVE  x.epoch = schedEpoch /\ x \in scheduled /\ \A f \in Node : x \notin Placed(f)
    BY <1>2 DEF RecoveryInv, Epochs, BooksOK, Booked, AttemptsAreNew, DispatchedOnce
<1>4. schedEpoch \in Nat
    BY DEF RecoveryInv, BooksOK, TypeOK, SchedulerTypeOK
<1>5. Epochs'
  <2>1. ASSUME NEW f \in Node, NEW x \in Placed(f)'
        PROVE  x.epoch <= schedEpoch /\ (x.epoch = schedEpoch => x \in scheduled)
    <3>1. x \in Placed(f) \/ x \in sent
        BY <1>1, <2>1
    <3>. QED BY <1>3, <1>4, <3>1 DEF RecoveryInv, Epochs
  <2>. QED BY <1>1, <1>3, <2>1 DEF Epochs
<1>6. ASSUME NEW f \in Node PROVE Placed(f)' \cap Queued' = {}
    BY <1>1, <1>3
<1>7. ASSUME NEW f \in Node, NEW g \in Node, f # g PROVE Placed(f)' \cap Placed(g)' = {}
    BY <1>1, <1>3, <1>7 DEF RecoveryInv, Apart
<1>. QED BY <1>5, <1>6, <1>7 DEF AttemptsAreNew, DispatchedOnce, Apart

-----------------------------------------------------------------------------
(* Dumps *)

\* A dump made now is well formed and consistent.
LEMMA SnapshotOK ==
    BooksOK => Snapshot \in Dumps /\ Consistent(Snapshot) /\ Snapshot.epoch = schedEpoch
BY DEF BooksOK, TypeOK, SchedulerTypeOK, QueuesSplit, Booked, DependenciesFirst, Queued, DoneKeys,
   Snapshot, Dumps, Consistent

\* So is one made at the end of the step.
LEMMA SnapshotNextOK ==
    ASSUME BooksOK'
    PROVE  Snapshot' \in Dumps /\ Consistent(Snapshot') /\ Snapshot'.epoch = schedEpoch'
BY DEF BooksOK, TypeOK, SchedulerTypeOK, QueuesSplit, Booked, DependenciesFirst, Queued, DoneKeys,
   Snapshot, Dumps, Consistent

\* The state of the local executor is no part of the books.
LEMMA LocalStateOK ==
    ASSUME NEW s \in Dumps, Consistent(s),
           NEW v \in {"GOOD", "FAIL", "RESOURCE_LOW", "STOPPING", "STOPPED"}
    PROVE  LET z == [s EXCEPT !.state[Local] = v]
           IN  z \in Dumps /\ Consistent(z) /\ z.epoch = s.epoch
BY DEF Dumps, Consistent

\* Nor is the number of probes since.
LEMMA ProbesOK ==
    ASSUME NEW s \in Dumps, Consistent(s), NEW n \in Nat
    PROVE  LET z == [s EXCEPT !.probes = n]
           IN  z \in Dumps /\ Consistent(z) /\ z.epoch = s.epoch
BY DEF Dumps, Consistent

\* So a dump that gets older stays as it was.
LEMMA AgedOK ==
    ASSUME NEW s \in Dumps, Consistent(s)
    PROVE  Aged(s) \in Dumps /\ Consistent(Aged(s)) /\ Aged(s).epoch = s.epoch
<1>. DEFINE n == IF s.probes > MaxMissed THEN s.probes ELSE s.probes + 1
<1>1. s.probes \in Nat
    BY DEF Dumps
<1>2. n \in Nat
    BY <1>1
<1>3. Aged(s) = [s EXCEPT !.probes = n]
    BY DEF Aged
<1>. HIDE DEF n
<1>. QED BY <1>2, <1>3, ProbesOK

\* The next epoch is no part of the books either.
LEMMA EpochOK ==
    ASSUME NEW s \in Dumps, Consistent(s), NEW n \in Nat
    PROVE  LET z == [s EXCEPT !.epoch = n]
           IN  z \in Dumps /\ Consistent(z) /\ z.epoch = n
BY DEF Dumps, Consistent

\* What the next scheduler loads.
LEMMA LoadedOK ==
    ASSUME NEW s \in Dumps, Consistent(s)
    PROVE  /\ Loaded(s) \in Dumps /\ Consistent(Loaded(s))
           /\ Loaded(s).epoch = s.epoch + 1
<1>1. s.epoch \in Nat
    BY DEF Dumps
<1>2. s.epoch + 1 \in Nat /\ Loaded(s) = [s EXCEPT !.epoch = s.epoch + 1]
    BY <1>1 DEF Loaded
<1>. QED BY <1>2, EpochOK

-----------------------------------------------------------------------------
(* The steps *)

\* The loop, with its dumps.
LEMMA LoopInv ==
    ASSUME RecoveryInv, LoopStep
    PROVE  RecoveryInv'
<1>1. [Next]_vars /\ startup = "no" /\ startup' = "no"
    BY DEF LoopStep, EndIteration, Next, SchedulerStep, SchedulerNext
<1>2. BooksOK' /\ (Keeps \/ HandsOut)
    BY <1>1, BooksStep DEF RecoveryInv
<1>3. /\ schedEpoch' = schedEpoch
      /\ \A x \in scheduled' \ scheduled : x.epoch = schedEpoch
      /\ pc' = "down" <=> pc = "down"
    BY <1>1, ScheduledNow
<1>4. ASSUME NEW s \in saved'
      PROVE  s \in saved \/ s = Snapshot' \/ \E q \in saved : s = Aged(q)
    BY <1>4 DEF LoopStep, EndIteration, Kept
<1>5. ASSUME NEW s \in saved'
      PROVE  s \in Dumps /\ Consistent(s) /\ s.epoch = schedEpoch
  <2>1. CASE s \in saved
    BY <1>1, <2>1 DEF RecoveryInv, SavedOK, Epochs
  <2>2. CASE s = Snapshot'
    BY <1>2, <1>3, <2>2, SnapshotNextOK
  <2>3. ASSUME NEW q \in saved, s = Aged(q)
        PROVE  s \in Dumps /\ Consistent(s) /\ s.epoch = schedEpoch
    BY <1>1, <2>3, AgedOK DEF RecoveryInv, SavedOK, Epochs
  <2>. QED BY <1>4, <2>1, <2>2, <2>3
<1>6. SavedOK'
    BY <1>5 DEF SavedOK
<1>7. pc # "down"
    BY <1>1 DEF RecoveryInv, Epochs
<1>8. Epochs' /\ Apart' /\ AttemptsAreNew'
    BY <1>1, <1>2, <1>3, <1>5, <1>7, EpochsKeep, EpochsHand
<1>. QED BY <1>2, <1>6, <1>8 DEF RecoveryInv

\* The same for a step that leaves the dumps alone and hands nothing out.
LEMMA QuietInv ==
    ASSUME RecoveryInv, [Next]_vars, Keeps, saved' = saved,
           startup' = "no" <=> startup = "no"
    PROVE  RecoveryInv'
<1>1. BooksOK'
    BY BooksStep DEF RecoveryInv
<1>2. SavedOK'
    BY DEF RecoveryInv, SavedOK
<1>3. startup = "no" => pc # "down" /\ \A s \in saved : s.epoch = schedEpoch
    BY DEF RecoveryInv, Epochs
<1>. QED BY <1>1, <1>2, <1>3, ScheduledNow, EpochsKeep DEF RecoveryInv

\* Executors go on, whatever the scheduler does.
LEMMA ExecutorInv ==
    ASSUME RecoveryInv, ExecutorAct \/ LocalAct \/ UNCHANGED allVars
    PROVE  RecoveryInv'
<1>1. /\ [Next]_vars
      /\ UNCHANGED recoveryVars
    BY DEF ExecutorAct, LocalAct, Next, allVars
<1>2. Keeps
  <2>1. CASE ExecutorAct
    BY <2>1, KeepsExecutor DEF ExecutorAct, RecoveryInv, BooksOK
  <2>2. CASE LocalAct
    BY <2>2, KeepsLocal DEF LocalAct, RecoveryInv, BooksOK
  <2>3. CASE UNCHANGED allVars
    BY <2>3 DEF allVars, vars, fabricVars, schedVars, workerVars, taskVars, queueVars, execVars,
       popVars, Keeps, Placed, Queued, OrderedWorks, ReportedWorks
  <2>. QED BY <2>1, <2>2, <2>3
<1>. QED BY <1>1, <1>2, QuietInv DEF recoveryVars

\* The startup processes results as the loop does.
LEMMA StartupInv ==
    ASSUME RecoveryInv, StartupStep
    PROVE  RecoveryInv'
<1>1. [Next]_vars
    BY DEF StartupStep, StartupPop, StartupProcess, Next, SchedulerStep, SchedulerNext
<1>2. Keeps
  <2>. USE DEF RecoveryInv, BooksOK, StartupStep
  <2>1. CASE StartupPop
    BY <2>1, KeepsPop DEF StartupPop
  <2>2. CASE EndPop
    BY <2>2, KeepsIdle
  <2>3. CASE \E r \in inbox : StartupProcess(r)
    BY <2>3, KeepsProcess DEF StartupProcess
  <2>. QED BY <2>1, <2>2, <2>3
<1>. QED BY <1>1, <1>2, QuietInv DEF StartupStep

\* So does another round of it.
LEMMA PollInv ==
    ASSUME RecoveryInv, PollAgain
    PROVE  RecoveryInv'
<1>1. UNCHANGED <<fabricVars, schedRunning, schedEpoch, taskVars, queueVars,
                  execVars, inbox, workerVars, saved>>
    BY DEF PollAgain
<1>2. startup # "no" /\ startup' # "no" /\ pc = "process" /\ pc' = "pop"
    BY DEF PollAgain
<1>3. toPop' \subseteq Node
    BY DEF PollAgain, Poll, RecoveryInv, BooksOK, TypeOK, SchedulerTypeOK, Node
<1>4. BooksOK'
    BY <1>1, <1>2, <1>3
    DEF RecoveryInv, BooksOK, TypeOK, FabricTypeOK, SchedulerTypeOK, ExecutorTypeOK, QueuesSplit,
        Booked, Queued, DependenciesFirst, DoneKeys, fabricVars, taskVars, queueVars, execVars,
        workerVars
<1>5. Keeps
    BY <1>1 DEF Keeps, Placed, Queued, OrderedWorks, ReportedWorks, fabricVars, taskVars,
       queueVars, execVars, workerVars
<1>6. scheduled' = scheduled /\ schedEpoch' = schedEpoch /\ saved' = saved
    BY <1>1 DEF taskVars
<1>7. SavedOK'
    BY <1>6 DEF RecoveryInv, SavedOK
<1>. QED BY <1>2, <1>4, <1>5, <1>6, <1>7, EpochsKeep DEF RecoveryInv

\* What try_enqueue accepts is of this epoch and new to the books.
LEMMA NewAttemptsNow ==
    ASSUME NEW K, NEW done, NEW rc, NEW x \in NewAttempts(K, done, rc)
    PROVE  x.epoch = schedEpoch /\ x \notin scheduled
BY DEF NewAttempts, CurrentAttempt

\* Attempts of the books are enqueued again as attempts of this epoch that are new to
\* the books, whatever their retry counts; their inputs, or those of the successors
\* enqueued in their place, are there.
LEMMA RequeuedFacts ==
    ASSUME TypeOK, DependenciesFirst, NEW items \in SUBSET scheduled
    PROVE  /\ Requeued(items) \subseteq Attempt
           /\ \A x \in Requeued(items) :
                /\ x.epoch = schedEpoch /\ x \notin scheduled
                /\ Deps[x.key] \subseteq DoneKeys
<1>. DEFINE done == {a \in items : a.key \in DoneKeys}
            copies == {[a EXCEPT !.epoch = schedEpoch] : a \in items \ done} \ scheduled
            next == NewAttempts(KeysOf(done), DoneKeys, retryCount)
<1>1. /\ items \subseteq Attempt /\ schedEpoch \in Nat
      /\ \A a \in items : a.key \in Task /\ Deps[a.key] \subseteq DoneKeys
    BY DEF TypeOK, SchedulerTypeOK, DependenciesFirst, Attempt
<1>2. \A a \in items : LET z == [a EXCEPT !.epoch = schedEpoch]
                        IN  z \in Attempt /\ z.epoch = schedEpoch /\ z.key = a.key
    BY <1>1 DEF Attempt
<1>3. copies \subseteq Attempt
      /\ \A x \in copies : x.epoch = schedEpoch /\ x \notin scheduled /\ Deps[x.key] \subseteq DoneKeys
    BY <1>1, <1>2
<1>4. next \subseteq Attempt /\ \A x \in next : x.epoch = schedEpoch /\ x \notin scheduled
  <2>1. SchedulerTypeOK /\ retryCount \in [Task -> Nat]
    BY DEF TypeOK, SchedulerTypeOK
  <2>2. next \subseteq Attempt
    BY <2>1, NewAttemptsType
  <2>3. \A x \in next : x.epoch = schedEpoch /\ x \notin scheduled
    BY NewAttemptsNow
  <2>. QED BY <2>2, <2>3
<1>5. \A x \in next : Deps[x.key] \subseteq DoneKeys
  <2>1. \A k \in KeysOf(done) : k \in Task /\ Deps[k] \subseteq DoneKeys
    BY <1>1 DEF KeysOf
  <2>. QED BY <2>1, NewAttemptsReady
<1>6. Requeued(items) = copies \cup next
    BY DEF Requeued
<1>. HIDE DEF copies, next
<1>. QED BY <1>3, <1>4, <1>5, <1>6

\* What was queued is enqueued again, as attempts of the new epoch.
LEMMA RestartInv ==
    ASSUME RecoveryInv, Restart
    PROVE  RecoveryInv'
<1>. DEFINE new == Requeued(Queued)
<1>1. /\ TypeOK /\ Booked /\ DependenciesFirst
      /\ pc = "down" /\ startup # "no" /\ startup' = startup /\ saved' = saved
    BY DEF RecoveryInv, BooksOK, Restart, Epochs, recoveryVars
<1>2. /\ scheduled' = scheduled \cup new
      /\ schedQueue' = RemoteOf(new) /\ localQueue' = LocalOf(new)
      /\ pc' = "pop"
      /\ toPop' \subseteq available
      /\ UNCHANGED <<fabricVars, schedRunning, schedEpoch, retryCount, failCount,
                     finished, succeeded, execVars, inbox, workerVars>>
    BY DEF Restart, Poll
<1>3. new \subseteq Attempt /\ \A x \in new : x.epoch = schedEpoch /\ x \notin scheduled
    BY <1>1, RequeuedFacts DEF Booked
<1>4. \A x \in new : Deps[x.key] \subseteq DoneKeys
    BY <1>1, RequeuedFacts DEF Booked
<1>. HIDE DEF new
<1>5. TypeOK'
    BY <1>1, <1>2, <1>3
    DEF TypeOK, FabricTypeOK, SchedulerTypeOK, ExecutorTypeOK, RemoteOf, LocalOf, fabricVars,
        execVars, workerVars, Node
<1>6. Queued' = new /\ QueuesSplit'
    BY <1>2 DEF Queued, QueuesSplit, RemoteOf, LocalOf
<1>7. BooksOK'
    BY <1>1, <1>2, <1>4, <1>5, <1>6
    DEF BooksOK, Booked, DependenciesFirst, DoneKeys, execVars
<1>8. ASSUME NEW e \in Node PROVE Placed(e)' = Placed(e)
    BY <1>2 DEF Placed, OrderedWorks, ReportedWorks, fabricVars, execVars, workerVars
<1>9. SavedOK' /\ Apart'
    BY <1>1, <1>8 DEF RecoveryInv, SavedOK, Apart
<1>10. Epochs'
    BY <1>1, <1>2, <1>3, <1>6, <1>8 DEF RecoveryInv, Epochs
<1>11. ASSUME NEW e \in Node PROVE Placed(e)' \cap Queued' = {}
    BY <1>1, <1>3, <1>6, <1>8 DEF RecoveryInv, Epochs
<1>. QED BY <1>7, <1>9, <1>10, <1>11 DEF RecoveryInv, AttemptsAreNew, DispatchedOnce, Apart

\* The end of the startup: nothing has been handed out in this epoch before the
\* scheduler is dumped in it.
LEMMA BeginInv ==
    ASSUME RecoveryInv, Begin
    PROVE  RecoveryInv'
<1>. DEFINE new == Requeued(EarlierRunning)
<1>1. /\ TypeOK /\ Booked /\ DependenciesFirst /\ QueuesSplit
      /\ pc = "process" /\ startup # "no" /\ startup' = "no" /\ pc' \in {"exit", "probe"}
    BY DEF RecoveryInv, BooksOK, Begin
<1>2. /\ Enqueue(new)
      /\ UNCHANGED <<wq, cq, schedRunning, schedEpoch, retryCount, failCount, finished,
                     succeeded, available, outbound, popVars, workerVars>>
    BY DEF Begin
<1>3. /\ new \subseteq Attempt
      /\ \A x \in new : /\ x.epoch = schedEpoch /\ x \notin scheduled
                         /\ Deps[x.key] \subseteq DoneKeys
  <2>1. EarlierRunning \subseteq scheduled
    BY <1>1 DEF TypeOK, SchedulerTypeOK, EarlierRunning, Booked, Node
  <2>. QED BY <1>1, <2>1, RequeuedFacts
<1>4. \A x \in new : Deps[x.key] \subseteq DoneKeys
    BY <1>3
<1>. HIDE DEF new
<1>5. \A e \in Node : running'[e] \subseteq running[e]
    BY DEF Begin
<1>6. TypeOK'
  <2>1. /\ scheduled' \subseteq Attempt /\ schedQueue' \subseteq Attempt /\ localQueue' \subseteq Attempt
    BY <1>1, <1>2, <1>3, EnqueueType
  <2>2. /\ running' \in [Node -> SUBSET Attempt]
        /\ state' \in [Node -> {"GOOD", "FAIL", "RESOURCE_LOW", "STOPPING", "STOPPED"}]
        /\ acked' \in [Node -> [age : Age, low : BOOLEAN]]
        /\ stopSent' \in [Node -> BOOLEAN] /\ stopAcked' \in [Node -> BOOLEAN]
        /\ jobStatus' \in {"running", "success", "failure"}
    BY <1>1, FabricAssumption DEF Begin, TypeOK, FabricTypeOK, SchedulerTypeOK, Age
  <2>. QED BY <1>1, <1>2, <2>1, <2>2
       DEF TypeOK, FabricTypeOK, SchedulerTypeOK, ExecutorTypeOK, popVars, workerVars
<1>7. /\ scheduled \subseteq scheduled'
      /\ Queued' \subseteq Queued \cup (scheduled' \ scheduled)
      /\ QueuesSplit'
    BY <1>1, <1>2, <1>3, EnqueueKeeps
<1>8. Keeps
    BY <1>2, <1>5, <1>7 DEF Keeps, Placed, OrderedWorks, ReportedWorks, popVars, workerVars
<1>9. BooksOK'
    BY <1>1, <1>2, <1>4, <1>6, <1>7, <1>8, BookedMoves
    DEF BooksOK, DependenciesFirst, DoneKeys, Enqueue
<1>10. ASSUME NEW s \in saved'
       PROVE  s \in Dumps /\ Consistent(s) /\ s.epoch = schedEpoch
  <2>1. s = [Snapshot' EXCEPT !.state[Local] = state[Local]]
    BY <1>10 DEF Begin, Kept
  <2>2. state[Local] \in {"GOOD", "FAIL", "RESOURCE_LOW", "STOPPING", "STOPPED"}
    BY <1>1 DEF TypeOK, SchedulerTypeOK, Node
  <2>3. Snapshot' \in Dumps /\ Consistent(Snapshot') /\ Snapshot'.epoch = schedEpoch
    BY <1>2, <1>9, SnapshotNextOK
  <2>. QED BY <2>1, <2>2, <2>3, LocalStateOK
<1>11. SavedOK'
    BY <1>10 DEF SavedOK
<1>12. \A x \in scheduled' \ scheduled : x.epoch = schedEpoch
    BY <1>2, <1>3 DEF Enqueue
<1>. QED BY <1>1, <1>2, <1>8, <1>9, <1>10, <1>11, <1>12, EpochsKeep DEF RecoveryInv

-----------------------------------------------------------------------------
(* Death *)

\* A scheduler that is loaded has consistent books, and an epoch after that of
\* any attempt there is: those were made in the epoch of the dump or before.
LEMMA LoadInv ==
    ASSUME RecoveryInv, NEW s \in saved, Load(Loaded(s)), UNCHANGED workerVars,
           wq' \in [Node -> SUBSET Orders], cq' \in [Node -> SUBSET Completions],
           \A e \in Node : /\ OrderedWorks(e)' \subseteq OrderedWorks(e)
                          /\ ReportedWorks(e)' \subseteq ReportedWorks(e)
    PROVE  RecoveryInv'
<1>. DEFINE r == Loaded(s)
<1>1. r \in Dumps /\ Consistent(r) /\ r.epoch = s.epoch + 1 /\ s.epoch \in Nat
    BY LoadedOK DEF RecoveryInv, SavedOK, Dumps
<1>. HIDE DEF r
<1>2. /\ pc' = "down" /\ startup' = "quiet" /\ UNCHANGED <<jobStatus, saved>>
      /\ toPop' = {} /\ inbox' = {} /\ schedRunning' = TRUE
      /\ schedEpoch' = r.epoch
      /\ retryCount' = r.retries /\ failCount' = r.fails
      /\ scheduled' = r.scheduled /\ finished' = r.finished
      /\ succeeded' = r.succeeded
      /\ schedQueue' = r.sched /\ localQueue' = r.local
      /\ available' = r.available /\ state' = r.state
      /\ running' = r.running /\ outbound' = [e \in Node |-> {}]
      /\ acked' = r.acked
      /\ stopSent' = r.stopSent /\ stopAcked' = r.stopAcked
    BY DEF Load, r
<1>3. TypeOK'
    BY <1>1, <1>2
    DEF RecoveryInv, BooksOK, Dumps, TypeOK, FabricTypeOK, SchedulerTypeOK, ExecutorTypeOK, workerVars
<1>4. BooksOK'
    BY <1>1, <1>2, <1>3
    DEF BooksOK, Consistent, QueuesSplit, Booked, Queued, DependenciesFirst, DoneKeys
<1>5. SavedOK'
    BY <1>2 DEF RecoveryInv, SavedOK
<1>6. ASSUME NEW e \in Node PROVE Placed(e)' \subseteq Placed(e)
    BY <1>2 DEF Placed, workerVars
<1>7. Apart'
    BY <1>6 DEF RecoveryInv, Apart
<1>8. ASSUME NEW e \in Node, NEW x \in Placed(e)'
      PROVE  x.epoch <= s.epoch /\ x.epoch \in Nat /\ \A q \in saved : x.epoch <= q.epoch
  <2>1. x \in Placed(e)
    BY <1>6, <1>8
  <2>2. x \in Attempt
    <3>1. TypeOK
        BY DEF RecoveryInv, BooksOK
    <3>2. OrderedWorks(e) \subseteq Attempt
        BY <3>1 DEF TypeOK, FabricTypeOK, OrderedWorks, Orders, Probes, StopRequest, StopWorks, Works
    <3>3. ReportedWorks(e) \subseteq Attempt
        BY <3>1 DEF TypeOK, FabricTypeOK, ReportedWorks, Completions, Probes, StopRequest, StopWorks,
           Results
    <3>. QED BY <2>1, <3>1, <3>2, <3>3 DEF Placed, TypeOK, SchedulerTypeOK, ExecutorTypeOK, Node
  <2>. QED BY <2>1, <2>2 DEF RecoveryInv, Epochs, Attempt
<1>9. Epochs'
  <2>1. \A e \in Node : \A x \in Placed(e)' : x.epoch <= r.epoch /\ x.epoch # r.epoch
    BY <1>1, <1>8
  <2>. QED BY <1>2, <1>8, <2>1 DEF Epochs
<1>. QED BY <1>2, <1>4, <1>5, <1>7, <1>9 DEF RecoveryInv, AttemptsAreNew

\* A probe that gets younger is still a probe, and nothing else changes.
LEMMA YoungerType ==
    ASSUME NEW n \in Nat, NEW oldest \in Age, NEW m
    PROVE  /\ m \in Orders => Younger(n, oldest, m) \in Orders
           /\ m \in Completions => Younger(n, oldest, m) \in Completions
           /\ m.type # "Probe" => Younger(n, oldest, m) = m
           /\ m.type = "Probe" => Younger(n, oldest, m).type = "Probe"
<1>1. CASE m.type # "Probe"
    BY <1>1 DEF Younger
<1>2. CASE m.type = "Probe" /\ (m \in Orders \/ m \in Completions)
  <2>1. m \in Probes
    BY <1>2 DEF Orders, Completions, Probes, StopRequest, StopWorks, Works, Results
  <2>2. Younger(n, oldest, m) \in Probes
    BY <1>2, <2>1, FabricAssumption DEF Younger, ProbeMsg, Probes, Age
  <2>. QED BY <1>2, <2>2 DEF Orders, Completions, Probes
<1>3. CASE m.type = "Probe" /\ m \notin Orders /\ m \notin Completions
    BY <1>3 DEF Younger, ProbeMsg
<1>. QED BY <1>1, <1>2, <1>3

\* The queues outlive the scheduler; only its own executor's are gone.
LEMMA RejuvenatedQueues ==
    ASSUME TypeOK, NEW n \in Nat, NEW oldest \in Age,
           wq' = Rejuvenated(wq, n, oldest), cq' = Rejuvenated(cq, n, oldest)
    PROVE  /\ wq' \in [Node -> SUBSET Orders] /\ cq' \in [Node -> SUBSET Completions]
           /\ \A e \in Node : /\ OrderedWorks(e)' \subseteq OrderedWorks(e)
                               /\ ReportedWorks(e)' \subseteq ReportedWorks(e)
<1>1. /\ wq' \in [Node -> SUBSET Orders] /\ cq' \in [Node -> SUBSET Completions]
    BY YoungerType DEF TypeOK, FabricTypeOK, Rejuvenated
<1>2. ASSUME NEW e \in Node, NEW m, m.type # "Probe"
      PROVE  /\ m \in wq'[e] => m \in wq[e]
             /\ m \in cq'[e] => m \in cq[e]
    BY <1>2, YoungerType DEF Rejuvenated
<1>. QED BY <1>1, <1>2 DEF OrderedWorks, ReportedWorks

\* A death at any time, and a startup that fails.
LEMMA DeathInv ==
    ASSUME RecoveryInv, Die \/ \E r \in inbox : StartupFails(r)
    PROVE  RecoveryInv'
<1>1. TypeOK
    BY DEF RecoveryInv, BooksOK
<1>2. CASE Die
  <2>1. PICK s \in saved, oldest \in Age :
            /\ Load(Loaded(s))
            /\ wq' = Rejuvenated(wq, s.probes, oldest)
            /\ cq' = Rejuvenated(cq, s.probes, oldest)
    BY <1>2 DEF Die
  <2>2. s.probes \in Nat
    BY DEF RecoveryInv, SavedOK, Dumps
  <2>3. /\ wq' \in [Node -> SUBSET Orders] /\ cq' \in [Node -> SUBSET Completions]
        /\ \A e \in Node : /\ OrderedWorks(e)' \subseteq OrderedWorks(e)
                            /\ ReportedWorks(e)' \subseteq ReportedWorks(e)
    BY <1>1, <2>1, <2>2, RejuvenatedQueues
  <2>. QED BY <1>2, <2>1, <2>3, LoadInv DEF Die
<1>3. ASSUME NEW r \in inbox, StartupFails(r) PROVE RecoveryInv'
  <2>1. PICK s \in saved : Load(Loaded(s))
    BY <1>3 DEF StartupFails
  <2>2. UNCHANGED <<wq, cq, workerVars>>
    BY <1>3 DEF StartupFails
  <2>. QED BY <1>1, <2>1, <2>2, LoadInv DEF OrderedWorks, ReportedWorks, TypeOK, FabricTypeOK
<1>. QED BY <1>2, <1>3

-----------------------------------------------------------------------------
(* The theorems *)

\* The first scheduler starts with the leaves of the plan queued.
LEMMA RecoveryInvInit == RecoveryInit => RecoveryInv
<1>. SUFFICES ASSUME RecoveryInit PROVE RecoveryInv
    OBVIOUS
<1>1. Init /\ startup = "no"
    BY DEF RecoveryInit
<1>2. TypeOK /\ Known /\ QueuesSplit /\ DispatchedOnce /\ DependenciesFirst
    BY <1>1, TypeInit, PlacesInit, DepsInit
<1>3. BooksOK
    BY <1>2 DEF BooksOK, Known, Booked
<1>4. ASSUME NEW s \in saved
      PROVE  s \in Dumps /\ Consistent(s) /\ s.epoch = schedEpoch
  <2>1. s = [Snapshot EXCEPT !.state[Local] = "RESOURCE_LOW"]
    BY <1>4 DEF RecoveryInit, Kept
  <2>. QED BY <1>3, <2>1, SnapshotOK, LocalStateOK
<1>5. \A e \in Node : Placed(e) = {}
    BY <1>1 DEF Init, FabricInit, SchedulerInit, ExecutorInit, Placed, OrderedWorks,
       ReportedWorks, Node
<1>6. pc # "down" /\ schedEpoch = 0 /\ \A x \in Queued : x.epoch = 0
    BY <1>1 DEF Init, SchedulerInit, Queued, RemoteOf, LocalOf
<1>. QED BY <1>1, <1>2, <1>3, <1>4, <1>5, <1>6
     DEF RecoveryInv, SavedOK, Epochs, Apart, AttemptsAreNew, DispatchedOnce

\* Every step keeps it.
LEMMA RecoveryInvNext == RecoveryInv /\ [RecoveryNext]_allVars => RecoveryInv'
<1>. SUFFICES ASSUME RecoveryInv, [RecoveryNext]_allVars PROVE RecoveryInv'
    OBVIOUS
<1>1. CASE Die \/ \E r \in inbox : StartupFails(r)
    BY <1>1, DeathInv
<1>2. CASE Restart \/ PollAgain \/ StartupStep \/ Begin \/ LoopStep
    BY <1>2, RestartInv, PollInv, StartupInv, BeginInv, LoopInv
<1>3. CASE LocalAct \/ ExecutorAct \/ UNCHANGED allVars
    BY <1>3, ExecutorInv
<1>4. CASE Terminated /\ UNCHANGED recoveryVars
    BY <1>4, ExecutorInv DEF Terminated, allVars
<1>. QED BY <1>1, <1>2, <1>3, <1>4 DEF RecoveryNext, SchedulerAct

\* However often the scheduler dies, every variable and every dump is well formed.
THEOREM RecoveryTypeCorrect == RecoverySpec => [](TypeOK /\ saved \subseteq Dumps)
<1>1. RecoveryInv => TypeOK /\ saved \subseteq Dumps
    BY DEF RecoveryInv, BooksOK, SavedOK
<1>. QED BY <1>1, RecoveryInvInit, RecoveryInvNext, PTL DEF RecoverySpec

\* No restart, at whatever moment and from whatever dump, hands out the identity,
\* and with it the runtime directory, of an attempt that an earlier scheduler
\* handed out: what is queued is with no executor, and what is with one is with no
\* other.
THEOREM AttemptsAreNewCorrect == RecoverySpec => []AttemptsAreNew
<1>1. RecoveryInv => AttemptsAreNew
    BY DEF RecoveryInv
<1>. QED BY <1>1, RecoveryInvInit, RecoveryInvNext, PTL DEF RecoverySpec

\* A restarted scheduler attempts no task whose inputs it does not have, although
\* it takes late successes of tasks whose inputs it has lost.
THEOREM DependenciesFirstOverRestarts == RecoverySpec => []DependenciesFirst
<1>1. RecoveryInv => DependenciesFirst
    BY DEF RecoveryInv, BooksOK
<1>. QED BY <1>1, RecoveryInvInit, RecoveryInvNext, PTL DEF RecoverySpec
=============================================================================
