-------------------------- MODULE RaySessionProofs --------------------------
(* Theorems of RaySession. *)
EXTENDS RaySession, WellFoundedInduction, TLAPS

Value == SUBSET (Node \X Nat \X Nat)

State == {"none", "started", "running", "written", "dumped", "ready", "failed"}

Why == {"none", "retries", "input", "directory", "function", "worker"}

Task == [node : Node, part : Nat, frame : Node, state : State, retry : Nat,
         value : Value, why : Why]

AttemptId == [node : Node, id : Nat, retry : Nat]

TypeOK ==
    /\ version \in [Node -> Nat] /\ flagged \subseteq Node
    /\ up \in BOOLEAN /\ todo \in Seq(Node)
    /\ tasks \in Seq(Task)
    /\ started \subseteq AttemptId /\ dirs \subseteq AttemptId
    /\ completed \subseteq [node : Node, id : Nat, value : Value]

\* An attempt has a directory only if it has a marker; one that is about to
\* create its directory has a marker and finds none.
Fresh ==
    /\ dirs \subseteq started
    /\ \A k \in DOMAIN tasks :
        tasks[k].state = "running" => Attempt(k) \in started \ dirs

IInv == TypeOK /\ Fresh /\ AttemptsApart

\* What is assumed of the plan and the programs.
LEMMA PlanTyped ==
    /\ Node \subseteq Nat
    /\ Plan \in [Node -> Seq([node : Node, part : Nat])]
    /\ MaxRetry \in Nat
    /\ \A p \in Programs : p \in Seq(Node)
BY PlanAssumption

\* A function over the first numbers is a sequence.
LEMMA FunctionIsSeq ==
    ASSUME NEW S, NEW n \in Nat, NEW f \in [1..n -> S]
    PROVE  f \in Seq(S)
OBVIOUS

\* The empty sequence.
LEMMA EmptyIsSeq ==
    ASSUME NEW S
    PROVE  <<>> \in Seq(S)
OBVIOUS

\* An element of a sequence.
LEMMA ElementOfSeq ==
    ASSUME NEW S, NEW s \in Seq(S), NEW k \in DOMAIN s
    PROVE  s[k] \in S
OBVIOUS

\* The new tasks of an evaluation.
LEMMA PlannedTyped ==
    ASSUME NEW n \in Node
    PROVE  Planned(n) \in Seq(Task)
<1>1. Plan[n] \in Seq([node : Node, part : Nat])
    BY PlanTyped
<1>2. DOMAIN Plan[n] = 1..Len(Plan[n]) /\ Len(Plan[n]) \in Nat
    BY <1>1
<1>3. ASSUME NEW k \in DOMAIN Plan[n]
      PROVE  Planned(n)[k] \in Task
  <2>1. Plan[n][k] \in [node : Node, part : Nat]
    BY <1>1, ElementOfSeq
  <2>. QED BY <2>1 DEF Planned, Task, State, Why, Value
<1>4. Planned(n) \in [1..Len(Plan[n]) -> Task]
    BY <1>2, <1>3 DEF Planned
<1>. QED BY <1>2, <1>4, FunctionIsSeq

\* run_on_ray changes the state and the value of some tasks; it leaves none running.
LEMMA RunTyped ==
    ASSUME NEW n \in Node, NEW ts \in Seq(Task),
           NEW done \in SUBSET [node : Node, id : Nat, value : Value]
    PROVE  /\ RunOnRay(ts, n, done) \in Seq(Task)
           /\ DOMAIN RunOnRay(ts, n, done) = DOMAIN ts
           /\ \A k \in DOMAIN ts :
                /\ RunOnRay(ts, n, done)[k].why = ts[k].why
                /\ \/ RunOnRay(ts, n, done)[k] = ts[k]
                   \/ RunOnRay(ts, n, done)[k].state # "running"
<1>. DEFINE new == RunOnRay(ts, n, done)
<1>1. ASSUME NEW k \in DOMAIN ts
      PROVE  /\ new[k] \in Task
             /\ new[k].why = ts[k].why
             /\ new[k] = ts[k] \/ new[k].state # "running"
  <2>1. ts[k] \in Task
    OBVIOUS
  <2>2. CASE k \notin Wanted(ts, n, done)
    BY <2>1, <2>2 DEF RunOnRay
  <2>3. CASE k \in Wanted(ts, n, done) /\ Results(ts, k, done) = {}
    <3>1. new[k] = [ts[k] EXCEPT !.state = "started"]
      BY <2>3 DEF RunOnRay
    <3>. QED BY <2>1, <3>1 DEF Task, State
  <2>4. CASE k \in Wanted(ts, n, done) /\ Results(ts, k, done) # {}
    <3>. DEFINE found == (CHOOSE c \in Results(ts, k, done) : TRUE)
    <3>1. found \in done
      BY <2>4 DEF Results
    <3>2. found.value \in Value
      BY <3>1
    <3>3. new[k] = [ts[k] EXCEPT !.state = "ready", !.value = found.value]
      BY <2>4 DEF RunOnRay
    <3>. QED BY <2>1, <3>2, <3>3 DEF Task, State
  <2>. QED BY <2>2, <2>3, <2>4
<1>2. DOMAIN new = DOMAIN ts /\ new = [k \in 1..Len(ts) |-> new[k]]
    BY DEF RunOnRay
<1>3. new \in [1..Len(ts) -> Task]
    BY <1>1, <1>2
<1>4. new \in Seq(Task)
    BY <1>3, FunctionIsSeq
<1>. QED BY <1>1, <1>2, <1>4

\* Changes of one task: a new state.
LEMMA StateSet ==
    ASSUME NEW ts \in Seq(Task), NEW k \in DOMAIN ts, NEW s \in State
    PROVE  [ts EXCEPT ![k].state = s] \in Seq(Task)
<1>1. ts[k] \in Task /\ Len(ts) \in Nat
    BY ElementOfSeq
<1>2. [ts[k] EXCEPT !.state = s] \in Task
    BY <1>1 DEF Task
<1>3. [ts EXCEPT ![k].state = s] \in [1..Len(ts) -> Task]
    BY <1>2
<1>. QED BY <1>1, <1>3, FunctionIsSeq

\* A new state and retry count.
LEMMA RetrySet ==
    ASSUME NEW ts \in Seq(Task), NEW k \in DOMAIN ts, NEW s \in State,
           NEW r \in Nat
    PROVE  [ts EXCEPT ![k].state = s, ![k].retry = r] \in Seq(Task)
<1>1. ts[k] \in Task /\ Len(ts) \in Nat
    BY ElementOfSeq
<1>2. [ts[k] EXCEPT !.state = s, !.retry = r] \in Task
    BY <1>1 DEF Task
<1>3. [ts EXCEPT ![k].state = s, ![k].retry = r] \in [1..Len(ts) -> Task]
    BY <1>2
<1>. QED BY <1>1, <1>3, FunctionIsSeq

\* A new state and value.
LEMMA ValueSet ==
    ASSUME NEW ts \in Seq(Task), NEW k \in DOMAIN ts, NEW s \in State,
           NEW v \in Value
    PROVE  [ts EXCEPT ![k].state = s, ![k].value = v] \in Seq(Task)
<1>1. ts[k] \in Task /\ Len(ts) \in Nat
    BY ElementOfSeq
<1>2. [ts[k] EXCEPT !.state = s, !.value = v] \in Task
    BY <1>1 DEF Task
<1>3. [ts EXCEPT ![k].state = s, ![k].value = v] \in [1..Len(ts) -> Task]
    BY <1>2
<1>. QED BY <1>1, <1>3, FunctionIsSeq

\* A new state and reason.
LEMMA WhySet ==
    ASSUME NEW ts \in Seq(Task), NEW k \in DOMAIN ts, NEW s \in State,
           NEW w \in Why
    PROVE  [ts EXCEPT ![k].state = s, ![k].why = w] \in Seq(Task)
<1>1. ts[k] \in Task /\ Len(ts) \in Nat
    BY ElementOfSeq
<1>2. [ts[k] EXCEPT !.state = s, !.why = w] \in Task
    BY <1>1 DEF Task
<1>3. [ts EXCEPT ![k].state = s, ![k].why = w] \in [1..Len(ts) -> Task]
    BY <1>2
<1>. QED BY <1>1, <1>3, FunctionIsSeq

\* A failing task.
LEMMA Failed ==
    ASSUME TypeOK, NEW k \in DOMAIN tasks, NEW w \in Why, Fails(k, w)
    PROVE  tasks' \in Seq(Task)
<1>1. tasks \in Seq(Task) /\ "failed" \in State
    BY DEF TypeOK, State
<1>. QED BY <1>1, WhySet DEF Fails

\* The types of a task, of its attempt and of its markers.
LEMMA AttemptTyped ==
    ASSUME TypeOK, NEW k \in DOMAIN tasks
    PROVE  /\ k \in Nat /\ tasks[k] \in Task
           /\ Attempt(k) \in AttemptId
           /\ \A r \in Nat : Marker(k, r) \in AttemptId
<1>1. tasks \in Seq(Task)
    BY DEF TypeOK
<1>2. k \in Nat /\ tasks[k] \in Task
    BY <1>1, ElementOfSeq
<1>3. Attempt(k) \in AttemptId
    BY <1>2 DEF Attempt, AttemptId, Task
<1>4. \A r \in Nat : Marker(k, r) \in AttemptId
    BY <1>3 DEF Marker, AttemptId
<1>. QED BY <1>2, <1>3, <1>4

\* What the tasks become when a worker takes a step.
LEMMA WorkerTyped ==
    ASSUME TypeOK, NEW k \in DOMAIN tasks,
           Begin(k) \/ GiveUp(k) \/ InputFails(k) \/ Execute(k) \/ Dump(k)
             \/ Return(k) \/ WorkerDies(k)
    PROVE  tasks' \in Seq(Task)
<1>. tasks \in Seq(Task)
    BY DEF TypeOK
<1>1. CASE Begin(k)
  <2>1. PICK r \in 0..MaxRetry :
            tasks' = [tasks EXCEPT ![k].state = "running", ![k].retry = r]
    BY <1>1 DEF Begin
  <2>2. r \in Nat /\ "running" \in State
    BY PlanTyped DEF State
  <2>. QED BY <2>1, <2>2, RetrySet
<1>2. CASE GiveUp(k)
    BY <1>2, Failed DEF GiveUp, Why
<1>3. CASE InputFails(k)
    BY <1>3, Failed DEF InputFails, Why
<1>4. CASE Execute(k)
  <2>1. Output(k) \in Value
    <3>1. ASSUME NEW i \in InputsOf(tasks, k)
          PROVE  tasks[i].value \in Value
      <4>1. i \in DOMAIN tasks
        BY DEF InputsOf
      <4>. QED BY <4>1, AttemptTyped DEF Task
    <3>2. tasks[k].node \in Node /\ tasks[k].part \in Nat
      BY AttemptTyped DEF Task
    <3>3. version[tasks[k].node] \in Nat
      BY <3>2 DEF TypeOK
    <3>. QED BY <3>1, <3>2, <3>3 DEF Output, Value
  <2>2. PICK end \in Outcomes(k) :
            IF end = "written"
            THEN tasks' = [tasks EXCEPT ![k].state = end, ![k].value = Output(k)]
            ELSE Fails(k, end)
    BY <1>4 DEF Execute
  <2>3. CASE end = "written"
    <3>1. tasks' = [tasks EXCEPT ![k].state = "written", ![k].value = Output(k)]
      BY <2>2, <2>3
    <3>2. "written" \in State
      BY DEF State
    <3>. QED BY <2>1, <3>1, <3>2, ValueSet
  <2>4. CASE end # "written"
    <3>1. end \in Why
      BY <2>4 DEF Outcomes, Why
    <3>. QED BY <2>2, <2>4, <3>1, Failed
  <2>. QED BY <2>3, <2>4
<1>5. CASE Dump(k)
    BY <1>5, StateSet DEF Dump, State
<1>6. CASE Return(k)
    BY <1>6, StateSet DEF Return, State
<1>7. CASE WorkerDies(k)
  <2>1. "started" \in State /\ {} \in Value /\ "worker" \in Why
    BY DEF State, Value, Why
  <2>2. CASE Fails(k, "worker")
    BY <2>1, <2>2, Failed
  <2>3. CASE tasks' = [tasks EXCEPT ![k].state = "started", ![k].value = {}]
    BY <2>1, <2>3, ValueSet
  <2>. QED BY <1>7, <2>2, <2>3 DEF WorkerDies
<1>. QED BY <1>1, <1>2, <1>3, <1>4, <1>5, <1>6, <1>7

\* Every variable keeps its type, in every session and on disk.
THEOREM Typed == Spec => []TypeOK
<1>1. Init => TypeOK
  <2>. SUFFICES ASSUME Init PROVE TypeOK
    OBVIOUS
  <2>1. tasks \in Seq(Task) /\ todo \in Seq(Node)
    BY EmptyIsSeq DEF Init
  <2>2. version \in [Node -> Nat] /\ flagged \subseteq Node /\ up \in BOOLEAN
    BY DEF Init
  <2>3. /\ started \subseteq AttemptId /\ dirs \subseteq AttemptId
        /\ completed \subseteq [node : Node, id : Nat, value : Value]
    BY DEF Init
  <2>. QED BY <2>1, <2>2, <2>3 DEF TypeOK
<1>2. TypeOK /\ [Next]_vars => TypeOK'
  <2>. SUFFICES ASSUME TypeOK, [Next]_vars PROVE TypeOK'
    OBVIOUS
  <2>1. CASE Start
    <3>1. version' \in [Node -> Nat] /\ flagged' \subseteq Node
      <4>1. CASE UNCHANGED programVars
        BY <4>1 DEF TypeOK, programVars
      <4>2. ASSUME NEW n \in Editable,
                   version' = [version EXCEPT ![n] = @ + 1], flagged' = flagged \cup {n}
            PROVE  version' \in [Node -> Nat] /\ flagged' \subseteq Node
        <5>1. n \in Node /\ version \in [Node -> Nat] /\ flagged \subseteq Node
          BY PlanAssumption DEF TypeOK
        <5>. QED BY <4>2, <5>1
      <4>. QED BY <2>1, <4>1, <4>2 DEF Start
    <3>2. todo' \in Seq(Node)
      BY <2>1, PlanTyped DEF Start
    <3>. QED BY <2>1, <3>1, <3>2 DEF Start, TypeOK, diskVars
  <2>2. CASE Evaluate
    <3>. DEFINE n == Head(todo)
    <3>1. n \in Node /\ Tail(todo) \in Seq(Node)
      BY <2>2 DEF Evaluate, TypeOK
    <3>2. completed' \in SUBSET [node : Node, id : Nat, value : Value]
      BY <2>2 DEF Evaluate, Cleared, TypeOK
    <3>3. tasks \o Planned(n) \in Seq(Task)
      BY <3>1, PlannedTyped DEF TypeOK
    <3>4. tasks' = RunOnRay(tasks \o Planned(n), n, completed')
      BY <2>2 DEF Evaluate
    <3>5. tasks' \in Seq(Task)
      BY <3>1, <3>2, <3>3, <3>4, RunTyped
    <3>. QED BY <2>2, <3>1, <3>2, <3>5 DEF Evaluate, TypeOK, programVars
  <2>3. CASE Shutdown
    BY <2>3, EmptyIsSeq DEF Shutdown, Cleanup, TypeOK, programVars, diskVars
  <2>4. CASE Die
    BY <2>4, EmptyIsSeq DEF Die, TypeOK, programVars, diskVars
  <2>5. ASSUME NEW k \in DOMAIN tasks,
               Begin(k) \/ GiveUp(k) \/ InputFails(k) \/ Execute(k) \/ Dump(k)
                 \/ Return(k) \/ WorkerDies(k)
        PROVE  TypeOK'
    <3>1. tasks' \in Seq(Task)
      BY <2>5, WorkerTyped
    <3>2. UNCHANGED driverVars
      BY <2>5 DEF Begin, GiveUp, InputFails, Execute, Dump, Return, WorkerDies
    <3>3. started' \subseteq AttemptId
      <4>1. UNCHANGED started \/ \E r \in Nat : started' = Marked(k, r)
        <5>1. CASE Begin(k)
          <6>1. PICK r \in 0..MaxRetry : started' = Marked(k, r)
            BY <5>1 DEF Begin
          <6>2. r \in Nat
            BY PlanTyped
          <6>. QED BY <6>1, <6>2
        <5>2. CASE ~Begin(k)
          BY <2>5, <5>2 DEF GiveUp, InputFails, Execute, Dump, Return, WorkerDies, diskVars
        <5>. QED BY <5>1, <5>2
      <4>. QED BY <4>1, AttemptTyped DEF Marked, TypeOK
    <3>4. dirs' \subseteq AttemptId
      <4>1. UNCHANGED dirs \/ dirs' = dirs \cup {Attempt(k)}
        BY <2>5 DEF Begin, GiveUp, InputFails, Execute, Dump, Return, WorkerDies, diskVars
      <4>. QED BY <4>1, AttemptTyped DEF TypeOK
    <3>5. completed' \subseteq [node : Node, id : Nat, value : Value]
      <4>1. \/ UNCHANGED completed
            \/ completed' \subseteq completed
                  \cup {[node |-> tasks[k].node, id |-> k, value |-> tasks[k].value]}
        BY <2>5 DEF Begin, GiveUp, InputFails, Execute, Dump, Return, WorkerDies, diskVars
      <4>2. tasks[k].node \in Node /\ tasks[k].value \in Value /\ k \in Nat
        BY AttemptTyped DEF Task
      <4>3. [node |-> tasks[k].node, id |-> k, value |-> tasks[k].value]
                \in [node : Node, id : Nat, value : Value]
        BY <4>2
      <4>. QED BY <4>1, <4>3 DEF TypeOK
    <3>. QED BY <3>1, <3>2, <3>3, <3>4, <3>5 DEF TypeOK, driverVars, programVars
  <2>6. CASE UNCHANGED vars
    BY <2>6 DEF vars, TypeOK, programVars, diskVars
  <2>. QED BY <2>1, <2>2, <2>3, <2>4, <2>5, <2>6 DEF Next
<1>. QED BY <1>1, <1>2, PTL DEF Spec

-----------------------------------------------------------------------------
\* A step of a worker on one task leaves the others as they are.
LEMMA FreshWorker ==
    ASSUME IInv, TypeOK', NEW k \in DOMAIN tasks,
           Begin(k) \/ GiveUp(k) \/ InputFails(k) \/ Execute(k) \/ Dump(k)
             \/ Return(k) \/ WorkerDies(k)
    PROVE  Fresh' /\ AttemptsApart'
<1>. /\ tasks \in Seq(Task) /\ tasks[k] \in Task
     /\ dirs \subseteq started
     /\ \A j \in DOMAIN tasks : tasks[j].why # "directory"
     /\ \A j \in DOMAIN tasks :
            tasks[j].state = "running" => Attempt(j) \in started \ dirs
    BY AttemptTyped DEF IInv, TypeOK, Fresh, AttemptsApart
<1>0. \A j \in DOMAIN tasks : tasks[j] \in Task
    BY ElementOfSeq
<1>1. CASE Begin(k)
  <2>1. PICK r \in 0..MaxRetry :
            /\ Marker(k, r) \notin started
            /\ started' = started \cup {Marker(k, r)}
            /\ tasks' = [tasks EXCEPT ![k].state = "running", ![k].retry = r]
    BY <1>1 DEF Begin, IsRetryCount, Marked
  <2>2. dirs' = dirs
    BY <1>1 DEF Begin
  <2>3. Attempt(k)' = Marker(k, r)
    <3>1. tasks'[k] = [tasks[k] EXCEPT !.state = "running", !.retry = r]
      BY <2>1
    <3>2. tasks'[k].node = tasks[k].node /\ tasks'[k].retry = r
      BY <3>1 DEF Task
    <3>3. Marker(k, r) = [node |-> tasks[k].node, id |-> k, retry |-> r]
      BY DEF Marker, Attempt
    <3>. QED BY <3>2, <3>3 DEF Attempt
  <2>4. \A j \in DOMAIN tasks : j # k => tasks'[j] = tasks[j] /\ Attempt(j)' = Attempt(j)
    BY <2>1 DEF Attempt
  <2>5. DOMAIN tasks' = DOMAIN tasks /\ tasks'[k].why = tasks[k].why
    BY <2>1 DEF Task
  <2>6. Fresh'
    BY <2>1, <2>2, <2>3, <2>4, <2>5 DEF Fresh
  <2>. QED BY <2>4, <2>5, <2>6 DEF AttemptsApart
<1>2. CASE Execute(k)
  <2>1. tasks[k].state = "running" /\ Attempt(k) \in started \ dirs
    BY <1>2 DEF Execute
  <2>2. PICK end \in Outcomes(k) :
            IF end = "written"
            THEN tasks' = [tasks EXCEPT ![k].state = end, ![k].value = Output(k)]
            ELSE Fails(k, end)
    BY <1>2 DEF Execute
  <2>3. end = "written" \/ end = "function"
    BY <2>1 DEF Outcomes
  <2>4. /\ DOMAIN tasks' = DOMAIN tasks
        /\ \A j \in DOMAIN tasks : j # k => tasks'[j] = tasks[j]
        /\ tasks'[k].state # "running" /\ tasks'[k].why # "directory"
    <3>1. CASE end = "written"
      BY <2>2, <3>1 DEF Task
    <3>2. CASE end = "function"
      BY <2>2, <3>2 DEF Fails, Task
    <3>. QED BY <2>3, <3>1, <3>2
  <2>5. started' = started /\ dirs' = dirs \cup {Attempt(k)}
    BY <1>2 DEF Execute
  <2>6. \A j \in DOMAIN tasks : j # k => Attempt(j)' = Attempt(j) /\ Attempt(j) # Attempt(k)
    BY <2>4 DEF Attempt
  <2>7. Fresh'
    BY <2>1, <2>4, <2>5, <2>6 DEF Fresh
  <2>. QED BY <2>4, <2>7 DEF AttemptsApart
<1>3. CASE ~Begin(k) /\ ~Execute(k)
  <2>1. /\ DOMAIN tasks' = DOMAIN tasks
        /\ \A j \in DOMAIN tasks : j # k => tasks'[j] = tasks[j]
        /\ tasks'[k].state # "running" /\ tasks'[k].why # "directory"
    <3>1. CASE GiveUp(k) \/ InputFails(k)
      BY <3>1 DEF GiveUp, InputFails, Fails, Task
    <3>2. CASE Dump(k) \/ Return(k)
      BY <3>2 DEF Dump, Return, Task
    <3>3. CASE WorkerDies(k)
      BY <3>3 DEF WorkerDies, Fails, Task
    <3>. QED BY <1>3, <3>1, <3>2, <3>3
  <2>2. started' = started /\ dirs' = dirs
    BY <1>3 DEF GiveUp, InputFails, Dump, Return, WorkerDies, diskVars
  <2>3. \A j \in DOMAIN tasks : j # k => Attempt(j)' = Attempt(j)
    BY <2>1 DEF Attempt
  <2>4. Fresh'
    BY <2>1, <2>2, <2>3 DEF Fresh
  <2>. QED BY <2>1, <2>4 DEF AttemptsApart
<1>. QED BY <1>1, <1>2, <1>3

\* An evaluation starts tasks, and adds some that are not running.
LEMMA FreshEvaluate ==
    ASSUME IInv, Evaluate
    PROVE  Fresh' /\ AttemptsApart'
<1>. DEFINE n == Head(todo)
            ts == tasks \o Planned(n)
<1>1. n \in Node /\ tasks \in Seq(Task)
    BY DEF IInv, TypeOK, Evaluate
<1>2. Planned(n) \in Seq(Task) /\ ts \in Seq(Task)
    BY <1>1, PlannedTyped
<1>3. completed' \in SUBSET [node : Node, id : Nat, value : Value]
    BY DEF IInv, TypeOK, Evaluate, Cleared
<1>4. tasks' = RunOnRay(ts, n, completed')
    BY DEF Evaluate
<1>5. /\ DOMAIN tasks' = DOMAIN ts
      /\ \A k \in DOMAIN ts :
            /\ tasks'[k].why = ts[k].why
            /\ tasks'[k] = ts[k] \/ tasks'[k].state # "running"
    BY <1>1, <1>2, <1>3, <1>4, RunTyped
<1>6. ASSUME NEW k \in DOMAIN ts
      PROVE  \/ k \in DOMAIN tasks /\ ts[k] = tasks[k]
             \/ ts[k].state = "none" /\ ts[k].why = "none"
  <2>1. CASE k \in DOMAIN tasks
    BY <1>1, <1>2, <2>1
  <2>2. CASE k \notin DOMAIN tasks
    <3>1. /\ k - Len(tasks) \in DOMAIN Planned(n)
          /\ ts[k] = Planned(n)[k - Len(tasks)]
      BY <1>1, <1>2, <2>2
    <3>. QED BY <3>1 DEF Planned
  <2>. QED BY <2>1, <2>2
<1>7. started' = started /\ dirs' = dirs
    BY DEF Evaluate
<1>8. Fresh'
    BY <1>5, <1>6, <1>7 DEF IInv, Fresh, Attempt
<1>. QED BY <1>5, <1>6, <1>8 DEF IInv, AttemptsApart

\* No attempt of a task ever meets the directory of an earlier one, however many
\* sessions fail or die, with any program and any number of retries.
THEOREM AttemptsApartCorrect == Spec => []AttemptsApart
<1>1. Init => Fresh /\ AttemptsApart
    BY DEF Init, Fresh, AttemptsApart
<1>2. TypeOK /\ TypeOK' /\ Fresh /\ AttemptsApart /\ [Next]_vars => Fresh' /\ AttemptsApart'
  <2>. SUFFICES ASSUME TypeOK, TypeOK', Fresh, AttemptsApart, [Next]_vars
                PROVE  Fresh' /\ AttemptsApart'
    OBVIOUS
  <2>1. CASE Start
    BY <2>1 DEF Start, Fresh, AttemptsApart, Attempt, diskVars
  <2>2. CASE Evaluate
    BY <2>2, FreshEvaluate DEF IInv
  <2>3. CASE Shutdown \/ Die
    <3>1. tasks' = <<>>
      BY <2>3 DEF Shutdown, Die
    <3>2. dirs' \subseteq started'
      BY <2>3 DEF Shutdown, Cleanup, Die, Fresh, diskVars
    <3>. QED BY <3>1, <3>2 DEF Fresh, AttemptsApart
  <2>4. ASSUME NEW k \in DOMAIN tasks,
               Begin(k) \/ GiveUp(k) \/ InputFails(k) \/ Execute(k) \/ Dump(k)
                 \/ Return(k) \/ WorkerDies(k)
        PROVE  Fresh' /\ AttemptsApart'
    BY <2>4, FreshWorker DEF IInv
  <2>5. CASE UNCHANGED vars
    BY <2>5 DEF vars, diskVars, Fresh, AttemptsApart, Attempt
  <2>. QED BY <2>1, <2>2, <2>3, <2>4, <2>5 DEF Next
<1>. QED BY <1>1, <1>2, Typed, PTL DEF Spec

-----------------------------------------------------------------------------
(* Induction and recursion, stated with sets and functions *)

\* A set of numbers that is not empty has a least element.
LEMMA LeastNumber ==
    ASSUME NEW S \in SUBSET Nat, S # {}
    PROVE  \E x \in S : \A y \in S : x <= y
<1>1. PICK x \in S : \A y \in S : ~(<<y, x>> \in OpToRel(<, Nat))
    BY NatLessThanWellFounded, WFMin
<1>2. \A y \in S : ~(y < x)
    BY <1>1 DEF OpToRel
<1>. QED BY <1>2

\* Induction.
LEMMA AllNumbers ==
    ASSUME NEW S \in SUBSET Nat, 0 \in S, \A n \in S : n + 1 \in S
    PROVE  S = Nat
<1>. SUFFICES ASSUME Nat \ S # {} PROVE FALSE
    OBVIOUS
<1>1. PICK x \in Nat \ S : \A y \in Nat \ S : x <= y
    BY LeastNumber
<1>2. x - 1 \in Nat /\ x - 1 \notin Nat \ S
    BY <1>1
<1>3. (x - 1) + 1 \in S
    BY <1>2
<1>. QED BY <1>1, <1>3

\* G defines a function by recursion: what it makes of f at x depends on f at places
\* that measure less.
Recursion(S, T, M, G) ==
    /\ M \in [S -> Nat] /\ G \in [S -> [[S -> T] -> T]]
    /\ \A x \in S : \A f, g \in [S -> T] :
        (\A y \in S : M[y] < M[x] => f[y] = g[y]) => G[x][f] = G[x][g]

SolvesBelow(S, M, G, f, n) == \A x \in S : M[x] < n => f[x] = G[x][f]

\* Two such functions agree as far as they follow the recursion.
LEMMA RecursionUnique ==
    ASSUME NEW S, NEW T, NEW M, NEW G, Recursion(S, T, M, G),
           NEW f \in [S -> T], NEW g \in [S -> T], NEW n \in Nat,
           SolvesBelow(S, M, G, f, n), SolvesBelow(S, M, G, g, n)
    PROVE  \A x \in S : M[x] < n => f[x] = g[x]
<1>. DEFINE D == {d \in Nat : \E x \in S : M[x] = d /\ d < n /\ f[x] # g[x]}
<1>. SUFFICES ASSUME D # {} PROVE FALSE
    BY DEF Recursion
<1>1. PICK d \in D : \A e \in D : d <= e
  <2>. HIDE DEF D
  <2>1. D \in SUBSET Nat
    BY DEF D
  <2>. QED BY <2>1, LeastNumber
<1>2. PICK x \in S : M[x] = d /\ d < n /\ f[x] # g[x]
    OBVIOUS
<1>3. ASSUME NEW y \in S, M[y] < M[x] PROVE f[y] = g[y]
  <2>1. M[y] \in Nat /\ M[y] < d /\ M[y] < n
    BY <1>2, <1>3 DEF Recursion
  <2>2. M[y] \notin D
    BY <1>1, <2>1
  <2>. QED BY <2>1, <2>2
<1>4. G[x][f] = G[x][g]
    BY <1>3 DEF Recursion
<1>. QED BY <1>2, <1>4 DEF SolvesBelow

\* There is one.
LEMMA RecursionExists ==
    ASSUME NEW S, NEW T, T # {}, NEW M, NEW G, Recursion(S, T, M, G)
    PROVE  \E f \in [S -> T] : \A x \in S : f[x] = G[x][f]
<1>. DEFINE Sol(f, n) == SolvesBelow(S, M, G, f, n)
            Steps == {n \in Nat : \E f \in [S -> T] : Sol(f, n)}
<1>0. \A x \in S : M[x] \in Nat
    BY DEF Recursion
<1>1. 0 \in Steps
  <2>1. PICK t \in T : TRUE
    OBVIOUS
  <2>2. [x \in S |-> t] \in [S -> T]
    OBVIOUS
  <2>3. Sol([x \in S |-> t], 0)
    BY <1>0 DEF SolvesBelow
  <2>. QED BY <2>2, <2>3
<1>2. ASSUME NEW n \in Steps PROVE n + 1 \in Steps
  <2>1. PICK f \in [S -> T] : Sol(f, n)
    OBVIOUS
  <2>. DEFINE g == [x \in S |-> IF M[x] < n THEN f[x] ELSE G[x][f]]
  <2>2. g \in [S -> T]
    BY DEF Recursion
  <2>3. ASSUME NEW x \in S, M[x] < n + 1 PROVE g[x] = G[x][g]
    <3>1. \A y \in S : M[y] < M[x] => f[y] = g[y]
      BY <1>0, <2>3
    <3>2. G[x][f] = G[x][g]
      BY <2>2, <3>1 DEF Recursion
    <3>3. g[x] = G[x][f]
      BY <2>1 DEF SolvesBelow
    <3>. QED BY <3>2, <3>3
  <2>4. Sol(g, n + 1)
    BY <2>3 DEF SolvesBelow
  <2>. QED BY <2>2, <2>4
<1>3. Steps = Nat
  <2>. HIDE DEF Steps
  <2>1. Steps \in SUBSET Nat
    BY DEF Steps
  <2>. QED BY <1>1, <1>2, <2>1, AllNumbers
<1>. DEFINE Upto(n) == CHOOSE f \in [S -> T] : Sol(f, n)
<1>4. ASSUME NEW n \in Nat PROVE Upto(n) \in [S -> T] /\ Sol(Upto(n), n)
  <2>1. \E f \in [S -> T] : Sol(f, n)
    BY <1>3
  <2>. HIDE DEF Sol
  <2>. QED BY <2>1
<1>. DEFINE F == [x \in S |-> Upto(M[x] + 1)[x]]
<1>5. F \in [S -> T]
  <2>. HIDE DEF Upto
  <2>. QED BY <1>0, <1>4
<1>6. ASSUME NEW n \in Nat, NEW x \in S, M[x] < n PROVE F[x] = Upto(n)[x]
  <2>1. M[x] + 1 \in Nat /\ M[x] < M[x] + 1 /\ M[x] + 1 <= n
    BY <1>0, <1>6
  <2>2. /\ Upto(n) \in [S -> T] /\ Upto(M[x] + 1) \in [S -> T]
        /\ Sol(Upto(n), n) /\ Sol(Upto(M[x] + 1), M[x] + 1)
    BY <1>4, <2>1
  <2>3. Sol(Upto(n), M[x] + 1)
    BY <1>0, <2>1, <2>2 DEF SolvesBelow
  <2>4. Upto(n)[x] = Upto(M[x] + 1)[x]
    <3>. HIDE DEF Upto
    <3>. QED BY <2>1, <2>2, <2>3, RecursionUnique
  <2>. QED BY <2>4
<1>7. ASSUME NEW x \in S PROVE F[x] = G[x][F]
  <2>. DEFINE f == Upto(M[x] + 1)
  <2>1. M[x] + 1 \in Nat /\ f \in [S -> T] /\ f[x] = G[x][f]
    <3>1. M[x] + 1 \in Nat /\ M[x] < M[x] + 1
      BY <1>0
    <3>. HIDE DEF Upto, F
    <3>2. f \in [S -> T] /\ Sol(f, M[x] + 1)
      BY <1>4, <3>1
    <3>. QED BY <3>1, <3>2 DEF SolvesBelow
  <2>2. \A y \in S : M[y] < M[x] => f[y] = F[y]
    <3>. HIDE DEF F, Upto
    <3>. QED BY <1>0, <1>6, <2>1
  <2>. HIDE DEF Upto
  <2>3. G[x][f] = G[x][F]
    <3>. HIDE DEF F, f
    <3>. QED BY <1>5, <2>1, <2>2 DEF Recursion
  <2>4. F[x] = f[x]
    OBVIOUS
  <2>. QED BY <2>1, <2>3, <2>4
<1>. QED BY <1>5, <1>7

-----------------------------------------------------------------------------
(* What the recursive definitions of RaySession are *)

\* Inputs have lower numbers.
LEMMA InputsLower ==
    \A n \in Node : n \in Nat /\ Inputs[n] \subseteq Node /\ \A m \in Inputs[n] : m < n
BY PlanAssumption

\* Lineage obeys its definition.
LEMMA LineageIs ==
    /\ Lineage \in [Node -> SUBSET Node]
    /\ \A n \in Node : Lineage[n] = {n} \cup UNION {Lineage[m] : m \in Inputs[n]}
<1>. DEFINE T == SUBSET Node
            M == [n \in Node |-> n]
            G == [n \in Node |-> [f \in [Node -> T] |-> {n} \cup UNION {f[m] : m \in Inputs[n]}]]
<1>1. Recursion(Node, T, M, G)
  <2>1. M \in [Node -> Nat]
    BY InputsLower
  <2>2. G \in [Node -> [[Node -> T] -> T]]
    BY InputsLower
  <2>3. ASSUME NEW x \in Node, NEW f \in [Node -> T], NEW g \in [Node -> T],
               \A y \in Node : M[y] < M[x] => f[y] = g[y]
        PROVE  G[x][f] = G[x][g]
    <3>1. \A m \in Inputs[x] : f[m] = g[m]
      BY <2>3, InputsLower
    <3>2. {f[m] : m \in Inputs[x]} = {g[m] : m \in Inputs[x]}
      BY <3>1
    <3>. QED BY <3>2
  <2>. HIDE DEF M, G, T
  <2>. QED BY <2>1, <2>2, <2>3 DEF Recursion
<1>2. PICK f \in [Node -> T] : \A x \in Node : f[x] = G[x][f]
  <2>1. T # {}
    OBVIOUS
  <2>. HIDE DEF M, G, T
  <2>. QED BY <1>1, <2>1, RecursionExists
<1>3. f = [n \in Node |-> {n} \cup UNION {f[m] : m \in Inputs[n]}]
    BY <1>2
<1>4. Lineage = [n \in Node |-> {n} \cup UNION {Lineage[m] : m \in Inputs[n]}]
  <2>. DEFINE Eq(h) == h = [n \in Node |-> {n} \cup UNION {h[m] : m \in Inputs[n]}]
  <2>1. Lineage = CHOOSE h : Eq(h)
    BY DEF Lineage
  <2>2. Eq(f)
    BY <1>3
  <2>. HIDE DEF Eq
  <2>3. Eq(Lineage)
    BY <2>1, <2>2
  <2>. QED BY <2>3 DEF Eq
<1>5. Lineage \in [Node -> SUBSET Node]
  <2>1. \A x \in Node : Lineage[x] = {x} \cup UNION {Lineage[m] : m \in Inputs[x]}
    BY <1>4
  <2>. DEFINE D == {x \in Node : ~(Lineage[x] \subseteq Node)}
  <2>. SUFFICES ASSUME D # {} PROVE FALSE
    BY <1>4
  <2>2. PICK x \in D : \A y \in D : x <= y
    <3>. HIDE DEF D
    <3>1. D \in SUBSET Nat
      BY InputsLower DEF D
    <3>. QED BY <3>1, LeastNumber
  <2>3. \A m \in Inputs[x] : m \in Node /\ m \notin D
    BY <2>2, InputsLower
  <2>4. Lineage[x] \subseteq Node
    BY <2>1, <2>3
  <2>. QED BY <2>4
<1>. QED BY <1>4, <1>5

\* What a node is made from includes what its inputs are made from.
LEMMA LineageOfInput ==
    ASSUME NEW n \in Node, NEW m \in Inputs[n]
    PROVE  n \in Lineage[n] /\ Lineage[m] \subseteq Lineage[n]
BY LineageIs

\* Only tasks of the frame are wanted.
LEMMA WantedOfFrame ==
    ASSUME NEW n, NEW ts \in Seq(Task), NEW done, NEW k \in Wanted(ts, n, done)
    PROVE  k \in DOMAIN ts /\ ts[k].frame = n
<1>. DEFINE S == DOMAIN ts
            M == [i \in S |-> Len(ts) - i]
            W(h, i) == /\ ts[i].frame = n
                       /\ \/ ts[i].node = n
                          \/ \E m \in DOMAIN ts :
                                /\ m > i /\ i \in InputsOf(ts, m)
                                /\ h[m] /\ Results(ts, m, done) = {}
            G == [i \in S |-> [h \in [S -> BOOLEAN] |-> W(h, i)]]
            Eq(h) == h = [i \in DOMAIN ts |-> W(h, i)]
<1>0. S = 1..Len(ts) /\ Len(ts) \in Nat
    OBVIOUS
<1>1. Recursion(S, BOOLEAN, M, G)
  <2>1. M \in [S -> Nat]
    BY <1>0
  <2>2. G \in [S -> [[S -> BOOLEAN] -> BOOLEAN]]
    OBVIOUS
  <2>3. ASSUME NEW x \in S, NEW f \in [S -> BOOLEAN], NEW g \in [S -> BOOLEAN],
               \A y \in S : M[y] < M[x] => f[y] = g[y]
        PROVE  G[x][f] = G[x][g]
    <3>1. \A m \in S : m > x => f[m] = g[m]
      BY <1>0, <2>3
    <3>2. W(f, x) = W(g, x)
      BY <3>1
    <3>. HIDE DEF W
    <3>. QED BY <3>2
  <2>. HIDE DEF M, G, S
  <2>. QED BY <2>1, <2>2, <2>3 DEF Recursion
<1>2. PICK f \in [S -> BOOLEAN] : \A x \in S : f[x] = G[x][f]
  <2>1. BOOLEAN # {}
    OBVIOUS
  <2>. HIDE DEF M, G, S
  <2>. QED BY <1>1, <2>1, RecursionExists
<1>3. Eq(f)
  <2>. HIDE DEF W
  <2>. QED BY <1>2
<1>4. PICK want : want = (CHOOSE h : Eq(h)) /\ Wanted(ts, n, done) = {i \in DOMAIN ts : want[i]}
    BY DEF Wanted
<1>5. Eq(want)
  <2>. HIDE DEF Eq
  <2>. QED BY <1>3, <1>4
<1>6. k \in DOMAIN ts /\ W(want, k)
  <2>1. k \in DOMAIN ts /\ want[k]
    BY <1>4
  <2>. HIDE DEF W
  <2>. QED BY <1>5, <2>1
<1>. QED BY <1>6
-----------------------------------------------------------------------------
(* Results are current, for programs that grow *)

\* The tasks of a session that has evaluated some of the program.
ShapeUpto[e \in 0..Len(Whole)] ==
    IF e = 0 THEN <<>> ELSE ShapeUpto[e - 1] \o Planned(Whole[e])

Shape == ShapeUpto[Len(Whole)]

\* What is to be made by tasks, with the nodes in some version.
MadeOf(ts, ver) ==
    LET made[i \in DOMAIN ts] ==
            {<<ts[i].node, ts[i].part, ver[ts[i].node]>>}
                \cup UNION {made[j] : j \in InputsOf(ts, i)}
    IN  made

LEMMA WholeIs ==
    ASSUME ProgramsGrow
    PROVE  /\ Whole \in Programs /\ Whole \in Seq(Node) /\ IsInjective(Whole)
           /\ \A q \in Programs : q \in Seq(Node) /\ Begins(q, Whole)
<1>. DEFINE Longest(p) == \A q \in Programs : Begins(q, p)
<1>1. Whole = (CHOOSE p \in Programs : Longest(p)) /\ \E p \in Programs : Longest(p)
    BY DEF Whole, ProgramsGrow
<1>2. Whole \in Programs /\ Longest(Whole)
  <2>. HIDE DEF Longest
  <2>. QED BY <1>1
<1>. QED BY <1>2, PlanAssumption

\* The shape follows its definition.
LEMMA ShapeIs ==
    ASSUME ProgramsGrow
    PROVE  /\ ShapeUpto \in [0..Len(Whole) -> Seq(Task)]
           /\ ShapeUpto[0] = <<>>
           /\ \A e \in 1..Len(Whole) : ShapeUpto[e] = ShapeUpto[e - 1] \o Planned(Whole[e])
<1>. DEFINE S == 0..Len(Whole)
            T == Seq(Task)
            M == [e \in S |-> e]
            G == [e \in S |-> [f \in [S -> T] |->
                    IF e = 0 THEN <<>> ELSE f[e - 1] \o Planned(Whole[e])]]
            Eq(h) == h = [e \in S |-> IF e = 0 THEN <<>> ELSE h[e - 1] \o Planned(Whole[e])]
<1>0. /\ Len(Whole) \in Nat /\ S \subseteq Nat
      /\ \A e \in S : e # 0 => e - 1 \in S /\ e - 1 < e /\ Planned(Whole[e]) \in T
  <2>1. Whole \in Seq(Node)
    BY WholeIs
  <2>2. ASSUME NEW e \in S, e # 0 PROVE Planned(Whole[e]) \in T
    <3>1. Whole[e] \in Node
      BY <2>1, <2>2
    <3>. QED BY <3>1, PlannedTyped
  <2>. QED BY <2>1, <2>2
<1>1. Recursion(S, T, M, G)
  <2>1. M \in [S -> Nat]
    BY <1>0
  <2>2. G \in [S -> [[S -> T] -> T]]
    <3>1. ASSUME NEW e \in S, NEW f \in [S -> T]
          PROVE  (IF e = 0 THEN <<>> ELSE f[e - 1] \o Planned(Whole[e])) \in T
      <4>1. CASE e = 0
        BY <4>1, EmptyIsSeq
      <4>2. CASE e # 0
        <5>1. f[e - 1] \in T /\ Planned(Whole[e]) \in T
          BY <1>0, <4>2
        <5>2. f[e - 1] \o Planned(Whole[e]) \in T
          BY <5>1
        <5>. QED BY <4>2, <5>2
      <4>. QED BY <4>1, <4>2
    <3>. HIDE DEF S, T
    <3>. QED BY <3>1
  <2>3. ASSUME NEW x \in S, NEW f \in [S -> T], NEW g \in [S -> T],
               \A y \in S : M[y] < M[x] => f[y] = g[y]
        PROVE  G[x][f] = G[x][g]
    <3>1. x # 0 => f[x - 1] = g[x - 1]
      BY <1>0, <2>3
    <3>. QED BY <3>1
  <2>. HIDE DEF M, G, T, S
  <2>. QED BY <2>1, <2>2, <2>3 DEF Recursion
<1>2. PICK f \in [S -> T] : \A x \in S : f[x] = G[x][f]
  <2>1. T # {}
    BY EmptyIsSeq
  <2>. HIDE DEF M, G, T, S
  <2>. QED BY <1>1, <2>1, RecursionExists
<1>3. Eq(f)
    BY <1>2
<1>4. ShapeUpto = CHOOSE h : Eq(h)
    BY DEF ShapeUpto
<1>5. Eq(ShapeUpto)
  <2>. HIDE DEF Eq
  <2>. QED BY <1>3, <1>4
<1>6. ASSUME NEW h, Eq(h) PROVE h[0] = <<>> /\ \A e \in 1..Len(Whole) : h[e] = h[e - 1] \o Planned(Whole[e])
  <2>1. 0 \in S /\ \A e \in 1..Len(Whole) : e \in S /\ e # 0
    BY <1>0
  <2>2. \A e \in S : h[e] = IF e = 0 THEN <<>> ELSE h[e - 1] \o Planned(Whole[e])
    <3>. HIDE DEF S
    <3>. QED BY <1>6
  <2>. HIDE DEF S
  <2>. QED BY <2>1, <2>2
<1>7. ASSUME NEW h, Eq(h) PROVE h \in [S -> T]
  <2>. DEFINE D == {e \in S : h[e] \notin T}
  <2>. SUFFICES ASSUME D # {} PROVE FALSE
    BY <1>7
  <2>1. PICK x \in D : \A y \in D : x <= y
    <3>. HIDE DEF D, S
    <3>1. D \in SUBSET Nat
      BY <1>0 DEF D
    <3>. QED BY <3>1, LeastNumber
  <2>2. x # 0
    BY <1>6, <1>7, EmptyIsSeq
  <2>3. h[x - 1] \in T /\ Planned(Whole[x]) \in T
    BY <1>0, <2>1, <2>2
  <2>4. h[x - 1] \o Planned(Whole[x]) \in T
    BY <2>3
  <2>5. h[x] = h[x - 1] \o Planned(Whole[x])
    BY <1>6, <1>7, <2>2
  <2>. QED BY <2>4, <2>5
<1>. QED BY <1>5, <1>6, <1>7

\* One sequence after another.
LEMMA Appended ==
    ASSUME NEW S, NEW s \in Seq(S), NEW t \in Seq(S)
    PROVE  /\ Len(s \o t) = Len(s) + Len(t)
           /\ \A k \in 1..Len(s \o t) : k > Len(s) => (s \o t)[k] = t[k - Len(s)]
OBVIOUS

\* What an evaluation adds to the tasks.
Added(u, s, n) ==
    /\ u \in Seq(Task) /\ Len(s) <= Len(u)
    /\ \A k \in 1..Len(s) : u[k] = s[k]
    /\ \A k \in 1..Len(u) : k > Len(s) =>
        u[k].frame = n /\ u[k].node \in Lineage[n] /\ u[k].state = "none"

LEMMA PlannedAdded ==
    ASSUME NEW n \in Node, NEW s \in Seq(Task)
    PROVE  Added(s \o Planned(n), s, n)
<1>. DEFINE u == s \o Planned(n)
<1>1. Planned(n) \in Seq(Task)
    BY PlannedTyped
<1>2. ASSUME NEW k \in 1..Len(u), k > Len(s)
      PROVE  u[k].frame = n /\ u[k].node \in Lineage[n] /\ u[k].state = "none"
  <2>1. k - Len(s) \in DOMAIN Planned(n) /\ u[k] = Planned(n)[k - Len(s)]
    BY <1>1, <1>2
  <2>2. DOMAIN Planned(n) = DOMAIN Plan[n]
    BY DEF Planned
  <2>. QED BY <2>1, <2>2, PlanOfLineage DEF Planned
<1>. QED BY <1>1, <1>2 DEF Added

\* The shape grows by the frames that are evaluated.
Grows(e, d) ==
    /\ Len(ShapeUpto[e]) <= Len(ShapeUpto[d])
    /\ \A k \in 1..Len(ShapeUpto[e]) : ShapeUpto[d][k] = ShapeUpto[e][k]
    /\ \A k \in 1..Len(ShapeUpto[d]) : k > Len(ShapeUpto[e]) =>
        \E j \in (e + 1)..d :
            /\ ShapeUpto[d][k].frame = Whole[j]
            /\ ShapeUpto[d][k].node \in Lineage[Whole[j]]

LEMMA ShapeGrows ==
    ASSUME ProgramsGrow, NEW e \in 0..Len(Whole), NEW d \in e..Len(Whole)
    PROVE  Grows(e, d)
<1>. DEFINE D == {x \in Nat : x \in e..Len(Whole) => Grows(e, x)}
<1>0. Whole \in Seq(Node) /\ Len(Whole) \in Nat /\ e \in Nat
    BY WholeIs
<1>1. \A x \in 0..Len(Whole) : ShapeUpto[x] \in Seq(Task) /\ Len(ShapeUpto[x]) \in Nat
    BY ShapeIs
<1>2. Grows(e, e)
    BY <1>1 DEF Grows
<1>3. 0 \in D
  <2>1. 0 \in e..Len(Whole) => e = 0
    BY <1>0
  <2>. QED BY <1>2, <2>1
<1>4. ASSUME NEW x \in D PROVE x + 1 \in D
  <2>. SUFFICES ASSUME x + 1 \in e..Len(Whole), x + 1 # e PROVE Grows(e, x + 1)
    BY <1>2
  <2>1. x \in e..Len(Whole) /\ x \in 0..Len(Whole) /\ x + 1 \in 1..Len(Whole)
    BY <1>0
  <2>2. Grows(e, x)
    BY <2>1
  <2>3. ShapeUpto[x + 1] = ShapeUpto[x] \o Planned(Whole[x + 1])
    <3>1. ShapeUpto[x + 1] = ShapeUpto[(x + 1) - 1] \o Planned(Whole[x + 1])
      BY <2>1, ShapeIs, Zenon
    <3>2. (x + 1) - 1 = x
      OBVIOUS
    <3>. QED BY <3>1, <3>2
  <2>4. Whole[x + 1] \in Node
    BY <1>0, <2>1
  <2>. DEFINE s == ShapeUpto[x]
              u == ShapeUpto[x + 1]
              n == Whole[x + 1]
  <2>5. Added(u, s, n)
    BY <1>1, <2>1, <2>3, <2>4, PlannedAdded
  <2>6. Len(s) \in Nat /\ Len(u) \in Nat /\ Len(ShapeUpto[e]) \in Nat
    BY <1>1, <2>1
  <2>7. ASSUME NEW k \in 1..Len(u), k > Len(ShapeUpto[e])
        PROVE  \E j \in (e + 1)..(x + 1) : u[k].frame = Whole[j] /\ u[k].node \in Lineage[Whole[j]]
    <3>1. CASE k <= Len(s)
      <4>1. k \in 1..Len(s)
        BY <2>6, <3>1
      <4>2. PICK j \in (e + 1)..x : s[k].frame = Whole[j] /\ s[k].node \in Lineage[Whole[j]]
        BY <2>2, <2>7, <4>1 DEF Grows
      <4>3. j \in (e + 1)..(x + 1) /\ u[k] = s[k]
        BY <1>0, <2>5, <4>1 DEF Added
      <4>. HIDE DEF u, s
      <4>. QED BY <4>2, <4>3
    <3>2. CASE k > Len(s)
      <4>1. x + 1 \in (e + 1)..(x + 1)
        BY <1>0, <2>1
      <4>2. u[k].frame = Whole[x + 1] /\ u[k].node \in Lineage[Whole[x + 1]]
        BY <2>5, <3>2 DEF Added
      <4>. HIDE DEF u
      <4>. QED BY <4>1, <4>2
    <3>. QED BY <2>6, <3>1, <3>2
  <2>8. Len(ShapeUpto[e]) <= Len(u) /\ \A k \in 1..Len(ShapeUpto[e]) : u[k] = ShapeUpto[e][k]
    BY <2>2, <2>5, <2>6 DEF Grows, Added
  <2>. QED BY <2>7, <2>8 DEF Grows
<1>5. D = Nat
  <2>. HIDE DEF D
  <2>1. D \in SUBSET Nat
    BY DEF D
  <2>. QED BY <1>3, <1>4, <2>1, AllNumbers
<1>6. d \in D /\ d \in e..Len(Whole)
  <2>1. d \in Nat
    BY <1>0
  <2>. HIDE DEF D
  <2>. QED BY <1>5, <2>1
<1>. QED BY <1>6

\* The tasks of the first frames are the first tasks of the shape, and read none
\* of the others.
ShapePart(e) ==
    /\ Len(ShapeUpto[e]) \in Nat /\ Len(ShapeUpto[e]) <= Len(Shape)
    /\ \A k \in 1..Len(ShapeUpto[e]) :
        /\ Shape[k] = ShapeUpto[e][k]
        /\ \E j \in 1..e : Shape[k].frame = Whole[j]
        /\ InputsOf(Shape, k) \subseteq 1..Len(ShapeUpto[e])

LEMMA ShapeParts ==
    ASSUME ProgramsGrow
    PROVE  /\ Shape \in Seq(Task)
           /\ \A k \in 1..Len(Shape) : \E j \in 1..Len(Whole) :
                Shape[k].frame = Whole[j] /\ Shape[k].node \in Lineage[Whole[j]]
           /\ \A e \in 0..Len(Whole) : ShapePart(e)
<1>. SUFFICES ASSUME NEW e \in 0..Len(Whole)
     PROVE  /\ Shape \in Seq(Task)
            /\ \A k \in 1..Len(Shape) : \E j \in 1..Len(Whole) :
                Shape[k].frame = Whole[j] /\ Shape[k].node \in Lineage[Whole[j]]
            /\ ShapePart(e)
  <2>1. 0 \in 0..Len(Whole)
    BY WholeIs
  <2>. QED BY <2>1
<1>0. Whole \in Seq(Node) /\ Len(Whole) \in Nat /\ IsInjective(Whole)
    BY WholeIs
<1>1. 0 \in 0..Len(Whole) /\ Len(Whole) \in e..Len(Whole) /\ e \in 0..Len(Whole) /\ Len(Whole) \in 0..Len(Whole) /\ ShapeUpto[0] = <<>> /\ Len(ShapeUpto[0]) = 0
    BY <1>0, ShapeIs
<1>2. Shape \in Seq(Task) /\ Len(ShapeUpto[e]) \in Nat /\ ShapeUpto[e] \in Seq(Task)
    BY <1>0, <1>1, ShapeIs DEF Shape
<1>3. /\ Len(ShapeUpto[e]) <= Len(Shape)
      /\ \A k \in 1..Len(ShapeUpto[e]) : Shape[k] = ShapeUpto[e][k]
      /\ \A k \in 1..Len(Shape) : k > Len(ShapeUpto[e]) => \E j \in (e + 1)..Len(Whole) : Shape[k].frame = Whole[j]
  <2>. Grows(e, Len(Whole))
    BY <1>1, ShapeGrows
  <2>. QED BY DEF Grows, Shape
<1>4. \A k \in 1..Len(ShapeUpto[e]) : \E j \in 1..e : ShapeUpto[e][k].frame = Whole[j]
  <2>. Grows(0, e)
    BY <1>1, ShapeGrows
  <2>. QED BY <1>1, <1>2 DEF Grows
<1>5. \A k \in 1..Len(Shape) : \E j \in 1..Len(Whole) :
                Shape[k].frame = Whole[j] /\ Shape[k].node \in Lineage[Whole[j]]
  <2>1. \A k \in 1..Len(Shape) : k > Len(ShapeUpto[0]) =>
            \E j \in (0 + 1)..Len(Whole) :
                Shape[k].frame = Whole[j] /\ Shape[k].node \in Lineage[Whole[j]]
    BY <1>1, ShapeGrows DEF Grows, Shape
  <2>2. \A k \in 1..Len(Shape) : k > Len(ShapeUpto[0])
    BY <1>1, <1>2
  <2>3. 0 + 1 = 1
    OBVIOUS
  <2>. QED BY <2>1, <2>2, <2>3
<1>6. ASSUME NEW k \in 1..Len(ShapeUpto[e]), NEW i \in InputsOf(Shape, k) PROVE i \in 1..Len(ShapeUpto[e])
  <2>1. i \in 1..Len(Shape) /\ Shape[i].frame = Shape[k].frame
    BY <1>2 DEF InputsOf
  <2>2. PICK j \in 1..e : Shape[k].frame = Whole[j]
    BY <1>3, <1>4
  <2>3. CASE i > Len(ShapeUpto[e])
    <3>1. PICK h \in (e + 1)..Len(Whole) : Shape[i].frame = Whole[h]
      BY <1>3, <2>1, <2>3
    <3>2. Whole[h] = Whole[j] /\ h # j /\ h \in DOMAIN Whole /\ j \in DOMAIN Whole
      BY <1>0, <2>1, <2>2, <3>1
    <3>. QED BY <1>0, <3>2 DEF IsInjective
  <2>. QED BY <1>2, <2>1, <2>3
<1>7. \A k \in 1..Len(ShapeUpto[e]) : \E j \in 1..e : Shape[k].frame = Whole[j]
    BY <1>3, <1>4
<1>8. ShapePart(e)
    BY <1>2, <1>3, <1>6, <1>7 DEF ShapePart
<1>. QED BY <1>2, <1>5, <1>8

\* The inputs of a task are tasks of its frame whose nodes have lower numbers.
LEMMA InputsOfTask ==
    ASSUME NEW ts \in Seq(Task), NEW k \in DOMAIN ts, NEW i \in InputsOf(ts, k)
    PROVE  /\ i \in DOMAIN ts
           /\ ts[i].node \in Node /\ ts[k].node \in Node
           /\ ts[i].node \in Inputs[ts[k].node] /\ ts[i].node < ts[k].node
           /\ ts[i].frame = ts[k].frame
<1>1. /\ i \in DOMAIN ts /\ ts[i].node \in Inputs[ts[k].node]
      /\ ts[i].frame = ts[k].frame
    BY DEF InputsOf
<1>2. ts[i] \in Task /\ ts[k] \in Task
    BY <1>1, ElementOfSeq
<1>3. ts[i].node \in Node /\ ts[k].node \in Node
    BY <1>2 DEF Task
<1>. QED BY <1>1, <1>3, InputsLower

\* MadeOf follows its definition.
MadeFrom(made, ts, ver) ==
    made = [i \in DOMAIN ts |->
                {<<ts[i].node, ts[i].part, ver[ts[i].node]>>}
                    \cup UNION {made[j] : j \in InputsOf(ts, i)}]

LEMMA MadeExists ==
    ASSUME NEW ts \in Seq(Task), NEW ver \in [Node -> Nat]
    PROVE  \E made : MadeFrom(made, ts, ver)
<1>. DEFINE S == DOMAIN ts
            M == [i \in S |-> ts[i].node]
            W(h, i) == {<<ts[i].node, ts[i].part, ver[ts[i].node]>>}
                            \cup UNION {h[j] : j \in InputsOf(ts, i)}
            G == [i \in S |-> [h \in [S -> Value] |-> W(h, i)]]
<1>1. Recursion(S, Value, M, G)
  <2>1. M \in [S -> Nat]
    <3>1. ASSUME NEW i \in S PROVE ts[i].node \in Nat
      <4>1. ts[i] \in Task
        BY ElementOfSeq
      <4>. QED BY <4>1, InputsLower DEF Task
    <3>. QED BY <3>1
  <2>2. G \in [S -> [[S -> Value] -> Value]]
    <3>1. ASSUME NEW i \in S, NEW h \in [S -> Value] PROVE W(h, i) \in Value
      <4>1. ts[i] \in Task
        BY ElementOfSeq
      <4>2. <<ts[i].node, ts[i].part, ver[ts[i].node]>> \in Node \X Nat \X Nat
        BY <4>1 DEF Task
      <4>3. \A j \in InputsOf(ts, i) : h[j] \in Value
        BY DEF InputsOf
      <4>. QED BY <4>2, <4>3 DEF Value
    <3>. HIDE DEF W, S
    <3>. QED BY <3>1
  <2>3. ASSUME NEW x \in S, NEW f \in [S -> Value], NEW g \in [S -> Value],
               \A y \in S : M[y] < M[x] => f[y] = g[y]
        PROVE  G[x][f] = G[x][g]
    <3>1. ASSUME NEW j \in InputsOf(ts, x) PROVE f[j] = g[j]
      <4>1. j \in S /\ ts[j].node < ts[x].node
        BY InputsOfTask
      <4>. QED BY <2>3, <4>1
    <3>2. {f[j] : j \in InputsOf(ts, x)} = {g[j] : j \in InputsOf(ts, x)}
      BY <3>1
    <3>3. W(f, x) = W(g, x)
      BY <3>2
    <3>. HIDE DEF W
    <3>. QED BY <3>3
  <2>. HIDE DEF M, G, S
  <2>. QED BY <2>1, <2>2, <2>3 DEF Recursion
<1>2. PICK f \in [S -> Value] : \A x \in S : f[x] = G[x][f]
  <2>1. Value # {}
    BY DEF Value
  <2>. HIDE DEF M, G, S
  <2>. QED BY <1>1, <2>1, RecursionExists
<1>3. f = [i \in DOMAIN ts |-> W(f, i)]
  <2>. HIDE DEF W
  <2>. QED BY <1>2
<1>. QED BY <1>3 DEF MadeFrom

\* Tasks that agree, with what they are made from, on what they are make the same.
Agree(S, ts, us, ver, wer) ==
    /\ S \subseteq DOMAIN ts /\ S \subseteq DOMAIN us
    /\ \A k \in S :
        /\ ts[k].node = us[k].node /\ ts[k].part = us[k].part
        /\ ver[ts[k].node] = wer[ts[k].node]
        /\ InputsOf(ts, k) = InputsOf(us, k) /\ InputsOf(ts, k) \subseteq S

LEMMA MadeAgree ==
    ASSUME NEW ts \in Seq(Task), NEW us, NEW ver, NEW wer, NEW S,
           Agree(S, ts, us, ver, wer),
           NEW f, MadeFrom(f, ts, ver), NEW g, MadeFrom(g, us, wer)
    PROVE  \A k \in S : f[k] = g[k]
<1>. DEFINE D == {n \in Nat : \E k \in S : ts[k].node = n /\ f[k] # g[k]}
<1>0. \A k \in S : ts[k].node \in Nat
  <2>. SUFFICES ASSUME NEW k \in S PROVE ts[k].node \in Nat
    OBVIOUS
  <2>1. ts[k] \in Task
    BY ElementOfSeq DEF Agree
  <2>. QED BY <2>1, InputsLower DEF Task
<1>. SUFFICES ASSUME D # {} PROVE FALSE
    BY <1>0
<1>1. PICK n \in D : \A m \in D : n <= m
  <2>. HIDE DEF D
  <2>1. D \in SUBSET Nat
    BY DEF D
  <2>. QED BY <2>1, LeastNumber
<1>2. PICK k \in S : ts[k].node = n /\ f[k] # g[k]
    OBVIOUS
<1>3. ASSUME NEW i \in InputsOf(ts, k) PROVE f[i] = g[i]
  <2>1. i \in S /\ k \in DOMAIN ts
    BY <1>3 DEF Agree
  <2>2. ts[i].node < n
    BY <1>2, <2>1, InputsOfTask
  <2>3. ts[i].node \in Nat /\ ts[i].node \notin D
    BY <1>0, <1>1, <2>1, <2>2
  <2>. QED BY <2>1, <2>3
<1>4. {f[i] : i \in InputsOf(ts, k)} = {g[i] : i \in InputsOf(us, k)}
    BY <1>3 DEF Agree
<1>5. f[k] = {<<ts[k].node, ts[k].part, ver[ts[k].node]>>}
                 \cup UNION {f[i] : i \in InputsOf(ts, k)}
    BY DEF Agree, MadeFrom
<1>6. g[k] = {<<us[k].node, us[k].part, wer[us[k].node]>>}
                 \cup UNION {g[i] : i \in InputsOf(us, k)}
    BY DEF Agree, MadeFrom
<1>7. <<ts[k].node, ts[k].part, ver[ts[k].node]>> = <<us[k].node, us[k].part, wer[us[k].node]>>
    BY DEF Agree
<1>. QED BY <1>2, <1>4, <1>5, <1>6, <1>7

LEMMA MadeIs ==
    ASSUME NEW ts \in Seq(Task), NEW ver \in [Node -> Nat]
    PROVE  MadeFrom(MadeOf(ts, ver), ts, ver)
<1>1. MadeOf(ts, ver) = CHOOSE made : MadeFrom(made, ts, ver)
    BY DEF MadeOf, MadeFrom
<1>. QED BY <1>1, MadeExists

\* Current is what is to be made by the tasks there are.
LEMMA CurrentIs ==
    ASSUME NEW k
    PROVE  Current(k) = MadeOf(tasks, version)[k]
BY DEF Current, MadeOf

\* What the tasks of the whole program are to make, as the program is now.
Made == MadeOf(Shape, version)

\* Results on disk are those of tasks of the program; they are current if nothing
\* they are made from is marked, ...
OnDisk ==
    \A c \in completed :
        /\ c.id \in DOMAIN Shape /\ c.node = Shape[c.id].node
        /\ Lineage[c.node] \cap flagged = {} => c.value = Made[c.id]

\* ... or if this session has evaluated the frame of their node.
DiskAfter(e) ==
    \A c \in completed : (\E j \in 1..e : Whole[j] = c.node) => c.value = Made[c.id]

\* The session has evaluated the first e frames.
Evaluated(e) ==
    /\ Len(tasks) = Len(ShapeUpto[e])
    /\ \A k \in DOMAIN tasks :
        /\ tasks[k].node = Shape[k].node /\ tasks[k].part = Shape[k].part
        /\ tasks[k].frame = Shape[k].frame
    /\ \A j \in 1..Len(todo) : e + j <= Len(Whole) /\ todo[j] = Whole[e + j]
    /\ DiskAfter(e)

\* What tasks have made is current, and a task runs when its inputs are there.
InTasks ==
    \A k \in DOMAIN tasks :
        /\ tasks[k].state \in {"written", "dumped", "ready"} => tasks[k].value = Made[k]
        /\ tasks[k].state = "running" =>
              \A i \in InputsOf(tasks, k) : tasks[i].state = "ready"

CurrentInv ==
    /\ flagged \subseteq Editable /\ OnDisk /\ InTasks
    /\ up => \E e \in 0..Len(Whole) : Evaluated(e)
    /\ ~up => tasks = <<>>

\* Tasks read what the same tasks of the whole program read.
LEMMA SameInputs ==
    ASSUME ProgramsGrow, TypeOK, NEW e \in 0..Len(Whole), Evaluated(e)
    PROVE  /\ DOMAIN tasks \subseteq DOMAIN Shape
           /\ DOMAIN tasks = 1..Len(ShapeUpto[e])
           /\ \A k \in DOMAIN tasks : InputsOf(tasks, k) = InputsOf(Shape, k)
<1>. tasks \in Seq(Task) /\ Shape \in Seq(Task) /\ ShapePart(e)
    BY ShapeParts DEF TypeOK
<1>1. DOMAIN tasks = 1..Len(ShapeUpto[e]) /\ DOMAIN tasks \subseteq DOMAIN Shape
    BY DEF Evaluated, ShapePart
<1>2. \A k \in DOMAIN tasks : InputsOf(Shape, k) \subseteq DOMAIN tasks
    BY <1>1 DEF ShapePart
<1>3. \A k \in DOMAIN tasks :
        /\ tasks[k].node = Shape[k].node /\ tasks[k].part = Shape[k].part
        /\ tasks[k].frame = Shape[k].frame
    BY DEF Evaluated
<1>4. ASSUME NEW k \in DOMAIN tasks, NEW i
      PROVE  i \in InputsOf(tasks, k) <=> i \in InputsOf(Shape, k)
  <2>1. CASE i \in DOMAIN tasks
    BY <1>1, <1>3, <2>1 DEF InputsOf
  <2>2. CASE i \notin DOMAIN tasks
    BY <1>2, <2>2 DEF InputsOf
  <2>. QED BY <2>1, <2>2
<1>. QED BY <1>1, <1>4

\* Made, for a task of the program.
LEMMA MadeStep ==
    ASSUME ProgramsGrow, TypeOK, NEW k \in DOMAIN Shape
    PROVE  Made[k] = {<<Shape[k].node, Shape[k].part, version[Shape[k].node]>>}
                        \cup UNION {Made[i] : i \in InputsOf(Shape, k)}
<1>1. MadeFrom(Made, Shape, version)
    BY ShapeParts, MadeIs DEF Made, TypeOK
<1>. QED BY <1>1 DEF MadeFrom

\* The invariant says what is to be shown.
LEMMA InvIsCurrent ==
    ASSUME ProgramsGrow, TypeOK, CurrentInv
    PROVE  ResultIsCurrent
<1>. SUFFICES ASSUME up, NEW k \in DOMAIN tasks, tasks[k].state = "ready"
              PROVE  tasks[k].value = Current(k)
    BY DEF ResultIsCurrent
<1>1. PICK e \in 0..Len(Whole) : Evaluated(e)
    BY DEF CurrentInv
<1>2. /\ DOMAIN tasks \subseteq DOMAIN Shape
      /\ \A j \in DOMAIN tasks : InputsOf(tasks, j) = InputsOf(Shape, j)
    BY <1>1, SameInputs
<1>. tasks \in Seq(Task) /\ version \in [Node -> Nat] /\ Shape \in Seq(Task)
    BY ShapeParts DEF TypeOK
<1>3. \A j \in DOMAIN tasks : InputsOf(tasks, j) \subseteq DOMAIN tasks
    BY DEF InputsOf
<1>4. Agree(DOMAIN tasks, tasks, Shape, version, version)
    BY <1>1, <1>2, <1>3 DEF Agree, Evaluated
<1>5. MadeOf(tasks, version)[k] = Made[k]
    BY <1>4, MadeIs, MadeAgree DEF Made
<1>. QED BY <1>5, CurrentIs DEF CurrentInv, InTasks

\* What a step of a worker does to its task, and leaves alone.
LEMMA WorkerEffect ==
    ASSUME TypeOK, NEW k \in DOMAIN tasks,
           Begin(k) \/ GiveUp(k) \/ InputFails(k) \/ Execute(k) \/ Dump(k)
             \/ Return(k) \/ WorkerDies(k)
    PROVE  /\ up /\ UNCHANGED driverVars
           /\ tasks[k].state # "ready"
           /\ DOMAIN tasks' = DOMAIN tasks /\ Len(tasks') = Len(tasks)
           /\ \A j \in DOMAIN tasks :
                /\ j # k => tasks'[j] = tasks[j]
                /\ tasks'[j].node = tasks[j].node /\ tasks'[j].part = tasks[j].part
                /\ tasks'[j].frame = tasks[j].frame
           /\ \A j \in DOMAIN tasks : InputsOf(tasks', j) = InputsOf(tasks, j)
           /\ tasks'[k].state = "running" =>
                \A i \in InputsOf(tasks, k) : tasks[i].state = "ready"
           /\ tasks'[k].state \in {"written", "dumped", "ready"} =>
                \/ /\ tasks[k].state \in {"written", "dumped"}
                   /\ tasks'[k].value = tasks[k].value
                \/ tasks[k].state = "running" /\ tasks'[k].value = Output(k)
           /\ \A c \in completed' :
                \/ c \in completed
                \/ /\ tasks[k].state = "written"
                   /\ c = [node |-> tasks[k].node, id |-> k, value |-> tasks[k].value]
<1>. tasks \in Seq(Task) /\ tasks[k] \in Task
    BY AttemptTyped DEF TypeOK
<1>1. /\ up /\ UNCHANGED driverVars /\ tasks[k].state # "ready"
    BY DEF Begin, GiveUp, InputFails, Execute, Dump, Return, WorkerDies
<1>2. \A c \in completed' :
        \/ c \in completed
        \/ /\ tasks[k].state = "written"
           /\ c = [node |-> tasks[k].node, id |-> k, value |-> tasks[k].value]
    BY DEF Begin, GiveUp, InputFails, Execute, Dump, Return, WorkerDies, diskVars
<1>3. \E t \in Task :
        /\ tasks' = [tasks EXCEPT ![k] = t]
        /\ t.node = tasks[k].node /\ t.part = tasks[k].part /\ t.frame = tasks[k].frame
        /\ t.state = "running" =>
                \A i \in InputsOf(tasks, k) : tasks[i].state = "ready"
        /\ t.state \in {"written", "dumped", "ready"} =>
                \/ /\ tasks[k].state \in {"written", "dumped"}
                   /\ t.value = tasks[k].value
                \/ tasks[k].state = "running" /\ t.value = Output(k)
  <2>0. tasks'[k] \in Task
    <3>1. tasks' \in Seq(Task)
      BY WorkerTyped
    <3>2. DOMAIN tasks' = DOMAIN tasks
      BY DEF Begin, GiveUp, InputFails, Execute, Dump, Return, WorkerDies, Fails
    <3>. QED BY <3>1, <3>2, ElementOfSeq
  <2>1. ASSUME NEW t, tasks' = [tasks EXCEPT ![k] = t] PROVE tasks'[k] = t /\ t \in Task
    BY <2>0, <2>1
  <2>2. ASSUME NEW w, Fails(k, w)
        PROVE  \E t : /\ tasks' = [tasks EXCEPT ![k] = t]
                      /\ t = [tasks[k] EXCEPT !.state = "failed", !.why = w]
    BY <2>2 DEF Fails
  <2>3. CASE \E w : Fails(k, w)
    BY <2>1, <2>2, <2>3 DEF Task
  <2>4. CASE Begin(k)
    <3>1. PICK r : tasks' = [tasks EXCEPT ![k].state = "running", ![k].retry = r]
      BY <2>4 DEF Begin
    <3>. DEFINE t == [tasks[k] EXCEPT !.state = "running", !.retry = r]
    <3>2. tasks' = [tasks EXCEPT ![k] = t]
      BY <3>1
    <3>3. t.node = tasks[k].node /\ t.part = tasks[k].part /\ t.frame = tasks[k].frame /\ t.state = "running"
      BY DEF Task
    <3>4. \A i \in InputsOf(tasks, k) : tasks[i].state = "ready"
      BY <2>4 DEF Begin
    <3>5. t \in Task
      BY <2>1, <3>2
    <3>. HIDE DEF t
    <3>. QED BY <3>2, <3>3, <3>4, <3>5
  <2>5. CASE Execute(k) /\ ~\E w : Fails(k, w)
    <3>1. tasks[k].state = "running"
          /\ tasks' = [tasks EXCEPT ![k].state = "written", ![k].value = Output(k)]
      BY <2>5 DEF Execute
    <3>. DEFINE t == [tasks[k] EXCEPT !.state = "written", !.value = Output(k)]
    <3>2. tasks' = [tasks EXCEPT ![k] = t]
      BY <3>1
    <3>3. t.node = tasks[k].node /\ t.part = tasks[k].part /\ t.frame = tasks[k].frame
          /\ t.state = "written" /\ t.value = Output(k)
      BY DEF Task
    <3>5. t \in Task
      BY <2>1, <3>2
    <3>. HIDE DEF t
    <3>. QED BY <3>1, <3>2, <3>3, <3>5
  <2>6. CASE Dump(k) \/ Return(k)
    <3>1. PICK s \in {"dumped", "ready"} : tasks' = [tasks EXCEPT ![k].state = s]
      BY <2>6 DEF Dump, Return
    <3>2. tasks[k].state \in {"written", "dumped"}
      BY <2>6 DEF Dump, Return
    <3>. DEFINE t == [tasks[k] EXCEPT !.state = s]
    <3>3. tasks' = [tasks EXCEPT ![k] = t]
      BY <3>1
    <3>4. t.node = tasks[k].node /\ t.part = tasks[k].part /\ t.frame = tasks[k].frame
          /\ t.state = s /\ t.value = tasks[k].value
      BY DEF Task
    <3>5. t \in Task
      BY <2>1, <3>3
    <3>. HIDE DEF t
    <3>. QED BY <3>1, <3>2, <3>3, <3>4, <3>5
  <2>7. CASE WorkerDies(k) /\ ~\E w : Fails(k, w)
    <3>1. tasks' = [tasks EXCEPT ![k].state = "started", ![k].value = {}]
      BY <2>7 DEF WorkerDies
    <3>. DEFINE t == [tasks[k] EXCEPT !.state = "started", !.value = {}]
    <3>2. tasks' = [tasks EXCEPT ![k] = t]
      BY <3>1
    <3>3. t.node = tasks[k].node /\ t.part = tasks[k].part /\ t.frame = tasks[k].frame
          /\ t.state = "started"
      BY DEF Task
    <3>4. t \in Task
      BY <2>1, <3>2
    <3>. HIDE DEF t
    <3>. QED BY <3>2, <3>3, <3>4
  <2>. QED BY <2>3, <2>4, <2>5, <2>6, <2>7 DEF GiveUp, InputFails
<1>4. PICK t \in Task :
        /\ tasks' = [tasks EXCEPT ![k] = t]
        /\ t.node = tasks[k].node /\ t.part = tasks[k].part /\ t.frame = tasks[k].frame
        /\ t.state = "running" =>
                \A i \in InputsOf(tasks, k) : tasks[i].state = "ready"
        /\ t.state \in {"written", "dumped", "ready"} =>
                \/ /\ tasks[k].state \in {"written", "dumped"}
                   /\ t.value = tasks[k].value
                \/ tasks[k].state = "running" /\ t.value = Output(k)
    BY <1>3
<1>5. /\ DOMAIN tasks' = DOMAIN tasks /\ tasks'[k] = t
      /\ \A j \in DOMAIN tasks : j # k => tasks'[j] = tasks[j]
    BY <1>4
<1>6. Len(tasks') = Len(tasks)
    BY <1>4
<1>7. \A j \in DOMAIN tasks :
        /\ tasks'[j].node = tasks[j].node /\ tasks'[j].part = tasks[j].part
        /\ tasks'[j].frame = tasks[j].frame
    BY <1>4, <1>5
<1>8. \A j \in DOMAIN tasks : InputsOf(tasks', j) = InputsOf(tasks, j)
    BY <1>5, <1>7 DEF InputsOf
<1>. QED BY <1>1, <1>2, <1>4, <1>5, <1>6, <1>7, <1>8

LEMMA CurrentWorker ==
    ASSUME ProgramsGrow, TypeOK, CurrentInv, NEW k \in DOMAIN tasks,
           Begin(k) \/ GiveUp(k) \/ InputFails(k) \/ Execute(k) \/ Dump(k)
             \/ Return(k) \/ WorkerDies(k)
    PROVE  CurrentInv'
<1>1. /\ up /\ UNCHANGED driverVars
      /\ tasks[k].state # "ready"
      /\ DOMAIN tasks' = DOMAIN tasks /\ Len(tasks') = Len(tasks)
      /\ \A j \in DOMAIN tasks :
            /\ j # k => tasks'[j] = tasks[j]
            /\ tasks'[j].node = tasks[j].node /\ tasks'[j].part = tasks[j].part
            /\ tasks'[j].frame = tasks[j].frame
      /\ \A j \in DOMAIN tasks : InputsOf(tasks', j) = InputsOf(tasks, j)
      /\ tasks'[k].state = "running" =>
            \A i \in InputsOf(tasks, k) : tasks[i].state = "ready"
      /\ tasks'[k].state \in {"written", "dumped", "ready"} =>
            \/ /\ tasks[k].state \in {"written", "dumped"}
               /\ tasks'[k].value = tasks[k].value
            \/ tasks[k].state = "running" /\ tasks'[k].value = Output(k)
      /\ \A c \in completed' :
            \/ c \in completed
            \/ /\ tasks[k].state = "written"
               /\ c = [node |-> tasks[k].node, id |-> k, value |-> tasks[k].value]
    BY WorkerEffect
<1>2. PICK e \in 0..Len(Whole) : Evaluated(e)
    BY <1>1 DEF CurrentInv
<1>3. /\ DOMAIN tasks \subseteq DOMAIN Shape
      /\ \A j \in DOMAIN tasks : InputsOf(tasks, j) = InputsOf(Shape, j)
    BY <1>2, SameInputs
<1>4. /\ version' = version /\ flagged' = flagged /\ up' = up /\ todo' = todo
      /\ Made' = Made
    BY <1>1 DEF driverVars, programVars, Made
<1>5. \A j \in DOMAIN tasks :
        /\ tasks[j].node = Shape[j].node /\ tasks[j].part = Shape[j].part
        /\ tasks[j].frame = Shape[j].frame
    BY <1>2 DEF Evaluated
<1>6. ASSUME tasks[k].state = "running" PROVE Output(k) = Made[k]
  <2>1. ASSUME NEW i \in InputsOf(tasks, k) PROVE tasks[i].value = Made[i]
    <3>1. i \in DOMAIN tasks /\ tasks[i].state = "ready"
      BY <1>6 DEF InputsOf, CurrentInv, InTasks
    <3>. QED BY <3>1 DEF CurrentInv, InTasks
  <2>2. {tasks[i].value : i \in InputsOf(tasks, k)} = {Made[i] : i \in InputsOf(Shape, k)}
    BY <1>3, <2>1
  <2>3. Made[k] = {<<Shape[k].node, Shape[k].part, version[Shape[k].node]>>}
                        \cup UNION {Made[i] : i \in InputsOf(Shape, k)}
    BY <1>3, MadeStep
  <2>. QED BY <1>5, <2>2, <2>3 DEF Output
<1>7. ASSUME NEW c \in completed', c \notin completed
      PROVE  c.id = k /\ c.node = Shape[k].node /\ c.value = Made[k]
  <2>1. tasks[k].state = "written"
        /\ c = [node |-> tasks[k].node, id |-> k, value |-> tasks[k].value]
    BY <1>1, <1>7
  <2>2. tasks[k].value = Made[k]
    BY <2>1 DEF CurrentInv, InTasks
  <2>. QED BY <1>5, <2>1, <2>2
<1>8. OnDisk'
    BY <1>3, <1>4, <1>7 DEF OnDisk, CurrentInv
<1>9. DiskAfter(e)'
    BY <1>2, <1>4, <1>7 DEF DiskAfter, Evaluated
<1>10. InTasks'
  <2>1. ASSUME NEW j \in DOMAIN tasks, tasks'[j].state \in {"written", "dumped", "ready"}
        PROVE  tasks'[j].value = Made[j]
    <3>1. CASE j = k
      BY <1>1, <1>6, <2>1, <3>1 DEF CurrentInv, InTasks
    <3>2. CASE j # k
      BY <1>1, <2>1, <3>2 DEF CurrentInv, InTasks
    <3>. QED BY <3>1, <3>2
  <2>2. ASSUME NEW j \in DOMAIN tasks, tasks'[j].state = "running",
               NEW i \in InputsOf(tasks, j)
        PROVE  tasks'[i].state = "ready"
    <3>1. i \in DOMAIN tasks
      BY DEF InputsOf
    <3>2. tasks[i].state = "ready"
      <4>1. CASE j = k
        BY <1>1, <2>2, <4>1
      <4>2. CASE j # k
        BY <1>1, <2>2, <4>2 DEF CurrentInv, InTasks
      <4>. QED BY <4>1, <4>2
    <3>. QED BY <1>1, <3>1, <3>2
  <2>. QED BY <1>1, <1>4, <2>1, <2>2 DEF InTasks
<1>11. Evaluated(e)'
    BY <1>1, <1>2, <1>4, <1>5, <1>9 DEF Evaluated
<1>. QED BY <1>1, <1>4, <1>8, <1>10, <1>11 DEF CurrentInv

\* A session starts: what is not made from a node the user changed is what it was.
LEMMA CurrentStart ==
    ASSUME ProgramsGrow, TypeOK, TypeOK', CurrentInv, Start
    PROVE  CurrentInv'
<1>1. tasks = <<>> /\ tasks' = <<>> /\ completed' = completed /\ up'
    BY DEF Start, CurrentInv, diskVars
<1>2. flagged' \subseteq Editable /\ flagged \subseteq flagged'
    BY DEF Start, CurrentInv, programVars
<1>3. ASSUME NEW k \in DOMAIN Shape, Lineage[Shape[k].node] \cap flagged' = {}
      PROVE  Made'[k] = Made[k]
  <2>. Shape \in Seq(Task) /\ version \in [Node -> Nat] /\ version' \in [Node -> Nat]
    BY ShapeParts DEF TypeOK
  <2>. DEFINE S == {j \in DOMAIN Shape : Lineage[Shape[j].node] \cap flagged' = {}}
  <2>1. ASSUME NEW j \in S PROVE version[Shape[j].node] = version'[Shape[j].node]
    <3>1. Shape[j].node \in Node
      <4>1. Shape[j] \in Task
        BY ElementOfSeq
      <4>. QED BY <4>1 DEF Task
    <3>2. Shape[j].node \in Lineage[Shape[j].node]
      BY <3>1, LineageIs
    <3>3. Shape[j].node \notin flagged'
      BY <3>2
    <3>. QED BY <3>1, <3>3 DEF Start, programVars
  <2>2. ASSUME NEW j \in S, NEW i \in InputsOf(Shape, j) PROVE i \in S
    <3>1. i \in DOMAIN Shape /\ Shape[j].node \in Node
          /\ Shape[i].node \in Inputs[Shape[j].node]
      BY InputsOfTask
    <3>2. Lineage[Shape[i].node] \subseteq Lineage[Shape[j].node]
      BY <3>1, LineageOfInput
    <3>. QED BY <3>1, <3>2
  <2>3. Agree(S, Shape, Shape, version', version)
    BY <2>1, <2>2 DEF Agree
  <2>4. k \in S
    BY <1>3
  <2>5. MadeFrom(MadeOf(Shape, version'), Shape, version')
        /\ MadeFrom(MadeOf(Shape, version), Shape, version)
    BY MadeIs
  <2>6. MadeOf(Shape, version')[k] = MadeOf(Shape, version)[k]
    <3>. HIDE DEF S
    <3>. QED BY <2>3, <2>4, <2>5, MadeAgree
  <2>. QED BY <2>6 DEF Made
<1>4. OnDisk'
  <2>. SUFFICES ASSUME NEW c \in completed
       PROVE  /\ c.id \in DOMAIN Shape /\ c.node = Shape[c.id].node
              /\ Lineage[c.node] \cap flagged' = {} => c.value = Made'[c.id]
    BY <1>1 DEF OnDisk
  <2>1. /\ c.id \in DOMAIN Shape /\ c.node = Shape[c.id].node
        /\ Lineage[c.node] \cap flagged = {} => c.value = Made[c.id]
    BY DEF CurrentInv, OnDisk
  <2>. QED BY <1>2, <1>3, <2>1
<1>5. InTasks'
    BY <1>1 DEF InTasks
<1>6. 0 \in 0..Len(Whole) /\ Evaluated(0)'
  <2>1. Len(Whole) \in Nat /\ Len(ShapeUpto[0]) = 0 /\ Len(tasks') = 0 /\ DOMAIN tasks' = {}
    BY <1>1, WholeIs, ShapeIs
  <2>2. \A j \in 1..Len(todo') : 0 + j <= Len(Whole) /\ todo'[j] = Whole[0 + j]
    <3>1. todo' \in Seq(Node) /\ Begins(todo', Whole)
      BY WholeIs DEF Start
    <3>. QED BY <2>1, <3>1 DEF Begins
  <2>3. DiskAfter(0)'
    BY DEF DiskAfter
  <2>. QED BY <2>1, <2>2, <2>3 DEF Evaluated
<1>. QED BY <1>1, <1>2, <1>4, <1>5, <1>6 DEF CurrentInv

\* run_on_ray leaves a task as it is, or it is of the frame that is evaluated and is
\* started or found on disk.
BecomesIn(t, old, k, n, done) ==
    /\ t.node = old.node /\ t.part = old.part /\ t.frame = old.frame
    /\ \/ t = old
       \/ /\ old.frame = n
          /\ \/ t.state = "started"
             \/ /\ t.state = "ready"
                /\ \E c \in done : c.node = old.node /\ c.id = k /\ t.value = c.value

LEMMA RunEffect ==
    ASSUME NEW n, NEW ts \in Seq(Task), NEW done, NEW k \in DOMAIN ts
    PROVE  BecomesIn(RunOnRay(ts, n, done)[k], ts[k], k, n, done)
<1>. DEFINE t == RunOnRay(ts, n, done)[k]
<1>. ts[k] \in Task
    BY ElementOfSeq
<1>1. CASE k \notin Wanted(ts, n, done)
    BY <1>1 DEF RunOnRay, BecomesIn
<1>2. CASE k \in Wanted(ts, n, done) /\ Results(ts, k, done) = {}
  <2>1. t = [ts[k] EXCEPT !.state = "started"]
    BY <1>2 DEF RunOnRay
  <2>2. ts[k].frame = n
    BY <1>2, WantedOfFrame
  <2>. QED BY <2>1, <2>2 DEF Task, BecomesIn
<1>3. CASE k \in Wanted(ts, n, done) /\ Results(ts, k, done) # {}
  <2>. DEFINE c == CHOOSE x \in Results(ts, k, done) : TRUE
  <2>1. c \in done /\ c.node = ts[k].node /\ c.id = k
    BY <1>3 DEF Results
  <2>2. t = [ts[k] EXCEPT !.state = "ready", !.value = c.value]
    BY <1>3 DEF RunOnRay
  <2>3. ts[k].frame = n
    BY <1>3, WantedOfFrame
  <2>4. t.state = "ready" /\ t.value = c.value
        /\ t.node = ts[k].node /\ t.part = ts[k].part /\ t.frame = ts[k].frame
    BY <2>2 DEF Task
  <2>5. BecomesIn(t, ts[k], k, n, done)
    <3>. HIDE DEF c, t
    <3>. QED BY <2>1, <2>3, <2>4 DEF BecomesIn
  <2>. QED BY <2>5
<1>. QED BY <1>1, <1>2, <1>3

\* The next frame of the program is evaluated.
LEMMA CurrentEvaluate ==
    ASSUME ProgramsGrow, ChangesEvaluated, TypeOK, CurrentInv, Evaluate
    PROVE  CurrentInv'
<1>. DEFINE n == Head(todo)
            ts == tasks \o Planned(n)
<1>1. /\ todo # <<>> /\ todo \in Seq(Node) /\ todo' = Tail(todo) /\ up
      /\ n \in Node /\ n = todo[1] /\ Len(todo) \in Nat /\ Len(todo) >= 1
      /\ tasks \in Seq(Task) /\ Shape \in Seq(Task)
    BY ShapeParts DEF Evaluate, TypeOK
<1>2. PICK e \in 0..Len(Whole) : Evaluated(e)
    BY DEF Evaluate, CurrentInv
<1>3. /\ e \in Nat /\ Len(Whole) \in Nat /\ e + 1 \in 1..Len(Whole) /\ e + 1 \in 0..Len(Whole)
      /\ Whole[e + 1] = n /\ Whole \in Seq(Node) /\ IsInjective(Whole)
  <2>1. 1 \in 1..Len(todo)
    BY <1>1
  <2>2. e + 1 <= Len(Whole) /\ todo[1] = Whole[e + 1]
    BY <1>2, <2>1 DEF Evaluated
  <2>. QED BY <1>1, <2>2, WholeIs
<1>4. Added(ts, tasks, n) /\ ts \in Seq(Task)
  <2>. HIDE DEF n
  <2>1. Added(ts, tasks, n)
    BY <1>1, PlannedAdded
  <2>. HIDE DEF ts
  <2>. QED BY <2>1 DEF Added
<1>5. /\ version' = version /\ flagged' = flagged /\ up' = up /\ Made' = Made
      /\ completed' = Cleared(n) /\ completed' \subseteq completed
      /\ tasks' = RunOnRay(ts, n, completed')
  <2>1. version' = version /\ flagged' = flagged /\ up' = up
    BY DEF Evaluate, programVars
  <2>. QED BY <2>1 DEF Evaluate, Cleared, Made
<1>6. ShapeUpto[e + 1] = ShapeUpto[e] \o Planned(n)
  <2>1. ShapeUpto[e + 1] = ShapeUpto[(e + 1) - 1] \o Planned(Whole[e + 1])
    BY <1>3, ShapeIs, Zenon
  <2>2. (e + 1) - 1 = e
    BY <1>3
  <2>. QED BY <1>3, <2>1, <2>2
<1>7. /\ ShapePart(e) /\ ShapePart(e + 1)
      /\ ShapeUpto[e] \in Seq(Task) /\ Planned(n) \in Seq(Task)
    BY <1>1, <1>3, ShapeParts, ShapeIs, PlannedTyped
<1>8. Len(ts) = Len(ShapeUpto[e + 1]) /\ DOMAIN ts = 1..Len(ShapeUpto[e + 1])
      /\ DOMAIN tasks = 1..Len(ShapeUpto[e])
      /\ DOMAIN tasks \subseteq DOMAIN ts /\ DOMAIN ts \subseteq DOMAIN Shape
  <2>1. Len(tasks) = Len(ShapeUpto[e])
    BY <1>2 DEF Evaluated
  <2>2. Len(ts) = Len(tasks) + Len(Planned(n))
    BY <1>1, <1>7
  <2>3. Len(ShapeUpto[e + 1]) = Len(ShapeUpto[e]) + Len(Planned(n))
    BY <1>6, <1>7, Appended
  <2>4. Len(ShapeUpto[e + 1]) <= Len(Shape) /\ Len(tasks) <= Len(ts)
        /\ Len(tasks) \in Nat /\ Len(ts) \in Nat /\ Len(Shape) \in Nat
        /\ DOMAIN ts = 1..Len(ts) /\ DOMAIN tasks = 1..Len(tasks) /\ DOMAIN Shape = 1..Len(Shape)
    BY <1>1, <1>4, <1>7 DEF ShapePart, Added
  <2>. HIDE DEF ts, n
  <2>. QED BY <2>1, <2>2, <2>3, <2>4
<1>9. ASSUME NEW k \in DOMAIN ts
      PROVE  /\ ts[k].node = Shape[k].node /\ ts[k].part = Shape[k].part
             /\ ts[k].frame = Shape[k].frame
  <2>1. CASE k \in DOMAIN tasks
    <3>1. ts[k] = tasks[k]
      BY <1>1, <1>4, <2>1 DEF Added
    <3>. HIDE DEF ts, n
    <3>. QED BY <1>2, <2>1, <3>1 DEF Evaluated
  <2>2. CASE k \notin DOMAIN tasks
    <3>1. ts[k] = Planned(n)[k - Len(tasks)]
      BY <1>1, <1>7, <2>2
    <3>2. Len(tasks) = Len(ShapeUpto[e])
      BY <1>2 DEF Evaluated
    <3>3. ShapeUpto[e + 1][k] = Planned(n)[k - Len(ShapeUpto[e])]
      <4>1. k \in 1..Len(ShapeUpto[e + 1]) /\ k > Len(ShapeUpto[e])
        BY <1>7, <1>8, <2>2 DEF ShapePart
      <4>. HIDE DEF ts, n
      <4>. QED BY <1>6, <1>7, <4>1, Appended
    <3>4. Shape[k] = ShapeUpto[e + 1][k]
      BY <1>7, <1>8 DEF ShapePart
    <3>. QED BY <3>1, <3>2, <3>3, <3>4
  <2>. QED BY <2>1, <2>2
<1>10. /\ DOMAIN tasks' = DOMAIN ts /\ Len(tasks') = Len(ts)
       /\ \A k \in DOMAIN ts :
            /\ tasks'[k].node = Shape[k].node /\ tasks'[k].part = Shape[k].part
            /\ tasks'[k].frame = Shape[k].frame
            /\ \/ tasks'[k] = ts[k]
               \/ /\ Shape[k].frame = n
                  /\ \/ tasks'[k].state = "started"
                     \/ /\ tasks'[k].state = "ready"
                        /\ \E c \in completed' :
                            c.node = Shape[k].node /\ c.id = k /\ tasks'[k].value = c.value
  <2>1. DOMAIN tasks' = DOMAIN ts /\ tasks' \in Seq(Task)
    <3>1. completed' \in SUBSET [node : Node, id : Nat, value : Value]
      BY <1>5 DEF TypeOK
    <3>. HIDE DEF ts, n
    <3>. QED BY <1>1, <1>4, <1>5, <3>1, RunTyped
  <2>2. Len(tasks') = Len(ts)
    BY <1>4, <2>1
  <2>3. ASSUME NEW k \in DOMAIN ts
        PROVE  /\ tasks'[k].node = ts[k].node /\ tasks'[k].part = ts[k].part
               /\ tasks'[k].frame = ts[k].frame
               /\ \/ tasks'[k] = ts[k]
                  \/ /\ ts[k].frame = n
                     /\ \/ tasks'[k].state = "started"
                        \/ /\ tasks'[k].state = "ready"
                           /\ \E c \in completed' :
                                c.node = ts[k].node /\ c.id = k /\ tasks'[k].value = c.value
    <3>. HIDE DEF ts, n
    <3>. QED BY <1>4, <1>5, RunEffect DEF BecomesIn
  <2>. HIDE DEF ts, n
  <2>. QED BY <1>9, <2>1, <2>2, <2>3
<1>. HIDE DEF ts, n
<1>11. OnDisk'
    BY <1>5 DEF CurrentInv, OnDisk
<1>12. DiskAfter(e + 1)'
  <2>. SUFFICES ASSUME NEW c \in completed', NEW j \in 1..(e + 1), Whole[j] = c.node
                PROVE  c.value = Made[c.id]
    BY <1>5 DEF DiskAfter
  <2>1. CASE j \in 1..e
    BY <1>2, <1>5, <2>1 DEF Evaluated, DiskAfter
  <2>2. CASE j = e + 1
    <3>1. c.node = n
      BY <1>3, <2>2
    <3>2. Lineage[c.node] \cap flagged = {}
      BY <1>5, <3>1 DEF Cleared, NeedRecompute
    <3>. QED BY <1>5, <3>2 DEF CurrentInv, OnDisk
  <2>. QED BY <1>3, <2>1, <2>2
<1>13. Evaluated(e + 1)'
  <2>1. ASSUME NEW j \in 1..Len(todo')
        PROVE  (e + 1) + j <= Len(Whole) /\ todo'[j] = Whole[(e + 1) + j]
    <3>1. j + 1 \in 1..Len(todo) /\ todo'[j] = todo[j + 1]
      BY <1>1
    <3>2. e + (j + 1) <= Len(Whole) /\ todo[j + 1] = Whole[e + (j + 1)]
      BY <1>2, <3>1 DEF Evaluated
    <3>3. (e + 1) + j = e + (j + 1)
      BY <1>1, <1>3, <3>1
    <3>. QED BY <3>1, <3>2, <3>3
  <2>. QED BY <1>8, <1>10, <1>12, <2>1 DEF Evaluated
<1>14. ASSUME NEW k \in DOMAIN tasks PROVE tasks'[k] = tasks[k]
  <2>1. ts[k] = tasks[k] /\ k \in DOMAIN ts
    BY <1>1, <1>4, <1>8 DEF Added
  <2>2. PICK j \in 1..e : Shape[k].frame = Whole[j]
    BY <1>7, <1>8 DEF ShapePart
  <2>3. j # e + 1 /\ j \in DOMAIN Whole /\ e + 1 \in DOMAIN Whole
    BY <1>3
  <2>4. Shape[k].frame # n
    BY <1>3, <2>2, <2>3 DEF IsInjective
  <2>. QED BY <1>10, <2>1, <2>4
<1>15. ASSUME NEW k \in DOMAIN ts, k \notin DOMAIN tasks
       PROVE  /\ ts[k].state = "none" /\ Shape[k].node \in Lineage[n]
  <2>1. k \in 1..Len(ts) /\ k > Len(tasks)
    BY <1>1, <1>4, <1>15
  <2>. QED BY <1>4, <1>9, <2>1 DEF Added
<1>16. ASSUME NEW c \in completed', c.node \in Lineage[n] PROVE c.value = Made[c.id]
  <2>1. CASE Lineage[c.node] \cap flagged = {}
    BY <1>5, <2>1 DEF CurrentInv, OnDisk
  <2>2. CASE Lineage[c.node] \cap flagged # {}
    <3>1. Lineage[c.node] \cap Editable # {}
      BY <2>2 DEF CurrentInv
    <3>2. e + 1 \in DOMAIN Whole
      BY <1>3
    <3>3. \E j \in 1..(e + 1) : Whole[j] = c.node
      BY <1>3, <1>16, <3>1, <3>2 DEF ChangesEvaluated
    <3>. QED BY <1>5, <1>12, <3>3 DEF DiskAfter
  <2>. QED BY <2>1, <2>2
<1>17. ASSUME NEW k \in DOMAIN tasks', tasks'[k].state \in {"written", "dumped", "ready"}
       PROVE  tasks'[k].value = Made[k]
  <2>1. CASE k \in DOMAIN tasks
    BY <1>14, <1>17, <2>1 DEF CurrentInv, InTasks
  <2>2. CASE k \notin DOMAIN tasks
    <3>1. k \in DOMAIN ts /\ ts[k].state = "none" /\ Shape[k].node \in Lineage[n]
      BY <1>10, <1>15, <2>2
    <3>2. PICK c \in completed' : c.node = Shape[k].node /\ c.id = k /\ tasks'[k].value = c.value
      BY <1>10, <1>17, <3>1
    <3>. QED BY <1>16, <3>1, <3>2
  <2>. QED BY <2>1, <2>2
<1>18. ASSUME NEW k \in DOMAIN tasks', tasks'[k].state = "running",
              NEW i \in InputsOf(tasks', k)
       PROVE  tasks'[i].state = "ready"
  <2>1. k \in DOMAIN tasks
    BY <1>10, <1>15, <1>18
  <2>2. k \in DOMAIN ts /\ i \in DOMAIN ts
    BY <1>10 DEF InputsOf
  <2>3. i \in InputsOf(Shape, k)
    BY <1>8, <1>10, <2>2 DEF InputsOf
  <2>4. i \in InputsOf(tasks, k)
    BY <1>2, <2>1, <2>3, SameInputs
  <2>5. i \in DOMAIN tasks /\ tasks[i].state = "ready"
    BY <1>14, <1>18, <2>1, <2>4 DEF InputsOf, CurrentInv, InTasks
  <2>. QED BY <1>14, <2>5
<1>19. InTasks'
    BY <1>5, <1>17, <1>18 DEF InTasks
<1>. QED BY <1>1, <1>3, <1>5, <1>11, <1>13, <1>19 DEF CurrentInv

\* A result, computed or found on disk, is that of the program as it is now, made
\* from such results, whenever sessions end, fail or die: for programs to which frames
\* are only added, and that evaluate all that is made from a changed node.
THEOREM ResultIsCurrentCorrect ==
    ASSUME ProgramsGrow, ChangesEvaluated
    PROVE  Spec => []ResultIsCurrent
<1>1. Init => CurrentInv
  <2>. SUFFICES ASSUME Init PROVE CurrentInv
    OBVIOUS
  <2>. QED BY DEF Init, CurrentInv, OnDisk, InTasks
<1>2. TypeOK /\ TypeOK' /\ CurrentInv /\ [Next]_vars => CurrentInv'
  <2>. SUFFICES ASSUME TypeOK, TypeOK', CurrentInv, [Next]_vars PROVE CurrentInv'
    OBVIOUS
  <2>1. CASE Start
    BY <2>1, CurrentStart
  <2>2. CASE Evaluate
    BY <2>2, CurrentEvaluate
  <2>3. CASE Shutdown \/ Die
    <3>1. tasks' = <<>> /\ ~up' /\ version' = version /\ flagged' = flagged
          /\ completed' \subseteq completed
      BY <2>3 DEF Shutdown, Cleanup, Die, programVars, diskVars
    <3>2. Made' = Made
      BY <3>1 DEF Made
    <3>. QED BY <3>1, <3>2 DEF CurrentInv, OnDisk, InTasks
  <2>4. ASSUME NEW k \in DOMAIN tasks,
               Begin(k) \/ GiveUp(k) \/ InputFails(k) \/ Execute(k) \/ Dump(k)
                 \/ Return(k) \/ WorkerDies(k)
        PROVE  CurrentInv'
    BY <2>4, CurrentWorker
  <2>5. CASE UNCHANGED vars
    <3>1. /\ UNCHANGED <<version, flagged, up, todo, tasks, completed>>
      BY <2>5 DEF vars, programVars, diskVars
    <3>2. Made' = Made
      BY <3>1 DEF Made
    <3>. QED BY <3>1, <3>2 DEF CurrentInv, OnDisk, InTasks, Evaluated, DiskAfter
  <2>. QED BY <2>1, <2>2, <2>3, <2>4, <2>5 DEF Next
<1>3. TypeOK /\ CurrentInv => ResultIsCurrent
    BY InvIsCurrent
<1>. QED BY <1>1, <1>2, <1>3, Typed, PTL DEF Spec
=============================================================================
