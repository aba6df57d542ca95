----------------------------- MODULE RaySession -----------------------------
(* A session of the DataFrame API, which runs its tasks on Ray: the program   *)
(* of the user evaluates frames one after the other, every evaluation plans   *)
(* tasks for the frame and all it is made from, a task that has finished in   *)
(* an earlier session of the job is loaded from disk, and recompute() asks    *)
(* for the results of a frame to be removed first. Sessions end, fail or die, *)
(* and the program, with some node changed, is run again.                     *)
(* The optimizer copies every node it visits, so that no evaluation finds the *)
(* nodes, or reuses the tasks, of another.                                    *)
EXTENDS Naturals, Sequences, Functions

CONSTANTS
    Inputs,       \* of each node, a number: the nodes, of lower number, it reads
    Width,        \* of each node: its number of partitions, one task for each
    Plan,         \* of each node: the tasks planned to evaluate it, in order
    Programs,     \* what the user may run: the nodes whose frames are evaluated
    Editable,     \* nodes the user may change between two sessions
    FlakyNode,    \* nodes whose function may raise an exception
    MaxRetry,     \* DEFAULT_MAX_RETRY_COUNT
    MaxEdits      \* bound: changes of the program

Node == DOMAIN Inputs

ASSUME PlanAssumption ==
    /\ Node \subseteq Nat
    /\ \A n \in Node : Inputs[n] \subseteq {m \in Node : m < n}
    /\ Plan \in [Node -> Seq([node : Node, part : Nat])]
    /\ MaxRetry \in Nat
    /\ Editable \cup FlakyNode \subseteq Node
    /\ \A p \in Programs : p \in Seq(Node) /\ IsInjective(p)

VARIABLES
    version,    \* of the code of each node
    flagged,    \* nodes on whose frames the program calls recompute()
    up,         \* a session is running
    todo,       \* the rest of the program: frames still to be evaluated
    tasks,      \* _node_to_tasks: the tasks of this session, by their id
    started,    \* started_task_dir: marker files
    completed,  \* completed_task_dir: pickled results
    dirs        \* runtime directories of attempts, that are or were

programVars == <<version, flagged>>
diskVars == <<started, completed, dirs>>
vars == <<programVars, up, todo, tasks, diskVars>>

-----------------------------------------------------------------------------
(* The plan *)

\* A node and all it is made from.
Lineage[n \in Node] == {n} \cup UNION {Lineage[m] : m \in Inputs[n]}

\* Planner.visit makes tasks for a node and what it visits from there.
ASSUME PlanOfLineage ==
    \A n \in Node : \A k \in DOMAIN Plan[n] : Plan[n][k].node \in Lineage[n]

\* Planner.visit: tasks are numbered as they are made. The value of a result is
\* what it was made from: nodes, partitions and versions.
Planned(n) ==
    [k \in DOMAIN Plan[n] |->
        [node |-> Plan[n][k].node, part |-> Plan[n][k].part, frame |-> n,
         state |-> "none", retry |-> 0, value |-> {}, why |-> "none"]]

\* Tasks of nodes with as many partitions go together, others read all.
InputsOf(ts, k) ==
    {i \in DOMAIN ts :
        /\ ts[i].frame = ts[k].frame
        /\ ts[i].node \in Inputs[ts[k].node]
        /\ Width[ts[i].node] = Width[ts[k].node] => ts[i].part = ts[k].part}

Attempt(k) == [node |-> tasks[k].node, id |-> k, retry |-> tasks[k].retry]

Results(ts, k, done) == {c \in done : c.node = ts[k].node /\ c.id = k}

\* run_on_ray: the tasks of the frame, and those their execution needs.
Wanted(ts, n, done) ==
    LET want[k \in DOMAIN ts] ==
            /\ ts[k].frame = n
            /\ \/ ts[k].node = n
               \/ \E m \in DOMAIN ts :
                      /\ m > k /\ k \in InputsOf(ts, m)
                      /\ want[m] /\ Results(ts, m, done) = {}
    IN  {k \in DOMAIN ts : want[k]}

RunOnRay(ts, n, done) ==
    [k \in DOMAIN ts |->
        IF k \notin Wanted(ts, n, done) THEN ts[k]
        ELSE IF Results(ts, k, done) = {} THEN [ts[k] EXCEPT !.state = "started"]
        ELSE [ts[k] EXCEPT !.state = "ready",
                           !.value = (CHOOSE c \in Results(ts, k, done) : TRUE).value]]

-----------------------------------------------------------------------------
(* The driver *)

Init ==
    /\ version = [n \in Node |-> 1] /\ flagged = {}
    /\ up = FALSE /\ todo = <<>> /\ tasks = <<>>
    /\ started = {} /\ completed = {} /\ dirs = {}

\* The user runs the program, as it is or with a node changed and marked.
Start ==
    /\ ~up
    /\ up' = TRUE /\ todo' \in Programs
    /\ \/ UNCHANGED programVars
       \/ \E n \in Editable :
            /\ version[n] <= MaxEdits
            /\ version' = [version EXCEPT ![n] = @ + 1]
            /\ flagged' = flagged \cup {n}
    /\ UNCHANGED <<tasks, diskVars>>

\* Frames made from a frame that is to be recomputed are recomputed, too.
NeedRecompute(n) == Lineage[n] \cap flagged # {}

\* mutant: nothing is removed.
ClearedNothing(n) == completed

Cleared(n) == IF NeedRecompute(n) THEN {c \in completed : c.node # n} ELSE completed

\* compute or wait: it is not said here when the program goes on.
Evaluate ==
    /\ up /\ todo # <<>>
    /\ LET n == Head(todo)
       IN  /\ completed' = Cleared(n)
           /\ tasks' = RunOnRay(tasks \o Planned(n), n, completed')
    /\ todo' = Tail(todo)
    /\ UNCHANGED <<programVars, up, started, dirs>>

\* A task that was not needed has no reference to a result, and is not finished.
AllTasksFinished == \A k \in DOMAIN tasks : tasks[k].state = "ready"

Cleanup == started' = {} /\ completed' = {} /\ dirs' = {}

\* At exit, after an exception or an interrupt, too.
Shutdown ==
    /\ up
    /\ up' = FALSE /\ todo' = <<>> /\ tasks' = <<>>
    /\ \/ AllTasksFinished /\ Cleanup
       \/ ~AllTasksFinished /\ UNCHANGED diskVars
    /\ UNCHANGED programVars

\* The driver is killed, and Ray with it.
Die ==
    /\ up
    /\ up' = FALSE /\ todo' = <<>> /\ tasks' = <<>>
    /\ UNCHANGED <<programVars, diskVars>>

-----------------------------------------------------------------------------
(* exec_task, on a worker of Ray *)

driverVars == <<programVars, up, todo>>

Fails(k, why) == tasks' = [tasks EXCEPT ![k].state = "failed", ![k].why = why]

Marker(k, r) == [Attempt(k) EXCEPT !.retry = r]

\* The first retry count that has no marker.
IsRetryCount(k, r) ==
    /\ Marker(k, r) \notin started
    /\ \A q \in 0..(r - 1) : Marker(k, q) \in started

\* mutant: no marker is left.
MarkedNot(k, r) == started

Marked(k, r) == started \cup {Marker(k, r)}

Begin(k) ==
    /\ up /\ tasks[k].state = "started"
    /\ \A i \in InputsOf(tasks, k) : tasks[i].state = "ready"
    /\ \E r \in 0..MaxRetry :
        /\ IsRetryCount(k, r)
        /\ started' = Marked(k, r)
        /\ tasks' = [tasks EXCEPT ![k].state = "running", ![k].retry = r]
    /\ UNCHANGED <<driverVars, completed, dirs>>

GiveUp(k) ==
    /\ up /\ tasks[k].state = "started"
    /\ \A i \in InputsOf(tasks, k) : tasks[i].state = "ready"
    /\ \A r \in 0..MaxRetry : Marker(k, r) \in started
    /\ Fails(k, "retries")
    /\ UNCHANGED <<driverVars, diskVars>>

\* Ray does not run a task one of whose inputs has failed.
InputFails(k) ==
    /\ up /\ tasks[k].state = "started"
    /\ \E i \in InputsOf(tasks, k) : tasks[i].state = "failed"
    /\ Fails(k, "input")
    /\ UNCHANGED <<driverVars, diskVars>>

Output(k) ==
    {<<tasks[k].node, tasks[k].part, version[tasks[k].node]>>}
        \cup UNION {tasks[i].value : i \in InputsOf(tasks, k)}

\* initialize fails if the directory of the attempt is there, run may raise.
Outcomes(k) ==
    IF Attempt(k) \in dirs THEN {"directory"}
    ELSE {"written"} \cup (IF tasks[k].node \in FlakyNode THEN {"function"} ELSE {})

Execute(k) ==
    /\ up /\ tasks[k].state = "running"
    /\ \E end \in Outcomes(k) :
        IF end = "written"
        THEN tasks' = [tasks EXCEPT ![k].state = end, ![k].value = Output(k)]
        ELSE Fails(k, end)
    /\ dirs' = dirs \cup {Attempt(k)}
    /\ UNCHANGED <<driverVars, started, completed>>

\* The pickle is written under another name and renamed.
Dump(k) ==
    /\ up /\ tasks[k].state = "written"
    /\ completed' = (completed \ Results(tasks, k, completed))
                        \cup {[node |-> tasks[k].node, id |-> k, value |-> tasks[k].value]}
    /\ tasks' = [tasks EXCEPT ![k].state = "dumped"]
    /\ UNCHANGED <<driverVars, started, dirs>>

Return(k) ==
    /\ up /\ tasks[k].state = "dumped"
    /\ tasks' = [tasks EXCEPT ![k].state = "ready"]
    /\ UNCHANGED <<driverVars, diskVars>>

\* Ray runs the task again, or gives it up.
WorkerDies(k) ==
    /\ up /\ tasks[k].state \in {"running", "written", "dumped"}
    /\ \/ tasks' = [tasks EXCEPT ![k].state = "started", ![k].value = {}]
       \/ Fails(k, "worker")
    /\ UNCHANGED <<driverVars, diskVars>>

Next ==
    \/ Start \/ Evaluate \/ Shutdown \/ Die
    \/ \E k \in DOMAIN tasks :
        \/ Begin(k) \/ GiveUp(k) \/ InputFails(k) \/ Execute(k) \/ Dump(k)
        \/ Return(k) \/ WorkerDies(k)

Spec == Init /\ [][Next]_vars

-----------------------------------------------------------------------------
(* Programs for which results are current *)

\* A program q is the beginning of p.
Begins(q, p) == Len(q) <= Len(p) /\ \A i \in 1..Len(q) : q[i] = p[i]

\* The programs are beginnings of a longest one: frames are added at the end.
ProgramsGrow == \E p \in Programs : \A q \in Programs : Begins(q, p)

Whole == CHOOSE p \in Programs : \A q \in Programs : Begins(q, p)

\* What is made from a node the user may change is evaluated as a frame of its own,
\* before any frame that is made from it.
ChangesEvaluated ==
    \A i \in DOMAIN Whole : \A m \in Lineage[Whole[i]] :
        Lineage[m] \cap Editable # {} => \E j \in 1..i : Whole[j] = m

-----------------------------------------------------------------------------
(* Properties *)

\* What the program, as it is now, makes of its sources.
Current(k) ==
    LET made[i \in DOMAIN tasks] ==
            {<<tasks[i].node, tasks[i].part, version[tasks[i].node]>>}
                \cup UNION {made[j] : j \in InputsOf(tasks, i)}
    IN  made[k]

\* A result, computed or found on disk, is that of the program as it is now, of
\* the right partition, and made from such results: in whatever order sessions
\* fail, die and recompute, what is found on disk is no older than what it is
\* used with (run_on_ray and _get_or_create_tasks).
ResultIsCurrent ==
    up => \A k \in DOMAIN tasks : tasks[k].state = "ready" => tasks[k].value = Current(k)

\* No attempt meets the directory of an earlier one, in this session or another,
\* in which it would fail: markers keep retry counts apart (exec_task).
AttemptsApart == \A k \in DOMAIN tasks : tasks[k].why # "directory"
=============================================================================
