-------------------------- MODULE StreamTaskProofs --------------------------
(***************************************************************************)
(* For all inputs, batch sizes and numbers of attempts: the checkpoint the *)
(* scheduler has covers exactly the batches a retry skips, and the output  *)
(* of the attempt that wins holds every row once.                          *)
(***************************************************************************)
EXTENDS StreamTask, TLAPS

\* The files that are closed: their contents do not change any more.
Closed == {f \in File : f[2] < files[f[1]]}

\* A state a retry can start from.
Sound(s) ==
    s # NoState =>
        /\ s.size \in BatchSizes
        /\ s.paths \subseteq Closed
        /\ Exactly(s.paths, Before(s.offset, s.size))

\* Attempts start in order; one that has not started has done nothing.
Fresh ==
    \A a \in Attempt : pc[a] = "none" =>
        /\ a >= next
        /\ files[a] = 0 /\ taken[a] = 0
        /\ buffered[a] = {}
StartedBefore == \A a \in Attempt : a >= next => pc[a] = "none"

\* What an attempt at work has covered: with the files its state names and what is
\* buffered it has the results of all batches before its position.
Covered(a) ==
    /\ state[a].size \in BatchSizes
    /\ state[a].paths \subseteq Closed
    /\ Own(a) \subseteq state[a].paths
    /\ \A f, g \in state[a].paths : f # g => contents[f] \cap contents[g] = {}
    /\ \A f \in state[a].paths : contents[f] \cap buffered[a] = {}
    /\ (UNION {contents[f] : f \in state[a].paths}) \cup buffered[a]
         = Before(Position(a), state[a].size)

WorkingOf(a) ==
    /\ pc[a] \in {"stream", "checkpoint"} => Covered(a) /\ files[a] <= MaxFiles
    /\ pc[a] = "stream" =>
        /\ state[a].offset = skipped[a] + state[a].last + 1
        /\ taken[a] = 0 => buffered[a] = {}
    /\ pc[a] = "checkpoint" =>
        /\ state[a].offset = Position(a)
        /\ state[a].last = taken[a] - 1 /\ taken[a] > 0
        /\ files[a] < MaxFiles

FinishedOf(a) ==
    /\ pc[a] = "finalize" =>
        /\ state[a].paths \subseteq Closed
        /\ Own(a) \subseteq state[a].paths
        /\ Exactly(state[a].paths, Cells)
    /\ pc[a] \in {"renamed", "succeeded"} =>
        /\ OutputFiles(a) \subseteq Closed
        /\ Exactly(OutputFiles(a), Cells)

Working  == \A a \in Attempt : WorkingOf(a)
Finished == \A a \in Attempt : FinishedOf(a)

Reported ==
    /\ Sound(runtime)
    /\ \A a \in Attempt : \A i \in 1 .. Len(queue[a]) : Sound(queue[a][i])
    /\ winner # NoAttempt => pc[winner] = "succeeded"

IInv == TypeOK /\ Fresh /\ StartedBefore /\ Working /\ Finished /\ Reported

-----------------------------------------------------------------------------
LEMMA Constants ==
    /\ NumInputs \in Nat /\ RowCounts \subseteq [1 .. NumInputs -> Nat]
    /\ BatchSizes \subseteq Nat \ {0}
    /\ MaxRetry \in Nat /\ MaxFiles \in Nat
    /\ Attempt \subseteq Nat /\ NoAttempt \notin Attempt
  BY StreamTaskAssumption DEF StreamTaskAssumption, Attempt, NoAttempt

\* A cell is a row of an input.
LEMMA CellFacts ==
    ASSUME TypeOK, NEW c \in Cells
    PROVE  c[2] \in Nat
  <1>1. PICK i \in 1 .. NumInputs : c \in {i} \X (0 .. rows[i] - 1)
    BY DEF Cells
  <1>2. rows[i] \in Nat
    BY <1>1 DEF TypeOK
  <1> QED
    BY <1>1, <1>2

\* The batch that holds a row.
LEMMA BatchNumber ==
    ASSUME NEW r \in Nat, NEW size \in Nat \ {0}
    PROVE  r \div size \in Nat
  OBVIOUS

\* One batch more, and none at all.
LEMMA BeforeNext ==
    ASSUME TypeOK, NEW size \in Nat \ {0}, NEW b \in Nat
    PROVE  /\ Before(b + 1, size) = Before(b, size) \cup Batch(b, size)
           /\ Before(b, size) \cap Batch(b, size) = {}
           /\ Before(b, size) \subseteq Cells /\ Batch(b, size) \subseteq Cells
  <1>1. \A c \in Cells : c[2] \div size \in Nat
    BY CellFacts, BatchNumber
  <1>2. \A n \in Nat : (n < b + 1 <=> n < b \/ n = b) /\ ~(n < b /\ n = b)
    OBVIOUS
  <1> QED
    BY <1>1, <1>2 DEF Before, Batch

LEMMA BeforeZero ==
    ASSUME TypeOK, NEW size \in Nat \ {0}
    PROVE  Before(0, size) = {}
  <1>1. \A c \in Cells : c[2] \div size \in Nat
    BY CellFacts, BatchNumber
  <1> QED
    BY <1>1 DEF Before

\* The open file has a name that is not in use; closing it adds it to the closed ones
\* and leaves them as they are.
LEMMA CloseFacts ==
    ASSUME TypeOK, NEW a \in Attempt, CloseFile(a), files[a] <= MaxFiles
    PROVE  /\ <<a, files[a]>> \in File \ Closed
           /\ Closed' = Closed \cup {<<a, files[a]>>}
           /\ \A f \in Closed : contents'[f] = contents[f]
           /\ contents'[<<a, files[a]>>] = buffered[a]
           /\ Own(a)' = Own(a) \cup {<<a, files[a]>>}
           /\ \A b \in Attempt \ {a} : Own(b)' = Own(b)
  <1>1. files[a] \in Nat /\ files[a] \in 0 .. MaxFiles
    BY Constants DEF TypeOK
  <1>2. <<a, files[a]>> \in File \ Closed
    BY <1>1 DEF File, Closed
  <1>3. \A b \in Attempt : files[b] \in Nat /\ files'[b] = IF b = a THEN files[b] + 1 ELSE files[b]
    BY DEF TypeOK, CloseFile
  <1>4. ASSUME NEW f \in File PROVE f \in Closed' <=> f \in Closed \cup {<<a, files[a]>>}
    <2>1. PICK b \in Attempt, i \in 0 .. MaxFiles : f = <<b, i>>
      BY DEF File
    <2>2. i < files'[b] <=> i < files[b] \/ (b = a /\ i = files[a])
      BY <1>3, <2>1
    <2> QED
      BY <2>1, <2>2 DEF Closed
  <1>5. contents \in [File -> SUBSET Cells]
    BY DEF TypeOK
  <1>6. /\ \A f \in Closed : contents'[f] = contents[f]
        /\ contents'[<<a, files[a]>>] = buffered[a]
    BY <1>2, <1>5 DEF CloseFile, Closed
  <1>7. Own(a)' = Own(a) \cup {<<a, files[a]>>}
    BY <1>1, <1>3 DEF Own
  <1>8. \A b \in Attempt \ {a} : Own(b)' = Own(b)
    BY <1>3 DEF Own
  <1>9. Closed' = Closed \cup {<<a, files[a]>>}
    BY <1>2, <1>4 DEF Closed
  <1> QED
    BY <1>2, <1>6, <1>7, <1>8, <1>9

-----------------------------------------------------------------------------
\* The type invariant.
LEMMA NoStateType == NoState \in State
  BY DEF NoState, State

LEMMA InitType == Init => TypeOK
  <1> SUFFICES ASSUME Init PROVE TypeOK
    OBVIOUS
  <1>1. rows \in [1 .. NumInputs -> Nat]
    BY Constants DEF Init
  <1>2. /\ state \in [Attempt -> State] /\ runtime \in State
        /\ queue \in [Attempt -> Seq(State)]
    BY NoStateType DEF Init
  <1>3. /\ buffered \in [Attempt -> SUBSET Cells]
        /\ contents \in [File -> SUBSET Cells]
    BY DEF Init
  <1> QED
    BY <1>1, <1>2, <1>3 DEF Init, TypeOK

\* Positions and offsets are numbers of batches.
LEMMA CellsSame == ASSUME UNCHANGED rows PROVE Cells' = Cells
  BY DEF Cells

\* An operation on the state of an attempt gives a state.
LEMMA RestoredType ==
    ASSUME NEW s \in State, NEW size \in BatchSizes
    PROVE  /\ Restored(s, size) \in State
           /\ Restored(s, size).size = IF s.size = 0 THEN size ELSE s.size
           /\ Restored(s, size).offset = s.offset
           /\ Restored(s, size).paths = s.paths
           /\ Restored(s, size).last = -1
  BY DEF Restored, State

LEMMA UpdatedType ==
    ASSUME NEW s \in State, NEW index \in Nat, s.offset - s.last \in Nat
    PROVE  /\ UpdatedOffsets(s, index) \in State
           /\ UpdatedOffsets(s, index).size = s.size
           /\ UpdatedOffsets(s, index).offset = s.offset + index - s.last
           /\ UpdatedOffsets(s, index).paths = s.paths
           /\ UpdatedOffsets(s, index).last = index
  <1>1. s.offset \in Int /\ s.last \in Int
    BY DEF State
  <1>2. s.offset + index - s.last \in Nat
    BY <1>1
  <1>3. /\ s.size \in BatchSizes \cup {0} /\ s.paths \in SUBSET File
        /\ index \in Nat \cup {-1}
    BY DEF State
  <1> QED
    BY <1>2, <1>3 DEF UpdatedOffsets, State

LEMMA ClosedType ==
    ASSUME NEW s \in State, NEW f \in File
    PROVE  [s EXCEPT !.paths = @ \cup {f}] \in State
  BY DEF State

LEMMA CloseType ==
    ASSUME TypeOK, NEW a \in Attempt, CloseFile(a), files[a] <= MaxFiles
    PROVE  /\ state' \in [Attempt -> State]
           /\ state' = [state EXCEPT ![a] = [state[a] EXCEPT !.paths = @ \cup {<<a, files[a]>>}]]
           /\ rows' \in [1 .. NumInputs -> Nat]
           /\ skipped' \in [Attempt -> Nat]
           /\ taken' \in [Attempt -> Nat]
           /\ buffered' \in [Attempt -> SUBSET Cells']
           /\ files' \in [Attempt -> Nat]
           /\ contents' \in [File -> SUBSET Cells']
  <1>1. <<a, files[a]>> \in File /\ Cells' = Cells
    BY CloseFacts, CellsSame DEF CloseFile
  <1>2. state[a] \in State /\ buffered[a] \in SUBSET Cells
    BY DEF TypeOK
  <1>3. [state[a] EXCEPT !.paths = @ \cup {<<a, files[a]>>}] \in State
    BY <1>1, <1>2, ClosedType
  <1>4. state' = [state EXCEPT ![a] = [state[a] EXCEPT !.paths = @ \cup {<<a, files[a]>>}]]
    BY DEF CloseFile
  <1>5. state' \in [Attempt -> State]
    BY <1>3, <1>4 DEF TypeOK
  <1> QED
    BY <1>1, <1>2, <1>4, <1>5 DEF CloseFile, TypeOK

\* Where the offset of an attempt at work stands to its position.
LEMMA StepType == TypeOK /\ Working /\ [Next]_vars => TypeOK'
  <1> SUFFICES ASSUME TypeOK, Working, [Next]_vars PROVE TypeOK'
    OBVIOUS
  <1> USE Constants
  <1>1. ASSUME NEW a \in Attempt, Start(a) PROVE TypeOK'
    <2>1. PICK size \in BatchSizes : state' = [state EXCEPT ![a] = Restored(runtime, size)]
      BY <1>1 DEF Start
    <2>2. Restored(runtime, size) \in State /\ runtime.offset \in Nat
      BY RestoredType DEF TypeOK, State
    <2>3. Cells' = Cells
      BY <1>1, CellsSame DEF Start
    <2>4. state' \in [Attempt -> State]
      BY <2>1, <2>2 DEF TypeOK
    <2>5. /\ skipped' \in [Attempt -> Nat] /\ next' \in Nat
          /\ pc' \in [Attempt -> {"none", "unbound", "stream", "checkpoint", "finalize",
                                  "unlinked", "renamed", "succeeded", "failed"}]
      BY <1>1, <2>2 DEF Start, TypeOK
    <2> QED
      BY <1>1, <2>3, <2>4, <2>5 DEF Start, TypeOK, outVars
  <1>2. ASSUME NEW a \in Attempt, TakeOutput(a) PROVE TypeOK'
    <2>1. Cells' = Cells
      BY <1>2, CellsSame DEF TakeOutput
    <2>2. state[a] \in State /\ taken[a] \in Nat /\ state[a].offset - state[a].last \in Nat
      <3>1. state[a] \in State /\ taken[a] \in Nat /\ skipped[a] \in Nat
        BY DEF TypeOK
      <3>2. state[a].offset = skipped[a] + state[a].last + 1
        BY <1>2 DEF Working, WorkingOf, TakeOutput
      <3>3. state[a].last \in Int
        BY <3>1 DEF State
      <3> QED
        BY <3>1, <3>2, <3>3
    <2>3. state' \in [Attempt -> State]
      <3>1. UpdatedOffsets(state[a], taken[a]) \in State
        BY <2>2, UpdatedType
      <3> QED
        BY <1>2, <3>1 DEF TakeOutput, TypeOK
    <2>4. buffered' \in [Attempt -> SUBSET Cells]
      BY <1>2 DEF TakeOutput, TypeOK, Batch
    <2>5. taken' \in [Attempt -> Nat]
      BY <1>2 DEF TakeOutput, TypeOK
    <2> QED
      BY <1>2, <2>1, <2>3, <2>4, <2>5 DEF TakeOutput, TypeOK, outVars, schedVars
  <1>3. ASSUME NEW a \in Attempt, Checkpoint(a) PROVE TypeOK'
    <2>1. CloseFile(a) /\ files[a] <= MaxFiles
      BY <1>3 DEF Checkpoint, Working, WorkingOf
    <2>2. state'[a] \in State
      BY <2>1, CloseType
    <2>3. queue' \in [Attempt -> Seq(State)]
      BY <1>3, <2>2 DEF Checkpoint, TypeOK
    <2> QED
      BY <1>3, <2>1, <2>3, CloseType DEF Checkpoint, TypeOK, outVars, schedVars
  <1>4. ASSUME NEW a \in Attempt, EndOfInput(a) PROVE TypeOK'
    <2>1. CASE UNCHANGED <<readVars, state>>
      <3>1. Cells' = Cells
        BY <2>1, CellsSame DEF readVars
      <3> QED
        BY <1>4, <2>1, <3>1 DEF EndOfInput, TypeOK, outVars, schedVars, readVars
    <2>2. CASE CloseFile(a)
      <3>1. files[a] <= MaxFiles
        BY <1>4 DEF EndOfInput, Working, WorkingOf
      <3> QED
        BY <1>4, <2>2, <3>1, CloseType DEF EndOfInput, TypeOK, outVars, schedVars
    <2> QED
      BY <1>4, <2>1, <2>2 DEF EndOfInput
  <1>5. ASSUME NEW a \in Attempt, Finalize(a) PROVE TypeOK'
    <2>1. Cells' = Cells /\ state[a].paths \in SUBSET File
      BY <1>5, CellsSame DEF Finalize, readVars, TypeOK, State
    <2>2. moved' \subseteq Attempt
      BY <1>5 DEF Finalize, TypeOK, outVars
    <2>4. links' \in [Attempt -> SUBSET File]
      <3>1. links' = links \/ links' = [links EXCEPT ![a] = state[a].paths \ Own(a)]
        BY <1>5 DEF Finalize, outVars
      <3>2. state[a].paths \ Own(a) \in SUBSET File
        BY <2>1
      <3> QED
        BY <3>1, <3>2 DEF TypeOK
    <2>3. pc' \in [Attempt -> {"none", "unbound", "stream", "checkpoint", "finalize",
                               "unlinked", "renamed", "succeeded", "failed"}]
      BY <1>5 DEF Finalize, TypeOK
    <2> QED
      BY <1>5, <2>1, <2>2, <2>3, <2>4 DEF Finalize, TypeOK, schedVars, readVars
  <1>6. ASSUME NEW a \in Attempt, Report(a) PROVE TypeOK'
    <2>1. Cells' = Cells
      BY <1>6, CellsSame DEF Report
    <2> QED
      BY <1>6, <2>1, NoStateType DEF Report, Forget, TypeOK, outVars, schedVars
  <1>7. ASSUME NEW a \in Attempt, Fail(a) PROVE TypeOK'
    <2>1. Cells' = Cells
      BY <1>7, CellsSame DEF Fail
    <2> QED
      BY <1>7, <2>1, NoStateType DEF Fail, Forget, TypeOK, outVars, schedVars
  <1>8. ASSUME NEW a \in Attempt, ReceiveCheckpoint(a) PROVE TypeOK'
    <2>1. Cells' = Cells
      BY <1>8, CellsSame DEF ReceiveCheckpoint, readVars
    <2>2. queue[a] \in Seq(State) /\ queue[a] # <<>>
      BY <1>8 DEF ReceiveCheckpoint, TypeOK
    <2>3. Head(queue[a]) \in State /\ Tail(queue[a]) \in Seq(State)
      BY <2>2
    <2> QED
      BY <1>8, <2>1, <2>3 DEF ReceiveCheckpoint, TypeOK, outVars, readVars
  <1>9. ASSUME NEW a \in Attempt, ReceiveSuccess(a) PROVE TypeOK'
    <2>1. Cells' = Cells
      BY <1>9, CellsSame DEF ReceiveSuccess, readVars
    <2> QED
      BY <1>9, <2>1 DEF ReceiveSuccess, TypeOK, outVars, readVars
  <1>10. ASSUME UNCHANGED vars PROVE TypeOK'
    <2>1. Cells' = Cells
      BY <1>10, CellsSame DEF vars, readVars
    <2> QED
      BY <1>10, <2>1 DEF vars, TypeOK, outVars, readVars, schedVars
  <1> QED
    BY <1>1, <1>2, <1>3, <1>4, <1>5, <1>6, <1>7, <1>8, <1>9, <1>10 DEF Next

-----------------------------------------------------------------------------
\* What a step does to the files that are closed: nothing.
Keeps ==
    /\ UNCHANGED rows
    /\ Closed \subseteq Closed'
    /\ \A f \in Closed : contents'[f] = contents[f]

\* What a step of one attempt does to another one: nothing.
Untouched(b) ==
    /\ pc'[b] = pc[b] /\ state'[b] = state[b]
    /\ skipped'[b] = skipped[b] /\ taken'[b] = taken[b] /\ buffered'[b] = buffered[b]
    /\ files'[b] = files[b] /\ links'[b] = links[b]

LEMMA KeepsWithoutClose ==
    ASSUME UNCHANGED <<rows, files, contents>>
    PROVE  Keeps /\ Closed' = Closed /\ \A b \in Attempt : Own(b)' = Own(b)
  BY DEF Keeps, Closed, Own

LEMMA KeepsWithClose ==
    ASSUME TypeOK, NEW a \in Attempt, CloseFile(a), files[a] <= MaxFiles
    PROVE  Keeps
  BY CloseFacts DEF Keeps, CloseFile

\* Batches are the same as long as the inputs are.
LEMMA BeforeSame ==
    ASSUME UNCHANGED rows, NEW b, NEW size
    PROVE  Before(b, size)' = Before(b, size) /\ Batch(b, size)' = Batch(b, size)
  BY DEF Before, Batch, Cells

LEMMA ExactlyKept ==
    ASSUME Keeps, NEW paths \in SUBSET Closed, NEW cells, Exactly(paths, cells)
    PROVE  Exactly(paths, cells)'
  BY DEF Keeps, Exactly

LEMMA SoundKept ==
    ASSUME Keeps, NEW s, Sound(s)
    PROVE  Sound(s)'
  <1> SUFFICES ASSUME s # NoState
               PROVE  /\ s.size \in BatchSizes
                      /\ s.paths \subseteq Closed'
                      /\ Exactly(s.paths, Before(s.offset, s.size))'
    BY DEF Sound
  <1>1. /\ s.size \in BatchSizes /\ s.paths \subseteq Closed
        /\ Exactly(s.paths, Before(s.offset, s.size))
    BY DEF Sound
  <1>2. Before(s.offset, s.size)' = Before(s.offset, s.size)
    BY BeforeSame DEF Keeps
  <1> QED
    BY <1>1, <1>2 DEF Keeps, Exactly

\* An attempt that is not touched keeps its part of the invariant.
LEMMA UntouchedKept ==
    ASSUME Keeps, NEW b \in Attempt, Untouched(b), WorkingOf(b), FinishedOf(b)
    PROVE  WorkingOf(b)' /\ FinishedOf(b)'
  <1>1. Own(b)' = Own(b) /\ OutputFiles(b)' = OutputFiles(b) /\ Position(b)' = Position(b)
    BY DEF Untouched, Own, OutputFiles, Position
  <1>2. Before(Position(b), state[b].size)' = Before(Position(b), state[b].size)
    BY <1>1 DEF Keeps, Untouched, Before, Cells
  <1>3. Cells' = Cells
    BY CellsSame DEF Keeps
  <1>4. Covered(b) => Covered(b)'
    BY <1>1, <1>2 DEF Covered, Keeps, Untouched
  <1>5. WorkingOf(b)'
    BY <1>1, <1>4 DEF WorkingOf, Untouched
  <1>6. FinishedOf(b)'
    BY <1>1, <1>3 DEF FinishedOf, Untouched, Keeps, Exactly
  <1> QED
    BY <1>5, <1>6

\* A step that touches one attempt and keeps the closed files keeps the invariant of
\* the attempts if it keeps that of the one.
LEMMA OthersKept ==
    ASSUME Keeps, NEW a \in Attempt, \A b \in Attempt \ {a} : Untouched(b),
           Working, Finished, WorkingOf(a)', FinishedOf(a)'
    PROVE  Working' /\ Finished'
  BY UntouchedKept DEF Working, Finished

\* The scheduler's part depends on the closed files and the queues alone.
LEMMA ReportedKept ==
    ASSUME Keeps, Reported, UNCHANGED <<queue, runtime, winner>>,
           winner # NoAttempt => pc'[winner] = pc[winner]
    PROVE  Reported'
  <1>1. Sound(runtime)'
    <2>1. \A s : Sound(s) => Sound(s)'
      BY SoundKept
    <2> QED
      BY <2>1 DEF Reported, Sound
  <1>2. \A a \in Attempt : \A i \in 1 .. Len(queue'[a]) : Sound(queue[a][i])'
    <2>1. \A s : Sound(s) => Sound(s)'
      BY SoundKept
    <2> QED
      BY <2>1 DEF Reported, Sound
  <1> QED
    BY <1>1, <1>2 DEF Reported

-----------------------------------------------------------------------------
\* The steps of an attempt.
LEMMA StartStep ==
    ASSUME IInv, NEW a \in Attempt, Start(a)
    PROVE  Fresh' /\ StartedBefore' /\ Working' /\ Finished' /\ Reported'
  <1> USE Constants
  <1>1. /\ TypeOK /\ pc[a] = "none" /\ files[a] = 0 /\ taken[a] = 0 /\ buffered[a] = {}
        /\ a = next /\ next' = next + 1 /\ next \in Nat
    <2>1. a = next /\ next' = next + 1 /\ a \in Nat /\ a >= next
      BY DEF Start
    <2>2. pc[a] = "none"
      BY <2>1 DEF IInv, StartedBefore
    <2> QED
      BY <2>1, <2>2 DEF IInv, Fresh
  <1>2. Keeps /\ Closed' = Closed /\ \A b \in Attempt : Own(b)' = Own(b)
    BY KeepsWithoutClose DEF Start
  <1>3. PICK size \in BatchSizes : state' = [state EXCEPT ![a] = Restored(runtime, size)]
    BY DEF Start
  <1>4. pc' = [pc EXCEPT ![a] = IF RestoreFails(runtime) THEN "unbound" ELSE "stream"]
    BY DEF Start
  <1>5. \A b \in Attempt \ {a} : Untouched(b)
    BY <1>1, <1>3, <1>4 DEF Start, Untouched, TypeOK, outVars
  <1>6. /\ runtime \in State
        /\ state'[a].size = IF runtime.size = 0 THEN size ELSE runtime.size
        /\ state'[a].offset = runtime.offset /\ state'[a].paths = runtime.paths
        /\ state'[a].last = -1
    BY <1>1, <1>3, RestoredType DEF TypeOK
  <1>7. /\ runtime.offset \in Nat /\ skipped'[a] = runtime.offset /\ Position(a)' = runtime.offset
        /\ taken'[a] = 0 /\ buffered'[a] = {} /\ files'[a] = 0 /\ Own(a)' = {}
    BY <1>1, <1>6 DEF Start, TypeOK, State, Position, Own
  <1>8. Covered(a)'
    <2>1. CASE runtime = NoState
      <3>1. state'[a].size = size /\ state'[a].paths = {} /\ Position(a)' = 0
        BY <2>1, <1>6, <1>7 DEF NoState
      <3>2. Before(0, size)' = {}
        BY <1>1, BeforeZero, BeforeSame DEF Start
      <3>3. Before(Position(a), state[a].size)' = {}
        BY <3>1, <3>2 DEF Before
      <3> QED
        BY <3>1, <3>3, <1>7 DEF Covered
    <2>2. CASE runtime # NoState
      <3>1. /\ runtime.size \in BatchSizes /\ runtime.paths \subseteq Closed
            /\ Exactly(runtime.paths, Before(runtime.offset, runtime.size))
        BY <2>2 DEF IInv, Reported, Sound
      <3>2. state'[a].size = runtime.size
        BY <3>1, <1>6
      <3>3. Before(Position(a), state[a].size)' = Before(runtime.offset, runtime.size)
        BY <3>2, <1>7 DEF Before, Start, Cells
      <3>4. contents' = contents
        BY DEF Start
      <3> QED
        BY <3>1, <3>2, <3>3, <3>4, <1>2, <1>6, <1>7 DEF Covered, Exactly
    <2> QED
      BY <2>1, <2>2
  <1>9. WorkingOf(a)' /\ FinishedOf(a)'
    <2>1. pc'[a] \in {"unbound", "stream"}
      BY <1>1, <1>4 DEF TypeOK
    <2>2. state'[a].offset = skipped'[a] + state'[a].last + 1
      BY <1>6, <1>7
    <2>3. files'[a] <= MaxFiles
      BY <1>7
    <2> QED
      BY <1>7, <1>8, <2>1, <2>2, <2>3 DEF WorkingOf, FinishedOf
  <1>10. Working' /\ Finished'
    BY <1>2, <1>5, <1>9, OthersKept DEF IInv
  <1>11. Reported'
    <2>1. winner = NoAttempt
      BY DEF Start
    <2> QED
      BY <1>2, <2>1, ReportedKept DEF IInv, Start
  <1>12. Fresh' /\ StartedBefore'
    <2>1. \A b \in Attempt : b \in Int /\ (b # a => pc'[b] = pc[b])
      BY <1>4, <1>1 DEF TypeOK
    <2>2. pc'[a] # "none"
      BY <1>1, <1>4 DEF TypeOK
    <2>3. \A b \in Attempt : b >= next' <=> b >= next /\ b # a
      BY <1>1, <2>1
    <2>4. UNCHANGED <<files, taken, buffered>>
      BY DEF Start
    <2> QED
      BY <2>1, <2>2, <2>3, <2>4 DEF IInv, Fresh, StartedBefore
  <1> QED
    BY <1>10, <1>11, <1>12

\* A step that changes what an attempt has in memory, after it has started, keeps what
\* is said about those that have not.
LEMMA NotStarted ==
    ASSUME IInv, NEW a \in Attempt, pc[a] # "none", pc'[a] # "none", UNCHANGED next,
           \A b \in Attempt \ {a} : Untouched(b)
    PROVE  Fresh' /\ StartedBefore'
  BY DEF IInv, Fresh, StartedBefore, Untouched

LEMMA TakeStep ==
    ASSUME IInv, NEW a \in Attempt, TakeOutput(a)
    PROVE  Fresh' /\ StartedBefore' /\ Working' /\ Finished' /\ Reported'
  <1>1. Keeps /\ Closed' = Closed /\ \A b \in Attempt : Own(b)' = Own(b)
    BY KeepsWithoutClose DEF TakeOutput
  <1>2. \A b \in Attempt \ {a} : Untouched(b)
    BY DEF IInv, TakeOutput, Untouched, TypeOK, outVars
  <1>3. /\ pc[a] = "stream" /\ Covered(a) /\ files[a] <= MaxFiles
        /\ state[a].offset = skipped[a] + state[a].last + 1
        /\ state[a] \in State /\ taken[a] \in Nat /\ skipped[a] \in Nat /\ files[a] \in Nat
    BY DEF IInv, Working, WorkingOf, TakeOutput, TypeOK
  <1>4. /\ taken'[a] = taken[a] + 1 /\ skipped'[a] = skipped[a] /\ files'[a] = files[a]
        /\ buffered'[a] = buffered[a] \cup Batch(Position(a), state[a].size)
        /\ contents' = contents /\ Position(a)' = Position(a) + 1
    BY <1>3 DEF IInv, TakeOutput, TypeOK, Position
  <1>5. /\ state'[a].size = state[a].size /\ state'[a].paths = state[a].paths
        /\ \/ pc'[a] = "stream" /\ state'[a] = state[a]
           \/ /\ pc'[a] = "checkpoint" /\ state'[a].offset = Position(a)'
              /\ state'[a].last = taken[a] /\ files[a] < MaxFiles
    <2>1. CASE UNCHANGED <<pc, state>>
      BY <2>1, <1>3
    <2>2. CASE /\ pc' = [pc EXCEPT ![a] = "checkpoint"]
               /\ state' = [state EXCEPT ![a] = UpdatedOffsets(@, taken[a])]
               /\ files[a] < MaxFiles
      <3>1. state[a].last \in Int /\ state[a].offset \in Nat
        BY <1>3 DEF State
      <3>2. state[a].offset - state[a].last \in Nat
        BY <1>3, <3>1
      <3>3. pc'[a] = "checkpoint" /\ state'[a] = UpdatedOffsets(state[a], taken[a])
        BY <2>2 DEF IInv, TypeOK
      <3>4. state'[a].offset = skipped[a] + taken[a] + 1
        BY <1>3, <3>1, <3>2, <3>3, UpdatedType
      <3> QED
        BY <1>3, <1>4, <2>2, <3>2, <3>3, <3>4, UpdatedType DEF Position
    <2> QED
      BY <2>1, <2>2 DEF TakeOutput
  <1>6. Covered(a)'
    <2>1. state[a].size \in Nat \ {0} /\ Position(a) \in Nat
      <3>1. state[a].size \in BatchSizes
        BY <1>3 DEF Covered
      <3>2. state[a].size \in Nat \ {0}
        BY <3>1, Constants
      <3> QED
        BY <1>3, <3>2 DEF Position
    <2>2. /\ Before(Position(a) + 1, state[a].size)
               = Before(Position(a), state[a].size) \cup Batch(Position(a), state[a].size)
          /\ Before(Position(a), state[a].size) \cap Batch(Position(a), state[a].size) = {}
      BY <2>1, BeforeNext DEF IInv
    <2>3. Before(Position(a), state[a].size)' = Before(Position(a) + 1, state[a].size)
      BY <1>4, <1>5 DEF Before, Cells, TakeOutput
    <2>4. \A f \in state[a].paths : contents[f] \subseteq Before(Position(a), state[a].size)
      BY <1>3 DEF Covered
    <2>5. \A f \in state[a].paths : contents[f] \cap buffered'[a] = {}
      BY <1>3, <1>4, <2>2, <2>4 DEF Covered
    <2>6. (UNION {contents[f] : f \in state[a].paths}) \cup buffered'[a]
             = Before(Position(a) + 1, state[a].size)
      BY <1>3, <1>4, <2>2 DEF Covered
    <2>7. /\ state'[a].size \in BatchSizes /\ state'[a].paths \subseteq Closed'
          /\ Own(a)' \subseteq state'[a].paths
          /\ \A f, g \in state'[a].paths : f # g => contents'[f] \cap contents'[g] = {}
      BY <1>1, <1>3, <1>4, <1>5 DEF Covered
    <2> QED
      BY <1>4, <1>5, <2>3, <2>5, <2>6, <2>7 DEF Covered
  <1>7. WorkingOf(a)' /\ FinishedOf(a)'
    BY <1>3, <1>4, <1>5, <1>6 DEF WorkingOf, FinishedOf
  <1>8. Working' /\ Finished'
    BY <1>1, <1>2, <1>7, OthersKept DEF IInv
  <1>9. Reported'
    <2>1. winner # NoAttempt => winner # a /\ winner \in Attempt
      BY <1>3 DEF IInv, Reported, TypeOK
    <2> QED
      BY <1>1, <1>2, <2>1, ReportedKept DEF IInv, TakeOutput, schedVars, Untouched
  <1>10. Fresh' /\ StartedBefore'
    BY <1>2, <1>3, <1>5, NotStarted DEF TakeOutput, schedVars
  <1> QED
    BY <1>8, <1>9, <1>10

\* Closing a file: its contents join those of the files the state names.
LEMMA CloseStep ==
    ASSUME IInv, NEW a \in Attempt, pc[a] \in {"stream", "checkpoint"}, CloseFile(a)
    PROVE  /\ Keeps
           /\ state'[a].paths \subseteq Closed'
           /\ Own(a)' \subseteq state'[a].paths
           /\ state'[a].size = state[a].size /\ state'[a].size \in BatchSizes
           /\ state'[a].offset = state[a].offset /\ state'[a].last = state[a].last
           /\ buffered'[a] = {} /\ Position(a)' = Position(a)
           /\ Exactly(state[a].paths, Before(Position(a), state[a].size))'
  <1>1. Covered(a) /\ files[a] <= MaxFiles /\ TypeOK
    BY DEF IInv, Working, WorkingOf
  <1>2. /\ <<a, files[a]>> \in File \ Closed
        /\ Closed' = Closed \cup {<<a, files[a]>>}
        /\ \A f \in Closed : contents'[f] = contents[f]
        /\ contents'[<<a, files[a]>>] = buffered[a]
        /\ Own(a)' = Own(a) \cup {<<a, files[a]>>}
    BY <1>1, CloseFacts
  <1>3. /\ state[a] \in State
        /\ state'[a] = [state[a] EXCEPT !.paths = @ \cup {<<a, files[a]>>}]
    BY <1>1, CloseType DEF TypeOK
  <1>4. /\ state'[a].paths = state[a].paths \cup {<<a, files[a]>>}
        /\ state'[a].size = state[a].size /\ state'[a].offset = state[a].offset
        /\ state'[a].last = state[a].last
    BY <1>3 DEF State
  <1>5. buffered'[a] = {} /\ Position(a)' = Position(a) /\ UNCHANGED rows
    BY <1>1 DEF CloseFile, TypeOK, Position
  <1>6. Before(Position(a), state[a].size)' = Before(Position(a), state[a].size)
    BY <1>4, <1>5 DEF Before, Cells
  <1>7. UNION {contents'[f] : f \in state'[a].paths} = Before(Position(a), state[a].size)
    BY <1>1, <1>2, <1>4 DEF Covered
  <1>8. \A f, g \in state'[a].paths : f # g => contents'[f] \cap contents'[g] = {}
    BY <1>1, <1>2, <1>4 DEF Covered
  <1>9. Keeps
    BY <1>1, KeepsWithClose
  <1> QED
    BY <1>1, <1>2, <1>4, <1>5, <1>6, <1>7, <1>8, <1>9 DEF Covered, Exactly

LEMMA CheckpointStep ==
    ASSUME IInv, NEW a \in Attempt, Checkpoint(a)
    PROVE  Fresh' /\ StartedBefore' /\ Working' /\ Finished' /\ Reported'
  <1>1. /\ pc[a] = "checkpoint" /\ CloseFile(a) /\ TypeOK
        /\ files[a] \in Nat /\ files[a] < MaxFiles
        /\ state[a].offset = Position(a) /\ state[a].last = taken[a] - 1
        /\ taken[a] \in Nat /\ taken[a] > 0 /\ skipped[a] \in Nat
    BY DEF Checkpoint, IInv, TypeOK, Working, WorkingOf
  <1>2. /\ Keeps /\ state'[a].paths \subseteq Closed' /\ Own(a)' \subseteq state'[a].paths
        /\ state'[a].size = state[a].size /\ state'[a].size \in BatchSizes
        /\ state'[a].offset = state[a].offset /\ state'[a].last = state[a].last
        /\ buffered'[a] = {} /\ Position(a)' = Position(a)
        /\ Exactly(state[a].paths, Before(Position(a), state[a].size))'
    BY <1>1, CloseStep
  <1>3. \A b \in Attempt \ {a} : Untouched(b)
    BY <1>1, CloseType DEF Checkpoint, Untouched, TypeOK, CloseFile, outVars
  <1>4. /\ pc'[a] = "stream" /\ files'[a] = files[a] + 1
        /\ taken'[a] = taken[a] /\ skipped'[a] = skipped[a]
    BY <1>1 DEF Checkpoint, CloseFile, TypeOK
  <1>5. Covered(a)'
    BY <1>2 DEF Covered, Exactly
  <1>6. WorkingOf(a)' /\ FinishedOf(a)'
    <2>1. files'[a] <= MaxFiles
      BY <1>1, <1>4, Constants
    <2>2. state'[a].offset = skipped'[a] + state'[a].last + 1
      BY <1>1, <1>2, <1>4 DEF Position
    <2> QED
      BY <1>1, <1>4, <1>5, <2>1, <2>2 DEF WorkingOf, FinishedOf
  <1>7. Working' /\ Finished'
    BY <1>2, <1>3, <1>6, OthersKept DEF IInv
  <1>8. Sound(state[a])'
    BY <1>1, <1>2 DEF Sound, Exactly, Before, Position
  <1>9. Reported'
    <2>1. \A s : Sound(s) => Sound(s)'
      BY <1>2, SoundKept
    <2>2. Sound(runtime)'
      BY <2>1 DEF IInv, Reported, Checkpoint, schedVars, Sound
    <2>3. ASSUME NEW b \in Attempt, NEW i \in 1 .. Len(queue'[b])
          PROVE  Sound(queue[b][i])'
      <3>1. CASE b # a
        <4>1. queue'[b] = queue[b]
          BY <1>1, <3>1 DEF Checkpoint, TypeOK
        <4> QED
          BY <4>1, <2>1, <2>3 DEF IInv, Reported, Sound
      <3>2. CASE b = a
        <4>1. queue'[a] = Append(queue[a], state'[a]) /\ queue[a] \in Seq(State)
              /\ state'[a] \in State
          <5>1. files[a] <= MaxFiles
            BY <1>1, Constants
          <5>2. state' \in [Attempt -> State]
            BY <1>1, <5>1, CloseType
          <5> QED
            BY <1>1, <5>2 DEF Checkpoint, TypeOK
        <4>2. \/ i \in 1 .. Len(queue[a]) /\ queue'[a][i] = queue[a][i]
              \/ queue'[a][i] = state'[a]
          BY <4>1, <3>2
        <4>3. i \in 1 .. Len(queue[a]) => Sound(queue[a][i])
          BY DEF IInv, Reported
        <4> QED
          BY <4>2, <4>3, <2>1, <1>8, <3>2 DEF Sound
      <3> QED
        BY <3>1, <3>2
    <2>4. winner # NoAttempt => winner # a /\ winner \in Attempt /\ pc[winner] = "succeeded"
      BY <1>1 DEF IInv, Reported, TypeOK
    <2>5. winner' # NoAttempt => pc'[winner'] = "succeeded"
      BY <2>4, <1>3 DEF Checkpoint, schedVars, Untouched
    <2> QED
      BY <2>2, <2>3, <2>5 DEF Reported
  <1>10. Fresh' /\ StartedBefore'
    BY <1>1, <1>3, <1>4, NotStarted DEF Checkpoint, schedVars
  <1> QED
    BY <1>7, <1>9, <1>10

LEMMA EndStep ==
    ASSUME IInv, NEW a \in Attempt, EndOfInput(a)
    PROVE  Fresh' /\ StartedBefore' /\ Working' /\ Finished' /\ Reported'
  <1>1. /\ pc[a] = "stream" /\ TypeOK /\ Covered(a) /\ files[a] <= MaxFiles
        /\ taken[a] = 0 => buffered[a] = {}
        /\ Before(Position(a), state[a].size) = Cells
        /\ pc' = [pc EXCEPT ![a] = "finalize"]
    BY DEF EndOfInput, IInv, Working, WorkingOf, Exhausted
  <1>2. pc'[a] = "finalize"
    BY <1>1 DEF TypeOK
  <1>3. /\ Keeps /\ \A b \in Attempt \ {a} : Untouched(b)
        /\ FinishedOf(a)'
    <2>1. CASE taken[a] = 0 /\ UNCHANGED <<readVars, state>>
      <3>1. Keeps /\ Closed' = Closed /\ Own(a)' = Own(a) /\ Cells' = Cells
        BY <2>1, KeepsWithoutClose, CellsSame DEF readVars
      <3>2. \A b \in Attempt \ {a} : Untouched(b)
        BY <1>1, <2>1 DEF EndOfInput, Untouched, TypeOK, outVars, readVars
      <3>3. Exactly(state[a].paths, Cells)'
        BY <1>1, <2>1, <3>1 DEF Covered, Exactly, readVars
      <3>4. FinishedOf(a)'
        BY <1>1, <1>2, <2>1, <3>1, <3>3 DEF Covered, FinishedOf
      <3> QED
        BY <3>1, <3>2, <3>4
    <2>2. CASE taken[a] > 0 /\ CloseFile(a)
      <3>1. /\ Keeps /\ state'[a].paths \subseteq Closed' /\ Own(a)' \subseteq state'[a].paths
            /\ state'[a].size = state[a].size /\ Position(a)' = Position(a)
            /\ Exactly(state[a].paths, Before(Position(a), state[a].size))'
        BY <1>1, <2>2, CloseStep
      <3>2. \A b \in Attempt \ {a} : Untouched(b)
        BY <1>1, <2>2, CloseType DEF EndOfInput, Untouched, TypeOK, CloseFile, outVars
      <3>3. Before(Position(a), state[a].size)' = Cells'
        BY <1>1, <3>1 DEF Keeps, Before, Cells
      <3>4. FinishedOf(a)'
        BY <1>2, <3>1, <3>3 DEF FinishedOf, Exactly
      <3> QED
        BY <3>1, <3>2, <3>4
    <2> QED
      BY <2>1, <2>2 DEF EndOfInput
  <1>4. WorkingOf(a)'
    BY <1>2 DEF WorkingOf
  <1>5. Working' /\ Finished'
    BY <1>3, <1>4, OthersKept DEF IInv
  <1>6. Reported'
    <2>1. winner # NoAttempt => winner # a /\ winner \in Attempt
      BY <1>1 DEF IInv, Reported, TypeOK
    <2> QED
      BY <1>3, <2>1, ReportedKept DEF IInv, EndOfInput, schedVars, Untouched
  <1>7. Fresh' /\ StartedBefore'
    BY <1>1, <1>2, <1>3, NotStarted DEF EndOfInput, schedVars
  <1> QED
    BY <1>5, <1>6, <1>7

LEMMA FinalizeStep ==
    ASSUME IInv, NEW a \in Attempt, Finalize(a)
    PROVE  Fresh' /\ StartedBefore' /\ Working' /\ Finished' /\ Reported'
  <1>1. /\ pc[a] = "finalize" /\ TypeOK
        /\ state[a].paths \subseteq Closed /\ Own(a) \subseteq state[a].paths
        /\ Exactly(state[a].paths, Cells)
    BY DEF IInv, Finished, FinishedOf, Finalize
  <1>2. /\ Keeps /\ Closed' = Closed /\ Own(a)' = Own(a) /\ Cells' = Cells
        /\ contents' = contents
    BY KeepsWithoutClose, CellsSame DEF Finalize, readVars
  <1>3. \A b \in Attempt \ {a} : Untouched(b)
    BY <1>1 DEF Finalize, Untouched, TypeOK, outVars, readVars
  <1>4. pc'[a] \in {"unlinked", "renamed"}
    BY <1>1 DEF Finalize, TypeOK
  <1>5. pc'[a] = "renamed" => OutputFiles(a)' = state[a].paths
    <2>1. pc'[a] = "renamed" => links'[a] = state[a].paths \ Own(a)
      BY <1>1 DEF Finalize, TypeOK
    <2> QED
      BY <1>1, <1>2, <2>1 DEF OutputFiles
  <1>6. WorkingOf(a)' /\ FinishedOf(a)'
    BY <1>1, <1>2, <1>4, <1>5 DEF WorkingOf, FinishedOf, Exactly
  <1>7. Working' /\ Finished'
    BY <1>2, <1>3, <1>6, OthersKept DEF IInv
  <1>8. Reported'
    <2>1. winner # NoAttempt => winner # a /\ winner \in Attempt
      BY <1>1 DEF IInv, Reported, TypeOK
    <2> QED
      BY <1>2, <1>3, <2>1, ReportedKept DEF IInv, Finalize, schedVars, Untouched
  <1>9. Fresh' /\ StartedBefore'
    BY <1>1, <1>3, <1>4, NotStarted DEF Finalize, schedVars
  <1> QED
    BY <1>7, <1>8, <1>9

LEMMA ReportStep ==
    ASSUME IInv, NEW a \in Attempt, Report(a)
    PROVE  Fresh' /\ StartedBefore' /\ Working' /\ Finished' /\ Reported'
  <1>1. /\ pc[a] = "renamed" /\ TypeOK
        /\ OutputFiles(a) \subseteq Closed /\ Exactly(OutputFiles(a), Cells)
    BY DEF IInv, Finished, FinishedOf, Report
  <1>2. /\ Keeps /\ Closed' = Closed /\ Own(a)' = Own(a) /\ Cells' = Cells
        /\ contents' = contents /\ links' = links
    BY KeepsWithoutClose, CellsSame DEF Report, outVars
  <1>3. \A b \in Attempt \ {a} : Untouched(b)
    BY <1>1 DEF Report, Forget, Untouched, TypeOK, outVars
  <1>4. pc'[a] = "succeeded"
    BY <1>1 DEF Report, TypeOK
  <1>5. WorkingOf(a)' /\ FinishedOf(a)'
    BY <1>1, <1>2, <1>4 DEF WorkingOf, FinishedOf, Exactly, OutputFiles
  <1>6. Working' /\ Finished'
    BY <1>2, <1>3, <1>5, OthersKept DEF IInv
  <1>7. Reported'
    <2>1. winner # NoAttempt => winner # a /\ winner \in Attempt
      BY <1>1 DEF IInv, Reported, TypeOK
    <2> QED
      BY <1>2, <1>3, <2>1, ReportedKept DEF IInv, Report, schedVars, Untouched
  <1>8. Fresh' /\ StartedBefore'
    BY <1>1, <1>3, <1>4, NotStarted DEF Report, schedVars
  <1> QED
    BY <1>6, <1>7, <1>8

LEMMA FailStep ==
    ASSUME IInv, NEW a \in Attempt, Fail(a)
    PROVE  Fresh' /\ StartedBefore' /\ Working' /\ Finished' /\ Reported'
  <1>1. pc[a] \in {"stream", "checkpoint", "finalize", "renamed"} /\ TypeOK
    BY DEF IInv, Fail, Running
  <1>2. Keeps
    BY KeepsWithoutClose DEF Fail
  <1>3. \A b \in Attempt \ {a} : Untouched(b)
    BY <1>1 DEF Fail, Forget, Untouched, TypeOK, outVars
  <1>4. pc'[a] = "failed"
    BY <1>1 DEF Fail, TypeOK
  <1>5. WorkingOf(a)' /\ FinishedOf(a)'
    BY <1>4 DEF WorkingOf, FinishedOf
  <1>6. Working' /\ Finished'
    BY <1>2, <1>3, <1>5, OthersKept DEF IInv
  <1>7. Reported'
    <2>1. winner # NoAttempt => winner # a /\ winner \in Attempt
      BY <1>1 DEF IInv, Reported, TypeOK
    <2> QED
      BY <1>2, <1>3, <2>1, ReportedKept DEF IInv, Fail, schedVars, Untouched
  <1>8. Fresh' /\ StartedBefore'
    BY <1>1, <1>3, <1>4, NotStarted DEF Fail, schedVars
  <1> QED
    BY <1>6, <1>7, <1>8

\* What the scheduler takes from a queue, and a step that changes nothing.
LEMMA SchedulerStep ==
    ASSUME IInv,
           \/ \E a \in Attempt : ReceiveCheckpoint(a) \/ ReceiveSuccess(a)
           \/ UNCHANGED vars
    PROVE  Fresh' /\ StartedBefore' /\ Working' /\ Finished' /\ Reported'
  <1>1. UNCHANGED <<readVars, outVars, pc, state, next>>
    BY DEF ReceiveCheckpoint, ReceiveSuccess, vars, schedVars
  <1>2. Keeps
    BY <1>1, KeepsWithoutClose DEF readVars
  <1>3. \A b \in Attempt : Untouched(b)
    BY <1>1 DEF Untouched, readVars, outVars
  <1>4. Working' /\ Finished'
    BY <1>2, <1>3, UntouchedKept DEF IInv, Working, Finished
  <1>5. Fresh' /\ StartedBefore'
    BY <1>1 DEF IInv, Fresh, StartedBefore, readVars
  <1>6. \A s : Sound(s) => Sound(s)'
    BY <1>2, SoundKept
  <1>7. ASSUME NEW a \in Attempt, ReceiveCheckpoint(a) PROVE Reported'
    <2>1. queue[a] \in Seq(State) /\ queue[a] # <<>> /\ runtime' = Head(queue[a])
      BY <1>7 DEF ReceiveCheckpoint, IInv, TypeOK
    <2>2. 1 \in 1 .. Len(queue[a]) /\ Head(queue[a]) = queue[a][1]
      BY <2>1
    <2>3. Sound(runtime)'
      BY <1>6, <2>1, <2>2 DEF IInv, Reported, Sound
    <2>4. ASSUME NEW b \in Attempt, NEW i \in 1 .. Len(queue'[b]) PROVE Sound(queue[b][i])'
      <3>1. \E j \in 1 .. Len(queue[b]) : queue'[b][i] = queue[b][j]
        <4>1. CASE b # a
          BY <1>7, <4>1, <2>4 DEF ReceiveCheckpoint, IInv, TypeOK
        <4>2. CASE b = a
          <5>1. queue'[a] = Tail(queue[a])
            BY <1>7 DEF ReceiveCheckpoint, IInv, TypeOK
          <5>2. Len(Tail(queue[a])) = Len(queue[a]) - 1
                /\ \A k \in 1 .. Len(queue[a]) - 1 : Tail(queue[a])[k] = queue[a][k + 1]
            BY <2>1
          <5> QED
            BY <2>1, <2>4, <4>2, <5>1, <5>2
        <4> QED
          BY <4>1, <4>2
      <3> QED
        BY <3>1, <1>6 DEF IInv, Reported, Sound
    <2>5. winner' # NoAttempt => pc'[winner'] = "succeeded"
      BY <1>1, <1>7 DEF ReceiveCheckpoint, IInv, Reported
    <2> QED
      BY <2>3, <2>4, <2>5 DEF Reported
  <1>8. ASSUME NEW a \in Attempt, ReceiveSuccess(a) PROVE Reported'
    <2>1. winner' = a /\ pc'[a] = "succeeded" /\ UNCHANGED <<queue, runtime>>
      BY <1>8 DEF ReceiveSuccess
    <2>2. Sound(runtime)'
      BY <1>6, <2>1 DEF IInv, Reported, Sound
    <2>3. \A b \in Attempt : \A i \in 1 .. Len(queue'[b]) : Sound(queue[b][i])'
      BY <1>6, <2>1 DEF IInv, Reported, Sound
    <2> QED
      BY <2>1, <2>2, <2>3 DEF Reported
  <1>9. ASSUME UNCHANGED vars PROVE Reported'
    BY <1>2, <1>9, ReportedKept DEF IInv, vars, schedVars
  <1> QED
    BY <1>4, <1>5, <1>7, <1>8, <1>9

-----------------------------------------------------------------------------
LEMMA InitIInv == Init => IInv
  <1> SUFFICES ASSUME Init PROVE IInv
    OBVIOUS
  <1>1. TypeOK
    BY InitType
  <1>2. Sound(runtime) /\ \A a \in Attempt : queue[a] = <<>>
    BY DEF Init, Sound
  <1>3. Fresh /\ StartedBefore /\ Working /\ Finished
    BY Constants DEF Init, Fresh, StartedBefore, Working, WorkingOf, Finished, FinishedOf
  <1> QED
    BY <1>1, <1>2, <1>3 DEF IInv, Reported, Init

LEMMA StepIInv == IInv /\ [Next]_vars => IInv'
  <1> SUFFICES ASSUME IInv, [Next]_vars PROVE IInv'
    OBVIOUS
  <1>1. TypeOK'
    BY StepType DEF IInv
  <1>2. Fresh' /\ StartedBefore' /\ Working' /\ Finished' /\ Reported'
    BY StartStep, TakeStep, CheckpointStep, EndStep, FinalizeStep, ReportStep, FailStep,
       SchedulerStep DEF Next
  <1> QED
    BY <1>1, <1>2 DEF IInv

LEMMA Inductive == Spec => []IInv
  BY InitIInv, StepIInv, PTL DEF Spec

\* For all inputs, batch sizes and numbers of overlapping attempts, every variable of a
\* stream task's execution keeps its type.
THEOREM TypeCorrect == Spec => []TypeOK
  BY Inductive, PTL DEF IInv

\* For all inputs, batch sizes and numbers of overlapping attempts, the checkpoint the
\* scheduler keeps names files that hold the results of the batches a retry skips.
THEOREM CheckpointIsSound == Spec => []CheckpointSound
  <1>1. IInv => CheckpointSound
    BY DEF IInv, Reported, Sound, CheckpointSound
  <1> QED
    BY <1>1, Inductive, PTL

\* For all inputs, batch sizes and numbers of overlapping attempts, the output of the
\* attempt that wins has the result of every row in exactly one file.
THEOREM OutputIsComplete == Spec => []OutputComplete
  <1>1. IInv => OutputComplete
    BY DEF IInv, Reported, Finished, FinishedOf, OutputComplete, TypeOK
  <1> QED
    BY <1>1, Inductive, PTL

-----------------------------------------------------------------------------
\* What is in the final output directory of an attempt: every row, once.
Final(b) == OutputFiles(b) \subseteq Closed /\ Exactly(OutputFiles(b), Cells)

\* A directory that was renamed is complete and stays so, whatever becomes of its
\* attempt; a retry that stopped at a missing file still misses it.
MovedInv ==
    /\ \A b \in moved : pc[b] \in {"renamed", "succeeded", "failed"} /\ Final(b)
    /\ \A a \in Attempt : pc[a] = "unlinked" => Missing(a) # {}

LEMMA FinalKept ==
    ASSUME Keeps, NEW b \in Attempt, files'[b] = files[b], links'[b] = links[b], Final(b)
    PROVE  Final(b)'
  <1>1. OutputFiles(b)' = OutputFiles(b) /\ Cells' = Cells
    BY CellsSame DEF OutputFiles, Own, Keeps
  <1> QED
    BY <1>1 DEF Final, Keeps, Exactly

\* A step of one attempt keeps what was renamed before, and what others miss.
LEMMA MovedKept ==
    ASSUME IInv, MovedInv, NEW a \in Attempt, Keeps, \A b \in Attempt \ {a} : Untouched(b),
           moved \subseteq moved', moved' \subseteq moved \cup {a},
           a \in moved' => pc'[a] \in {"renamed", "succeeded", "failed"} /\ Final(a)',
           pc'[a] = "unlinked" => Missing(a)' # {}
    PROVE  MovedInv'
  <1>1. ASSUME NEW b \in moved', b # a
        PROVE  pc'[b] \in {"renamed", "succeeded", "failed"} /\ Final(b)'
    <2>1. b \in moved /\ b \in Attempt
      BY <1>1 DEF IInv, TypeOK
    <2> QED
      BY <1>1, <2>1, FinalKept DEF MovedInv, Untouched
  <1>2. ASSUME NEW b \in Attempt, b # a, pc'[b] = "unlinked" PROVE Missing(b)' # {}
    <2>1. Missing(b) \subseteq Missing(b)'
      BY <1>2 DEF Missing, Own, Untouched
    <2> QED
      BY <1>2, <2>1 DEF MovedInv, Untouched
  <1> QED
    BY <1>1, <1>2 DEF MovedInv

LEMMA StepMoved ==
    ASSUME IInv, MovedInv, [Next]_vars
    PROVE  MovedInv'
  <1>1. TypeOK
    BY DEF IInv
  <1>2. ASSUME NEW a \in Attempt, Start(a) PROVE MovedInv'
    <2>1. pc[a] = "none" /\ pc'[a] # "unlinked" /\ \A b \in Attempt \ {a} : Untouched(b)
      BY <1>1, <1>2, Constants DEF IInv, StartedBefore, Start, Untouched, TypeOK, outVars
    <2>2. Keeps /\ moved' = moved
      BY <1>2, KeepsWithoutClose DEF Start, outVars
    <2> QED
      BY <2>1, <2>2, MovedKept DEF MovedInv
  <1>3. ASSUME NEW a \in Attempt, TakeOutput(a) \/ Checkpoint(a) \/ EndOfInput(a)
        PROVE  MovedInv'
    <2>1. pc[a] \in {"stream", "checkpoint"} /\ pc'[a] # "unlinked" /\ moved' = moved
      BY <1>1, <1>3 DEF TakeOutput, Checkpoint, EndOfInput, TypeOK, outVars
    <2>2. Keeps
      <3>1. CASE CloseFile(a)
        BY <1>1, <2>1, <3>1, KeepsWithClose DEF IInv, Working, WorkingOf
      <3>2. CASE UNCHANGED <<rows, files, contents>>
        BY <3>2, KeepsWithoutClose
      <3> QED
        BY <1>3, <3>1, <3>2 DEF TakeOutput, Checkpoint, EndOfInput, readVars
    <2>3. \A b \in Attempt \ {a} : Untouched(b)
      BY <1>1, <1>3 DEF TakeOutput, Checkpoint, EndOfInput, CloseFile, Untouched, TypeOK,
         outVars, readVars
    <2> QED
      BY <2>1, <2>2, <2>3, MovedKept DEF MovedInv
  <1>4. ASSUME NEW a \in Attempt, Finalize(a) PROVE MovedInv'
    <2>1. Keeps /\ Own(a)' = Own(a)
      BY <1>4, KeepsWithoutClose DEF Finalize, readVars
    <2>2. \A b \in Attempt \ {a} : Untouched(b)
      BY <1>1, <1>4 DEF Finalize, Untouched, TypeOK, outVars, readVars
    <2>3. CASE pc' = [pc EXCEPT ![a] = "unlinked"] /\ Missing(a) # {} /\ UNCHANGED outVars
      <3>1. pc[a] = "finalize" /\ pc'[a] = "unlinked" /\ moved' = moved /\ state' = state
        BY <1>1, <1>4, <2>3 DEF Finalize, TypeOK, outVars
      <3>2. Missing(a)' = Missing(a)
        BY <2>1, <3>1 DEF Missing
      <3> QED
        BY <2>1, <2>2, <2>3, <3>1, <3>2, MovedKept DEF MovedInv
    <2>4. CASE pc' = [pc EXCEPT ![a] = "renamed"] /\ moved' = moved \cup {a}
      <3>1. pc'[a] = "renamed"
        BY <1>1, <2>4 DEF TypeOK
      <3>2. Final(a)'
        BY <1>4, <3>1, FinalizeStep DEF Finished, FinishedOf, Final
      <3> QED
        BY <2>1, <2>2, <2>4, <3>1, <3>2, MovedKept
    <2> QED
      BY <1>4, <2>3, <2>4 DEF Finalize
  <1>5. ASSUME NEW a \in Attempt, Report(a) \/ Fail(a) PROVE MovedInv'
    <2>1. Keeps /\ moved' = moved /\ files' = files /\ links' = links
      BY <1>5, KeepsWithoutClose DEF Report, Fail, outVars
    <2>2. \A b \in Attempt \ {a} : Untouched(b)
      BY <1>1, <1>5 DEF Report, Fail, Forget, Untouched, TypeOK, outVars
    <2>3. pc'[a] \in {"succeeded", "failed"}
      BY <1>1, <1>5 DEF Report, Fail, TypeOK
    <2>4. a \in moved => Final(a)'
      BY <2>1, FinalKept DEF MovedInv
    <2> QED
      BY <2>1, <2>2, <2>3, <2>4, MovedKept
  <1>6. ASSUME UNCHANGED <<readVars, outVars, pc, state>> PROVE MovedInv'
    <2>1. Keeps
      BY <1>6, KeepsWithoutClose DEF readVars
    <2>2. \A b \in Attempt : Untouched(b)
      BY <1>6 DEF Untouched, readVars, outVars
    <2>3. \A b \in moved : Final(b)'
      BY <1>1, <2>1, <2>2, FinalKept DEF MovedInv, Untouched, TypeOK
    <2>4. \A a \in Attempt : Missing(a)' = Missing(a)
      BY <1>6 DEF Missing, Own, readVars, outVars
    <2> QED
      BY <1>6, <2>3, <2>4 DEF MovedInv, outVars
  <1> QED
    BY <1>2, <1>3, <1>4, <1>5, <1>6
       DEF Next, vars, schedVars, ReceiveCheckpoint, ReceiveSuccess

\* For all inputs, batch sizes and numbers of overlapping attempts, and wherever they
\* fail, what a retry misses of its checkpoint has become part of a directory that
\* holds the result of every row: the rows are not lost, if nobody may know of them.
THEOREM LostFilesAreDone == Spec => []LostFilesAreResults
  <1>1. Init => MovedInv
    BY DEF Init, MovedInv
  <1>2. IInv /\ MovedInv /\ [Next]_vars => MovedInv'
    BY StepMoved
  <1>3. MovedInv => LostFilesAreResults
    <2>1. \A a \in Attempt : \A f \in Missing(a) : f[1] \in moved
      BY DEF Missing
    <2> QED
      BY <2>1 DEF MovedInv, Final, LostFilesAreResults
  <1> QED
    BY <1>1, <1>2, <1>3, Inductive, PTL DEF Spec
=============================================================================
