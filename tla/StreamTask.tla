----------------------------- MODULE StreamTask -----------------------------
(***************************************************************************)
(* ArrowStreamTask and ArrowBatchTask: a task that reads its inputs batch  *)
(* by batch, writes what it computes into a sequence of files and reports  *)
(* after a file a checkpoint, how many batches were read and which files   *)
(* hold their results.  A later attempt continues from the last checkpoint *)
(* the scheduler got, and links the files of the earlier attempts into its *)
(* own output.  Attempts overlap: a slow one is not stopped before another *)
(* has succeeded.  The result of a row is represented by the row itself.   *)
(***************************************************************************)
EXTENDS Integers, Sequences, FiniteSets

CONSTANTS
    NumInputs,    \* the inputs of the task, in order
    RowCounts,    \* the numbers of rows they may have: functions on 1 .. NumInputs
    BatchSizes,   \* streaming_batch_size: what the memory limit of an attempt leaves
    MaxRetry,     \* bound on the attempts
    MaxOverlap,   \* bound on the attempts at work at the same time
    MaxFiles      \* bound on the files of an attempt, one more than its checkpoints

ASSUME StreamTaskAssumption ==
    /\ NumInputs \in Nat \ {0}
    /\ RowCounts \subseteq [1 .. NumInputs -> Nat]
    /\ BatchSizes \subseteq Nat \ {0}
    /\ MaxRetry \in Nat /\ MaxOverlap \in Nat \ {0} /\ MaxFiles \in Nat

Attempt == 0 .. MaxRetry
NoAttempt == -1
Running == {"stream", "checkpoint", "finalize", "renamed"}

\* A file is named after the attempt that wrote it and its number.
File == Attempt \X (0 .. MaxFiles)

\* RuntimeState: the batch offset (the same for every input), last_batch_indices
\* (-1 for None), the files written so far and the batch size the offset counts in.
\* A size of 0 stands for a task without a state.
State == [size : BatchSizes \cup {0}, offset : Nat, last : Nat \cup {-1},
          paths : SUBSET File]
NoState == [size |-> 0, offset |-> 0, last |-> -1, paths |-> {}]

VARIABLES
    rows,      \* the number of rows of each input
    pc,        \* where each attempt is
    state,     \* its runtime_state
    skipped,   \* batches its readers skipped when it started
    taken,     \* outputs it got from the process function
    buffered,  \* the outputs in buffered_output and in the file that is open
    files,     \* how many files it has closed: the number of the one that is open
    contents,  \* what each closed file of each attempt holds
    links,     \* files of other attempts linked into its directory
    moved,     \* attempts whose directory was renamed from runtime to final output
    queue,     \* checkpoints on their way to the scheduler
    runtime,   \* the scheduler's runtime_state of the task
    next,      \* the next attempt's number
    winner     \* the attempt whose success the scheduler got first

readVars  == <<rows, skipped, taken, buffered, files, contents>>
outVars   == <<links, moved>>
schedVars == <<runtime, next, winner>>
vars == <<readVars, outVars, schedVars, pc, state, queue>>

Cells == UNION {{i} \X (0 .. rows[i] - 1) : i \in 1 .. NumInputs}

\* Batch number b of the inputs: zip_longest over the readers, each of which cuts
\* its input into batches of the same size.
Batch(b, size) == {c \in Cells : c[2] \div size = b}
Before(b, size) == {c \in Cells : c[2] \div size < b}
Position(a) == skipped[a] + taken[a]
Exhausted(a) == Before(Position(a), state[a].size) = Cells

Own(a) == {<<a, i>> : i \in 0 .. files[a] - 1}
OutputFiles(a) == Own(a) \cup links[a]

Init ==
    /\ rows \in RowCounts
    /\ pc = [a \in Attempt |-> "none"]
    /\ state = [a \in Attempt |-> NoState]
    /\ skipped = [a \in Attempt |-> 0]
    /\ taken = [a \in Attempt |-> 0]
    /\ buffered = [a \in Attempt |-> {}]
    /\ files = [a \in Attempt |-> 0]
    /\ contents = [f \in File |-> {}]
    /\ links = [a \in Attempt |-> {}]
    /\ moved = {}
    /\ queue = [a \in Attempt |-> <<>>]
    /\ runtime = NoState
    /\ next = 0
    /\ winner = NoAttempt

-----------------------------------------------------------------------------
\* restore_input_state reads batch_index after the loop over a reader: when
\* the first reader has no batch, the variable is not bound.
RestoreFails(s) == s.size # 0 /\ s.offset > 0 /\ rows[1] = 0

\* mutant: the batch size is chosen anew as well.
RestoredAnew(s, size) == [s EXCEPT !.size = size, !.last = -1]

\* A first attempt takes the batch size its memory limit allows; a later one that of
\* the checkpoint, whose offsets it adds to.
Restored(s, size) == [s EXCEPT !.size = IF @ = 0 THEN size ELSE @, !.last = -1]

\* The attempt starts with a copy of what the scheduler knows.  It may do so while
\* an earlier one is still at work.
Start(a) ==
    /\ a = next
    /\ winner = NoAttempt
    /\ Cardinality({b \in Attempt : pc[b] \in Running}) < MaxOverlap
    /\ next' = next + 1
    /\ \E size \in BatchSizes : state' = [state EXCEPT ![a] = Restored(runtime, size)]
    /\ pc' = [pc EXCEPT ![a] = IF RestoreFails(runtime) THEN "unbound" ELSE "stream"]
    /\ skipped' = [skipped EXCEPT ![a] = runtime.offset]
    /\ UNCHANGED <<rows, taken, buffered, files, contents, outVars, queue, runtime, winner>>

\* mutant: the difference the wrong way round.
UpdatedOffsetsBack(s, index) ==
    [size |-> s.size, paths |-> s.paths, offset |-> s.offset + s.last - index, last |-> index]

\* update_batch_offsets: the batches since the last update.
UpdatedOffsets(s, index) ==
    [size |-> s.size, paths |-> s.paths, offset |-> s.offset + index - s.last, last |-> index]

\* while (output := next(output_iter)): the output joins what is buffered for or
\* already in the open file, which nobody reads; then a checkpoint may be due,
\* forced by the process function or by the time since the last one.
TakeOutput(a) ==
    /\ pc[a] = "stream"
    /\ ~Exhausted(a)
    /\ taken' = [taken EXCEPT ![a] = @ + 1]
    /\ buffered' = [buffered EXCEPT ![a] = @ \cup Batch(Position(a), state[a].size)]
    /\ \/ UNCHANGED <<pc, state>>
       \/ /\ files[a] < MaxFiles
          /\ pc' = [pc EXCEPT ![a] = "checkpoint"]
          /\ state' = [state EXCEPT ![a] = UpdatedOffsets(@, taken[a])]
    /\ UNCHANGED <<rows, skipped, files, contents, outVars, queue, schedVars>>

\* The rest of the buffer is written, the file closed and its path remembered.
CloseFile(a) ==
    /\ contents' = [contents EXCEPT ![<<a, files[a]>>] = buffered[a]]
    /\ buffered' = [buffered EXCEPT ![a] = {}]
    /\ files' = [files EXCEPT ![a] = @ + 1]
    /\ state' = [state EXCEPT ![a].paths = @ \cup {<<a, files[a]>>}]
    /\ UNCHANGED <<rows, skipped, taken>>

\* A copy of the task, with its state, is pushed to the completion queue.
Checkpoint(a) ==
    /\ pc[a] = "checkpoint"
    /\ CloseFile(a)
    /\ queue' = [queue EXCEPT ![a] = Append(@, state'[a])]
    /\ pc' = [pc EXCEPT ![a] = "stream"]
    /\ UNCHANGED <<outVars, schedVars>>

\* The outputs are exhausted.  The last file is closed; if there was no output at
\* all, none was opened.
EndOfInput(a) ==
    /\ pc[a] = "stream"
    /\ Exhausted(a)
    /\ pc' = [pc EXCEPT ![a] = "finalize"]
    /\ \/ taken[a] = 0 /\ UNCHANGED <<readVars, state>>
       \/ taken[a] > 0 /\ CloseFile(a)
    /\ UNCHANGED <<outVars, queue, schedVars>>

\* mutant: its own files are linked too, onto themselves.
MissingOrOwn(a) == {f \in state[a].paths : f[1] \in moved \cup {a}}

\* finalize: the files of earlier attempts are linked into the runtime directory,
\* which is then renamed.  A file is gone when its attempt's directory was renamed.
\* Its own files need no link: they are in the directory.
Missing(a) == {f \in state[a].paths \ Own(a) : f[1] \in moved}

\* mutant: the earlier files are not linked.
FinalizeOwn(a) ==
    /\ pc[a] = "finalize"
    /\ pc' = [pc EXCEPT ![a] = "renamed"]
    /\ moved' = moved \cup {a}
    /\ UNCHANGED <<readVars, links, state, queue, schedVars>>

Finalize(a) ==
    /\ pc[a] = "finalize"
    /\ \/ /\ Missing(a) # {}
          /\ pc' = [pc EXCEPT ![a] = "unlinked"]
          /\ UNCHANGED outVars
       \/ /\ Missing(a) = {}
          /\ pc' = [pc EXCEPT ![a] = "renamed"]
          /\ links' = [links EXCEPT ![a] = state[a].paths \ Own(a)]
          /\ moved' = moved \cup {a}
    /\ UNCHANGED <<readVars, state, queue, schedVars>>

\* What the process had in memory.
Forget(a) ==
    /\ state' = [state EXCEPT ![a] = NoState]
    /\ skipped' = [skipped EXCEPT ![a] = 0]
    /\ taken' = [taken EXCEPT ![a] = 0]
    /\ buffered' = [buffered EXCEPT ![a] = {}]

\* The rest of finalize, cleanup, and the push of the result.
Report(a) ==
    /\ pc[a] = "renamed"
    /\ pc' = [pc EXCEPT ![a] = "succeeded"]
    /\ Forget(a)
    /\ UNCHANGED <<rows, files, contents, outVars, queue, schedVars>>

\* mutant: the output of an attempt that failed is removed.
FailCleaning(a) ==
    /\ a < MaxRetry
    /\ pc[a] \in Running
    /\ pc' = [pc EXCEPT ![a] = "failed"]
    /\ moved' = moved \cup {a}
    /\ Forget(a)
    /\ UNCHANGED <<rows, files, contents, links, queue, schedVars>>

\* An exception of the process function or of a write, a worker that dies, an executor
\* that is lost, also between the rename and the push of the result: what was pushed
\* stays in the queue, what was renamed stays renamed.  The last attempt does not fail.
Fail(a) ==
    /\ a < MaxRetry
    /\ pc[a] \in Running
    /\ pc' = [pc EXCEPT ![a] = "failed"]
    /\ Forget(a)
    /\ UNCHANGED <<rows, files, contents, outVars, queue, schedVars>>

\* process_finished_tasks: a result that is INCOMPLETE replaces the runtime state,
\* whichever attempt sent it.
ReceiveCheckpoint(a) ==
    /\ queue[a] # <<>>
    /\ runtime' = Head(queue[a])
    /\ queue' = [queue EXCEPT ![a] = Tail(@)]
    /\ UNCHANGED <<readVars, outVars, pc, state, next, winner>>

\* The result follows the checkpoints of its attempt.
ReceiveSuccess(a) ==
    /\ pc[a] = "succeeded"
    /\ queue[a] = <<>>
    /\ winner = NoAttempt
    /\ winner' = a
    /\ UNCHANGED <<readVars, outVars, pc, state, queue, runtime, next>>

Next == \E a \in Attempt :
    \/ Start(a) \/ TakeOutput(a) \/ Checkpoint(a) \/ EndOfInput(a) \/ Finalize(a)
    \/ Report(a) \/ Fail(a) \/ ReceiveCheckpoint(a) \/ ReceiveSuccess(a)

Spec == Init /\ [][Next]_vars

\* A task whose attempts have all ended without success is retried.
Retry(a) == Start(a) /\ \A b \in Attempt : b < a => pc[b] \in {"failed", "unbound", "unlinked"}

\* A worker process goes on until it ends; the scheduler reads its queues and retries.
Fairness == \A a \in Attempt :
    /\ WF_vars(TakeOutput(a)) /\ WF_vars(Checkpoint(a)) /\ WF_vars(EndOfInput(a))
    /\ WF_vars(Finalize(a)) /\ WF_vars(Report(a))
    /\ WF_vars(ReceiveCheckpoint(a)) /\ WF_vars(ReceiveSuccess(a)) /\ WF_vars(Retry(a))

FairSpec == Spec /\ Fairness

-----------------------------------------------------------------------------
TypeOK ==
    /\ rows \in [1 .. NumInputs -> Nat]
    /\ pc \in [Attempt -> {"none", "unbound", "stream", "checkpoint", "finalize",
                           "unlinked", "renamed", "succeeded", "failed"}]
    /\ state \in [Attempt -> State]
    /\ skipped \in [Attempt -> Nat]
    /\ taken \in [Attempt -> Nat]
    /\ buffered \in [Attempt -> SUBSET Cells]
    /\ files \in [Attempt -> Nat]
    /\ contents \in [File -> SUBSET Cells]
    /\ links \in [Attempt -> SUBSET File]
    /\ moved \subseteq Attempt
    /\ queue \in [Attempt -> Seq(State)]
    /\ runtime \in State
    /\ next \in Nat
    /\ winner \in Attempt \cup {NoAttempt}

\* The files hold the results of the given rows, each in one file.
Exactly(paths, cells) ==
    /\ UNION {contents[f] : f \in paths} = cells
    /\ \A f, g \in paths : f # g => contents[f] \cap contents[g] = {}

\* Whatever checkpoint the scheduler has, and whichever attempt sent it last, its
\* files hold the results of exactly the batches a retry will skip: nothing is lost
\* or computed twice by resuming from an older one.
CheckpointSound ==
    runtime # NoState => Exactly(runtime.paths, Before(runtime.offset, runtime.size))

\* The output directory of an attempt that succeeded, however many attempts it builds
\* upon, holds the result of every row of every input, once.
OutputComplete ==
    winner # NoAttempt => Exactly(OutputFiles(winner), Cells)

\* A file that a checkpoint refers to is only missing when it has become part of a
\* complete output: whichever attempt wrote it, and however that attempt ended, its
\* directory was renamed with the result of every row in it, once.
LostFilesAreResults ==
    \A a \in Attempt : pc[a] = "unlinked" =>
        /\ Missing(a) # {}
        /\ \A f \in Missing(a) : Exactly(OutputFiles(f[1]), Cells)

\* If some attempt is spared, the task succeeds, whatever failed before and from
\* whatever checkpoint it resumes (with rows in its first input).  The one exception
\* is a retry that misses files of an attempt whose result was lost after the rename.
Completes == rows[1] > 0 =>
    <>(\/ winner # NoAttempt
       \/ \E a \in Attempt : pc[a] = "unlinked" /\ \E f \in Missing(a) : pc[f[1]] = "failed")
=============================================================================
