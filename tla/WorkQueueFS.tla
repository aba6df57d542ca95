---------------------------- MODULE WorkQueueFS ----------------------------
(***************************************************************************)
(* A work queue on the file system (WorkQueueOnFilesystem, workqueue.py).  *)
(* A push writes a file into the directory temp and renames it into        *)
(* enqueued; a pop lists enqueued and renames files, in the order of their *)
(* names, into dequeued.  There are no locks: a rename that fails tells a  *)
(* consumer that another one was faster.  Several processes use a queue,   *)
(* each with a WorkQueue object and a buffer of its own.                   *)
(***************************************************************************)
EXTENDS Naturals, Sequences, FiniteSets, Functions

CONSTANTS
    Work,      \* the work items
    Key,       \* Key[w]: the place of the item's key in the order of keys
    Producer,  \* processes that push
    Consumer,  \* processes that pop
    Mortal,    \* those of them that may die
    Count      \* the count argument of pop

ASSUME WorkQueueAssumption ==
    /\ Key \in [Work -> Nat]
    /\ Mortal \subseteq Producer \cup Consumer
    /\ Count \in Nat \ {0}

VARIABLES
    unsent,    \* works that no process has pushed yet
    outbound,  \* outbound[p]: p's outbound_works
    writing,   \* writing[p]: the file p has in temp, if any
    enqueued,  \* the directory of that name
    dequeued,  \* the directory of that name
    popping,   \* consumers inside pop
    listing,   \* listing[c]: the directory entries c has still to try
    items,     \* items[c]: the files c has renamed and loaded in this pop
    returned,  \* returned[c]: the files of c's earlier pops
    dead,      \* processes that died
    clock      \* time_ns

pushVars == <<unsent, outbound, writing, clock>>
popVars == <<popping, listing, items, returned>>
dirVars == <<enqueued, dequeued>>
vars == <<pushVars, popVars, dirVars, dead>>

\* A file is named "<key of the first work>-<time>-..." and holds a work or a
\* batch.  "after" is history: the times of the pushes that were over when the
\* push of this file began.
File == [works : Seq(Work), key : Nat, stamp : Nat, after : SUBSET Nat]

WorksOf(f) == Range(f.works)

\* The order of the file names.  The producers of one queue share a clock.
Before(f, g) == f.key < g.key \/ (f.key = g.key /\ f.stamp < g.stamp)

Init ==
    /\ unsent = Work
    /\ outbound = [p \in Producer |-> <<>>]
    /\ writing = [p \in Producer |-> {}]
    /\ enqueued = {} /\ dequeued = {}
    /\ popping = {}
    /\ listing = [c \in Consumer |-> {}]
    /\ items = [c \in Consumer |-> {}]
    /\ returned = [c \in Consumer |-> {}]
    /\ dead = {}
    /\ clock = 0

-----------------------------------------------------------------------------
\* _push_unbuffered until the file is complete in temp.
Dump(p, ws) ==
    /\ writing' = [writing EXCEPT ![p] =
            {[works |-> ws, key |-> Key[ws[1]], stamp |-> clock,
              after |-> {f.stamp : f \in enqueued \cup dequeued}]}]
    /\ clock' = clock + 1

\* p calls push or flush only when its last call has returned.
Free(p) == p \notin dead /\ writing[p] = {}

\* push(w, buffering=True)
PushBuffered(p, w) ==
    /\ Free(p) /\ w \in unsent
    /\ unsent' = unsent \ {w}
    /\ outbound' = [outbound EXCEPT ![p] = Append(@, w)]
    /\ UNCHANGED <<writing, dirVars, popVars, dead, clock>>

\* mutant: what was buffered is pushed with w but not forgotten.
PushKeeping(p, w) ==
    /\ Free(p) /\ w \in unsent
    /\ unsent' = unsent \ {w}
    /\ Dump(p, Append(outbound[p], w))
    /\ UNCHANGED <<outbound, dirVars, popVars, dead>>

\* push(w): buffered works go with it, as one batch.
Push(p, w) ==
    /\ Free(p) /\ w \in unsent
    /\ unsent' = unsent \ {w}
    /\ Dump(p, Append(outbound[p], w))
    /\ outbound' = [outbound EXCEPT ![p] = <<>>]
    /\ UNCHANGED <<dirVars, popVars, dead>>

Flush(p) ==
    /\ Free(p) /\ outbound[p] # <<>>
    /\ Dump(p, outbound[p])
    /\ outbound' = [outbound EXCEPT ![p] = <<>>]
    /\ UNCHANGED <<unsent, dirVars, popVars, dead>>

\* The rename that ends a push.
Enqueue(p) ==
    /\ p \notin dead /\ writing[p] # {}
    /\ enqueued' = enqueued \cup writing[p]
    /\ writing' = [writing EXCEPT ![p] = {}]
    /\ UNCHANGED <<unsent, outbound, dequeued, popVars, dead, clock>>

\* _get_entries: the scan of the directory is taken as atomic.
List(c) ==
    /\ c \notin dead \cup popping
    /\ popping' = popping \cup {c}
    /\ listing' = [listing EXCEPT ![c] = enqueued]
    /\ UNCHANGED <<pushVars, dirVars, items, returned, dead>>

\* mutant: the count is checked too late.
TryingOneMore(c, f) ==
    /\ c \in popping \ dead
    /\ f \in listing[c]
    /\ Cardinality(items[c]) <= Count

\* f is an entry of c's listing that this pop may still take.
Trying(c, f) ==
    /\ c \in popping \ dead
    /\ f \in listing[c]
    /\ Cardinality(items[c]) < Count

\* mutant: the entries are tried in no particular order.
NextEntryUnsorted(c, f) == Trying(c, f)

\* The entries are tried in the order of their names.
NextEntry(c, f) ==
    /\ Trying(c, f)
    /\ \A g \in listing[c] \ {f} : Before(f, g)

\* The rename succeeds, and the file is loaded.
Take(c, f) ==
    /\ NextEntry(c, f)
    /\ f \in enqueued
    /\ enqueued' = enqueued \ {f}
    /\ dequeued' = dequeued \cup {f}
    /\ items' = [items EXCEPT ![c] = @ \cup {f}]
    /\ listing' = [listing EXCEPT ![c] = @ \ {f}]
    /\ UNCHANGED <<pushVars, popping, returned, dead>>

\* mutant: an entry that cannot be renamed is tried again.
MissAgain(c, f) ==
    /\ NextEntry(c, f)
    /\ f \notin enqueued
    /\ listing' = [listing EXCEPT ![c] = IF items[c] = {} THEN @ ELSE {}]
    /\ UNCHANGED <<pushVars, dirVars, popping, items, returned, dead>>

\* The rename fails, since another consumer has taken the file: on with the next
\* entry, unless there is something to return.
Miss(c, f) ==
    /\ NextEntry(c, f)
    /\ f \notin enqueued
    /\ listing' = [listing EXCEPT ![c] = IF items[c] = {} THEN @ \ {f} ELSE {}]
    /\ UNCHANGED <<pushVars, dirVars, popping, items, returned, dead>>

\* pop returns the works of the files it has.
Return(c) ==
    /\ c \in popping \ dead
    /\ listing[c] = {} \/ Cardinality(items[c]) = Count
    /\ popping' = popping \ {c}
    /\ listing' = [listing EXCEPT ![c] = {}]
    /\ items' = [items EXCEPT ![c] = {}]
    /\ returned' = [returned EXCEPT ![c] = @ \cup items[c]]
    /\ UNCHANGED <<pushVars, dirVars, dead>>

\* A process dies between any two file operations.
Die(x) ==
    /\ x \in Mortal \ dead
    /\ dead' = dead \cup {x}
    /\ UNCHANGED <<pushVars, dirVars, popVars>>

Next ==
    \/ \E p \in Producer :
        \/ \E w \in unsent : PushBuffered(p, w) \/ Push(p, w)
        \/ Flush(p) \/ Enqueue(p)
    \/ \E c \in Consumer :
        \/ List(c) \/ Return(c)
        \/ \E f \in listing[c] : Take(c, f) \/ Miss(c, f)
    \/ \E x \in Mortal : Die(x)

Spec == Init /\ [][Next]_vars

\* Consumers poll again and again (exec_loop, sched_loop).
Fairness ==
    \A c \in Consumer :
        WF_vars(List(c) \/ Return(c)
                \/ \E f \in listing[c] : Take(c, f) \/ Miss(c, f))

FairSpec == Spec /\ Fairness

-----------------------------------------------------------------------------
HeldBy(c) == items[c] \cup returned[c]

TypeOK ==
    /\ unsent \subseteq Work
    /\ outbound \in [Producer -> Seq(Work)]
    /\ writing \in [Producer -> SUBSET File]
    /\ enqueued \subseteq File /\ dequeued \subseteq File
    /\ popping \subseteq Consumer
    /\ listing \in [Consumer -> SUBSET File]
    /\ items \in [Consumer -> SUBSET File]
    /\ returned \in [Consumer -> SUBSET File]
    /\ dead \subseteq Mortal
    /\ clock \in Nat

\* A work is handed out once, to one consumer, whatever batches it went through,
\* however the consumers race for the file (_pop_unbuffered) and whoever dies.
HandedOutOnce ==
    \A c, d \in Consumer : \A f \in HeldBy(c), g \in HeldBy(d) :
        WorksOf(f) \cap WorksOf(g) # {} => f = g /\ c = d

\* A file does not overtake one of an earlier or equal key whose push was over
\* when its own push began, even if several consumers race.  The scheduler relies
\* on it: of two reports on one attempt, the first is read first.
NoOvertaking ==
    \A f, g \in enqueued \cup dequeued :
        f.stamp \in g.after /\ f.key <= g.key /\ g \in dequeued => f \in dequeued

\* Whatever is enqueued is taken by someone, as long as one consumer lives.
EverythingTaken ==
    \A w \in Work :
        (\E f \in enqueued : w \in WorksOf(f)) ~> (\E f \in dequeued : w \in WorksOf(f))

\* What c is going to take in this pop if nobody disturbs it.
Chosen(c) ==
    {f \in listing[c] :
        Cardinality({g \in listing[c] : Before(g, f)}) + Cardinality(items[c]) < Count}

Abstract ==
    INSTANCE WorkQueue WITH
        waiting <- enqueued \ UNION {Chosen(c) : c \in Consumer},
        taken <- dequeued \cup UNION {Chosen(c) : c \in Consumer}

\* With one consumer, push and pop are atomic: a pop takes effect when it lists
\* the directory.  This is the queue that Fabric assumes.
ImplementsWorkQueue == Abstract!Spec
=============================================================================
