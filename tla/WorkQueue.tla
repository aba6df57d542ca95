------------------------------ MODULE WorkQueue ------------------------------
(***************************************************************************)
(* What the rest of the system relies on when it uses a work queue: a push *)
(* adds a file in one step, and a pop takes, in one step, the Count first  *)
(* files there are.  Fabric's queues have the same pop.                    *)
(***************************************************************************)
EXTENDS Naturals, FiniteSets

CONSTANTS
    Count,        \* the most files one pop takes
    Before(_, _)  \* the order of the file names

VARIABLES waiting, taken

vars == <<waiting, taken>>

Init == waiting = {} /\ taken = {}

Push(f) ==
    /\ f \notin waiting \cup taken
    /\ waiting' = waiting \cup {f}
    /\ UNCHANGED taken

Pop(S) ==
    /\ Cardinality(S) <= Count
    /\ S = waiting \/ Cardinality(S) = Count
    /\ \A f \in S, g \in waiting \ S : Before(f, g)
    /\ waiting' = waiting \ S
    /\ taken' = taken \cup S

Next ==
    \/ \E f \in waiting' : Push(f)
    \/ \E S \in SUBSET waiting : Pop(S)

Spec == Init /\ [][Next]_vars
=============================================================================
