---------------------------- MODULE MCWorkQueue ----------------------------
(* Instances of WorkQueueFS for TLC. *)
EXTENDS WorkQueueFS, TLC

CONSTANTS w1, w2, w3, w4

\* Keys that are pushed in any order, and one that is pushed twice, as the key of
\* a task whose worker reports and crashes.
Keys == (w1 :> 1) @@ (w2 :> 2) @@ (w3 :> 2) @@ (w4 :> 3)
KeysOfThree == [w \in {w1, w2, w3} |-> Keys[w]]

Symmetry == Permutations(Producer) \cup Permutations(Consumer)
=============================================================================
