---------------------------- MODULE MCSmallpond -----------------------------
(* Instances of Smallpond for TLC. *)
EXTENDS Smallpond, TLC

CONSTANTS t1, t2, t3, e1, e2

\* A single task; a chain; two inputs of one task.
OneDeps == t1 :> {}
ChainDeps == (t1 :> {}) @@ (t2 :> {t1})

JoinDeps == (t1 :> {}) @@ (t2 :> {}) @@ (t3 :> {t1, t2})

ExecSymmetry == Permutations({e1, e2})
=============================================================================
