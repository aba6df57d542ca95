----------------------------- MODULE MCRecovery -----------------------------
(* Instances of Recovery for TLC. *)
EXTENDS Recovery, TLC

CONSTANTS t1, t2, t3, e1

\* A chain of tasks.
LongChainDeps == (t1 :> {}) @@ (t2 :> {t1}) @@ (t3 :> {t2})
=============================================================================
