-------------------------------- MODULE Job ---------------------------------
(***************************************************************************)
(* What a job promises its user: every task takes effect at most once and  *)
(* after all tasks it depends on, and the status of the job is decided     *)
(* once, "success" exactly when the root task is done.                     *)
(***************************************************************************)
CONSTANTS Task, Root, Deps

VARIABLES done, status

jobVars == <<done, status>>

JobInit == done = {} /\ status = "running"

Complete(t) ==
    /\ status = "running"
    /\ t \notin done
    /\ Deps[t] \subseteq done
    /\ done' = done \cup {t}
    /\ UNCHANGED status

Decide ==
    /\ status = "running"
    /\ status' = IF Root \in done THEN "success" ELSE "failure"
    /\ UNCHANGED done

JobNext == Decide \/ \E t \in Task : Complete(t)

JobSpec == JobInit /\ [][JobNext]_jobVars
=============================================================================
