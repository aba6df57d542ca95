----------------------------- MODULE MCRaySession ---------------------------
(* Instances of RaySession for TLC. *)
EXTENDS RaySession

\* A source, and a frame of two partitions made from it.
PairInputs == <<{}, {1}>>
PairWidth == <<1, 2>>
PairPlan ==
    <<<<[node |-> 1, part |-> 1]>>,
      <<[node |-> 1, part |-> 1], [node |-> 2, part |-> 1], [node |-> 2, part |-> 2]>>>>

\* A program that is written frame by frame: what ran before runs again first.
Growing == {<<1>>, <<1, 2>>}

\* The theorem on ResultIsCurrent is about such programs.
ASSUME GrowingPrograms == Programs = Growing => ProgramsGrow /\ ChangesEvaluated

\* Programs that evaluate other frames first; the derived frame only.
Reordered == {<<2>>, <<1, 2>>}
OnlyDerived == {<<2>>}
=============================================================================
