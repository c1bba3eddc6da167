--------------------------- MODULE MCRunLifecycle ---------------------------
(* Model values for the runs and workers of RunLifecycle. *)
EXTENDS RunLifecycle, TLC

CONSTANTS r1, r2, w1, w2

OneRun == {r1}
TwoRuns == {r1, r2}
TwoWorkers == {w1, w2}

\* Runs and workers are interchangeable; used by the safety runs only.
Symmetry == Permutations(Runs) \cup Permutations(Workers)
=============================================================================
