----------------------------- MODULE MCJobQueue -----------------------------
(***************************************************************************)
(* Model-checking instances of JobQueue.                                   *)
(***************************************************************************)
EXTENDS JobQueue

CONSTANTS j1, j2, w1, w2, c1

OneJob == {j1}
TwoJobs == {j1, j2}
OneWorker == {w1}
TwoWorkers == {w1, w2}
OneCanceller == {c1}
Steps == {30}
=============================================================================
