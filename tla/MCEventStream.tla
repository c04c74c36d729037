--------------------------- MODULE MCEventStream ---------------------------
(***************************************************************************)
(* Model-checking instances of EventStream.                                *)
(***************************************************************************)
EXTENDS EventStream

CONSTANTS j1, j2, w1, v1

OneJob == {j1}
TwoJobs == {j1, j2}
OneWorker == {w1}
OneClient == {v1}
Steps == {30}
=============================================================================
