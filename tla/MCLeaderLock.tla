---------------------------- MODULE MCLeaderLock ----------------------------
(***************************************************************************)
(* Model-checking instances of LeaderLock.                                 *)
(***************************************************************************)
EXTENDS LeaderLock

CONSTANTS n1, n2, n3

ThreeNodes == {n1, n2, n3}
OneKeeper == {n1}
=============================================================================
