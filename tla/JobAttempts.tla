---------------------------- MODULE JobAttempts ----------------------------
(***************************************************************************)
(* What the job queue promises of executions, with no table, no Redis and  *)
(* no workers: each submitted job is executed by one task at a time, at     *)
(* most 1 + MaxRetries times, only while it has not succeeded; and what is  *)
(* given up (a success, the last failure, a fault) is never taken up again. *)
(***************************************************************************)
EXTENDS Naturals

CONSTANTS Job, MaxRetries

VARIABLES
  phase,    \* "new", "pending", "running" or "over"
  started   \* executions started

avars == <<phase, started>>

Init ==
  /\ phase = [j \in Job |-> "new"]
  /\ started = [j \in Job |-> 0]

Submit(j) ==
  /\ phase[j] = "new"
  /\ phase' = [phase EXCEPT ![j] = "pending"]
  /\ UNCHANGED started

Start(j) ==
  /\ phase[j] = "pending"
  /\ started[j] <= MaxRetries
  /\ phase' = [phase EXCEPT ![j] = "running"]
  /\ started' = [started EXCEPT ![j] = @ + 1]

(* The execution failed; whether a retry is left is decided later.         *)
Fails(j) ==
  /\ phase[j] = "running"
  /\ phase' = [phase EXCEPT ![j] = "pending"]
  /\ UNCHANGED started

(* A process that stops gives up all the jobs it has in hand at once.       *)
GiveUp(J) ==
  /\ J # {}
  /\ \A j \in J : phase[j] \in {"pending", "running"}
  /\ phase' = [j \in Job |-> IF j \in J THEN "over" ELSE phase[j]]
  /\ UNCHANGED started

Next ==
  \/ \E j \in Job : Submit(j) \/ Start(j) \/ Fails(j)
  \/ \E J \in SUBSET Job : GiveUp(J)

AttemptsSpec == Init /\ [][Next]_avars
=============================================================================
