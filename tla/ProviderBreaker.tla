--------------------------- MODULE ProviderBreaker ---------------------------
(***************************************************************************)
(* The circuit breaker of core/src/rpc_provider.rs for one RPC provider:    *)
(* request tasks that ask whether it is available and report how their call *)
(* ended, and the health checker that probes it on a timer.                *)
(*                                                                         *)
(* The counter and the score are atomics and the trip time has a lock of    *)
(* its own, so each is read and written in a step of its own and the steps  *)
(* of all tasks interleave.  A tick is of the order of a minute: a probe,   *)
(* with its ten seconds' timeout, takes less.                              *)
(***************************************************************************)
EXTENDS Naturals

CONSTANTS
  Request,     \* concurrent request tasks
  Checker,     \* the health checker's task
  Threshold,   \* CIRCUIT_BREAKER_THRESHOLD
  Cooldown,    \* CIRCUIT_BREAKER_COOLDOWN in ticks
  ProbeEvery,  \* ticks between two probes
  MaxFlips,    \* bound: how often the provider goes down or up
  MaxBad       \* bound: requests that fail although the provider is up

ASSUME BreakerAssumption ==
  /\ Checker \notin Request
  /\ Threshold \in Nat \ {0} /\ Cooldown \in Nat \ {0}
  /\ ProbeEvery \in 1..(Cooldown - 1)
  /\ MaxFlips \in Nat /\ MaxBad \in Nat

VARIABLES
  fails,    \* consecutive_failures, as far as it is ever compared
  low,      \* local_score is below MIN_PROVIDER_SCORE
  tripped,  \* tripped_at: ticks of the cooldown left, or Closed
  pc,       \* where each task is
  wait,     \* ticks since the last probe
  up,       \* the provider answers
  flips,    \* how often it went up or down
  bad,      \* requests that failed although it was up
  shut      \* history: ticks left since the last trip no success followed

vars == <<fails, low, tripped, pc, wait, up, flips, bad, shut>>

Task == Request \cup {Checker}
Closed == Cooldown + 1
Pc == {"idle", "clear", "judge", "send", "won", "raise", "close",
       "lost", "lower", "lower, trip", "trip"}

TypeOK ==
  /\ fails \in 0..Threshold
  /\ low \in BOOLEAN /\ up \in BOOLEAN
  /\ tripped \in 0..Closed
  /\ pc \in [Task -> Pc]
  /\ wait \in 0..ProbeEvery
  /\ flips \in 0..MaxFlips /\ bad \in 0..MaxBad
  /\ shut \in 0..Cooldown

Init ==
  /\ fails = 0 /\ low = FALSE
  /\ tripped = Closed
  /\ pc = [t \in Task |-> "idle"]
  /\ wait = ProbeEvery
  /\ up = TRUE /\ flips = 0 /\ bad = 0
  /\ shut = 0

Goto(t, at) == pc' = [pc EXCEPT ![t] = at]
At(t, at) == pc[t] = at

-----------------------------------------------------------------------------
(* is_available.                                                           *)

(* is_provider_tripped reads the trip time under the read lock.            *)
Ask(t) ==
  /\ t \in Request /\ At(t, "idle")
  /\ \/ tripped = Closed /\ Goto(t, "judge")
     \/ tripped = 0 /\ Goto(t, "clear")
  /\ UNCHANGED <<fails, low, tripped, wait, up, flips, bad, shut>>

(* It removes it under the write lock, whatever it has become.             *)
Clear(t) ==
  /\ At(t, "clear")
  /\ tripped' = Closed
  /\ Goto(t, "judge")
  /\ UNCHANGED <<fails, low, wait, up, flips, bad, shut>>

Available == ~low \/ fails < Threshold

Judge(t) ==
  /\ At(t, "judge")
  /\ Goto(t, IF Available THEN "send" ELSE "idle")
  /\ UNCHANGED <<fails, low, tripped, wait, up, flips, bad, shut>>

(* The health checker asks nobody.                                         *)
Probe(t) ==
  /\ t = Checker /\ At(t, "idle")
  /\ wait = ProbeEvery
  /\ wait' = 0
  /\ Goto(t, "send")
  /\ UNCHANGED <<fails, low, tripped, up, flips, bad, shut>>

(* The call ends.  A request the node rejects counts as its failure.       *)
Answer(t) ==
  /\ At(t, "send")
  /\ \/ Goto(t, IF up THEN "won" ELSE "lost") /\ UNCHANGED bad
     \/ /\ t \in Request /\ up /\ bad < MaxBad
        /\ bad' = bad + 1
        /\ Goto(t, "lost")
  /\ UNCHANGED <<fails, low, tripped, wait, up, flips, shut>>

-----------------------------------------------------------------------------
(* report_success, and the probe that succeeds.                            *)

(* Mutant: the counter is not reset.                                       *)
WonUncounted(t) ==
  /\ At(t, "won")
  /\ Goto(t, "raise")
  /\ UNCHANGED <<fails, low, tripped, wait, up, flips, bad, shut>>

Won(t) ==
  /\ At(t, "won")
  /\ fails' = 0
  /\ Goto(t, "raise")
  /\ UNCHANGED <<low, tripped, wait, up, flips, bad, shut>>

(* A request lifts the score to 67 at least, a probe by 6.  The score is    *)
(* loaded before it is stored, so what others stored meanwhile is lost.    *)
Raise(t) ==
  /\ At(t, "raise")
  /\ low' \in IF t \in Request THEN {FALSE} ELSE BOOLEAN
  /\ Goto(t, "close")
  /\ UNCHANGED <<fails, tripped, wait, up, flips, bad, shut>>

Close(t) ==
  /\ At(t, "close")
  /\ tripped' = Closed
  /\ shut' = 0
  /\ Goto(t, "idle")
  /\ UNCHANGED <<fails, low, wait, up, flips, bad>>

-----------------------------------------------------------------------------
(* report_failure, and the probe that fails.                               *)

Lost(t) ==
  /\ At(t, "lost")
  /\ fails' = IF fails < Threshold THEN fails + 1 ELSE fails
  /\ Goto(t, IF fails' = Threshold THEN "lower, trip" ELSE "lower")
  /\ UNCHANGED <<low, tripped, wait, up, flips, bad, shut>>

(* The score falls by 25 or 15 from what was loaded, stale or not.         *)
Lower(t) ==
  /\ pc[t] \in {"lower", "lower, trip"}
  /\ low' \in BOOLEAN
  /\ Goto(t, IF pc[t] = "lower" THEN "idle" ELSE "trip")
  /\ UNCHANGED <<fails, tripped, wait, up, flips, bad, shut>>

(* Mutant: only a breaker without a trip time is given one.                *)
TripOnce(t) ==
  /\ At(t, "trip")
  /\ tripped' = IF tripped = Closed THEN Cooldown ELSE tripped
  /\ shut' = Cooldown
  /\ Goto(t, "idle")
  /\ UNCHANGED <<fails, low, wait, up, flips, bad>>

Trip(t) ==
  /\ At(t, "trip")
  /\ tripped' = Cooldown
  /\ shut' = Cooldown
  /\ Goto(t, "idle")
  /\ UNCHANGED <<fails, low, wait, up, flips, bad>>

-----------------------------------------------------------------------------
(* The provider goes down or comes back.                                   *)
Flip ==
  /\ flips < MaxFlips
  /\ flips' = flips + 1
  /\ up' = ~up
  /\ UNCHANGED <<fails, low, tripped, pc, wait, bad, shut>>

(* Mutant: the age of a trip is subtracted from its cooldown unchecked.    *)
TickPast ==
  /\ At(Checker, "idle") /\ wait < ProbeEvery
  /\ wait' = wait + 1
  /\ tripped' = IF tripped = Closed THEN Closed
                ELSE IF tripped = 0 THEN Closed + 1 ELSE tripped - 1
  /\ shut' = IF shut = 0 THEN 0 ELSE shut - 1
  /\ UNCHANGED <<fails, low, pc, up, flips, bad>>

(* Time passes; a probe that is due or under way comes first.              *)
Tick ==
  /\ At(Checker, "idle") /\ wait < ProbeEvery
  /\ wait' = wait + 1
  /\ tripped' = IF tripped \in 1..Cooldown THEN tripped - 1 ELSE tripped
  /\ shut' = IF shut = 0 THEN 0 ELSE shut - 1
  /\ UNCHANGED <<fails, low, pc, up, flips, bad>>

Goes(t) ==
  \/ Clear(t) \/ Judge(t) \/ Probe(t) \/ Answer(t)
  \/ Won(t) \/ Raise(t) \/ Close(t) \/ Lost(t) \/ Lower(t) \/ Trip(t)

Next == Tick \/ Flip \/ \E t \in Task : Ask(t) \/ Goes(t)

Spec == Init /\ [][Next]_vars

(* Time goes on, and every task ends what it has begun; nobody has to ask,  *)
(* and the provider need neither fail nor recover.                         *)
FairSpec == Spec /\ WF_vars(Tick) /\ \A t \in Task : WF_vars(Goes(t))

-----------------------------------------------------------------------------
(* Once a provider has gone down for good the requests to it end: probes    *)
(* that fail trip it, and keep the cooldown from running out, although a    *)
(* task that saw an old trip elapse may remove a new one.                  *)
DownDrains == <>[]~up => <>[](\A t \in Request : ~At(t, "send"))

(* Once it is up for good it is available for good, whatever reports of     *)
(* earlier failures were still under way and even if no request asks.      *)
HealthyRecovers == <>[]up => <>[](tripped = Closed /\ Available)

(* What healthy_providers says of itself: it returns the available          *)
(* providers "skipping tripped providers whose cooldown hasn't elapsed".    *)
OpenIsSkipped ==
  [][\A t \in Request : At(t, "idle") /\ pc'[t] = "judge" => shut = 0]_vars
=============================================================================
