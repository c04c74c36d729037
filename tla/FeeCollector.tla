---------------------------- MODULE FeeCollector ----------------------------
(***************************************************************************)
(* The fee collector of core/src/fee_collector.rs on several nodes: a cycle *)
(* that has got the lease of LeaderLock asks an RPC node for the latest     *)
(* ledger, replays the ledgers missed since the last one it collected, and  *)
(* upserts a sample of each into the FeeStore all nodes share.             *)
(*                                                                         *)
(* A cycle is the "lead" stage of LeaderLock: the lease is looked at once,  *)
(* before it, and never during it.  main.rs starts no keepalive for this    *)
(* lock and never releases it, so a shutdown is a Crash to it.             *)
(***************************************************************************)
EXTENDS LeaderLock

CONSTANTS
  MaxLedger,   \* bound: ledgers closed during a run
  MaxLag,      \* bound: how many ledgers an RPC node is behind
  MaxHorizon   \* bound: how far the retention gets

ASSUME CollectorAssumption ==
  /\ MaxLedger \in Nat \ {0} /\ MaxLag \in Nat /\ MaxHorizon \in Nat
  /\ Keepalive = {}

VARIABLES
  head,      \* the newest ledger of the network
  store,     \* ledger_fee_samples: the ledgers that have a row
  horizon,   \* the retention has deleted what was below it
  last,      \* each node's last_collected_sequence
  cycle,     \* the stage of each node's cycle
  from,      \* history: the ledger each node's memory starts at, 0 for none
  skipped    \* history: ledgers a replay has given up

feevars == <<head, store, horizon, last, cycle, from, skipped>>
allvars == <<lockvars, feevars>>
leasevars == <<owner, left, deadline, keep, age>>

Ledger == 1..MaxLedger

(* latest is what the RPC node reported, seq the next ledger to fetch.     *)
NoCycle == [at |-> "none", latest |-> 0, seq |-> 0]
Cycle == [at : {"none", "load", "replay", "latest"},
          latest : 0..MaxLedger, seq : 0..MaxLedger]

CollectorTypeOK ==
  /\ TypeOK
  /\ head \in Ledger
  /\ store \subseteq Ledger
  /\ horizon \in 0..MaxLedger
  /\ last \in [Node -> 0..MaxLedger]
  /\ cycle \in [Node -> Cycle]
  /\ from \in [Node -> 0..MaxLedger]
  /\ skipped \subseteq Ledger

CollectorInit ==
  /\ Init
  /\ head = 1
  /\ store = {}
  /\ horizon = 0
  /\ last = [n \in Node |-> 0]
  /\ cycle = [n \in Node |-> NoCycle]
  /\ from = [n \in Node |-> 0]
  /\ skipped = {}

(* The node's cycle goes on with c, or ends: then the loop waits again.    *)
Proceed(n, c) ==
  /\ cycle' = [cycle EXCEPT ![n] = c]
  /\ Goto(n, IF c = NoCycle THEN "idle" ELSE "lead")
  /\ UNCHANGED leasevars

At(n, stage) == Leading(n) /\ cycle[n].at = stage

-----------------------------------------------------------------------------
(* get_latest_ledger_sequence: the first healthy provider answers, and may  *)
(* be behind; with no provider or no answer the cycle ends.                *)
GetLatest(n) ==
  /\ At(n, "none")
  /\ \/ /\ \E l \in Ledger :
             /\ l <= head /\ head <= l + MaxLag
             /\ Proceed(n, [at |-> "load", latest |-> l, seq |-> 0])
        /\ UNCHANGED faults
     \/ Fault /\ Proceed(n, NoCycle)
  /\ UNCHANGED <<head, store, horizon, last, from, skipped>>

(* The rest of the cycle once last_collected is l.                         *)
(* Mutant: the replay begins after the first ledger missed.                *)
CourseLate(l, latest) ==
  CASE latest <= l -> NoCycle
    [] l > 0 /\ latest > l + 1 ->
         [at |-> IF latest > l + 2 THEN "replay" ELSE "latest",
          latest |-> latest, seq |-> IF latest > l + 2 THEN l + 2 ELSE latest]
    [] OTHER -> [at |-> "latest", latest |-> latest, seq |-> latest]

(* Mutant: a provider that is behind is believed.                          *)
CourseBack(l, latest) ==
  IF l > 0 /\ latest > l + 1
    THEN [at |-> "replay", latest |-> latest, seq |-> l + 1]
    ELSE [at |-> "latest", latest |-> latest, seq |-> latest]

(* Mutant: a cycle waits until it has three ledgers to collect.            *)
CourseLazy(l, latest) ==
  CASE latest <= l + 2 -> NoCycle
    [] l > 0 -> [at |-> "replay", latest |-> latest, seq |-> l + 1]
    [] OTHER -> [at |-> "latest", latest |-> latest, seq |-> latest]

Course(l, latest) ==
  CASE latest <= l -> NoCycle
    [] l > 0 /\ latest > l + 1 ->
         [at |-> "replay", latest |-> latest, seq |-> l + 1]
    [] OTHER -> [at |-> "latest", latest |-> latest, seq |-> latest]

(* With nothing in memory the store is asked; an error, like an empty       *)
(* table, leaves 0 and so no replay.                                       *)
Recalled(n, l) ==
  \/ last[n] # 0 /\ l = last[n] /\ UNCHANGED faults
  \/ last[n] = 0 /\ l \in store /\ (\A s \in store : s <= l) /\ UNCHANGED faults
  \/ last[n] = 0 /\ l = 0 /\ IF store = {} THEN UNCHANGED faults ELSE Fault

Load(n) ==
  /\ At(n, "load")
  /\ \E l \in 0..MaxLedger :
       /\ Recalled(n, l)
       /\ last' = [last EXCEPT ![n] = l]
       /\ from' = [from EXCEPT ![n] = IF last[n] = 0 THEN l ELSE @]
       /\ Proceed(n, Course(l, cycle[n].latest))
  /\ UNCHANGED <<head, store, horizon, skipped>>

(* upsert_ledger_sample, and the sequence is remembered.                   *)
Upsert(n, l) ==
  /\ store' = store \cup {l}
  /\ last' = [last EXCEPT ![n] = l]

(* What follows a ledger of the replay, and its failure.                   *)
AfterReplay(c) ==
  IF c.seq + 1 = c.latest
    THEN [c EXCEPT !.at = "latest", !.seq = c.latest]
    ELSE [c EXCEPT !.seq = @ + 1]

ReplayOne(n) ==
  /\ At(n, "replay")
  /\ Upsert(n, cycle[n].seq)
  /\ Proceed(n, AfterReplay(cycle[n]))
  /\ UNCHANGED <<head, horizon, from, skipped, faults>>

(* A fetch or an upsert fails: the loop is left, the cycle is not.         *)
ReplayFails(n) ==
  LET c == cycle[n] IN
  /\ At(n, "replay")
  /\ Fault
  /\ skipped' = skipped \cup c.seq..(c.latest - 1)
  /\ Proceed(n, [c EXCEPT !.at = "latest", !.seq = c.latest])
  /\ UNCHANGED <<head, store, horizon, last, from>>

CollectLatest(n) ==
  /\ At(n, "latest")
  /\ \/ /\ Upsert(n, cycle[n].latest)
        /\ from' = [from EXCEPT ![n] = IF @ = 0 THEN cycle[n].latest ELSE @]
        /\ UNCHANGED faults
     \/ Fault /\ UNCHANGED <<store, last, from>>
  /\ Proceed(n, NoCycle)
  /\ UNCHANGED <<head, horizon, skipped>>

Collects(n) ==
  GetLatest(n) \/ Load(n) \/ ReplayOne(n) \/ ReplayFails(n) \/ CollectLatest(n)

-----------------------------------------------------------------------------
(* The process ends and its memory with it.                                *)
CollectorCrash(n) ==
  /\ Crash(n)
  /\ last' = [last EXCEPT ![n] = 0]
  /\ from' = [from EXCEPT ![n] = 0]
  /\ cycle' = [cycle EXCEPT ![n] = NoCycle]
  /\ UNCHANGED <<head, store, horizon, skipped>>

CloseLedger ==
  /\ head < MaxLedger
  /\ head' = head + 1
  /\ UNCHANGED <<lockvars, store, horizon, last, cycle, from, skipped>>

(* cleanup_old_samples, which every node runs by the hour; without an old   *)
(* sample it does nothing.                                                 *)
Retention ==
  \E l \in Ledger :
    /\ horizon < l /\ l <= head /\ l <= MaxHorizon
    /\ \E s \in store : s < l
    /\ horizon' = l
    /\ store' = {s \in store : s >= l}
    /\ UNCHANGED <<lockvars, head, last, cycle, from, skipped>>

LockOnly ==
  /\ Tick \/ \E n \in Node : CallStep(n) \/ CallFails(n) \/ Start(n)
  /\ UNCHANGED feevars

CollectorNext ==
  \/ LockOnly \/ CloseLedger \/ Retention
  \/ \E n \in Node : Collects(n) \/ CollectorCrash(n)

CollectorSpec == CollectorInit /\ [][CollectorNext]_allvars

(* Time and the nodes' loops go on; the network closes ledgers.            *)
CollectorFairSpec ==
  /\ CollectorSpec
  /\ WF_allvars(Tick /\ UNCHANGED feevars)
  /\ WF_allvars(CloseLedger)
  /\ \A n \in Node :
       /\ WF_allvars((CallStep(n) \/ Start(n)) /\ UNCHANGED feevars)
       /\ WF_allvars(Collects(n))

-----------------------------------------------------------------------------
(* Within a node's run nothing is missing between the ledger its memory     *)
(* started at and the last one it collected, but what a replay that failed  *)
(* has skipped and what the retention has deleted - whatever the other      *)
(* nodes have collected meanwhile.                                         *)
NothingMissed ==
  \A n \in Node : \A l \in Ledger :
    from[n] <= l /\ l <= last[n] /\ last[n] > 0 =>
      l \in store \cup skipped \/ l < horizon

(* The watermark in memory never goes back while the process lives, neither *)
(* for a provider that is behind nor for a replay.                         *)
WatermarkAdvances ==
  [][\A n \in Node : last'[n] < last[n] => pc'[n] = "off"]_allvars

(* The ledger the furthest provider has seen is collected in the end,       *)
(* whoever leads and whatever crashes on the way: a lease that nobody can   *)
(* get, or a replay that ends its cycle, would lose it.                    *)
HeadCollected ==
  <>(\/ \E l \in store : l + MaxLag >= MaxLedger
     \/ MaxLedger < horizon + MaxLag)
=============================================================================
