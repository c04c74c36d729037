---------------------------- MODULE ProviderGossip ----------------------------
(***************************************************************************)
(* The registries of core/src/rpc_provider.rs on several nodes, which tell  *)
(* each other about one provider they may advertise.  A node posts what it  *)
(* holds to be healthy, merges what the answer says, and a snapshot may be  *)
(* late or lost.  What a node heard counts for a while from the time the    *)
(* teller built its snapshot; a node that advertises only what it heard      *)
(* gives it a new time.                                                     *)
(*                                                                         *)
(* A tick is the probe interval.  The nodes' clocks agree.  The score is    *)
(* left out: a provider whose score is too low is advertised if others hold *)
(* it healthy, and otherwise may or may not be.  How one node's breaker is  *)
(* worked by tasks that interleave is ProviderBreaker.                      *)
(***************************************************************************)
EXTENDS Naturals

CONSTANTS
  Nodes,
  TripAfter,    \* CIRCUIT_BREAKER_THRESHOLD
  TripFor,      \* CIRCUIT_BREAKER_COOLDOWN in ticks
  HeardFor,     \* REMOTE_OBSERVATION_TTL in ticks
  MaxOutages    \* bound: how often the provider goes down or up

ASSUME GossipAssumption ==
  /\ TripAfter \in Nat \ {0} /\ TripFor \in Nat \ {0, 1}
  /\ HeardFor \in Nat \ {0} /\ MaxOutages \in Nat

VARIABLES
  known,     \* nodes whose registry has the provider
  failures,  \* per node: consecutive_failures, as far as they are compared
  breaker,   \* per node: tripped_at, as ticks left of the cooldown, or Untripped
  heard,     \* remote_observations that say healthy: ticks they still count
  mail,      \* per node: the snapshot on its way in the round it started
  probed,    \* nodes that have probed in this tick
  alive,     \* the provider answers
  outages    \* how often that changed

gossipVars == <<known, failures, breaker, heard, mail, probed, alive, outages>>

Untripped == TripFor + 1

\* A snapshot that names the provider, and how long that counts; one that does
\* not; and none under way.
Named == [leg : {"post", "answer"}, counts : 0..HeardFor]
Unnamed == [leg : {"post", "answer"}]
Merged == [leg |-> "merged"]  \* the peer has it and prepares its answer
NoMail == [leg |-> "none"]
Names(s) == "counts" \in DOMAIN s

GossipTypeOK ==
  /\ known \subseteq Nodes /\ probed \subseteq Nodes
  /\ failures \in [Nodes -> 0..TripAfter]
  /\ breaker \in [Nodes -> 0..Untripped]
  /\ heard \in [Nodes -> [Nodes -> 0..HeardFor]]
  /\ mail \in [Nodes -> [Nodes -> Named \cup Unnamed \cup {Merged, NoMail}]]
  /\ alive \in BOOLEAN /\ outages \in 0..MaxOutages

GossipInit ==
  /\ known \in SUBSET Nodes
  /\ failures = [n \in Nodes |-> 0]
  /\ breaker = [n \in Nodes |-> Untripped]
  /\ heard = [n \in Nodes |-> [m \in Nodes |-> 0]]
  /\ mail = [n \in Nodes |-> [m \in Nodes |-> NoMail]]
  /\ probed = {} /\ alive = TRUE /\ outages = 0

-----------------------------------------------------------------------------
\* is_provider_tripped; that it forgets a trip that is over shows nowhere else.
TrippedAt(n) == breaker[n] \in 1..TripFor

HeardHealthy(n) == \E m \in Nodes : heard[n][m] > 0

\* build_provider_report's healthy, where the score does not forbid it.
MayAdvertise(n) ==
  /\ n \in known /\ ~ TrippedAt(n)
  /\ failures[n] < TripAfter \/ HeardHealthy(n)

\* registry_snapshot as n sends it, stamped with the time it is built.
Snapshots(n, leg) ==
  {s \in {[leg |-> leg, counts |-> HeardFor], [leg |-> leg]} :
     IF Names(s) THEN MayAdvertise(n) ELSE ~ (MayAdvertise(n) /\ HeardHealthy(n))}

\* merge_snapshot of s by n: a provider it did not have is inserted, and the
\* observation replaces what the teller said before, even something later.
MergeSnapshot(n, s, teller) ==
  IF Names(s)
  THEN /\ known' = known \cup {n}
       /\ heard' = [heard EXCEPT ![n][teller] = s.counts]
  ELSE UNCHANGED <<known, heard>>

\* What a call or a probe that succeeded leaves.
Succeeded(n) ==
  /\ failures' = [failures EXCEPT ![n] = 0]
  /\ breaker' = [breaker EXCEPT ![n] = Untripped]

Counted(n) ==
  failures' = [failures EXCEPT ![n] = IF @ < TripAfter THEN @ + 1 ELSE @]

(* Mutant: the breaker trips at the third failure and not at later ones.  *)
FailedTripsOnce(n) ==
  /\ Counted(n)
  /\ breaker' = [breaker EXCEPT ![n] = IF failures[n] = TripAfter - 1
                                       THEN TripFor ELSE @]

\* What one that failed leaves: the trip time moves on with every failure.
FailedCall(n) ==
  /\ Counted(n)
  /\ breaker' = [breaker EXCEPT ![n] = IF failures[n] + 1 >= TripAfter
                                       THEN TripFor ELSE @]

-----------------------------------------------------------------------------
\* run_health_checks, once a tick.
ProbeProvider(n) ==
  /\ n \in known \ probed
  /\ probed' = probed \cup {n}
  /\ IF alive THEN Succeeded(n) ELSE FailedCall(n)
  /\ UNCHANGED <<known, heard, mail, alive, outages>>

\* report_success and report_failure of a request.
CallEnds(n) ==
  /\ n \in known /\ ~ TrippedAt(n)
  /\ IF alive THEN Succeeded(n) ELSE FailedCall(n)
  /\ UNCHANGED <<known, heard, mail, probed, alive, outages>>

\* run_gossip_round takes one snapshot for all peers.  It posts to them in turn:
\* a post still to be made is one that takes its time.
GossipRound(n) ==
  /\ \A m \in Nodes : mail[n][m] = NoMail
  /\ \E s \in Snapshots(n, "post") :
       mail' = [mail EXCEPT ![n] = [m \in Nodes |-> IF m = n THEN NoMail ELSE s]]
  /\ UNCHANGED <<known, failures, breaker, heard, probed, alive, outages>>

\* registry_gossip at the peer: it merges the snapshot,
RegistryGossip(n, m) ==
  /\ mail[n][m].leg = "post"
  /\ MergeSnapshot(m, mail[n][m], n)
  /\ mail' = [mail EXCEPT ![n][m] = Merged]
  /\ UNCHANGED <<failures, breaker, probed, alive, outages>>

\* and answers with one of its own.
GossipAnswer(n, m) ==
  /\ mail[n][m] = Merged
  /\ \E s \in Snapshots(m, "answer") : mail' = [mail EXCEPT ![n][m] = s]
  /\ UNCHANGED <<known, failures, breaker, heard, probed, alive, outages>>

\* The answer is merged by who asked.
MergeAnswer(n, m) ==
  /\ mail[n][m].leg = "answer"
  /\ MergeSnapshot(n, mail[n][m], m)
  /\ mail' = [mail EXCEPT ![n][m] = NoMail]
  /\ UNCHANGED <<failures, breaker, probed, alive, outages>>

\* A post or its answer is lost.
GossipLost(n, m) ==
  /\ mail[n][m] # NoMail
  /\ mail' = [mail EXCEPT ![n][m] = NoMail]
  /\ UNCHANGED <<known, failures, breaker, heard, probed, alive, outages>>

Outage ==
  /\ outages < MaxOutages
  /\ outages' = outages + 1 /\ alive' = ~ alive
  /\ UNCHANGED <<known, failures, breaker, heard, mail, probed>>

\* A tick passes when every node has probed.
GossipTick ==
  /\ known \subseteq probed
  /\ probed' = {}
  /\ breaker' = [n \in Nodes |-> IF TrippedAt(n) THEN breaker[n] - 1 ELSE breaker[n]]
  /\ heard' = [n \in Nodes |-> [m \in Nodes |->
                 IF heard[n][m] = 0 THEN 0 ELSE heard[n][m] - 1]]
  /\ mail' = [n \in Nodes |-> [m \in Nodes |->
                LET s == mail[n][m]
                IN IF Names(s) /\ s.counts > 0 THEN [s EXCEPT !.counts = @ - 1] ELSE s]]
  /\ UNCHANGED <<known, failures, alive, outages>>

Registry(n) ==
  \/ ProbeProvider(n) \/ CallEnds(n) \/ GossipRound(n)
  \/ \E m \in Nodes : \/ RegistryGossip(n, m) \/ GossipAnswer(n, m)
                      \/ MergeAnswer(n, m) \/ GossipLost(n, m)

GossipNext == Outage \/ GossipTick \/ \E n \in Nodes : Registry(n)

GossipSpec == GossipInit /\ [][GossipNext]_gossipVars

\* The probes go on and so does time; nobody has to gossip.
GossipFairness ==
  /\ WF_gossipVars(GossipTick)
  /\ \A n \in Nodes : WF_gossipVars(ProbeProvider(n))

-----------------------------------------------------------------------------
\* Once a provider is down for good, no node advertises it for ever, although
\* each may take another's word for it and passes that on as new: every probe
\* that fails puts the end of the cooldown off.
RumourDies == <>[]~ alive => <>[](\A n \in Nodes : ~ MayAdvertise(n))
=============================================================================
