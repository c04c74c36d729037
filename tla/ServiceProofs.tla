--------------------------- MODULE ServiceProofs ----------------------------
(***************************************************************************)
(* Proofs about the services that run beside the queue, for any number of  *)
(* tasks, nodes, events and subscribers: the circuit breaker, the gossip   *)
(* between instances and the delivery of webhooks.                         *)
(***************************************************************************)
EXTENDS MCServices, FiniteSetTheorems, TLAPS

-----------------------------------------------------------------------------
(* The circuit breaker                                                     *)

(* The breaker as it is built.                                             *)
LEMMA BreakerStart == ASSUME Init PROVE TypeOK
<1>1. Threshold \in Nat /\ Cooldown \in Nat /\ ProbeEvery \in Nat /\ MaxFlips \in Nat /\ MaxBad \in Nat
  BY BreakerAssumption
<1>2. "idle" \in Pc
  BY DEF Pc
<1>3. pc \in [Task -> Pc]
  BY <1>2 DEF Init
<1>4. /\ fails = 0 /\ low = FALSE /\ tripped = Cooldown + 1 /\ wait = ProbeEvery
      /\ up = TRUE /\ flips = 0 /\ bad = 0 /\ shut = 0
  BY DEF Init, Closed
<1>5. /\ fails \in 0..Threshold /\ tripped \in 0..Cooldown + 1 /\ wait \in 0..ProbeEvery
      /\ flips \in 0..MaxFlips /\ bad \in 0..MaxBad /\ shut \in 0..Cooldown
  BY <1>1, <1>4
<1> QED  BY <1>3, <1>4, <1>5 DEF TypeOK, Closed

(* No step takes the breaker's counters and clocks out of their types.     *)
LEMMA BreakerKeeps == ASSUME TypeOK, [Next]_vars PROVE TypeOK'
<1>0. /\ Threshold \in Nat \ {0} /\ Cooldown \in Nat \ {0} /\ ProbeEvery \in Nat
      /\ MaxFlips \in Nat /\ MaxBad \in Nat
  BY BreakerAssumption
<1>1. /\ fails \in 0..Threshold /\ low \in BOOLEAN /\ up \in BOOLEAN
      /\ tripped \in 0..Closed /\ pc \in [Task -> Pc] /\ wait \in 0..ProbeEvery
      /\ flips \in 0..MaxFlips /\ bad \in 0..MaxBad /\ shut \in 0..Cooldown
      /\ Closed = Cooldown + 1
  BY DEF TypeOK, Closed
<1>2. CASE Tick
  <2>1. tripped' \in 0..Closed /\ wait' \in 0..ProbeEvery /\ shut' \in 0..Cooldown
        /\ UNCHANGED <<fails, low, pc, up, flips, bad>>
    BY <1>0, <1>1, <1>2 DEF Tick
  <2> QED  BY <1>1, <2>1 DEF TypeOK, Closed
<1>3. CASE Flip
  <2>1. flips' \in 0..MaxFlips /\ up' \in BOOLEAN
    <3>1. (~ up) \in BOOLEAN
      OBVIOUS
    <3> QED  BY <1>0, <1>1, <1>3, <3>1 DEF Flip
  <2> QED  BY <1>1, <1>3, <2>1 DEF Flip, TypeOK, Closed
<1>4. ASSUME NEW t \in Task, Ask(t) \/ Goes(t) PROVE TypeOK'
  <2>1. \A at \in Pc : Goto(t, at) => pc' \in [Task -> Pc]
    BY <1>1 DEF Goto
  <2>2. /\ {"idle", "clear", "judge", "send", "won", "raise", "close", "lost", "lower",
            "lower, trip", "trip"} \subseteq Pc
    BY DEF Pc
  <2>3. CASE Ask(t)
    <3>1. pc' \in [Task -> Pc]
      BY <2>1, <2>2, <2>3 DEF Ask
    <3> QED  BY <1>1, <2>3, <3>1 DEF Ask, TypeOK, Closed
  <2>4. CASE Clear(t)
    <3>1. pc' \in [Task -> Pc]
      BY <2>1, <2>2, <2>4 DEF Clear
    <3>2. tripped' = Closed
      BY <2>4 DEF Clear
    <3>3. tripped' \in 0..Closed
      BY <1>0, <1>1, <3>2
    <3> QED  BY <1>1, <2>4, <3>1, <3>3 DEF Clear, TypeOK, Closed
  <2>5. CASE Judge(t)
    <3>1. pc' \in [Task -> Pc]
      BY <2>1, <2>2, <2>5 DEF Judge
    <3> QED  BY <1>1, <2>5, <3>1 DEF Judge, TypeOK, Closed
  <2>6. CASE Probe(t)
    <3>1. pc' \in [Task -> Pc]
      BY <2>1, <2>2, <2>6 DEF Probe
    <3>2. wait' = 0
      BY <2>6 DEF Probe
    <3>3. wait' \in 0..ProbeEvery
      BY <1>0, <1>1, <3>2
    <3> QED  BY <1>1, <2>6, <3>1, <3>3 DEF Probe, TypeOK, Closed
  <2>7. CASE Answer(t)
    <3>1. pc' \in [Task -> Pc]
      BY <2>1, <2>2, <2>7 DEF Answer
    <3>3. bad' \in 0..MaxBad
      <4>1. CASE bad' = bad
        BY <1>1, <4>1
      <4>2. CASE bad' # bad
        <5>1. bad < MaxBad /\ bad' = bad + 1
          BY <2>7, <4>2 DEF Answer
        <5> QED  BY <1>0, <1>1, <5>1
      <4> QED  BY <4>1, <4>2
    <3> QED  BY <1>1, <2>7, <3>1, <3>3 DEF Answer, TypeOK, Closed
  <2>8. CASE Won(t)
    <3>1. pc' \in [Task -> Pc]
      BY <2>1, <2>2, <2>8 DEF Won
    <3>2. fails' = 0
      BY <2>8 DEF Won
    <3>3. fails' \in 0..Threshold
      BY <1>0, <1>1, <3>2
    <3> QED  BY <1>1, <2>8, <3>1, <3>3 DEF Won, TypeOK, Closed
  <2>9. CASE Raise(t)
    <3>1. pc' \in [Task -> Pc] /\ low' \in BOOLEAN
      BY <2>1, <2>2, <2>9 DEF Raise
    <3> QED  BY <1>1, <2>9, <3>1 DEF Raise, TypeOK, Closed
  <2>10. CASE Close(t)
    <3>1. pc' \in [Task -> Pc]
      BY <2>1, <2>2, <2>10 DEF Close
    <3>2. tripped' = Closed /\ shut' = 0
      BY <2>10 DEF Close
    <3>3. tripped' \in 0..Closed /\ shut' \in 0..Cooldown
      BY <1>0, <1>1, <3>2
    <3> QED  BY <1>1, <2>10, <3>1, <3>3 DEF Close, TypeOK, Closed
  <2>11. CASE Lost(t)
    <3>1. pc' \in [Task -> Pc]
      BY <2>1, <2>2, <2>11 DEF Lost
    <3>3. fails' = IF fails < Threshold THEN fails + 1 ELSE fails
      BY <2>11 DEF Lost
    <3>2. fails' \in 0..Threshold
      BY ONLY <1>0, <1>1, <3>3
    <3> QED  BY <1>1, <2>11, <3>1, <3>2 DEF Lost, TypeOK, Closed
  <2>12. CASE Lower(t)
    <3>1. pc' \in [Task -> Pc] /\ low' \in BOOLEAN
      BY <2>1, <2>2, <2>12 DEF Lower
    <3> QED  BY <1>1, <2>12, <3>1 DEF Lower, TypeOK, Closed
  <2>13. CASE Trip(t)
    <3>1. pc' \in [Task -> Pc]
      BY <2>1, <2>2, <2>13 DEF Trip
    <3>2. tripped' = Cooldown /\ shut' = Cooldown
      BY <2>13 DEF Trip
    <3>3. tripped' \in 0..Closed /\ shut' \in 0..Cooldown
      BY <1>0, <1>1, <3>2
    <3> QED  BY <1>1, <2>13, <3>1, <3>3 DEF Trip, TypeOK, Closed
  <2> QED  BY <1>4, <2>3, <2>4, <2>5, <2>6, <2>7, <2>8, <2>9, <2>10, <2>11, <2>12, <2>13 DEF Goes
<1>5. CASE UNCHANGED vars
  BY <1>1, <1>5 DEF vars, TypeOK, Closed
<1> QED  BY <1>2, <1>3, <1>4, <1>5 DEF Next

-----------------------------------------------------------------------------
(* The gossip                                                              *)

Mail == Named \cup Unnamed \cup {Merged, NoMail}

(* What a node sends and what it merges is mail.                           *)
LEMMA MailTyped ==
  /\ \A s \in Mail : Names(s) => s \in Named /\ s.counts \in 0..HeardFor
  /\ \A n, leg : leg \in {"post", "answer"} => Snapshots(n, leg) \subseteq Mail
  /\ Merged \in Mail /\ NoMail \in Mail
<1>0. HeardFor \in Nat
  BY GossipAssumption
<1>1. ASSUME NEW s \in Mail, Names(s) PROVE s \in Named /\ s.counts \in 0..HeardFor
  <2>1. DOMAIN Merged = {"leg"} /\ DOMAIN NoMail = {"leg"}
    BY DEF Merged, NoMail
  <2>2. s \in Unnamed => DOMAIN s = {"leg"}
    BY DEF Unnamed
  <2>3. s \in Named
    BY <1>1, <2>1, <2>2 DEF Mail, Names
  <2> QED  BY <2>3 DEF Named
<1>2. ASSUME NEW n, NEW leg \in {"post", "answer"} PROVE Snapshots(n, leg) \subseteq Mail
  <2>1. [leg |-> leg, counts |-> HeardFor] \in Named
    BY <1>0 DEF Named
  <2>2. [leg |-> leg] \in Unnamed
    BY DEF Unnamed
  <2> QED  BY <2>1, <2>2 DEF Snapshots, Mail
<1> QED  BY <1>1, <1>2 DEF Mail

(* The nodes as they start.                                                *)
LEMMA GossipStart == ASSUME GossipInit PROVE GossipTypeOK
<1>1. TripAfter \in Nat /\ TripFor \in Nat /\ HeardFor \in Nat /\ MaxOutages \in Nat
  BY GossipAssumption
<1> QED  BY <1>1 DEF GossipInit, GossipTypeOK, Untripped

(* No message, whenever it arrives, takes a node's view out of its type.   *)
LEMMA GossipKeeps == ASSUME GossipTypeOK, [GossipNext]_gossipVars PROVE GossipTypeOK'
<1>0. TripAfter \in Nat \ {0} /\ TripFor \in Nat \ {0} /\ HeardFor \in Nat \ {0} /\ MaxOutages \in Nat
  BY GossipAssumption
<1>1. /\ known \subseteq Nodes /\ probed \subseteq Nodes
      /\ failures \in [Nodes -> 0..TripAfter]
      /\ breaker \in [Nodes -> 0..Untripped] /\ Untripped = TripFor + 1
      /\ heard \in [Nodes -> [Nodes -> 0..HeardFor]]
      /\ mail \in [Nodes -> [Nodes -> Mail]]
      /\ alive \in BOOLEAN /\ outages \in 0..MaxOutages
  BY DEF GossipTypeOK, Mail, Untripped
<1> DEFINE Typed == /\ known' \subseteq Nodes /\ probed' \subseteq Nodes
                    /\ failures' \in [Nodes -> 0..TripAfter]
                    /\ breaker' \in [Nodes -> 0..Untripped]
                    /\ heard' \in [Nodes -> [Nodes -> 0..HeardFor]]
                    /\ mail' \in [Nodes -> [Nodes -> Mail]]
                    /\ alive' \in BOOLEAN /\ outages' \in 0..MaxOutages
<1>2. Typed => GossipTypeOK'
  BY DEF GossipTypeOK, Mail, Untripped
<1>3. ASSUME NEW n \in Nodes, IF alive THEN Succeeded(n) ELSE FailedCall(n)
      PROVE  failures' \in [Nodes -> 0..TripAfter] /\ breaker' \in [Nodes -> 0..Untripped]
  <2>1. CASE alive
    BY <1>0, <1>1, <1>3, <2>1 DEF Succeeded
  <2>2. CASE ~ alive
    <3>1. failures[n] \in 0..TripAfter
      BY <1>1
    <3>2. (IF failures[n] < TripAfter THEN failures[n] + 1 ELSE failures[n]) \in 0..TripAfter
      BY <1>0, <3>1
    <3>3. failures' \in [Nodes -> 0..TripAfter]
      BY <1>1, <1>3, <2>2, <3>2 DEF FailedCall, Counted
    <3>4. breaker' \in [Nodes -> 0..Untripped]
      BY <1>0, <1>1, <1>3, <2>2 DEF FailedCall
    <3> QED  BY <3>3, <3>4
  <2> QED  BY <2>1, <2>2
<1>4. ASSUME NEW n \in Nodes, NEW s \in Mail, NEW m \in Nodes, MergeSnapshot(n, s, m)
      PROVE  known' \subseteq Nodes /\ heard' \in [Nodes -> [Nodes -> 0..HeardFor]]
  <2>1. CASE Names(s)
    <3>1. s.counts \in 0..HeardFor
      BY <2>1, MailTyped
    <3> QED  BY <1>1, <1>4, <2>1, <3>1 DEF MergeSnapshot
  <2>2. CASE ~ Names(s)
    BY <1>1, <1>4, <2>2 DEF MergeSnapshot
  <2> QED  BY <2>1, <2>2
<1>5. ASSUME NEW n \in Nodes, NEW m \in Nodes, NEW s \in Mail, mail' = [mail EXCEPT ![n][m] = s]
      PROVE  mail' \in [Nodes -> [Nodes -> Mail]]
  BY <1>1, <1>5
<1>6. \A n \in Nodes, m \in Nodes : mail[n][m] \in Mail
  BY <1>1
<1>7. CASE Outage
  <2>1. (~ alive) \in BOOLEAN
    OBVIOUS
  <2>2. Typed
    BY <1>0, <1>1, <1>7, <2>1 DEF Outage
  <2> QED  BY <1>2, <2>2
<1>8. CASE GossipTick
  <2>1. breaker' \in [Nodes -> 0..Untripped]
    BY <1>0, <1>1, <1>8 DEF GossipTick, TrippedAt
  <2>2. heard' \in [Nodes -> [Nodes -> 0..HeardFor]]
    <3>1. ASSUME NEW n \in Nodes, NEW m \in Nodes
          PROVE  (IF heard[n][m] = 0 THEN 0 ELSE heard[n][m] - 1) \in 0..HeardFor
      <4>1. heard[n][m] \in 0..HeardFor
        BY <1>1
      <4> QED  BY <1>0, <4>1
    <3> QED  BY <1>8, <3>1 DEF GossipTick
  <2>3. mail' \in [Nodes -> [Nodes -> Mail]]
    <3> DEFINE aged(s) == IF Names(s) /\ s.counts > 0 THEN [s EXCEPT !.counts = @ - 1] ELSE s
    <3>1. ASSUME NEW s \in Mail PROVE aged(s) \in Mail
      <4>1. CASE Names(s) /\ s.counts > 0
        <5>1. s \in Named /\ s.counts \in 1..HeardFor /\ s.leg \in {"post", "answer"}
              /\ s = [leg |-> s.leg, counts |-> s.counts]
          BY <1>0, <4>1, MailTyped DEF Named
        <5>2. aged(s) = [leg |-> s.leg, counts |-> s.counts - 1]
          BY <4>1, <5>1
        <5>3. s.counts - 1 \in 0..HeardFor
          BY <1>0, <5>1
        <5> HIDE DEF aged
        <5> QED  BY <5>1, <5>2, <5>3 DEF Mail, Named
      <4>2. CASE ~ (Names(s) /\ s.counts > 0)
        BY <4>2
      <4> QED  BY <4>1, <4>2
    <3>2. mail' = [n \in Nodes |-> [m \in Nodes |-> aged(mail[n][m])]]
      BY <1>8 DEF GossipTick
    <3> HIDE DEF aged
    <3> QED  BY <1>6, <3>1, <3>2
  <2>4. Typed
    BY <1>1, <1>8, <2>1, <2>2, <2>3 DEF GossipTick
  <2> QED  BY <1>2, <2>4
<1>9. ASSUME NEW n \in Nodes, ProbeProvider(n) \/ CallEnds(n) PROVE GossipTypeOK'
  <2>1. Typed
    BY <1>1, <1>3, <1>9 DEF ProbeProvider, CallEnds
  <2> QED  BY <1>2, <2>1
<1>10. ASSUME NEW n \in Nodes, GossipRound(n) PROVE GossipTypeOK'
  <2>1. PICK s \in Snapshots(n, "post") :
          mail' = [mail EXCEPT ![n] = [m \in Nodes |-> IF m = n THEN NoMail ELSE s]]
    BY <1>10 DEF GossipRound
  <2>2. s \in Mail /\ NoMail \in Mail
    BY MailTyped
  <2>3. mail' \in [Nodes -> [Nodes -> Mail]]
    BY <1>1, <2>1, <2>2
  <2>4. Typed
    BY <1>1, <1>10, <2>3 DEF GossipRound
  <2> QED  BY <1>2, <2>4
<1>11. ASSUME NEW n \in Nodes, NEW m \in Nodes, RegistryGossip(n, m) \/ MergeAnswer(n, m)
       PROVE  GossipTypeOK'
  <2>1. mail' \in [Nodes -> [Nodes -> Mail]]
    BY <1>5, <1>11, MailTyped DEF RegistryGossip, MergeAnswer
  <2>2. known' \subseteq Nodes /\ heard' \in [Nodes -> [Nodes -> 0..HeardFor]]
    BY <1>4, <1>6, <1>11 DEF RegistryGossip, MergeAnswer
  <2>3. Typed
    BY <1>1, <1>11, <2>1, <2>2 DEF RegistryGossip, MergeAnswer
  <2> QED  BY <1>2, <2>3
<1>12. ASSUME NEW n \in Nodes, NEW m \in Nodes, GossipAnswer(n, m) \/ GossipLost(n, m)
       PROVE  GossipTypeOK'
  <2>1. \E s \in Mail : mail' = [mail EXCEPT ![n][m] = s]
    BY <1>12, MailTyped DEF GossipAnswer, GossipLost
  <2>2. mail' \in [Nodes -> [Nodes -> Mail]]
    BY <1>5, <2>1
  <2>3. Typed
    BY <1>1, <1>12, <2>2 DEF GossipAnswer, GossipLost
  <2> QED  BY <1>2, <2>3
<1>13. CASE UNCHANGED gossipVars
  <2>1. Typed
    BY <1>1, <1>13 DEF gossipVars
  <2> QED  BY <1>2, <2>1
<1> QED  BY <1>7, <1>8, <1>9, <1>10, <1>11, <1>12, <1>13 DEF GossipNext, Registry

-----------------------------------------------------------------------------
(* The deliveries                                                          *)

Count(q, e) == Cardinality({i \in DOMAIN q : q[i] = e})

(* What the worker has taken, and the posts of this delivery that ended.    *)
Taken == Len(accepted) - Len(queue)
Ended == IF posting THEN attempts - 1 ELSE attempts

(* The queue is the end of what the channel took, each event once.         *)
ChannelInv ==
  /\ \A i, j \in 1..Len(accepted) : accepted[i] = accepted[j] => i = j
  /\ \A i \in 1..Len(accepted) : accepted[i] \notin senders
  /\ Len(queue) <= Len(accepted)
  /\ \A i \in 1..Len(queue) : queue[i] = accepted[Taken + i]

(* The worker has the last event it took, and goes on while attempts are left.*)
WorkerInv ==
  /\ current # Idle => /\ todo # << >> /\ Taken >= 1 /\ current = accepted[Taken]
  /\ posting => current # Idle /\ attempts >= 1
  /\ attempts <= LastAttempt /\ (~ posting => attempts < LastAttempt)
  /\ \A i, j \in 1..Len(todo) : todo[i] = todo[j] => i = j

(* What an endpoint got was taken by then, in that order, no event too often. *)
InOrder(q, took, n) ==
  /\ \A i \in 1..Len(q) : \E m \in 1..n : q[i] = took[m]
  /\ \A i, j \in 1..Len(q) : i < j =>
       \A m, k \in 1..Len(took) : took[m] = q[i] /\ took[k] = q[j] => m <= k
  /\ \A e \in Events : Count(q, e) <= LastAttempt
InboxInv == \A s \in Subscribers : InOrder(inbox[s], accepted, Taken)

(* The event in hand was posted to its first subscriber only, and no more   *)
(* often than posts ended.                                                 *)
TurnInv ==
  current # Idle =>
    /\ Count(inbox[todo[1]], current) <= Ended
    /\ \A i \in 2..Len(todo) : Count(inbox[todo[i]], current) = 0

WebhookInv == WebhookTypeOK /\ ChannelInv /\ WorkerInv /\ InboxInv /\ TurnInv

(* How often an event is in a queue, with one more at the end.             *)
LEMMA CountOf ==
  ASSUME NEW S, NEW q \in Seq(S), NEW c \in S, NEW e
  PROVE  /\ Count(q, e) \in Nat
         /\ Count(Append(q, c), e) = Count(q, e) + (IF e = c THEN 1 ELSE 0)
         /\ (\A i \in 1..Len(q) : q[i] # e) => Count(q, e) = 0
<1> DEFINE n == Len(q)
           A == {i \in 1..n : q[i] = e}
           r == Append(q, c)
           B == {i \in 1..n + 1 : r[i] = e}
<1>1. /\ n \in Nat /\ DOMAIN q = 1..n /\ r \in Seq(S) /\ DOMAIN r = 1..n + 1
      /\ r[n + 1] = c /\ \A i \in 1..n : r[i] = q[i]
  OBVIOUS
<1>2. Count(q, e) = Cardinality(A) /\ Count(r, e) = Cardinality(B)
  BY <1>1 DEF Count
<1>3. IsFiniteSet(A) /\ Cardinality(A) \in Nat
  <2>1. IsFiniteSet(1..n)
    BY <1>1, FS_Interval
  <2>2. A \subseteq 1..n
    OBVIOUS
  <2> HIDE DEF A
  <2> QED  BY <2>1, <2>2, FS_Subset, FS_CardinalityType
<1> HIDE DEF r
<1>4. B = IF e = c THEN A \cup {n + 1} ELSE A
  <2>1. \A i \in 1..n + 1 : i = n + 1 \/ i \in 1..n
    BY <1>1
  <2>2. \A i \in 1..n : i \in 1..n + 1
    BY <1>1
  <2>3. n + 1 \in 1..n + 1
    BY <1>1
  <2>4. CASE e = c
    BY <1>1, <2>1, <2>2, <2>3, <2>4
  <2>5. CASE e # c
    BY <1>1, <2>1, <2>2, <2>3, <2>5
  <2> QED  BY <2>4, <2>5
<1>5. n + 1 \notin A
  BY <1>1
<1>6. Cardinality(B) = Cardinality(A) + (IF e = c THEN 1 ELSE 0)
  <2> HIDE DEF A, B
  <2>1. CASE e = c
    <3>1. Cardinality(A \cup {n + 1}) = Cardinality(A) + 1
      BY <1>3, <1>5, FS_AddElement
    <3> QED  BY <1>4, <2>1, <3>1
  <2>2. CASE e # c
    BY <1>3, <1>4, <2>2
  <2> QED  BY <2>1, <2>2
<1>7. (\A i \in 1..n : q[i] # e) => Cardinality(A) = 0
  <2>1. (\A i \in 1..n : q[i] # e) => A = {}
    OBVIOUS
  <2> QED  BY <2>1, FS_EmptySet
<1> QED  BY <1>2, <1>3, <1>6, <1>7 DEF r

(* What the invariant says of each variable of the delivery.               *)
LEMMA WebhookFacts ==
  ASSUME WebhookInv
  PROVE  /\ senders \subseteq Events /\ queue \in Seq(Events) /\ Len(queue) <= QueueCapacity
         /\ current \in Events \cup {Idle} /\ (current = Idle => todo = << >>)
         /\ todo \in Seq(Subscribers) /\ attempts \in Nat /\ posting \in BOOLEAN
         /\ registry \subseteq Subscribers /\ accepted \in Seq(Events)
         /\ inbox \in [Subscribers -> Seq(Events)]
         /\ LastAttempt \in Nat \ {0} /\ QueueCapacity \in Nat \ {0} /\ Idle \notin Events
         /\ Len(queue) \in Nat /\ Len(accepted) \in Nat /\ Len(todo) \in Nat
         /\ Taken \in Nat /\ Taken + Len(queue) = Len(accepted)
         /\ \A i \in 1..Len(accepted) : accepted[i] \in Events
<1>1. LastAttempt \in Nat \ {0} /\ QueueCapacity \in Nat \ {0} /\ Idle \notin Events
  BY WebhookAssumption DEF LastAttempt
<1> QED  BY <1>1 DEF WebhookInv, WebhookTypeOK, ChannelInv, Taken

(* A task that offers an event, and what is said of who subscribes.        *)
LEMMA OthersKeep ==
  ASSUME WebhookInv,
         \/ \E e \in Events : Ingest(e)
         \/ \E s \in Subscribers : Subscribe(s) \/ Unsubscribe(s)
         \/ Post
         \/ UNCHANGED webhookVars
  PROVE  WebhookInv'
<1>1. UNCHANGED <<queue, current, todo, accepted, inbox>>
  BY DEF Ingest, Subscribe, Unsubscribe, Post, webhookVars
<1>2. /\ senders' \subseteq Events /\ registry' \subseteq Subscribers
      /\ attempts' \in Nat /\ posting' \in BOOLEAN
  <2>0. /\ senders \subseteq Events /\ registry \subseteq Subscribers
        /\ attempts \in Nat /\ posting \in BOOLEAN
    BY WebhookFacts
  <2>1. CASE \E e \in Events : Ingest(e)
    BY <2>0, <2>1 DEF Ingest
  <2>2. CASE \E s \in Subscribers : Subscribe(s) \/ Unsubscribe(s)
    BY <2>0, <2>2 DEF Subscribe, Unsubscribe
  <2>3. CASE Post
    BY <2>0, <2>3 DEF Post
  <2>4. CASE UNCHANGED webhookVars
    BY <2>0, <2>4 DEF webhookVars
  <2> QED  BY <2>1, <2>2, <2>3, <2>4
<1>3. WebhookTypeOK'
  BY <1>1, <1>2 DEF WebhookInv, WebhookTypeOK
<1>4. \A i \in 1..Len(accepted) : accepted[i] \notin senders'
  <2>1. ASSUME NEW e \in Events, Ingest(e) PROVE \A i \in 1..Len(accepted) : accepted[i] \notin senders'
    <3>1. e \notin ToSet(accepted) /\ senders' = senders \cup {e}
      BY <2>1 DEF Ingest
    <3>2. \A i \in 1..Len(accepted) : accepted[i] # e
      BY <3>1, WebhookFacts DEF ToSet
    <3> QED  BY <3>1, <3>2 DEF WebhookInv, ChannelInv
  <2>2. CASE senders' = senders
    BY <2>2 DEF WebhookInv, ChannelInv
  <2> QED  BY <2>1, <2>2 DEF Subscribe, Unsubscribe, Post, webhookVars
<1>5. ChannelInv' /\ InboxInv'
  BY <1>1, <1>4 DEF WebhookInv, ChannelInv, InboxInv, Taken
<1>6. CASE Post
  <2>1. /\ current # Idle /\ ~ posting /\ posting' = TRUE /\ attempts' = attempts + 1
        /\ attempts < LastAttempt /\ attempts \in Nat /\ LastAttempt \in Nat
    BY <1>6, WebhookFacts DEF Post, WebhookInv, WorkerInv
  <2>2. WorkerInv'
    <3>1. posting' /\ attempts' >= 1 /\ attempts' <= LastAttempt
      BY <2>1
    <3> QED  BY <1>1, <2>1, <3>1 DEF WebhookInv, WorkerInv, Taken
  <2>3. Ended' = Ended
    BY <2>1 DEF Ended
  <2> QED  BY <1>1, <1>3, <1>5, <2>2, <2>3 DEF WebhookInv, TurnInv, Count
<1>7. CASE UNCHANGED <<attempts, posting>>
  BY <1>1, <1>3, <1>5, <1>7 DEF WebhookInv, WorkerInv, TurnInv, Taken, Ended, Count, LastAttempt
<1> QED  BY <1>6, <1>7 DEF Ingest, Subscribe, Unsubscribe, webhookVars

(* An event that is queued, or dropped at the limit, keeps its place among *)
(* the accepted.                                                           *)
LEMMA EnqueueKeeps ==
  ASSUME WebhookInv, NEW e \in Events, Enqueue(e)
  PROVE  WebhookInv'
<1> DEFINE n == Len(accepted)  l == Len(queue)
<1>1. /\ e \in senders /\ l < QueueCapacity /\ queue' = Append(queue, e)
      /\ senders' = senders \ {e} /\ accepted' = Append(accepted, e)
      /\ UNCHANGED <<current, todo, attempts, posting, registry, inbox>>
  BY DEF Enqueue
<1>2. /\ queue' \in Seq(Events) /\ Len(queue') = l + 1 /\ queue'[l + 1] = e
      /\ \A i \in 1..l : queue'[i] = queue[i]
  BY <1>1, WebhookFacts
<1>3. /\ accepted' \in Seq(Events) /\ Len(accepted') = n + 1 /\ accepted'[n + 1] = e
      /\ \A i \in 1..n : accepted'[i] = accepted[i]
  BY <1>1, WebhookFacts
<1>4. n \in Nat /\ l \in Nat /\ l <= n /\ Taken \in Nat /\ Taken + l = n /\ QueueCapacity \in Nat
  BY WebhookFacts
<1>5. Taken' = Taken
  BY <1>2, <1>3, <1>4 DEF Taken
<1>6. WebhookTypeOK'
  BY <1>1, <1>2, <1>3, <1>4, WebhookFacts DEF WebhookTypeOK
<1>7. \A i \in 1..n + 1 : i = n + 1 \/ i \in 1..n
  BY <1>4
<1>8. \A i \in 1..n : accepted[i] # e
  BY <1>1 DEF WebhookInv, ChannelInv
<1>9. ChannelInv'
  <2>1. \A i, j \in 1..n + 1 : accepted'[i] = accepted'[j] => i = j
    BY <1>3, <1>7, <1>8 DEF WebhookInv, ChannelInv
  <2>2. \A i \in 1..n + 1 : accepted'[i] \notin senders'
    BY <1>1, <1>3, <1>7 DEF WebhookInv, ChannelInv
  <2>3. ASSUME NEW i \in 1..l + 1 PROVE queue'[i] = accepted'[Taken + i]
    <3>1. CASE i = l + 1
      <4>1. Taken + i = n + 1
        BY <1>4, <3>1
      <4> QED  BY <1>2, <1>3, <3>1, <4>1
    <3>2. CASE i \in 1..l
      <4>1. Taken + i \in 1..n
        BY <1>4, <3>2
      <4>2. queue[i] = accepted[Taken + i]
        BY <3>2 DEF WebhookInv, ChannelInv
      <4> QED  BY <1>2, <1>3, <3>2, <4>1, <4>2
    <3> QED  BY <1>4, <3>1, <3>2
  <2> QED  BY <1>2, <1>3, <1>4, <1>5, <2>1, <2>2, <2>3 DEF ChannelInv
<1>10. Taken >= 1 => accepted'[Taken] = accepted[Taken]
  BY <1>3, <1>4
<1>11. WorkerInv'
  BY <1>1, <1>5, <1>10 DEF WebhookInv, WorkerInv, LastAttempt
<1>12. InboxInv'
  <2> SUFFICES ASSUME NEW s \in Subscribers PROVE InOrder(inbox[s], accepted', Taken)
    BY <1>1, <1>5 DEF InboxInv
  <2>1. ASSUME NEW i \in 1..Len(inbox[s])
        PROVE  inbox[s][i] # e /\ \E m \in 1..Taken : inbox[s][i] = accepted'[m]
    <3>1. PICK m \in 1..Taken : inbox[s][i] = accepted[m]
      BY DEF WebhookInv, InboxInv, InOrder
    <3>2. m \in 1..n
      BY <1>4
    <3> QED  BY <1>3, <1>8, <3>1, <3>2
  <2>2. ASSUME NEW i \in 1..Len(inbox[s]), NEW j \in 1..Len(inbox[s]), i < j,
               NEW m \in 1..n + 1, NEW k \in 1..n + 1,
               accepted'[m] = inbox[s][i], accepted'[k] = inbox[s][j]
        PROVE  m <= k
    <3>1. m \in 1..n /\ k \in 1..n
      BY <1>3, <1>7, <2>1, <2>2
    <3>2. accepted[m] = inbox[s][i] /\ accepted[k] = inbox[s][j]
      BY <1>3, <2>2, <3>1
    <3> QED  BY <2>2, <3>1, <3>2 DEF WebhookInv, InboxInv, InOrder
  <2>3. \A f \in Events : Count(inbox[s], f) <= LastAttempt
    BY DEF WebhookInv, InboxInv, InOrder
  <2> QED  BY <1>3, <2>1, <2>2, <2>3 DEF InOrder
<1>13. TurnInv'
  BY <1>1 DEF WebhookInv, TurnInv, Ended, Count
<1> QED  BY <1>6, <1>9, <1>11, <1>12, <1>13 DEF WebhookInv

(* The event that is taken is the first that was not.                      *)
LEMMA TakeKeeps ==
  ASSUME WebhookInv, Take
  PROVE  WebhookInv'
<1> DEFINE n == Len(accepted)  l == Len(queue)
<1>1. /\ current = Idle /\ queue # << >> /\ queue' = Tail(queue)
      /\ todo' \in SetToSeqs(registry)
      /\ current' = (IF todo' = << >> THEN Idle ELSE Head(queue))
      /\ attempts' = 0
      /\ UNCHANGED <<senders, posting, registry, accepted, inbox>>
  BY DEF Take
<1>2. /\ queue' \in Seq(Events) /\ Len(queue') = l - 1 /\ l >= 1
      /\ Head(queue) = queue[1]
      /\ \A i \in 1..l - 1 : queue'[i] = queue[i + 1]
  BY <1>1, WebhookFacts
<1>3. n \in Nat /\ l \in Nat /\ l <= QueueCapacity /\ Taken \in Nat /\ Taken + l = n
      /\ QueueCapacity \in Nat /\ LastAttempt \in Nat \ {0}
  BY WebhookFacts
<1>4. Taken' = Taken + 1
  BY <1>1, <1>2, <1>3 DEF Taken
<1>5. todo' \in Seq(Subscribers) /\ \A i, j \in 1..Len(todo') : todo'[i] = todo'[j] => i = j
  <2> DEFINE c == Cardinality(registry)
  <2>1. c \in Nat
    BY WebhookAssumption, WebhookFacts, FS_Subset, FS_CardinalityType
  <2>2. todo' \in [1..c -> registry] /\ \A i, j \in 1..c : i # j => todo'[i] # todo'[j]
    BY <1>1 DEF SetToSeqs
  <2> HIDE DEF c
  <2>3. todo' \in Seq(registry) /\ Len(todo') = c
    BY <2>1, <2>2
  <2> QED  BY <2>2, <2>3, WebhookFacts
<1>6. ~ posting
  BY <1>1 DEF WebhookInv, WorkerInv
<1>7. queue[1] = accepted[Taken + 1] /\ Taken + 1 \in 1..n
  BY <1>2, <1>3 DEF WebhookInv, ChannelInv
<1>8. queue[1] \in Events
  BY <1>2, WebhookFacts
<1>9. WebhookTypeOK'
  BY <1>1, <1>2, <1>3, <1>5, <1>8, WebhookFacts DEF WebhookTypeOK
<1>10. ChannelInv'
  <2>1. ASSUME NEW i \in 1..l - 1 PROVE queue'[i] = accepted[Taken + 1 + i]
    <3>1. i + 1 \in 1..l /\ Taken + (i + 1) = Taken + 1 + i
      BY <1>2, <1>3
    <3>2. queue[i + 1] = accepted[Taken + (i + 1)]
      BY <3>1 DEF WebhookInv, ChannelInv
    <3> QED  BY <1>2, <3>1, <3>2
  <2>2. /\ Len(queue') <= n
        /\ \A i, j \in 1..n : accepted[i] = accepted[j] => i = j
        /\ \A i \in 1..n : accepted[i] \notin senders
    BY <1>2, <1>3 DEF WebhookInv, ChannelInv
  <2>3. \A i \in 1..Len(queue') : queue'[i] = accepted[Taken + 1 + i]
    BY <1>2, <2>1
  <2> QED  BY <1>1, <1>4, <2>2, <2>3 DEF ChannelInv
<1>11. WorkerInv'
  <2>1. current' # Idle => todo' # << >> /\ Taken' >= 1 /\ current' = accepted'[Taken']
    BY <1>1, <1>2, <1>3, <1>4, <1>7
  <2> QED  BY <1>1, <1>3, <1>5, <1>6, <2>1 DEF WorkerInv, LastAttempt
<1>12. InboxInv'
  <2>1. \A m \in 1..Taken : m \in 1..Taken + 1
    BY <1>3
  <2> SUFFICES ASSUME NEW s \in Subscribers PROVE InOrder(inbox[s], accepted, Taken + 1)
    BY <1>1, <1>4 DEF InboxInv
  <2>2. InOrder(inbox[s], accepted, Taken)
    BY DEF WebhookInv, InboxInv
  <2> QED  BY <2>1, <2>2 DEF InOrder
<1>13. TurnInv'
  <2>1. ASSUME NEW s \in Subscribers PROVE Count(inbox[s], queue[1]) = 0
    <3>1. inbox[s] \in Seq(Events)
      BY WebhookFacts
    <3>2. ASSUME NEW i \in 1..Len(inbox[s]) PROVE inbox[s][i] # queue[1]
      <4>1. PICK m \in 1..Taken : inbox[s][i] = accepted[m]
        BY DEF WebhookInv, InboxInv, InOrder
      <4>2. m \in 1..n /\ m # Taken + 1
        BY <1>3
      <4> QED  BY <1>7, <4>1, <4>2 DEF WebhookInv, ChannelInv
    <3> QED  BY <1>8, <3>1, <3>2, CountOf
  <2>2. Ended' = 0
    <3>1. attempts' = 0 /\ ~ posting'
      BY <1>1, <1>6
    <3> QED  BY <3>1 DEF Ended
  <2>3. current' # Idle => current' = queue[1] /\ Len(todo') >= 1
    BY <1>1, <1>2, <1>5
  <2>4. ASSUME NEW i \in 1..Len(todo') PROVE todo'[i] \in Subscribers
    BY <1>5
  <2>5. ASSUME current' # Idle, NEW i \in 1..Len(todo')
        PROVE  Count(inbox'[todo'[i]], current') = 0
    BY <1>1, <2>1, <2>3, <2>4, <2>5
  <2>6. current' # Idle => /\ 1 \in 1..Len(todo')
                           /\ \A i \in 2..Len(todo') : i \in 1..Len(todo')
    BY <1>5, <2>3
  <2> QED  BY <2>2, <2>5, <2>6 DEF TurnInv
<1> QED  BY <1>9, <1>10, <1>11, <1>12, <1>13 DEF WebhookInv

(* A post that ends: its endpoint may have got the event; the worker goes   *)
(* on to the next subscription or tries again.                             *)
LEMMA PostEnds ==
  ASSUME WebhookInv, Delivered \/ Refused \/ Failed
  PROVE  WebhookInv'
<1> DEFINE n == Len(accepted)  s0 == todo[1]  q == inbox[s0]
<1>1. /\ posting /\ posting' = FALSE /\ UNCHANGED <<senders, queue, registry, accepted>>
      /\ Got \/ UNCHANGED inbox
      /\ \/ Finish
         \/ attempts < LastAttempt /\ UNCHANGED <<current, todo, attempts>>
  BY DEF Delivered, Refused, Failed
<1>2. /\ current # Idle /\ attempts >= 1 /\ attempts <= LastAttempt
      /\ todo # << >> /\ Taken >= 1 /\ current = accepted[Taken]
      /\ \A i, j \in 1..Len(todo) : todo[i] = todo[j] => i = j
  BY <1>1 DEF WebhookInv, WorkerInv
<1>3. /\ n \in Nat /\ Taken \in Nat /\ Taken <= n /\ LastAttempt \in Nat \ {0}
      /\ attempts \in Nat /\ Len(todo) \in Nat /\ todo \in Seq(Subscribers)
      /\ current \in Events /\ Idle \notin Events
  BY <1>2, WebhookFacts
<1>4. /\ Len(todo) >= 1 /\ s0 \in Subscribers /\ Head(todo) = s0
      /\ Tail(todo) \in Seq(Subscribers) /\ Len(Tail(todo)) = Len(todo) - 1
      /\ \A i \in 1..Len(todo) - 1 : Tail(todo)[i] = todo[i + 1]
  BY <1>2, <1>3
<1>5. q \in Seq(Events) /\ inbox \in [Subscribers -> Seq(Events)]
  BY <1>4, WebhookFacts
<1>6. Ended = attempts - 1
  BY <1>1 DEF Ended
<1>7. Count(q, current) <= attempts - 1 /\ Count(q, current) \in Nat
      /\ \A i \in 2..Len(todo) : Count(inbox[todo[i]], current) = 0
  BY <1>2, <1>3, <1>5, <1>6, CountOf DEF WebhookInv, TurnInv
<1>8. /\ inbox' \in [Subscribers -> Seq(Events)]
      /\ \A s \in Subscribers : s # s0 => inbox'[s] = inbox[s]
      /\ inbox'[s0] = q \/ inbox'[s0] = Append(q, current)
  <2>1. CASE Got
    <3>1. inbox' = [inbox EXCEPT ![s0] = Append(inbox[s0], current)]
      BY <1>4, <2>1 DEF Got
    <3>2. Append(inbox[s0], current) \in Seq(Events)
      BY <1>3, <1>5
    <3> QED  BY <1>4, <1>5, <3>1, <3>2
  <2>2. CASE UNCHANGED inbox
    BY <1>5, <2>2
  <2> QED  BY <1>1, <2>1, <2>2
<1>9. Count(inbox'[s0], current) <= attempts
      /\ \A e \in Events : e # current => Count(inbox'[s0], e) = Count(q, e)
  <2>1. CASE inbox'[s0] = q
    BY <1>3, <1>7, <2>1
  <2>2. CASE inbox'[s0] = Append(q, current)
    <3>1. Count(inbox'[s0], current) = Count(q, current) + 1
      BY <1>3, <1>5, <2>2, CountOf
    <3>2. ASSUME NEW e \in Events, e # current PROVE Count(inbox'[s0], e) = Count(q, e)
      <4>1. Count(Append(q, current), e) = Count(q, e) + 0 /\ Count(q, e) \in Nat
        BY <1>3, <1>5, <3>2, CountOf
      <4> QED  BY <2>2, <4>1
    <3> QED  BY <1>3, <1>7, <3>1, <3>2
  <2> QED  BY <1>8, <2>1, <2>2
<1>10. Taken' = Taken
  BY <1>1 DEF Taken
<1>11. InboxInv'
  <2>1. ASSUME NEW s \in Subscribers, s # s0 PROVE InOrder(inbox'[s], accepted, Taken)
    BY <1>8, <2>1 DEF WebhookInv, InboxInv
  <2>2. \A e \in Events : Count(inbox'[s0], e) <= LastAttempt
    <3>1. \A e \in Events : Count(q, e) <= LastAttempt
      BY <1>4 DEF WebhookInv, InboxInv, InOrder
    <3>2. ASSUME NEW e \in Events PROVE Count(inbox'[s0], e) <= LastAttempt
      <4>1. CASE e = current
        <5>1. Count(inbox'[s0], e) <= attempts
          BY <1>9, <4>1
        <5>2. Count(inbox'[s0], e) \in Nat
          <6>1. inbox'[s0] \in Seq(Events)
            BY <1>4, <1>8
          <6> QED  BY <1>3, <6>1, CountOf
        <5> QED  BY <1>2, <1>3, <5>1, <5>2
      <4>2. CASE e # current
        BY <1>9, <3>1, <4>2
      <4> QED  BY <4>1, <4>2
    <3> QED  BY <3>2
  <2> DEFINE r == inbox'[s0]
  <2>3. /\ \A i \in 1..Len(q) : \E m \in 1..Taken : q[i] = accepted[m]
        /\ \A i, j \in 1..Len(q) : i < j =>
             \A m, k \in 1..n : accepted[m] = q[i] /\ accepted[k] = q[j] => m <= k
    BY <1>4 DEF WebhookInv, InboxInv, InOrder
  <2>4. /\ \A i \in 1..Len(r) : \E m \in 1..Taken : r[i] = accepted[m]
        /\ \A i, j \in 1..Len(r) : i < j =>
             \A m, k \in 1..n : accepted[m] = r[i] /\ accepted[k] = r[j] => m <= k
    <3>1. CASE r = q
      BY <2>3, <3>1
    <3>2. CASE r = Append(q, current)
      <4> HIDE DEF r
      <4>1. /\ Len(r) = Len(q) + 1 /\ Len(q) \in Nat /\ r[Len(q) + 1] = current
            /\ \A i \in 1..Len(q) : r[i] = q[i]
        BY <1>3, <1>5, <3>2
      <4>2. \A i \in 1..Len(r) : i = Len(q) + 1 \/ i \in 1..Len(q)
        BY <4>1
      <4>3. Taken \in 1..Taken
        BY <1>2, <1>3
      <4>4. \A i \in 1..Len(r) : \E m \in 1..Taken : r[i] = accepted[m]
        BY <1>2, <2>3, <4>1, <4>2, <4>3
      <4>5. ASSUME NEW i \in 1..Len(r), NEW j \in 1..Len(r), i < j,
                   NEW m \in 1..n, NEW k \in 1..n, accepted[m] = r[i], accepted[k] = r[j]
            PROVE  m <= k
        <5>1. i \in 1..Len(q)
          BY <4>1, <4>2, <4>5
        <5>2. CASE j \in 1..Len(q)
          BY <2>3, <4>1, <4>5, <5>1, <5>2
        <5>3. CASE j = Len(q) + 1
          <6>1. Taken \in 1..n /\ accepted[k] = accepted[Taken]
            BY <1>2, <1>3, <4>1, <4>5, <5>3
          <6>2. k = Taken
            BY <6>1 DEF WebhookInv, ChannelInv
          <6>3. PICK p \in 1..Taken : q[i] = accepted[p]
            BY <2>3, <5>1
          <6>4. p \in 1..n /\ accepted[m] = accepted[p]
            BY <1>3, <4>1, <4>5, <5>1, <6>3
          <6>5. m = p
            BY <6>4 DEF WebhookInv, ChannelInv
          <6> QED  BY <6>2, <6>3, <6>5
        <5> QED  BY <4>2, <5>2, <5>3
      <4> QED  BY <4>4, <4>5
    <3> QED  BY <1>8, <3>1, <3>2
  <2>5. InOrder(inbox'[s0], accepted, Taken)
    BY <2>2, <2>4 DEF InOrder
  <2> QED  BY <1>1, <1>10, <2>1, <2>5 DEF InboxInv
<1>12. ChannelInv'
  BY <1>1, <1>10 DEF WebhookInv, ChannelInv
<1>13. CASE Finish
  <2>1. /\ todo' = Tail(todo) /\ attempts' = 0
        /\ current' = IF Len(todo) = 1 THEN Idle ELSE current
    BY <1>13 DEF Finish
  <2>2. Len(todo) = 1 => todo' = << >>
    BY <1>3, <1>4, <2>1
  <2>3. WebhookTypeOK'
    BY <1>1, <1>3, <1>4, <1>8, <2>1, <2>2, WebhookFacts DEF WebhookInv, WebhookTypeOK
  <2>4. \A i, j \in 1..Len(todo') : todo'[i] = todo'[j] => i = j
    <3>1. \A i \in 1..Len(todo') : i + 1 \in 1..Len(todo) /\ todo'[i] = todo[i + 1]
      BY <1>3, <1>4, <2>1
    <3>2. \A i, j \in 1..Len(todo') : i + 1 = j + 1 => i = j
      BY <1>3, <1>4, <2>1
    <3> QED  BY <1>2, <3>1, <3>2
  <2>5. WorkerInv'
    <3>1. current' # Idle => todo' # << >> /\ Taken' >= 1 /\ current' = accepted'[Taken']
      <4>1. current' # Idle => Len(todo) # 1 /\ current' = current
        BY <2>1
      <4>3. Len(todo) # 1 => Len(todo') >= 1
        BY <1>3, <1>4, <2>1
      <4>2. current' # Idle => todo' # << >>
        BY <4>1, <4>3
      <4> QED  BY <1>1, <1>2, <1>10, <4>1, <4>2
    <3> QED  BY <1>1, <1>3, <2>1, <2>4, <3>1 DEF WorkerInv, LastAttempt
  <2>6. TurnInv'
    <3> SUFFICES ASSUME current' # Idle
                 PROVE  /\ Count(inbox'[todo'[1]], current') <= Ended'
                        /\ \A i \in 2..Len(todo') : Count(inbox'[todo'[i]], current') = 0
      BY DEF TurnInv, Count
    <3>1. current' = current /\ Len(todo) >= 2
      BY <1>3, <1>4, <2>1
    <3>2. ASSUME NEW i \in 1..Len(todo') PROVE Count(inbox'[todo'[i]], current) = 0
      <4>1. i + 1 \in 2..Len(todo) /\ i + 1 \in 1..Len(todo) /\ 1 \in 1..Len(todo) /\ todo'[i] = todo[i + 1]
        BY <1>3, <1>4, <2>1
      <4>2. todo[i + 1] # s0 /\ todo[i + 1] \in Subscribers
        BY <1>2, <1>3, <4>1
      <4>3. Count(inbox[todo[i + 1]], current) = 0
        BY <1>7, <4>1
      <4> QED  BY <1>8, <4>1, <4>2, <4>3
    <3>3. Ended' = 0
      <4>1. attempts' = 0 /\ ~ posting'
        BY <1>1, <2>1
      <4> QED  BY <4>1 DEF Ended
    <3>4. 1 \in 1..Len(todo') /\ \A i \in 2..Len(todo') : i \in 1..Len(todo')
      BY <1>3, <1>4, <2>1, <3>1
    <3> QED  BY <3>1, <3>2, <3>3, <3>4
  <2> QED  BY <1>11, <1>12, <2>3, <2>5, <2>6 DEF WebhookInv
<1>14. CASE attempts < LastAttempt /\ UNCHANGED <<current, todo, attempts>>
  <2>1. WebhookTypeOK'
    BY <1>1, <1>8, <1>14, WebhookFacts DEF WebhookInv, WebhookTypeOK
  <2>2. WorkerInv'
    BY <1>1, <1>10, <1>14 DEF WebhookInv, WorkerInv, LastAttempt
  <2>3. TurnInv'
    <3>1. Ended' = attempts
      BY <1>1, <1>3, <1>14 DEF Ended
    <3>2. ASSUME NEW i \in 2..Len(todo) PROVE Count(inbox'[todo[i]], current) = 0
      <4>1. todo[i] # s0 /\ todo[i] \in Subscribers
        BY <1>2, <1>3, <1>4
      <4> QED  BY <1>7, <1>8, <4>1
    <3> QED  BY <1>9, <1>14, <3>1, <3>2 DEF TurnInv, Count
  <2> QED  BY <1>11, <1>12, <2>1, <2>2, <2>3 DEF WebhookInv
<1> QED  BY <1>1, <1>13, <1>14

(* No step delivers events out of order.                                   *)
LEMMA WebhookKeeps == ASSUME WebhookInv, [WebhookNext]_webhookVars PROVE WebhookInv'
BY OthersKeep, EnqueueKeeps, TakeKeeps, PostEnds DEF WebhookNext, Worker

(* The delivery as it starts.                                              *)
LEMMA WebhookStart == ASSUME WebhookInit PROVE WebhookInv
<1>1. /\ senders = {} /\ queue = << >> /\ current = Idle /\ todo = << >> /\ attempts = 0
      /\ posting = FALSE /\ registry \in SUBSET Subscribers /\ accepted = << >>
      /\ inbox = [s \in Subscribers |-> << >>]
  BY DEF WebhookInit
<1>2. LastAttempt \in Nat \ {0} /\ QueueCapacity \in Nat \ {0}
  BY WebhookAssumption DEF LastAttempt
<1>3. WebhookTypeOK
  <2>1. << >> \in Seq(Events) /\ << >> \in Seq(Subscribers) /\ Len(<< >>) = 0
    OBVIOUS
  <2>2. inbox \in [Subscribers -> Seq(Events)]
    BY <1>1, <2>1
  <2>3. queue \in Seq(Events) /\ accepted \in Seq(Events) /\ todo \in Seq(Subscribers)
    BY ONLY <1>1, <2>1, Zenon
  <2>4. Len(queue) <= QueueCapacity
    <3>1. Len(queue) = 0
      BY ONLY <1>1, <2>1
    <3> QED  BY ONLY <1>2, <3>1
  <2>5. senders \subseteq Events /\ registry \subseteq Subscribers /\ attempts \in Nat
    BY ONLY <1>1
  <2>6. current \in Events \cup {Idle} /\ posting \in BOOLEAN /\ (current = Idle => todo = << >>)
    BY ONLY <1>1, Zenon
  <2> QED  BY ONLY <2>2, <2>3, <2>4, <2>5, <2>6, Zenon DEF WebhookTypeOK
<1>4. ChannelInv /\ WorkerInv /\ TurnInv
  BY <1>1, <1>2 DEF ChannelInv, WorkerInv, TurnInv, Taken
<1>5. InboxInv
  <2>1. << >> \in Seq(Events) /\ Len(<< >>) = 0 /\ 1..0 = {}
    OBVIOUS
  <2>2. ASSUME NEW e \in Events PROVE Count(<< >>, e) <= LastAttempt
    <3>1. \A i \in 1..Len(<< >>) : << >>[i] # e
      BY <2>1
    <3>2. Count(<< >>, e) = 0
      BY <2>1, <2>2, <3>1, CountOf
    <3> QED  BY <1>2, <3>2
  <2>3. InOrder(<< >>, accepted, Taken)
    BY ONLY <2>1, <2>2 DEF InOrder
  <2>4. \A s \in Subscribers : inbox[s] = << >>
    BY <1>1
  <2> QED  BY ONLY <2>3, <2>4, Zenon DEF InboxInv
<1> QED  BY <1>3, <1>4, <1>5 DEF WebhookInv

(* The invariant includes the types and the order.                         *)
LEMMA WebhookOrder == ASSUME WebhookInv PROVE WebhookTypeOK /\ DeliveredInOrder
<1>1. accepted \in Seq(Events) /\ inbox \in [Subscribers -> Seq(Events)]
  BY WebhookFacts
<1>2. DOMAIN accepted = 1..Len(accepted) /\ \A s \in Subscribers : DOMAIN inbox[s] = 1..Len(inbox[s])
  BY <1>1
<1> QED  BY <1>2 DEF WebhookInv, InboxInv, InOrder, DeliveredInOrder, Count

-----------------------------------------------------------------------------
(* A behaviour is one service's; what the others keep does not change.      *)

ServicesInv == TypeOK /\ GossipTypeOK /\ WebhookInv

(* In every state the circuit breaker, the gossip and the webhook delivery *)
(* are of the kind their code can hold, and each subscriber has been       *)
(* posted events in the order they were accepted (rpc_provider.rs,         *)
(* gossip.rs, webhooks.rs).                                                *)
THEOREM ServicesStaySound == ServicesSpec => []ServicesSound
<1>1. ServicesInit => ServicesInv
  BY BreakerStart, GossipStart, WebhookStart DEF ServicesInit, ServicesInv
<1>2. ServicesInv /\ [ServicesNext]_<<service, vars, gossipVars, webhookVars>> => ServicesInv'
  <2> SUFFICES ASSUME ServicesInv, [ServicesNext]_<<service, vars, gossipVars, webhookVars>>
               PROVE  ServicesInv'
    OBVIOUS
  <2>1. [Next]_vars /\ [GossipNext]_gossipVars /\ [WebhookNext]_webhookVars
    BY Zenon DEF ServicesNext, Of
  <2> QED  BY <2>1, BreakerKeeps, GossipKeeps, WebhookKeeps DEF ServicesInv
<1>3. ServicesInv => ServicesSound
  BY WebhookOrder DEF ServicesInv, ServicesSound
<1> QED  BY <1>1, <1>2, <1>3, PTL DEF ServicesSpec
=============================================================================
