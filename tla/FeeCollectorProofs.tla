------------------------- MODULE FeeCollectorProofs -------------------------
(***************************************************************************)
(* Proofs about LeaderLock, for any nodes and any lease, and about the      *)
(* FeeCollector that runs under it, for any number of ledgers.              *)
(***************************************************************************)
EXTENDS FeeCollector, TLAPS

-----------------------------------------------------------------------------
(* The lock                                                                *)

(* The variables of one step, one action per case.                         *)
LEMMA StepCases ==
  ASSUME NEW n \in Node, LockStep(n) \/ Finish(n)
  PROVE  \/ Begin(n) \/ ConnectFails(n) \/ Renew(n) \/ RenewFails(n)
         \/ SetNX(n) \/ SetFails(n) \/ Granted(n) \/ Finish(n)
         \/ KeepRenew(n) \/ KeepNotes(n)
         \/ Stop(n) \/ Release(n) \/ Crash(n) \/ Start(n)
  BY DEF LockStep, CallStep, CallFails

(* What a node's step can do to the lease, in one of four ways: nothing,    *)
(* a grant, a release of its own, or the end of its process.               *)
Kept == UNCHANGED <<owner, left, age>>
Granting(n) ==
  /\ pc[n] \in {"renew", "set"} \/ keep[n] = "wait"
  /\ owner \in {n, NoNode}
  /\ Grant(n)
Releasing(n) ==
  /\ owner = n /\ owner' = NoNode /\ left' = 0
  /\ age' = [age EXCEPT ![n] = TTL]
  /\ pc[n] = "release" /\ pc'[n] = "off"
Ending(n) ==
  /\ owner' = (IF owner = n THEN Gone ELSE owner)
  /\ left' = left /\ age' = [age EXCEPT ![n] = TTL]
  /\ pc'[n] = "off"

(* A step of a node keeps the lease, grants it, releases it, or ends the   *)
(* node's process.                                                         *)
LEMMA LeaseSteps ==
  ASSUME TypeOK, NEW n \in Node, LockStep(n) \/ Finish(n)
  PROVE  Kept \/ Granting(n) \/ Releasing(n) \/ Ending(n)
<1> USE DEF Kept, Granting, Releasing, Ending, Refuse, TypeOK
<1>1. CASE Begin(n) BY <1>1 DEF Begin
<1>2. CASE ConnectFails(n) BY <1>2 DEF ConnectFails
<1>3. CASE Renew(n) BY <1>3 DEF Renew, RenewScript
<1>4. CASE RenewFails(n) BY <1>4 DEF RenewFails, RenewScript
<1>5. CASE SetNX(n) BY <1>5 DEF SetNX
<1>6. CASE SetFails(n) BY <1>6 DEF SetFails
<1>7. CASE Granted(n) BY <1>7 DEF Granted
<1>8. CASE Finish(n) BY <1>8 DEF Finish
<1>9. CASE KeepRenew(n) BY <1>9 DEF KeepRenew, RenewScript
<1>10. CASE KeepNotes(n) BY <1>10 DEF KeepNotes
<1>11. CASE Stop(n) BY <1>11 DEF Stop
<1>12. CASE Release(n) BY <1>12 DEF Release, ReleaseScript, Ends
<1>13. CASE Crash(n) BY <1>13 DEF Crash, Ends
<1>14. CASE Start(n) BY <1>14 DEF Start
<1> QED
  BY StepCases, <1>1, <1>2, <1>3, <1>4, <1>5, <1>6, <1>7, <1>8, <1>9, <1>10,
     <1>11, <1>12, <1>13, <1>14

-----------------------------------------------------------------------------
(* No step takes a variable of the lock out of its type.                   *)
LEMMA TypeStep ==
  ASSUME TypeOK, [Next]_lockvars
  PROVE  TypeOK'
<1> USE LockAssumption DEF TypeOK, NoDeadline, Elapsed, Pc, KeepPc, Goto, Fault
<1>1. CASE UNCHANGED lockvars BY <1>1 DEF lockvars
<1>2. CASE Tick BY <1>2 DEF Tick
<1>3. CASE \E n \in Node : LockStep(n) \/ Finish(n)
  <2> PICK n \in Node : LockStep(n) \/ Finish(n) BY <1>3
  <2>1. owner' \in Node \cup {NoNode, Gone} /\ left' \in 0..TTL
        /\ age' \in [Node -> 0..TTL]
    <3> Kept \/ Granting(n) \/ Releasing(n) \/ Ending(n) BY LeaseSteps
    <3> QED BY DEF Kept, Granting, Grant, Releasing, Ending
  <2>2. deadline' \in [Node -> 0..NoDeadline]
        /\ pc' \in [Node -> Pc] /\ keep' \in [Node -> KeepPc]
        /\ faults' \in 0..MaxFaults
    <3>1. CASE Begin(n) BY <3>1 DEF Begin
    <3>2. CASE ConnectFails(n) BY <3>2 DEF ConnectFails
    <3>3. CASE Renew(n) BY <3>3 DEF Renew
    <3>4. CASE RenewFails(n) BY <3>4 DEF RenewFails
    <3>5. CASE SetNX(n) BY <3>5 DEF SetNX
    <3>6. CASE SetFails(n) BY <3>6 DEF SetFails
    <3>7. CASE Granted(n) BY <3>7 DEF Granted
    <3>8. CASE Finish(n) BY <3>8 DEF Finish
    <3>9. CASE KeepRenew(n) BY <3>9 DEF KeepRenew
    <3>10. CASE KeepNotes(n) BY <3>10 DEF KeepNotes
    <3>11. CASE Stop(n) BY <3>11 DEF Stop
    <3>12. CASE Release(n) BY <3>12 DEF Release, Ends
    <3>13. CASE Crash(n) BY <3>13 DEF Crash, Ends
    <3>14. CASE Start(n) BY <3>14 DEF Start
    <3> QED
      BY StepCases, <3>1, <3>2, <3>3, <3>4, <3>5, <3>6, <3>7, <3>8, <3>9,
         <3>10, <3>11, <3>12, <3>13, <3>14
  <2> QED BY <2>1, <2>2
<1> QED BY <1>1, <1>2, <1>3 DEF Next

(* The variables of the lock stay within their ranges; a deadline in        *)
(* particular never outlasts a lease.                                      *)
THEOREM LockTyping == LockSpec => []TypeOK
<1>1. Init => TypeOK
  BY LockAssumption DEF Init, TypeOK, NoDeadline, Pc, KeepPc
<1> QED BY <1>1, TypeStep, PTL DEF LockSpec

-----------------------------------------------------------------------------
(* What a node was granted it holds until that expires.                    *)
LEMMA GrantStep ==
  ASSUME TypeOK, GrantHolds, [Next]_lockvars
  PROVE  GrantHolds'
<1> USE LockAssumption DEF TypeOK, GrantHolds
<1>1. CASE UNCHANGED lockvars BY <1>1 DEF lockvars
<1>2. CASE Tick BY <1>2 DEF Tick
<1>3. ASSUME NEW n \in Node, LockStep(n) \/ Finish(n) PROVE GrantHolds'
  <2>1. CASE Kept BY <2>1 DEF Kept
  <2>2. CASE Granting(n) BY <2>2 DEF Granting, Grant
  <2>3. CASE Releasing(n) BY <2>3 DEF Releasing
  <2>4. CASE Ending(n) BY <2>4 DEF Ending
  <2> QED BY <1>3, <2>1, <2>2, <2>3, <2>4, LeaseSteps
<1> QED BY <1>1, <1>2, <1>3 DEF Next

(* A node has the lease for TTL ticks from each grant unless it gives it up *)
(* itself: the history variable age and the key of Redis agree in every     *)
(* reachable state, whatever answers are lost and whoever crashes.          *)
THEOREM GrantIsHeld == LockSpec => []GrantHolds
<1>1. ASSUME Init PROVE GrantHolds
  <2> SUFFICES ASSUME NEW n \in Node
               PROVE  /\ owner = n => left = TTL - age[n] /\ age[n] < TTL
                      /\ age[n] < TTL => owner = n
                      /\ owner \in {n, Gone} => left > 0
    BY DEF GrantHolds
  <2>1. owner = NoNode /\ owner # n /\ owner # Gone
    BY <1>1, LockAssumption DEF Init
  <2>2. age[n] = TTL BY <1>1 DEF Init
  <2>3. ~(age[n] < TTL) BY <2>2, LockAssumption
  <2> QED BY <2>1, <2>3
<1> QED BY <1>1, GrantStep, LockTyping, PTL DEF LockSpec

(* Two nodes that lead at once have not both got a lease that runs.        *)
THEOREM OverlapNeedsOverrun == LockSpec => []OverlapIsOverrun
<1>1. TypeOK /\ GrantHolds => OverlapIsOverrun
  BY LockAssumption DEF TypeOK, GrantHolds, OverlapIsOverrun
<1> QED BY <1>1, GrantIsHeld, LockTyping, PTL

(* No node renews or deletes the lease of another, not even one that still  *)
(* believes it is its own.                                                 *)
THEOREM LeaseIsKept == LockSpec => LeaseKept
<1> DEFINE Keeps == \A n \in Node : owner = n /\ owner' # n =>
                  \/ left = 1 /\ owner' = NoNode
                  \/ pc[n] = "release" /\ pc'[n] = "off" /\ owner' = NoNode
                  \/ owner' = Gone /\ pc'[n] = "off"
<1>1. ASSUME TypeOK, GrantHolds, [Next]_lockvars PROVE [Keeps]_lockvars
  <2>1. CASE UNCHANGED lockvars BY <2>1
  <2>2. CASE Tick BY <1>1, <2>2, LockAssumption DEF Tick, GrantHolds, TypeOK
  <2>3. ASSUME NEW n \in Node, LockStep(n) \/ Finish(n) PROVE Keeps
    <3>1. Kept \/ Granting(n) \/ Releasing(n) \/ Ending(n)
      BY <1>1, <2>3, LeaseSteps
    <3> QED
      BY <3>1, LockAssumption
      DEF Kept, Granting, Grant, Releasing, Ending
  <2> QED BY <1>1, <2>1, <2>2, <2>3 DEF Next
<1> QED BY <1>1, GrantIsHeld, LockTyping, PTL DEF LockSpec, LeaseKept

-----------------------------------------------------------------------------
(* A node without a keepalive has no task that could clear its deadline.   *)
KeepOff == \A n \in Node \ Keepalive : keep[n] = "off"

(* Nodes without a keepalive have no task that could clear their deadline, *)
(* and know when they lead.                                                *)
LEMMA LeaderStep ==
  ASSUME TypeOK, GrantHolds, KeepOff, LeaderKnows, [Next]_lockvars
  PROVE  KeepOff' /\ LeaderKnows'
<1> USE LockAssumption
    DEF TypeOK, GrantHolds, KeepOff, LeaderKnows, Leading, LocallyValid, Goto,
        Pc
<1>1. CASE UNCHANGED lockvars BY <1>1 DEF lockvars
<1>2. CASE Tick BY <1>2 DEF Tick, NoDeadline
<1>3. ASSUME NEW n \in Node, LockStep(n) \/ Finish(n)
      PROVE  KeepOff' /\ LeaderKnows'
  <2>1. Kept \/ Granting(n) \/ Releasing(n) \/ Ending(n) BY <1>3, LeaseSteps
  <2>2. \A m \in Node \ {n} : owner' = m => owner = m /\ left' = left
    BY <2>1 DEF Kept, Granting, Grant, Releasing, Ending
  <2>3. CASE Granted(n) BY <2>3 DEF Granted
  <2>4. CASE KeepRenew(n) BY <2>4, <2>2 DEF KeepRenew
  <2>5. CASE KeepNotes(n) BY <2>5 DEF KeepNotes
  <2>6. CASE Begin(n) BY <2>6 DEF Begin
  <2>7. CASE ConnectFails(n) BY <2>7 DEF ConnectFails
  <2>8. CASE Renew(n) BY <2>8, <2>2 DEF Renew
  <2>9. CASE RenewFails(n) BY <2>9, <2>2 DEF RenewFails
  <2>10. CASE SetNX(n) BY <2>10, <2>2 DEF SetNX
  <2>11. CASE SetFails(n) BY <2>11, <2>2 DEF SetFails
  <2>12. CASE Finish(n) BY <2>12 DEF Finish
  <2>13. CASE Stop(n) BY <2>13 DEF Stop
  <2>14. CASE Release(n) BY <2>14, <2>2 DEF Release, Ends
  <2>15. CASE Crash(n) BY <2>15, <2>2 DEF Crash, Ends
  <2>16. CASE Start(n) BY <2>16 DEF Start
  <2> QED
    BY <1>3, StepCases, <2>3, <2>4, <2>5, <2>6, <2>7, <2>8, <2>9, <2>10,
       <2>11, <2>12, <2>13, <2>14, <2>15, <2>16
<1> QED BY <1>1, <1>2, <1>3 DEF Next

(* While a node leads under a lease that runs, its own deadline says so and *)
(* has at least as long to go: deadlines are set after Redis has answered,  *)
(* so is_lease_locally_valid errs only towards "still valid".              *)
THEOREM LeaderIsAware == LockSpec => []LeaderKnows
<1>1. Init => KeepOff /\ LeaderKnows
  BY DEF Init, KeepOff, LeaderKnows, Leading
<1>2. LockSpec => [](KeepOff /\ LeaderKnows)
  BY <1>1, LeaderStep, GrantIsHeld, LockTyping, PTL DEF LockSpec
<1> QED BY <1>2, PTL

-----------------------------------------------------------------------------
(* The collector                                                           *)

(* Between two steps of a cycle: a replay resumes right after the last      *)
(* ledger collected, and what lies between that and the latest one when the *)
(* replay is over has been skipped.                                        *)
CycleInv ==
  \A n \in Node :
    /\ from[n] <= last[n] /\ (from[n] = 0 <=> last[n] = 0)
    /\ cycle[n].at # "none" => cycle[n].latest \in Ledger
    /\ cycle[n].at = "replay" =>
         last[n] > 0 /\ cycle[n].seq = last[n] + 1 /\ cycle[n].seq < cycle[n].latest
    /\ cycle[n].at = "latest" =>
         /\ last[n] < cycle[n].latest
         /\ last[n] > 0 => (last[n] + 1)..(cycle[n].latest - 1) \subseteq skipped

CollectorInv == CollectorTypeOK /\ CycleInv /\ NothingMissed

-----------------------------------------------------------------------------
(* Steps of the lock alone, crashes included, are steps of LeaderLock.     *)
LEMMA LockTypeStep ==
  ASSUME CollectorTypeOK, [CollectorNext]_allvars
  PROVE  TypeOK'
<1> USE DEF CollectorTypeOK
<1>1. CASE UNCHANGED allvars
  BY <1>1, TypeStep DEF allvars, lockvars
<1>2. CASE LockOnly
  BY <1>2, TypeStep DEF LockOnly, Next, LockStep
<1>3. CASE CloseLedger
  BY <1>3, TypeStep DEF CloseLedger
<1>4. CASE Retention
  BY <1>4, TypeStep DEF Retention
<1>5. ASSUME NEW n \in Node, Collects(n) PROVE TypeOK'
  <2> USE LockAssumption
      DEF TypeOK, Proceed, Goto, Fault, leasevars, Pc, KeepPc
  <2>1. CASE GetLatest(n) BY <2>1 DEF GetLatest
  <2>2. CASE Load(n) BY <2>2 DEF Load, Recalled
  <2>3. CASE ReplayOne(n) BY <2>3 DEF ReplayOne
  <2>4. CASE ReplayFails(n) BY <2>4 DEF ReplayFails
  <2>5. CASE CollectLatest(n) BY <2>5 DEF CollectLatest
  <2> QED BY <1>5, <2>1, <2>2, <2>3, <2>4, <2>5 DEF Collects
<1>6. ASSUME NEW n \in Node, CollectorCrash(n) PROVE TypeOK'
  BY <1>6, TypeStep DEF CollectorCrash, Next, LockStep
<1> QED BY <1>1, <1>2, <1>3, <1>4, <1>5, <1>6 DEF CollectorNext

(* Course gives a stage from which CycleInv can hold.                      *)
LEMMA CourseType ==
  ASSUME NEW l \in 0..MaxLedger, NEW latest \in Ledger
  PROVE  LET c == Course(l, latest) IN
         /\ c \in Cycle
         /\ c.at # "none" => c.latest = latest /\ l < latest
         /\ c.at = "replay" => l > 0 /\ c.seq = l + 1 /\ c.seq < latest
         /\ c.at = "latest" /\ l > 0 => latest = l + 1
         /\ c.at # "load"
  BY CollectorAssumption DEF Course, Cycle, NoCycle, Ledger

(* A step of a node's collection keeps the collector's invariant.          *)
LEMMA CollectStep ==
  ASSUME CollectorInv, NEW n \in Node, Collects(n)
  PROVE  CollectorInv'
<1> USE CollectorAssumption
    DEF CollectorInv, CollectorTypeOK, CycleInv, NothingMissed, Ledger
<1>0. TypeOK' BY LockTypeStep DEF CollectorNext
<1>1. CASE GetLatest(n)
  <2>1. PICK c \in Cycle :
          /\ cycle' = [cycle EXCEPT ![n] = c]
          /\ c.at \in {"none", "load"}
          /\ c.at = "load" => c.latest \in Ledger
    <3>1. PICK c : /\ cycle' = [cycle EXCEPT ![n] = c]
                   /\ \/ c = NoCycle
                      \/ \E l \in Ledger :
                           c = [at |-> "load", latest |-> l, seq |-> 0]
      BY <1>1 DEF GetLatest, Proceed
    <3>2. /\ c \in Cycle /\ c.at \in {"none", "load"}
          /\ c.at = "load" => c.latest \in Ledger
      BY <3>1 DEF NoCycle, Cycle
    <3> QED BY <3>1, <3>2
  <2>2. UNCHANGED <<head, store, horizon, last, from, skipped>>
    BY <1>1 DEF GetLatest
  <2>3. CollectorTypeOK' /\ NothingMissed' BY <1>0, <2>1, <2>2
  <2>4. CycleInv' BY <2>1, <2>2
  <2> QED BY <2>3, <2>4
<1>2. CASE Load(n)
  <2>1. PICK l \in 0..MaxLedger :
          /\ Recalled(n, l)
          /\ last' = [last EXCEPT ![n] = l]
          /\ from' = [from EXCEPT ![n] = IF last[n] = 0 THEN l ELSE @]
          /\ Proceed(n, Course(l, cycle[n].latest))
    BY <1>2 DEF Load
  <2>2. UNCHANGED <<head, store, horizon, skipped>> BY <1>2 DEF Load
  <2> DEFINE c == Course(l, cycle[n].latest)
  <2>3. cycle' = [cycle EXCEPT ![n] = c] BY <2>1 DEF Proceed
  <2>4. cycle[n].latest \in Ledger BY <1>2 DEF Load, At
  <2>5. \/ l = last[n]
        \/ last[n] = 0 /\ l \in store \cup {0}
    BY <2>1 DEF Recalled
  <2>6. /\ c \in Cycle
        /\ c.at # "none" => c.latest = cycle[n].latest /\ l < c.latest
        /\ c.at = "replay" => l > 0 /\ c.seq = l + 1 /\ c.seq < c.latest
        /\ c.at = "latest" /\ l > 0 => c.latest = l + 1
        /\ c.at # "load"
    BY <2>4, CourseType
  <2> HIDE DEF c
  <2>7. CollectorTypeOK' BY <1>0, <2>1, <2>2, <2>3, <2>6
  <2>8. CycleInv' BY <2>1, <2>2, <2>3, <2>4, <2>5, <2>6
  <2>9. NothingMissed' BY <2>1, <2>2, <2>5
  <2> QED BY <2>7, <2>8, <2>9
<1>3. CASE ReplayOne(n)
  <2> DEFINE c == cycle[n]
             d == AfterReplay(c)
  <2>1. /\ c \in Cycle /\ c.at = "replay"
        /\ c.latest \in Ledger /\ c.seq \in Ledger
        /\ last[n] > 0 /\ c.seq = last[n] + 1 /\ c.seq < c.latest
    BY <1>3 DEF ReplayOne, At, Cycle
  <2>2. /\ cycle' = [cycle EXCEPT ![n] = d]
        /\ last' = [last EXCEPT ![n] = c.seq]
        /\ store' = store \cup {c.seq}
        /\ UNCHANGED <<head, horizon, from, skipped>>
    BY <1>3 DEF ReplayOne, Upsert, Proceed
  <2>3. /\ d \in Cycle /\ d.latest = c.latest
        /\ \/ d.at = "latest" /\ c.seq + 1 = c.latest
           \/ d.at = "replay" /\ d.seq = c.seq + 1 /\ d.seq < c.latest
    <3> HIDE DEF c
    <3>1. CASE c.seq + 1 = c.latest
      BY <2>1, <3>1 DEF AfterReplay, Cycle
    <3>2. CASE c.seq + 1 # c.latest
      <4>1. d = [c EXCEPT !.seq = c.seq + 1] BY <3>2 DEF AfterReplay
      <4>2. c.seq + 1 < c.latest BY <2>1, <3>2
      <4> QED BY <2>1, <4>1, <4>2 DEF Cycle
    <3> QED BY <3>1, <3>2
  <2> HIDE DEF c, d
  <2>4. CollectorTypeOK'
    <3>1. store' \subseteq Ledger BY <2>1, <2>2
    <3>2. last' \in [Node -> 0..MaxLedger] BY <2>1, <2>2
    <3>3. cycle' \in [Node -> Cycle] BY <2>2, <2>3
    <3> QED BY <1>0, <2>2, <3>1, <3>2, <3>3
  <2>5. CycleInv' BY <2>1, <2>2, <2>3
  <2>6. NothingMissed'
    <3> SUFFICES ASSUME NEW m \in Node, NEW l \in Ledger,
                        from'[m] <= l, l <= last'[m], last'[m] > 0
                 PROVE  l \in store' \cup skipped' \/ l < horizon'
      OBVIOUS
    <3>1. CASE m # n BY <2>2, <3>1
    <3>2. CASE m = n /\ l = c.seq BY <2>2, <3>2
    <3>3. CASE m = n /\ l # c.seq
      <4>1. l <= last[n] /\ from[n] <= l BY <2>1, <2>2, <3>3
      <4> QED BY <2>1, <2>2, <3>3, <4>1
    <3> QED BY <3>1, <3>2, <3>3
  <2> QED BY <2>4, <2>5, <2>6
<1>4. CASE ReplayFails(n)
  <2> DEFINE c == cycle[n]
             d == [c EXCEPT !.at = "latest", !.seq = c.latest]
  <2>1. /\ c \in Cycle /\ c.latest \in Ledger
        /\ last[n] > 0 /\ c.seq = last[n] + 1 /\ c.seq < c.latest
    BY <1>4 DEF ReplayFails, At, Cycle
  <2>2. /\ cycle' = [cycle EXCEPT ![n] = d]
        /\ skipped' = skipped \cup c.seq..(c.latest - 1)
        /\ UNCHANGED <<head, store, horizon, last, from>>
    BY <1>4 DEF ReplayFails, Proceed
  <2>3. d \in Cycle /\ d.latest = c.latest /\ d.at = "latest"
    BY <2>1 DEF Cycle
  <2> HIDE DEF c, d
  <2>4. CollectorTypeOK'
    <3>1. c.seq..(c.latest - 1) \subseteq Ledger BY <2>1 DEF Cycle
    <3>2. cycle' \in [Node -> Cycle] BY <2>2, <2>3
    <3> QED BY <1>0, <2>2, <3>1, <3>2, Zenon
  <2>5. CycleInv' BY <2>1, <2>2, <2>3
  <2>6. NothingMissed' BY <2>1, <2>2
  <2> QED BY <2>4, <2>5, <2>6
<1>5. CASE CollectLatest(n)
  <2>1. cycle' = [cycle EXCEPT ![n] = NoCycle]
        /\ UNCHANGED <<head, horizon, skipped>>
    BY <1>5 DEF CollectLatest, Proceed
  <2>2. /\ cycle[n].latest \in Ledger /\ last[n] < cycle[n].latest
        /\ last[n] > 0 =>
             (last[n] + 1)..(cycle[n].latest - 1) \subseteq skipped
    BY <1>5 DEF CollectLatest, At
  <2>3. NoCycle \in Cycle /\ NoCycle.at = "none" BY DEF NoCycle, Cycle
  <2>4. CASE UNCHANGED <<store, last, from>>
    BY <1>0, <2>1, <2>3, <2>4
  <2>5. CASE /\ Upsert(n, cycle[n].latest)
             /\ from' = [from EXCEPT
                           ![n] = IF @ = 0 THEN cycle[n].latest ELSE @]
    <3>1. CollectorTypeOK'
      <4>1. store' \subseteq Ledger
        BY <2>2, <2>5 DEF Upsert
      <4>2. last' \in [Node -> 0..MaxLedger] BY <2>2, <2>5 DEF Upsert
      <4>3. from' \in [Node -> 0..MaxLedger] BY <2>2, <2>5
      <4>4. cycle' \in [Node -> Cycle] BY <2>1, <2>3
      <4> QED BY <1>0, <2>1, <4>1, <4>2, <4>3, <4>4
    <3>2. CycleInv' BY <2>1, <2>2, <2>3, <2>5 DEF Upsert
    <3>3. NothingMissed'
      <4> SUFFICES ASSUME NEW m \in Node, NEW l \in Ledger,
                          from'[m] <= l, l <= last'[m], last'[m] > 0
                   PROVE  l \in store' \cup skipped' \/ l < horizon'
        OBVIOUS
      <4>1. CASE m # n BY <2>1, <2>5, <4>1 DEF Upsert
      <4>2. CASE m = n /\ l = cycle[n].latest BY <2>5, <4>2 DEF Upsert
      <4>3. CASE m = n /\ l # cycle[n].latest /\ l <= last[n]
        BY <2>1, <2>2, <2>5, <4>3 DEF Upsert
      <4>4. CASE m = n /\ l # cycle[n].latest /\ l > last[n]
        <5>1. /\ cycle[n].latest \in Ledger /\ l \in Ledger
              /\ last[n] \in 0..MaxLedger /\ from[n] \in 0..MaxLedger
          BY <2>2 DEF CollectorTypeOK
        <5>2. last'[n] = cycle[n].latest /\ l <= last'[n]
          BY <2>5, <4>4 DEF Upsert, CollectorTypeOK
        <5>3. l \in (last[n] + 1)..(cycle[n].latest - 1)
          BY ONLY <4>4, <5>1, <5>2 DEF Ledger
        <5>4. CASE last[n] > 0
          <6>1. l \in skipped BY <2>2, <5>3, <5>4
          <6>2. skipped' = skipped BY Zenon, <2>1
          <6> QED BY ONLY <6>1, <6>2
        <5>5. CASE last[n] = 0
          <6>1. from[n] = 0 BY <5>5
          <6>2. from'[n] = cycle[n].latest BY <2>5, <6>1
          <6>3. from'[n] <= l BY <4>4
          <6> QED BY ONLY <4>4, <5>1, <5>2, <6>2, <6>3 DEF Ledger
        <5> QED BY ONLY <5>1, <5>4, <5>5
      <4> QED BY <4>1, <4>2, <4>3, <4>4
    <3> QED BY <3>1, <3>2, <3>3
  <2> QED BY <1>5, <2>4, <2>5 DEF CollectLatest
<1> QED BY <1>1, <1>2, <1>3, <1>4, <1>5 DEF Collects

(* Every step keeps the collector's invariant.                             *)
LEMMA CollectorStep ==
  ASSUME CollectorInv, [CollectorNext]_allvars
  PROVE  CollectorInv'
<1> USE CollectorAssumption
    DEF CollectorInv, CollectorTypeOK, CycleInv, NothingMissed, Ledger
<1>0. TypeOK' BY LockTypeStep
<1>1. CASE UNCHANGED allvars BY <1>0, <1>1 DEF allvars, feevars
<1>2. CASE LockOnly BY <1>0, <1>2 DEF LockOnly, feevars
<1>3. CASE CloseLedger BY <1>0, <1>3 DEF CloseLedger
<1>4. CASE Retention
  <2>1. PICK l \in Ledger : /\ horizon < l /\ horizon' = l
                            /\ store' = {s \in store : s >= l}
    BY <1>4 DEF Retention
  <2>2. UNCHANGED <<head, last, cycle, from, skipped>>
    BY <1>4 DEF Retention
  <2>3. CollectorTypeOK'
    <3>1. store' \subseteq store BY <2>1, Zenon
    <3>2. horizon' \in 0..MaxLedger BY <2>1
    <3> QED BY <1>0, <2>2, <3>1, <3>2
  <2>4. CycleInv' BY <2>2
  <2>5. NothingMissed' BY <2>1, <2>2
  <2> QED BY <2>3, <2>4, <2>5
<1>5. ASSUME NEW n \in Node, CollectorCrash(n) PROVE CollectorInv'
  BY <1>0, <1>5 DEF CollectorCrash, NoCycle, Cycle
<1> QED
  BY <1>1, <1>2, <1>3, <1>4, <1>5, CollectStep DEF CollectorNext

(* The collector keeps its invariant in every state.                       *)
LEMMA CollectorAlways == CollectorSpec => []CollectorInv
<1>1. CollectorInit => CollectorInv
  BY LockAssumption, CollectorAssumption
  DEF CollectorInit, Init, CollectorInv, CollectorTypeOK, CycleInv,
      NothingMissed, Ledger, NoCycle, Cycle, TypeOK, NoDeadline, Pc, KeepPc
<1> QED BY <1>1, CollectorStep, PTL DEF CollectorSpec

(* No sequence number of a cycle leaves the range of ledgers.              *)
THEOREM CollectorTyping == CollectorSpec => []CollectorTypeOK
  BY CollectorAlways, PTL DEF CollectorInv

(* The catch-up replay leaves no hole but the ones it gave up, whoever else *)
(* collects at the same time.                                              *)
THEOREM NoLedgerMissed == CollectorSpec => []NothingMissed
  BY CollectorAlways, PTL DEF CollectorInv

(* The last collected sequence only grows while the process lives.         *)
THEOREM WatermarkGrows == CollectorSpec => WatermarkAdvances
<1> DEFINE Grows == \A n \in Node : last'[n] < last[n] => pc'[n] = "off"
<1>1. ASSUME CollectorInv, [CollectorNext]_allvars PROVE [Grows]_allvars
  <2> USE <1>1, CollectorAssumption
      DEF CollectorInv, CollectorTypeOK, TypeOK, CycleInv, Ledger, Cycle
  <2>1. CASE UNCHANGED allvars BY <2>1
  <2>2. CASE LockOnly BY <2>2 DEF LockOnly, feevars
  <2>3. CASE CloseLedger BY <2>3 DEF CloseLedger
  <2>4. CASE Retention BY <2>4 DEF Retention
  <2>5. ASSUME NEW n \in Node, Collects(n) PROVE Grows
    <3>1. CASE GetLatest(n) BY <3>1 DEF GetLatest
    <3>2. CASE Load(n) BY <3>2 DEF Load, Recalled
    <3>3. CASE ReplayOne(n) BY <3>3 DEF ReplayOne, At, Upsert
    <3>4. CASE ReplayFails(n) BY <3>4 DEF ReplayFails
    <3>5. CASE CollectLatest(n) BY <3>5 DEF CollectLatest, At, Upsert
    <3> QED BY <2>5, <3>1, <3>2, <3>3, <3>4, <3>5 DEF Collects
  <2>6. ASSUME NEW n \in Node, CollectorCrash(n) PROVE Grows
    BY <2>6 DEF CollectorCrash, Crash, Ends
  <2> QED
    BY <2>1, <2>2, <2>3, <2>4, <2>5, <2>6 DEF CollectorNext
<1> QED BY <1>1, CollectorAlways, PTL DEF CollectorSpec, WatermarkAdvances
=============================================================================
