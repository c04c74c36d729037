----------------------------- MODULE LeaderLock -----------------------------
(***************************************************************************)
(* The Redis lease of core/src/leader_lock.rs that elects the node which   *)
(* does leader-only work.  The key holds the token of one lock instance and *)
(* expires TTL ticks after it was last set or renewed; each node keeps a    *)
(* deadline of its own, set when the answer of Redis has arrived.           *)
(*                                                                         *)
(* Every Redis command is one atomic action; between a command and the use  *)
(* of its answer time passes and other nodes run.  Time is counted by Tick  *)
(* in what is left of each period, so it is unbounded.                     *)
(***************************************************************************)
EXTENDS Naturals

CONSTANTS
  Node,        \* instances of the service
  Keepalive,   \* nodes that run start_keepalive
  TTL,         \* lease duration in ticks
  MaxFaults,   \* bound: lost answers, failed calls, crashes and stops
  NoNode,      \* the key does not exist
  Gone         \* the key holds the token of an instance that has ended

ASSUME LockAssumption ==
  /\ TTL \in Nat \ {0}
  /\ MaxFaults \in Nat
  /\ Keepalive \subseteq Node
  /\ NoNode \notin Node /\ Gone \notin Node /\ NoNode # Gone

VARIABLES
  owner,     \* whose token the key holds
  left,      \* ticks until the key expires, 0 when there is none
  deadline,  \* each node's lease_deadline, as ticks from now
  pc,        \* where each node's loop is
  keep,      \* where each node's keepalive task is
  age,       \* history: ticks since Redis last granted the node the lease
  faults     \* faults so far

lockvars == <<owner, left, deadline, pc, keep, age, faults>>

Elapsed == 0
NoDeadline == TTL + 1

Pc == {"off", "idle", "renew", "set", "granted", "lead", "release"}
KeepPc == {"off", "wait", "renewed", "lost"}

TypeOK ==
  /\ owner \in Node \cup {NoNode, Gone}
  /\ left \in 0..TTL
  /\ deadline \in [Node -> 0..NoDeadline]
  /\ pc \in [Node -> Pc]
  /\ keep \in [Node -> KeepPc]
  /\ age \in [Node -> 0..TTL]
  /\ faults \in 0..MaxFaults

Init ==
  /\ owner = NoNode
  /\ left = 0
  /\ deadline = [n \in Node |-> NoDeadline]
  /\ pc = [n \in Node |-> "idle"]
  /\ keep = [n \in Node |-> IF n \in Keepalive THEN "wait" ELSE "off"]
  /\ age = [n \in Node |-> TTL]
  /\ faults = 0

Fault == faults < MaxFaults /\ faults' = faults + 1
Goto(n, at) == pc' = [pc EXCEPT ![n] = at]

-----------------------------------------------------------------------------
(* What Redis does.                                                        *)

(* SET key token NX PX ttl on a key that is free, or the renewal script on  *)
(* the node's own key.                                                     *)
Grant(n) ==
  /\ owner' = n
  /\ left' = TTL
  /\ age' = [age EXCEPT ![n] = 0]

Refuse == UNCHANGED <<owner, left, age>>

(* Mutant: PEXPIRE without comparing the token.                            *)
RenewScriptBlind(n) ==
  IF owner # NoNode
    THEN left' = TTL /\ age' = [age EXCEPT ![n] = 0] /\ UNCHANGED owner
    ELSE Refuse

RenewScript(n) == IF owner = n THEN Grant(n) ELSE Refuse

(* Mutant: DEL without comparing the token.                                *)
ReleaseScriptBlind(n) ==
  owner' = NoNode /\ left' = 0 /\ age' = [age EXCEPT ![n] = TTL]

ReleaseScript(n) ==
  IF owner = n
    THEN owner' = NoNode /\ left' = 0 /\ age' = [age EXCEPT ![n] = TTL]
    ELSE Refuse

-----------------------------------------------------------------------------
(* try_acquire_or_renew, called by the node's loop.                        *)

(* An elapsed deadline is cleared and the renewal skipped.                 *)
Begin(n) ==
  /\ pc[n] = "idle"
  /\ IF deadline[n] = Elapsed
       THEN /\ deadline' = [deadline EXCEPT ![n] = NoDeadline]
            /\ Goto(n, "set")
       ELSE Goto(n, "renew") /\ UNCHANGED deadline
  /\ UNCHANGED <<owner, left, keep, age, faults>>

(* No connection: the call returns false.                                  *)
ConnectFails(n) ==
  /\ pc[n] \in {"renew", "set"}
  /\ Fault
  /\ Goto(n, "idle")
  /\ UNCHANGED <<owner, left, deadline, keep, age>>

Renew(n) ==
  /\ pc[n] = "renew"
  /\ RenewScript(n)
  /\ Goto(n, IF owner = n THEN "granted" ELSE "set")
  /\ UNCHANGED <<deadline, keep, faults>>

(* An error counts as 0, although the script may have run.                 *)
RenewFails(n) ==
  /\ pc[n] = "renew"
  /\ Fault
  /\ RenewScript(n) \/ Refuse
  /\ Goto(n, "set")
  /\ UNCHANGED <<deadline, keep>>

(* Mutant: SET without NX.                                                 *)
SetAlways(n) ==
  /\ pc[n] = "set"
  /\ Grant(n)
  /\ Goto(n, "granted")
  /\ UNCHANGED <<deadline, keep, faults>>

SetNX(n) ==
  /\ pc[n] = "set"
  /\ IF owner = NoNode
       THEN Grant(n) /\ Goto(n, "granted")
       ELSE Refuse /\ Goto(n, "idle")
  /\ UNCHANGED <<deadline, keep, faults>>

(* An error counts as "not acquired", although the key may be set.         *)
SetFails(n) ==
  /\ pc[n] = "set"
  /\ Fault
  /\ IF owner = NoNode THEN Grant(n) \/ Refuse ELSE Refuse
  /\ Goto(n, "idle")
  /\ UNCHANGED <<deadline, keep>>

(* Mutant: an acquisition leaves the old deadline.                         *)
GrantedUnnoted(n) ==
  /\ pc[n] = "granted"
  /\ Goto(n, "lead")
  /\ UNCHANGED <<owner, left, deadline, keep, age, faults>>

(* update_lease_deadline, and the call returns true.                       *)
Granted(n) ==
  /\ pc[n] = "granted"
  /\ deadline' = [deadline EXCEPT ![n] = TTL]
  /\ Goto(n, "lead")
  /\ UNCHANGED <<owner, left, keep, age, faults>>

(* The end of the leader-only work of one cycle, however long it took.     *)
Finish(n) ==
  /\ pc[n] = "lead"
  /\ Goto(n, "idle")
  /\ UNCHANGED <<owner, left, deadline, keep, age, faults>>

-----------------------------------------------------------------------------
(* start_keepalive.                                                        *)

KeepRenew(n) ==
  /\ keep[n] = "wait"
  /\ \/ /\ RenewScript(n)
        /\ keep' = [keep EXCEPT ![n] = IF owner = n THEN "renewed" ELSE "lost"]
        /\ UNCHANGED faults
     \/ /\ Fault
        /\ RenewScript(n) \/ Refuse
        /\ keep' = [keep EXCEPT ![n] = "lost"]
  /\ UNCHANGED <<deadline, pc>>

KeepNotes(n) ==
  /\ keep[n] \in {"renewed", "lost"}
  /\ deadline' = [deadline EXCEPT
                    ![n] = IF keep[n] = "renewed" THEN TTL ELSE NoDeadline]
  /\ keep' = [keep EXCEPT ![n] = "wait"]
  /\ UNCHANGED <<owner, left, pc, age, faults>>

-----------------------------------------------------------------------------
(* Shutdown (the keepalive is aborted, then release), crash and restart.   *)

Stop(n) ==
  /\ pc[n] = "idle"
  /\ Fault
  /\ Goto(n, "release")
  /\ keep' = [keep EXCEPT ![n] = "off"]
  /\ deadline' = [deadline EXCEPT ![n] = NoDeadline]
  /\ UNCHANGED <<owner, left, age>>

(* Every instance has a token of its own: after it the token is of no one.  *)
Ends(n) ==
  /\ pc' = [pc EXCEPT ![n] = "off"]
  /\ keep' = [keep EXCEPT ![n] = "off"]
  /\ deadline' = [deadline EXCEPT ![n] = NoDeadline]

Release(n) ==
  /\ pc[n] = "release"
  /\ ReleaseScript(n)
  /\ Ends(n)
  /\ UNCHANGED faults

(* Redis is unreachable, or the process ends: the key is left to expire.   *)
Crash(n) ==
  /\ pc[n] # "off"
  /\ Fault
  /\ Ends(n)
  /\ owner' = IF owner = n THEN Gone ELSE owner
  /\ age' = [age EXCEPT ![n] = TTL]
  /\ UNCHANGED left

Start(n) ==
  /\ pc[n] = "off"
  /\ Goto(n, "idle")
  /\ keep' = [keep EXCEPT ![n] = IF n \in Keepalive THEN "wait" ELSE "off"]
  /\ UNCHANGED <<owner, left, deadline, age, faults>>

-----------------------------------------------------------------------------
(* Mutant: the key is set without PX and never expires.                    *)
TickNoExpiry ==
  /\ deadline' = [n \in Node |-> IF deadline[n] \in 1..TTL
                                 THEN deadline[n] - 1
                                 ELSE deadline[n]]
  /\ age' = [n \in Node |-> IF age[n] < TTL THEN age[n] + 1 ELSE TTL]
  /\ UNCHANGED <<owner, left, pc, keep, faults>>

(* Time passes; the key expires with its last tick.                        *)
Tick ==
  /\ left' = IF left = 0 THEN 0 ELSE left - 1
  /\ owner' = IF left <= 1 THEN NoNode ELSE owner
  /\ deadline' = [n \in Node |-> IF deadline[n] \in 1..TTL
                                 THEN deadline[n] - 1
                                 ELSE deadline[n]]
  /\ age' = [n \in Node |-> IF age[n] < TTL THEN age[n] + 1 ELSE TTL]
  /\ UNCHANGED <<pc, keep, faults>>

CallStep(n) == Begin(n) \/ Renew(n) \/ SetNX(n) \/ Granted(n)
CallFails(n) == ConnectFails(n) \/ RenewFails(n) \/ SetFails(n)

(* Everything but the work.                                                *)
LockStep(n) ==
  \/ CallStep(n) \/ CallFails(n)
  \/ KeepRenew(n) \/ KeepNotes(n)
  \/ Stop(n) \/ Release(n) \/ Crash(n) \/ Start(n)

Next == Tick \/ \E n \in Node : LockStep(n) \/ Finish(n)

LockSpec == Init /\ [][Next]_lockvars

(* Time does not stop; a node's loop calls again at its next interval.     *)
LockFairness ==
  /\ WF_lockvars(Tick)
  /\ \A n \in Node : WF_lockvars(CallStep(n)) /\ WF_lockvars(Finish(n))
  /\ \A n \in Node : WF_lockvars(Release(n)) /\ WF_lockvars(Start(n))

LockFairSpec == LockSpec /\ LockFairness

-----------------------------------------------------------------------------
Leading(n) == pc[n] = "lead"
LocallyValid(n) == deadline[n] \in 1..TTL

(* The lease is the node's for TTL ticks from the moment Redis granted it,  *)
(* as long as the node neither stops nor crashes: no other node, late       *)
(* answer, renewal or release cuts it short.  This is what makes it safe to *)
(* lead without asking again.                                              *)
GrantHolds ==
  \A n \in Node :
    /\ owner = n => left = TTL - age[n] /\ age[n] < TTL
    /\ age[n] < TTL => owner = n
    /\ owner \in {n, Gone} => left > 0

(* Two nodes lead at once only when the work of one of them, with the wait  *)
(* for the answer, has outlasted the lease it was begun under.             *)
OverlapIsOverrun ==
  \A m, n \in Node :
    m # n /\ Leading(m) /\ Leading(n) => age[m] = TTL \/ age[n] = TTL

(* A node that leads within its lease also knows it: its own deadline, set  *)
(* later than Redis's, has not passed.  With a keepalive, whose failed call *)
(* clears the deadline, this does not hold.                                *)
LeaderKnows ==
  \A n \in Node \ Keepalive :
    Leading(n) /\ owner = n => LocallyValid(n) /\ deadline[n] >= left

(* A lease ends by its expiry, by its own node's release, or not at all: a  *)
(* stale node cannot renew or delete the lease of another.                 *)
LeaseKept ==
  [][\A n \in Node : owner = n /\ owner' # n =>
       \/ left = 1 /\ owner' = NoNode
       \/ pc[n] = "release" /\ pc'[n] = "off" /\ owner' = NoNode
       \/ owner' = Gone /\ pc'[n] = "off"]_lockvars

(* Some node leads again and again: a lease whose node has crashed, or      *)
(* whose grant was never heard of, does not block the others for ever.     *)
AlwaysLedAgain == []<>(\E n \in Node : Leading(n))
=============================================================================
