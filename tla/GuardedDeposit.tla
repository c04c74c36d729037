--------------------------- MODULE GuardedDeposit ---------------------------
(***************************************************************************)
(* What contracts/timelocked_escrow promises its parties: a deposit leaves  *)
(* once and whole.  It goes to the beneficiary when the lock has expired    *)
(* and a quorum of the guardians then in office has voted since they took   *)
(* office; it goes back to the depositor when the lock has not expired or   *)
(* nobody has voted, or whenever the beneficiary agrees.                    *)
(*                                                                         *)
(* Guardians are persons here, and votes are sets of persons: there are no  *)
(* lists, no positions and no bits.                                         *)
(***************************************************************************)
EXTENDS Naturals

CONSTANTS
  Address,  \* who may be a guardian
  Offices,  \* the sets of guardians that may hold office together
  Quorums   \* the sets of guardians whose word is enough

VARIABLES
  held,        \* what the escrow owes to somebody
  outcome,     \* how the deposit ended
  electorate,  \* the guardians in office
  votes,       \* those who voted since they took office
  backers,     \* those who signed for the last change of guardians
  late         \* the lock has expired

vars == <<held, outcome, electorate, votes, backers, late>>

Init ==
  /\ held = 0 /\ outcome = "none"
  /\ electorate = {} /\ votes = {} /\ backers = {}
  /\ late = FALSE

\* The parties, the guardians and the lock are fixed once.
Found ==
  /\ outcome = "none" /\ outcome' = "open"
  /\ electorate' \in Offices
  /\ late' \in BOOLEAN
  /\ UNCHANGED <<held, votes, backers>>

Fund ==
  /\ outcome = "open" /\ held = 0
  /\ held' \in Nat \ {0}
  /\ UNCHANGED <<outcome, electorate, votes, backers, late>>

Vote(g) ==
  /\ outcome = "open" /\ held > 0
  /\ g \in electorate \ votes
  /\ votes' = votes \cup {g}
  /\ UNCHANGED <<held, outcome, electorate, backers, late>>

\* New guardians need the signatures of a quorum and start with no vote cast.
Elect ==
  /\ outcome = "open"
  /\ backers' \subseteq electorate /\ backers' \in Quorums
  /\ electorate' \in Offices /\ votes' = {}
  /\ UNCHANGED <<held, outcome, late>>

Leave(how) ==
  /\ outcome = "open" /\ held > 0
  /\ outcome' = how /\ held' = 0
  /\ UNCHANGED <<electorate, votes, backers, late>>

Pay == late /\ votes \in Quorums /\ Leave("paid")

Withdraw == (~late \/ votes = {}) /\ Leave("withdrawn")

Agree == Leave("agreed")

Expire ==
  /\ outcome # "none" /\ late' = TRUE
  /\ UNCHANGED <<held, outcome, electorate, votes, backers>>

Next ==
  \/ Found \/ Fund \/ Elect
  \/ \E g \in Address : Vote(g)
  \/ Pay \/ Withdraw \/ Agree \/ Expire

Spec == Init /\ [][Next]_vars
=============================================================================
