----------------------------- MODULE Governance -----------------------------
(***************************************************************************)
(* contracts/governance: quadratic voting.  An admin registers voters with  *)
(* voting units and, if they have one, an identity that belongs to one      *)
(* voter at a time; a proposal is voted on with the units voters had when   *)
(* it was made; a group of admins executes it.  Every call runs alone and   *)
(* leaves no trace when it fails.                                           *)
(***************************************************************************)
EXTENDS Integers, SequencesExt

CONSTANTS
  Voters,           \* who may be registered
  Units,            \* voting units they may be registered with
  MinUnits,         \* min_voting_units
  Identities,       \* commitments to an identity
  Zero,             \* the commitment of who has none
  IdentityRequired, \* whether a voter must have one
  Executors,        \* execution_admins
  Threshold,        \* execution_threshold
  MaxApprovers,     \* bound: approvers a call lists
  Windows,          \* ledgers a vote may be open for
  MaxProposals,     \* bound: proposals made
  VotingHorizon     \* bound: last ledger

ASSUME GovernanceAssumption ==
  /\ IsFiniteSet(Voters) /\ IsFiniteSet(Units) /\ Units # {}
  /\ Units \subseteq Nat /\ MinUnits \in Nat \ {0}
  /\ Zero \notin Identities \cup Voters /\ IdentityRequired \in BOOLEAN
  /\ Threshold \in 1..Cardinality(Executors)
  /\ Windows \subseteq Nat \ {0}
  /\ MaxApprovers \in Nat /\ MaxProposals \in Nat /\ VotingHorizon \in Nat

VARIABLES
  sequence,      \* ledger sequence
  voterUnits,    \* units of each voter; 0 if it is not registered
  commitment,    \* the identity in each voter's profile
  identityOwner, \* IdentityOwner of each identity; Zero if it is free
  proposals      \* in the order of their ids

votingVars == <<sequence, voterUnits, commitment, identityOwner, proposals>>

Registered == {v \in Voters : voterUnits[v] # 0}

\* A voter's receipt: what was spent, on which side; 0 before the first vote.
Receipt == [support : BOOLEAN, spent : Nat]

Proposal == [endsAt : Nat, snapshot : [Voters -> Nat], open : BOOLEAN,
             for : Nat, against : Nat, receipts : [Voters -> Receipt]]

VotingTypeOK ==
  /\ sequence \in 0..VotingHorizon
  /\ voterUnits \in [Voters -> {0} \cup Units]
  /\ commitment \in [Voters -> Identities \cup {Zero}]
  /\ identityOwner \in [Identities -> Voters \cup {Zero}]
  /\ proposals \in Seq(Proposal)

VotingInit ==
  /\ sequence = 0
  /\ voterUnits = [v \in Voters |-> 0]
  /\ commitment = [v \in Voters |-> Zero]
  /\ identityOwner = [i \in Identities |-> Zero]
  /\ proposals = << >>

\* Newton's method, from above, until an estimate is not below the last one.
Estimate(credits, y) == (credits \div y + y) \div 2

VotesFor(credits) ==
  LET settled[y \in Nat \ {0}] ==
        IF Estimate(credits, y) < y THEN settled[Estimate(credits, y)] ELSE y
  IN  IF credits <= 0 THEN 0 ELSE settled[credits]

-----------------------------------------------------------------------------
(* Mutant: an identity a voter gave up still belongs to it.               *)
RegisterKeepingOld(v, units, id) ==
  /\ units >= MinUnits
  /\ IdentityRequired => id # Zero
  /\ id # Zero => identityOwner[id] \in {v, Zero}
  /\ identityOwner' = [i \in Identities |-> IF i = id THEN v ELSE identityOwner[i]]
  /\ voterUnits' = [voterUnits EXCEPT ![v] = units]
  /\ commitment' = [commitment EXCEPT ![v] = id]
  /\ UNCHANGED <<sequence, proposals>>

\* Also of a voter already registered: its former identity is free again.
RegisterVoter(v, units, id) ==
  /\ units >= MinUnits
  /\ IdentityRequired => id # Zero
  /\ id # Zero => identityOwner[id] \in {v, Zero}
  /\ identityOwner' = [i \in Identities |->
       CASE i = id -> v
         [] i # id /\ i = commitment[v] -> Zero
         [] OTHER -> identityOwner[i]]
  /\ voterUnits' = [voterUnits EXCEPT ![v] = units]
  /\ commitment' = [commitment EXCEPT ![v] = id]
  /\ UNCHANGED <<sequence, proposals>>

CreateProposal(window) ==
  /\ Len(proposals) < MaxProposals
  /\ proposals' = Append(proposals,
       [endsAt |-> sequence + window, snapshot |-> voterUnits, open |-> TRUE,
        for |-> 0, against |-> 0,
        receipts |-> [v \in Voters |-> [support |-> FALSE, spent |-> 0]]])
  /\ UNCHANGED <<sequence, voterUnits, commitment, identityOwner>>

Close(p) ==
  /\ proposals' = [proposals EXCEPT ![p].open = FALSE]
  /\ UNCHANGED <<sequence, voterUnits, commitment, identityOwner>>

CloseProposal(p) == Close(p)

\* Each listed approver is an admin and signs; listed twice it counts once.
ExecutionApproved(approvers) ==
  /\ ToSet(approvers) \subseteq Executors
  /\ Cardinality(ToSet(approvers)) >= Threshold

\* Whether the votes are for it or against it.
ExecuteProposal(p, approvers) ==
  /\ ExecutionApproved(approvers)
  /\ proposals[p].open /\ sequence > proposals[p].endsAt
  /\ Close(p)

(* Mutant: what is spent is turned into votes by itself.                  *)
CastVoteApart(p, v, support, credits) ==
  LET prop == proposals[p]
      spent == prop.receipts[v].spent
      side == IF support THEN prop.for ELSE prop.against
      gain == VotesFor(credits)
  IN  /\ prop.open /\ sequence <= prop.endsAt
      /\ prop.snapshot[v] # 0
      /\ spent > 0 => prop.receipts[v].support = support
      /\ spent + credits <= prop.snapshot[v]
      /\ gain > 0
      /\ proposals' = [proposals EXCEPT ![p] =
           [prop EXCEPT !.for = IF support THEN side + gain ELSE @,
                        !.against = IF support THEN @ ELSE side + gain,
                        !.receipts[v] = [support |-> support,
                                         spent |-> spent + credits]]]
      /\ UNCHANGED <<sequence, voterUnits, commitment, identityOwner>>

\* A voter may add to what it spent, never change sides, and each call must
\* win at least one vote.
CastVote(p, v, support, credits) ==
  LET prop == proposals[p]
      spent == prop.receipts[v].spent
      side == IF support THEN prop.for ELSE prop.against
      gain == VotesFor(spent + credits) - VotesFor(spent)
  IN  /\ prop.open /\ sequence <= prop.endsAt
      /\ prop.snapshot[v] # 0
      /\ spent > 0 => prop.receipts[v].support = support
      /\ spent + credits <= prop.snapshot[v]
      /\ gain > 0
      /\ proposals' = [proposals EXCEPT ![p] =
           [prop EXCEPT !.for = IF support THEN side + gain ELSE @,
                        !.against = IF support THEN @ ELSE side + gain,
                        !.receipts[v] = [support |-> support,
                                         spent |-> spent + credits]]]
      /\ UNCHANGED <<sequence, voterUnits, commitment, identityOwner>>

LedgerPasses ==
  /\ sequence < VotingHorizon
  /\ sequence' = sequence + 1
  /\ UNCHANGED <<voterUnits, commitment, identityOwner, proposals>>

VotingNext ==
  \/ LedgerPasses
  \/ \E v \in Voters, units \in Units, id \in Identities \cup {Zero} :
       RegisterVoter(v, units, id)
  \/ \E window \in Windows : CreateProposal(window)
  \/ \E p \in DOMAIN proposals :
       \/ CloseProposal(p)
       \/ \E approvers \in BoundedSeq(Executors, MaxApprovers) :
            ExecuteProposal(p, approvers)
       \/ \E v \in Voters, support \in BOOLEAN, credits \in 1..Max(Units) :
            CastVote(p, v, support, credits)

VotingSpec == VotingInit /\ [][VotingNext]_votingVars

-----------------------------------------------------------------------------
\* Properties

\* However voters are registered again and identities change hands, an
\* identity belongs to the one voter whose profile names it.
IdentityIsOnes ==
  \A i \in Identities : \A v \in Voters :
    identityOwner[i] = v <=> commitment[v] = i

SquareRoot(n) == CHOOSE r \in 0..n : r * r <= n /\ n < (r + 1) * (r + 1)

\* What the votes of one side should be.
Tally(prop, side) ==
  SumFunction([v \in Voters |-> IF prop.receipts[v].support = side
                                THEN SquareRoot(prop.receipts[v].spent) ELSE 0])

\* The votes of each side are the square roots of what its voters spent in
\* all, so spending in parts buys no more than spending at once, and nobody
\* spent more than it had when the proposal was made.
FairTally ==
  \A p \in DOMAIN proposals :
    LET prop == proposals[p]
    IN  /\ prop.for = Tally(prop, TRUE) /\ prop.against = Tally(prop, FALSE)
        /\ \A v \in Voters : prop.receipts[v].spent <= prop.snapshot[v]
=============================================================================
