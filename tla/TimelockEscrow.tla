--------------------------- MODULE TimelockEscrow ---------------------------
(***************************************************************************)
(* The escrow contract of contracts/timelocked_escrow: a configuration, a   *)
(* list of guardians, a bitmap with one bit per position in that list, and  *)
(* the token balances it moves.  A contract call runs alone and leaves no   *)
(* trace when it fails, so each entry point is one action whose guard is    *)
(* the conjunction of its checks; the token's own checks are among them.    *)
(* Events and the extension of the storage's lifetime are left out.         *)
(***************************************************************************)
EXTENDS Integers, Sequences, FiniteSets

CONSTANTS
  Address,  \* who may be a guardian
  Size,     \* REQUIRED_GUARDIANS
  Quorum,   \* REQUIRED_APPROVALS
  Lists,    \* lists of guardians a caller may pass
  Amounts,  \* amounts a caller may deposit or send
  Locks,    \* values of lock_ledgers
  Rates,    \* values of cancellation_fee_bps
  Wealth,   \* the depositor's tokens at the start
  U32Max,   \* the largest ledger number
  MaxEpoch, \* bound: changes of guardians
  MaxStray  \* bound: tokens sent to the contract without a deposit

ASSUME EscrowAssumption ==
  /\ Size \in Nat /\ Quorum \in Nat
  /\ Lists \subseteq Seq(Address)
  /\ Amounts \subseteq Int /\ Locks \subseteq Nat /\ Rates \subseteq Nat
  /\ Wealth \in Nat /\ U32Max \in Nat
  /\ MaxEpoch \in Nat /\ MaxStray \in Nat

VARIABLES
  stage,      \* "none" before initialize, then is_released and is_cancelled
  amount,     \* what is owed
  terms,      \* unlock_ledger and cancellation_fee_bps
  guardians,  \* the stored list
  approvals,  \* the positions whose bit is set
  epoch,      \* how often the guardians changed
  ledger,     \* the ledger's sequence number
  balance,    \* tokens of the contract and of its parties
  paidIn,     \* history: what was deposited
  stray,      \* history: what was sent without a deposit
  agreed,     \* history: the beneficiary signed the cancellation
  backers     \* history: who signed for the last change of guardians

vars == <<stage, amount, terms, guardians, approvals, epoch, ledger, balance,
          paidIn, stray, agreed, backers>>

\* Basis points in a whole: rates are shares of it.
Whole == 10000

Party == {"escrow", "depositor", "beneficiary", "vault"}

MoneyType == balance \in [Party -> Nat] /\ amount \in Nat /\ paidIn \in Nat
ListType == guardians \in Seq(Address) /\ approvals \subseteq DOMAIN guardians
TermsType == terms \in [unlock : 0..U32Max, rate : 0..Whole]
ScalarType ==
  /\ stage \in {"none", "active", "released", "cancelled"}
  /\ epoch \in 0..MaxEpoch /\ ledger \in 0..U32Max /\ stray \in 0..MaxStray
  /\ agreed \in BOOLEAN /\ backers \subseteq Address

TypeOK == MoneyType /\ ListType /\ TermsType /\ ScalarType

Init ==
  /\ stage = "none" /\ amount = 0 /\ terms = [unlock |-> 0, rate |-> 0]
  /\ guardians = << >> /\ approvals = {} /\ epoch = 0
  /\ ledger = 0
  /\ balance = [p \in Party |-> IF p = "depositor" THEN Wealth ELSE 0]
  /\ paidIn = 0 /\ stray = 0
  /\ agreed = FALSE /\ backers = {}

-----------------------------------------------------------------------------
\* Guards and helpers

Active == stage = "active"
Funded == amount # 0
Expired == ledger >= terms.unlock

\* Exactly Size guardians, no two the same.
Valid(gs) ==
  /\ Len(gs) = Size
  /\ \A i, j \in DOMAIN gs : i < j => gs[i] # gs[j]

\* g stands at position i, and at none before.
IndexOf(gs, g, i) ==
  /\ i \in DOMAIN gs /\ gs[i] = g
  /\ \A j \in 1..(i - 1) : gs[j] # g

HasQuorum == Cardinality(approvals) >= Quorum

\* The token moves n from one party to another, or fails.
CanPay(p, n) == n >= 0 /\ balance[p] >= n
Cut(n, rate) == (n * rate) \div Whole
Fee == Cut(amount, terms.rate)

Sooner(a, b) == IF a < b THEN a ELSE b

-----------------------------------------------------------------------------
\* The entry points

(* Mutant: the fee's cap is not checked.                                  *)
InitializeUncapped(gs, lock, rate) ==
  /\ stage = "none"
  /\ Valid(gs)
  /\ stage' = "active" /\ amount' = 0
  /\ terms' = [unlock |-> Sooner(ledger + lock, U32Max), rate |-> rate]
  /\ guardians' = gs /\ approvals' = {} /\ epoch' = 0
  /\ UNCHANGED <<ledger, balance, paidIn, stray, agreed, backers>>

Initialize(gs, lock, rate) ==
  /\ stage = "none"
  /\ Valid(gs) /\ rate <= Whole
  /\ stage' = "active" /\ amount' = 0
  /\ terms' = [unlock |-> Sooner(ledger + lock, U32Max), rate |-> rate]
  /\ guardians' = gs /\ approvals' = {} /\ epoch' = 0
  /\ UNCHANGED <<ledger, balance, paidIn, stray, agreed, backers>>

(* Mutant: a second deposit is let in.                                    *)
DepositAgain(n) ==
  /\ Active
  /\ CanPay("depositor", n)
  /\ balance' = [balance EXCEPT !["depositor"] = @ - n, !["escrow"] = @ + n]
  /\ amount' = n
  /\ paidIn' = n
  /\ UNCHANGED <<stage, terms, guardians, approvals, epoch, ledger, stray,
                 agreed, backers>>

Deposit(n) ==
  /\ Active /\ amount <= 0
  /\ CanPay("depositor", n)
  /\ balance' = [balance EXCEPT !["depositor"] = @ - n, !["escrow"] = @ + n]
  /\ amount' = n
  /\ paidIn' = n
  /\ UNCHANGED <<stage, terms, guardians, approvals, epoch, ledger, stray,
                 agreed, backers>>

Approve(g) ==
  /\ Active /\ Funded
  /\ \E i \in DOMAIN guardians :
       /\ IndexOf(guardians, g, i)
       /\ i \notin approvals
       /\ approvals' = approvals \cup {i}
  /\ UNCHANGED <<stage, amount, terms, guardians, epoch, ledger, balance,
                 paidIn, stray, agreed, backers>>

Release ==
  /\ Active /\ Funded /\ Expired /\ HasQuorum
  /\ CanPay("escrow", amount)
  /\ balance' = [balance EXCEPT !["escrow"] = @ - amount,
                                !["beneficiary"] = @ + amount]
  /\ stage' = "released" /\ amount' = 0
  /\ UNCHANGED <<terms, guardians, approvals, epoch, ledger, paidIn, stray,
                 agreed, backers>>

\* The fee goes to the vault, the rest to the depositor.
Refund ==
  /\ CanPay("escrow", Fee) /\ CanPay("escrow", amount)
  /\ balance' = [balance EXCEPT
                   !["escrow"] = @ - Fee - (amount - Fee),
                   !["vault"] = @ + Fee,
                   !["depositor"] = @ + (amount - Fee)]
  /\ stage' = "cancelled" /\ amount' = 0
  /\ UNCHANGED <<terms, guardians, approvals, epoch, ledger, paidIn, stray,
                 backers>>

Cancel ==
  /\ Active /\ Funded
  /\ ~(Expired /\ Cardinality(approvals) > 0)
  /\ Refund
  /\ UNCHANGED agreed

MutualCancel ==
  /\ Active /\ Funded
  /\ Refund
  /\ agreed' = TRUE

\* Each of the approving guardians signs, stands in the list and comes once.
Signed(signers) ==
  /\ Len(signers) = Quorum
  /\ \A k \in DOMAIN signers :
       \E i \in DOMAIN guardians : IndexOf(guardians, signers[k], i)
  /\ \A k, l \in DOMAIN signers : k < l => signers[k] # signers[l]

(* Mutant: the bits of the old list stay set.                             *)
RotateKeepsBits(gs, signers) ==
  /\ Active /\ epoch < MaxEpoch
  /\ Valid(gs)
  /\ Signed(signers)
  /\ guardians' = gs /\ epoch' = epoch + 1
  /\ backers' = {signers[k] : k \in DOMAIN signers}
  /\ UNCHANGED <<stage, amount, terms, approvals, ledger, balance, paidIn,
                 stray, agreed>>

RotateGuardians(gs, signers) ==
  /\ Active /\ epoch < MaxEpoch
  /\ Valid(gs)
  /\ Signed(signers)
  /\ guardians' = gs /\ approvals' = {} /\ epoch' = epoch + 1
  /\ backers' = {signers[k] : k \in DOMAIN signers}
  /\ UNCHANGED <<stage, amount, terms, ledger, balance, paidIn, stray,
                 agreed>>

-----------------------------------------------------------------------------
\* The world outside the contract

\* Somebody sends tokens to the contract's address and calls no entry point.
SendStray(n) ==
  /\ n \in Nat /\ stray + n <= MaxStray
  /\ balance' = [balance EXCEPT !["escrow"] = @ + n]
  /\ stray' = stray + n
  /\ UNCHANGED <<stage, amount, terms, guardians, approvals, epoch, ledger,
                 paidIn, agreed, backers>>

CloseLedger ==
  /\ ledger < U32Max
  /\ ledger' = ledger + 1
  /\ UNCHANGED <<stage, amount, terms, guardians, approvals, epoch, balance,
                 paidIn, stray, agreed, backers>>

Next ==
  \/ \E gs \in Lists, lock \in Locks, rate \in Rates :
       Initialize(gs, lock, rate)
  \/ \E n \in Amounts : Deposit(n) \/ SendStray(n)
  \/ \E g \in Address : Approve(g)
  \/ Release \/ Cancel \/ MutualCancel
  \/ \E gs \in Lists, signers \in [1..Quorum -> Address] :
       RotateGuardians(gs, signers)
  \/ CloseLedger

Spec == Init /\ [][Next]_vars

-----------------------------------------------------------------------------
\* Properties

\* The contract holds what it owes, to the last token and on top of what was
\* sent to it by mistake; the beneficiary has the whole deposit or nothing;
\* the vault has the fee of a cancelled deposit or nothing; the depositor has
\* the rest.  No order of calls pays twice, pays both sides or keeps a part.
MoneyFollows ==
  LET fee == Cut(paidIn, terms.rate)
  IN  /\ balance["escrow"] = amount + stray
      /\ stage \in {"none", "active"} => amount = paidIn
      /\ stage \in {"released", "cancelled"} => amount = 0
      /\ balance["beneficiary"] = IF stage = "released"
                                  THEN paidIn ELSE 0
      /\ balance["vault"] = IF stage = "cancelled" THEN fee ELSE 0
      /\ balance["depositor"] = IF stage = "cancelled"
                                THEN Wealth - fee ELSE Wealth - paidIn

Outcome == CASE stage = "none" -> "none"
             [] stage = "active" -> "open"
             [] stage = "released" -> "paid"
             [] OTHER -> IF agreed THEN "agreed" ELSE "withdrawn"
Office == {guardians[i] : i \in DOMAIN guardians}
Votes == {guardians[i] : i \in approvals}
Late == stage # "none" /\ Expired

Offices == {E \in SUBSET Address : Cardinality(E) = Size}
Quorums == {S \in SUBSET Address : Cardinality(S) >= Quorum}

Promise == INSTANCE GuardedDeposit WITH
  held <- amount, outcome <- Outcome, electorate <- Office, votes <- Votes,
  late <- Late

\* Bits are set by position, yet they count persons: the contract keeps the
\* promise of GuardedDeposit, where votes are a set of guardians in office,
\* and the deposit leaves once, by one of its three ways.
KeepsPromise == Promise!Spec
=============================================================================
