----------------------------- MODULE MCContracts -----------------------------
(***************************************************************************)
(* Model-checking instances of the contracts: those that hold other people's *)
(* tokens (the escrow, the auctions, the pool, the vault, the order book,   *)
(* the concentrated pool) and those whose rules span many calls (the pause  *)
(* switch, the votes, the staking rewards, the loans).  They do not call    *)
(* one another, so a behaviour is one contract's: which one is chosen at    *)
(* the start, and the others stay as they are deployed.                     *)
(***************************************************************************)
EXTENDS TimelockEscrow, Auctions, LiquidityPool, FlashLoanVault, HybridBook,
        ConcentratedAmm, EmergencyGuard, Governance, StakingRewards, Cdp, TLC

CONSTANTS g1, g2, g3, g4, g5, g6, nft, vendor, bidder, rival, provider,
          a1, a2, a3, a4, swap, deposit, zoe, yan, i1, i2

VARIABLE contract

\* The escrow: a first list of guardians, the same persons but one in other
\* positions, a list with a person twice and one that is too short.
Six == {g1, g2, g3, g4, g5, g6}
FourLists == {<<g1, g2, g3, g4, g5>>, <<g2, g6, g1, g4, g3>>, <<g1, g2, g2, g3, g4>>,
              <<g1, g2, g3, g4>>}

\* A negative amount, nothing, one whose fee is rounded, and more than the
\* depositor owns.
SomeAmounts == {-1, 0, 5, 9}
\* The next ledger, and one beyond the largest.
SomeLocks == {1, 9}
\* A fee that is rounded, all of the deposit, and one over the limit.
SomeRates == {2500, 10000, 10001}

\* The auctions and the pool.
ThreePersons == {vendor, bidder, rival}
TwoTraders == {bidder, rival}
OneLot == {nft}

\* The concentrated pool: two ranges that overlap, over words of two ticks.
TwoSpans == {<<-2, 2>>, <<0, 4>>}

\* The pause switch: deployers who name each admin once.
Four == {a1, a2, a3, a4}
TwoOps == {swap, deposit}
Distinct == {<<a1>>, <<a1, a2>>, <<a1, a2, a3>>}

\* The votes, the stakes and the loans.
TwoUsers == {zoe, yan}
TwoIdentities == {i1, i2}

\* What one of them has covers a debt at the lower price, what the other has
\* does not.
SomeCollateral == (zoe :> 2) @@ (yan :> 1)

\* Bidders may change places, in the auctions and in the pool.
Sym == Permutations(TwoTraders)

-----------------------------------------------------------------------------
Contracts == {"escrow", "auctions", "pool", "vault", "book", "ranges",
              "guard", "governance", "staking", "cdp"}

ContractsInit ==
  /\ contract \in Contracts
  /\ Init /\ AuctionsInit /\ PoolInit /\ VaultInit /\ BookInit /\ AmmInit
  /\ GuardInit /\ VotingInit /\ StakingInit /\ CdpInit
  /\ contract # "auctions" => owner = [l \in Lots |-> vendor]
  /\ contract # "pool" => feeBps = 0 /\ lpFeeBps = 0
  /\ contract # "book" => limits = [depth |-> 1, tolerance |-> 2]

\* A contract that was not chosen stays as it is.
Stays(name, v) == IF contract = name THEN TRUE ELSE UNCHANGED v

ContractsNext ==
  /\ UNCHANGED contract
  /\ \/ contract = "escrow" /\ Next
     \/ contract = "auctions" /\ AuctionsNext
     \/ contract = "pool" /\ PoolNext
     \/ contract = "vault" /\ VaultNext
     \/ contract = "book" /\ BookNext
     \/ contract = "ranges" /\ AmmNext
     \/ contract = "guard" /\ GuardNext
     \/ contract = "governance" /\ VotingNext
     \/ contract = "staking" /\ StakingNext
     \/ contract = "cdp" /\ CdpNext
  /\ Stays("escrow", vars) /\ Stays("auctions", auctionVars)
  /\ Stays("pool", poolVars) /\ Stays("vault", vaultVars)
  /\ Stays("book", bookVars) /\ Stays("ranges", ammVars)
  /\ Stays("guard", guardVars) /\ Stays("governance", votingVars)
  /\ Stays("staking", stakingVars) /\ Stays("cdp", cdpVars)

ContractsSpec ==
  ContractsInit /\ [][ContractsNext]_<<contract, vars, auctionVars, poolVars, vaultVars,
                                       bookVars, ammVars, guardVars, votingVars,
                                       stakingVars, cdpVars>>

\* Every variable has its type, so no balance and no total is ever negative: each
\* transfer a contract makes is one it can pay.  The totals of the contracts that
\* keep totals agree with their accounts.  (The contracts that were not chosen are
\* as deployed.)
Booked ==
  /\ contract = "escrow" => TypeOK
  /\ contract = "auctions" => AuctionsTypeOK
  /\ contract = "pool" => PoolTypeOK /\ PoolBacked
  /\ contract = "vault" => VaultTypeOK
  /\ contract = "book" => BookTypeOK
  /\ contract = "ranges" => AmmTypeOK
  /\ contract = "guard" => GuardTypeOK
  /\ contract = "governance" => VotingTypeOK
  /\ contract = "staking" => StakingTypeOK /\ StakesBacked
  /\ contract = "cdp" => CdpTypeOK /\ CdpBooked
=============================================================================
