--------------------------- MODULE StakingRewards ---------------------------
(***************************************************************************)
(* contracts/staking_rewards: principal is staked, rewards compound by a    *)
(* rate that is constant within an epoch and decays from one to the next.   *)
(* Rewards are brought up to date only when their owner calls.  Every call  *)
(* runs alone and leaves no trace when it fails.                            *)
(*                                                                          *)
(* Rates are counted in ln 2, so the factor e^(rate * blocks) of an epoch   *)
(* is a power of two and the fixed-point rounding of the code does not      *)
(* show.  The reward token is not the staking token.                        *)
(***************************************************************************)
EXTENDS Integers, FiniteSetsExt

CONSTANTS
  Stakers,      \* who stakes
  StakerCoins,  \* staking tokens each of them starts with
  RewardPot,    \* reward tokens the contract starts with
  InitialRate,  \* rate of epoch 0
  Decay,        \* what a rate is divided by from one epoch to the next
  EpochLength,  \* ledgers in an epoch
  StartBlock,   \* ledger that epoch 0 starts with
  LastBlock,    \* bound: last ledger
  WholePenalty, \* the whole of a penalty: 10_000
  Penalties     \* what the owner may set the penalty to

ASSUME StakingAssumption ==
  /\ IsFiniteSet(Stakers)
  /\ StakerCoins \in Nat /\ RewardPot \in Nat /\ InitialRate \in Nat
  /\ Decay \in Nat \ {0} /\ EpochLength \in Nat \ {0}
  /\ StartBlock \in Nat /\ LastBlock \in Nat
  /\ WholePenalty \in Nat \ {0} /\ Penalties \subseteq 0..WholePenalty

VARIABLES
  height,       \* ledger sequence
  accounts,     \* UserState of each staker; None if it has none
  totalStaked,  \* TotalStaked
  heldStakes,   \* the contract's balance of staking tokens
  stakerPurse,  \* each staker's balance of them
  pot,          \* the contract's balance of reward tokens
  penaltyBps,   \* PenaltyFeeBps
  stakePaused,  \* STAKE paused at the guard
  claimPaused,  \* CLAIM_REWARDS paused at the guard
  penalties,    \* history: penalties kept so far
  earned        \* history: rewards compounded ledger by ledger

stakingVars == <<height, accounts, totalStaked, heldStakes, stakerPurse, pot,
                 penaltyBps, stakePaused, claimPaused, penalties, earned>>

None == [staked |-> 0, accrued |-> 0, last |-> -1]
Account == [staked : Nat, accrued : Nat, last : Nat] \cup {None}

StakingTypeOK ==
  /\ height \in 0..LastBlock
  /\ accounts \in [Stakers -> Account]
  /\ totalStaked \in Nat /\ heldStakes \in Nat /\ pot \in Nat
  /\ stakerPurse \in [Stakers -> 0..StakerCoins]
  /\ penaltyBps \in 0..WholePenalty
  /\ stakePaused \in BOOLEAN /\ claimPaused \in BOOLEAN
  /\ penalties \in Nat /\ earned \in [Stakers -> Nat]

StakingInit ==
  /\ height = 0
  /\ accounts = [u \in Stakers |-> None]
  /\ totalStaked = 0 /\ heldStakes = 0 /\ pot = RewardPot
  /\ stakerPurse = [u \in Stakers |-> StakerCoins]
  /\ penaltyBps = 0 /\ stakePaused = FALSE /\ claimPaused = FALSE
  /\ penalties = 0 /\ earned = [u \in Stakers |-> 0]

-----------------------------------------------------------------------------
\* Rewards

Later(a, b) == IF a > b THEN a ELSE b
Earlier(a, b) == IF a < b THEN a ELSE b

EpochAt(b) == IF b <= StartBlock THEN 0 ELSE (b - StartBlock) \div EpochLength

EpochRate[epoch \in Nat] ==
  IF epoch = 0 THEN InitialRate ELSE EpochRate[epoch - 1] \div Decay

\* Ledgers of an epoch that lie between two others.
Overlap(epoch, from, to) ==
  LET start == StartBlock + epoch * EpochLength
      first == Later(from, start)
      last == Earlier(to, start + EpochLength)
  IN  IF last > first THEN last - first ELSE 0

Multiplier(from, to) ==
  LET t1 == Later(from, StartBlock)
      t2 == Later(to, StartBlock)
  IN  IF t2 <= t1 THEN 1
      ELSE 2 ^ SumFunction([e \in EpochAt(t1)..EpochAt(t2) |->
                              EpochRate[e] * Overlap(e, t1, t2)])

\* compute_reward_index: principal and rewards grow together.
RewardIndex(staked, accrued, multiplier) ==
  (staked + accrued) * multiplier - staked

Pending(u) ==
  LET s == accounts[u]
  IN  IF s.staked > 0 /\ height > s.last
      THEN RewardIndex(s.staked, s.accrued, Multiplier(s.last, height))
      ELSE s.accrued

\* update_user_rewards_internal; what it returns is stored by its callers.
Updated(u) ==
  [accounts[u] EXCEPT !.accrued = Pending(u), !.last = Later(height, StartBlock)]

Store(u, state) ==
  accounts' = [accounts EXCEPT
    ![u] = IF state.staked = 0 /\ state.accrued = 0 THEN None ELSE state]

-----------------------------------------------------------------------------
(* Mutant: the rewards so far are not brought up to date.                 *)
StakeUnaccrued(u, amount) ==
  /\ ~ stakePaused
  /\ stakerPurse[u] >= amount
  /\ stakerPurse' = [stakerPurse EXCEPT ![u] = @ - amount]
  /\ heldStakes' = heldStakes + amount
  /\ totalStaked' = totalStaked + amount
  /\ accounts' = [accounts EXCEPT ![u] =
                    [staked |-> @.staked + amount, accrued |-> @.accrued,
                     last |-> Later(height, StartBlock)]]
  /\ UNCHANGED <<height, pot, penaltyBps, stakePaused, claimPaused, penalties,
                 earned>>

Stake(u, amount) ==
  LET state == Updated(u)
  IN  /\ ~ stakePaused
      /\ stakerPurse[u] >= amount
      /\ stakerPurse' = [stakerPurse EXCEPT ![u] = @ - amount]
      /\ heldStakes' = heldStakes + amount
      /\ totalStaked' = totalStaked + amount
      /\ accounts' = [accounts EXCEPT
                        ![u] = [state EXCEPT !.staked = @ + amount]]
      /\ UNCHANGED <<height, pot, penaltyBps, stakePaused, claimPaused,
                     penalties, earned>>

Unstake(u, amount) ==
  LET state == Updated(u)
  IN  /\ ~ stakePaused
      /\ amount <= state.staked
      /\ totalStaked' = totalStaked - amount
      /\ Store(u, [state EXCEPT !.staked = @ - amount])
      /\ amount <= heldStakes
      /\ heldStakes' = heldStakes - amount
      /\ stakerPurse' = [stakerPurse EXCEPT ![u] = @ + amount]
      /\ UNCHANGED <<height, pot, penaltyBps, stakePaused, claimPaused,
                     penalties, earned>>

\* Without rewards the call changes nothing.
Claim(u) ==
  LET state == Updated(u)
  IN  /\ ~ stakePaused /\ ~ claimPaused
      /\ 0 < state.accrued /\ state.accrued <= pot
      /\ pot' = pot - state.accrued
      /\ Store(u, [state EXCEPT !.accrued = 0])
      /\ earned' = [earned EXCEPT ![u] = 0]
      /\ UNCHANGED <<height, totalStaked, heldStakes, stakerPurse, penaltyBps,
                     stakePaused, claimPaused, penalties>>

(* Mutant: the total keeps what has left.                                 *)
EmergencyUncounted(u) ==
  LET amount == accounts[u].staked
      penalty == (amount * penaltyBps) \div WholePenalty
  IN  /\ amount > 0
      /\ accounts' = [accounts EXCEPT ![u] = None]
      /\ amount - penalty <= heldStakes
      /\ heldStakes' = heldStakes - (amount - penalty)
      /\ stakerPurse' = [stakerPurse EXCEPT ![u] = @ + amount - penalty]
      /\ penalties' = penalties + penalty
      /\ earned' = [earned EXCEPT ![u] = 0]
      /\ UNCHANGED <<height, totalStaked, pot, penaltyBps, stakePaused,
                     claimPaused>>

\* Paused or not; the penalty stays in the contract, where no call reaches it.
EmergencyWithdraw(u) ==
  LET amount == accounts[u].staked
      penalty == (amount * penaltyBps) \div WholePenalty
  IN  /\ amount > 0
      /\ totalStaked' = totalStaked - amount
      /\ accounts' = [accounts EXCEPT ![u] = None]
      /\ amount - penalty <= heldStakes
      /\ heldStakes' = heldStakes - (amount - penalty)
      /\ stakerPurse' = [stakerPurse EXCEPT ![u] = @ + amount - penalty]
      /\ penalties' = penalties + penalty
      /\ earned' = [earned EXCEPT ![u] = 0]
      /\ UNCHANGED <<height, pot, penaltyBps, stakePaused, claimPaused>>

\* set_penalty_fee, the calls that pause and resume staking, and
\* set_claim_rewards_paused.
Administer(bps, stakeOff, claimOff) ==
  /\ penaltyBps' = bps
  /\ stakePaused' = stakeOff /\ claimPaused' = claimOff
  /\ UNCHANGED <<height, accounts, totalStaked, heldStakes, stakerPurse, pot,
                 penalties, earned>>

\* The history compounds the ledger that ends, at the rate of its own epoch.
BlockPasses ==
  /\ height < LastBlock
  /\ height' = height + 1
  /\ earned' = [u \in Stakers |->
       LET staked == accounts[u].staked
           rate == EpochRate[(height - StartBlock) \div EpochLength]
       IN  IF staked > 0 /\ height >= StartBlock
           THEN (staked + earned[u]) * 2 ^ rate - staked ELSE earned[u]]
  /\ UNCHANGED <<accounts, totalStaked, heldStakes, stakerPurse, pot,
                 penaltyBps, stakePaused, claimPaused, penalties>>

StakingNext ==
  \/ BlockPasses
  \/ \E u \in Stakers :
       \/ \E amount \in 1..StakerCoins : Stake(u, amount) \/ Unstake(u, amount)
       \/ Claim(u) \/ EmergencyWithdraw(u)
  \/ \E bps \in Penalties :
       /\ bps # penaltyBps
       /\ Administer(bps, stakePaused, claimPaused)
  \/ Administer(penaltyBps, ~ stakePaused, claimPaused)
  \/ Administer(penaltyBps, stakePaused, ~ claimPaused)

StakingSpec == StakingInit /\ [][StakingNext]_stakingVars

-----------------------------------------------------------------------------
\* Properties

\* What the contract holds is what its users staked and the penalties it kept,
\* and the total agrees with the accounts.
StakesBacked ==
  /\ totalStaked = SumFunction([u \in Stakers |-> accounts[u].staked])
  /\ heldStakes = totalStaked + penalties

\* However a user's calls cut the time into periods, whatever epochs these
\* cross and whenever they start, the rewards are those of compounding each
\* ledger at the rate of its epoch.
RewardsCompound == \A u \in Stakers : Pending(u) = earned[u]
=============================================================================
