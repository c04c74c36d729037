-------------------------------- MODULE Cdp --------------------------------
(***************************************************************************)
(* contracts/cdp: stablecoins minted against collateral.  The debt of a     *)
(* position grows when somebody calls for it; below the minimum ratio       *)
(* anybody may buy its collateral for stablecoins, or have the protocol     *)
(* take the collateral and write off what it does not cover.  The oracle is *)
(* external: each call may find another price and volatility.  Every call   *)
(* runs alone and leaves no trace when it fails.                            *)
(***************************************************************************)
EXTENDS Integers, FiniteSetsExt

CONSTANTS
  Borrowers,      \* who opens positions
  Collateral,     \* collateral tokens each of them starts with
  Full,           \* the whole of a ratio: 10_000
  PriceScale,     \* PRICE_SCALE
  LedgersPerYear, \* LEDGERS_PER_YEAR
  OraclePrices,   \* prices the oracle may answer
  Volatilities,   \* volatilities it may answer
  MinRatio,       \* min_collateral_ratio_bps
  Incentive,      \* liquidation_incentive_bps
  BaseRate, Slope1, Slope2, Optimal,  \* InterestRateModel
  LowVolatility, HighVolatility, BaseFloor, MaxFloor, \* VolatilityConfig
  MaxRequest,     \* bound: stablecoins a call asks for
  CdpHorizon      \* bound: last ledger

ASSUME CdpAssumption ==
  /\ IsFiniteSet(Borrowers)
  /\ Collateral \in [Borrowers -> Nat]
  /\ {Incentive, BaseRate, Slope1, Slope2, LowVolatility, MaxRequest,
      CdpHorizon} \cup Volatilities \subseteq Nat
  /\ {Full, PriceScale, LedgersPerYear} \cup OraclePrices \subseteq Nat \ {0}
  /\ MinRatio \in Nat /\ MinRatio > Full
  /\ Optimal \in 1..Full - 1
  /\ HighVolatility \in Nat /\ HighVolatility > LowVolatility
  /\ BaseFloor \in Nat /\ BaseFloor >= Full
  /\ MaxFloor \in BaseFloor..3 * Full

VARIABLES
  clock,           \* ledger sequence
  positions,       \* Position of each borrower
  stable,          \* StableBalance of each of them
  vaultTokens,     \* the contract's balance of collateral
  ownTokens,       \* each borrower's
  totalCollateral, \* TotalCollateral
  totalDebt,       \* TotalDebt
  stableSupply,    \* TotalStableSupply
  cdpReserves,     \* ProtocolCollateralReserves
  badDebt,         \* TotalBadDebt
  interestPaid,    \* history: interest added to debts
  covered          \* history: debt the protocol took collateral for

cdpVars == <<clock, positions, stable, vaultTokens, ownTokens, totalCollateral,
             totalDebt, stableSupply, cdpReserves, badDebt, interestPaid, covered>>

Position == [collateral : Nat, debt : Nat, last : Nat]

CdpTypeOK ==
  /\ clock \in 0..CdpHorizon
  /\ positions \in [Borrowers -> Position]
  /\ stable \in [Borrowers -> Nat] /\ ownTokens \in [Borrowers -> Nat]
  /\ vaultTokens \in Nat /\ totalCollateral \in Nat /\ totalDebt \in Nat
  /\ stableSupply \in Nat /\ cdpReserves \in Nat /\ badDebt \in Nat
  /\ interestPaid \in Nat /\ covered \in Nat

CdpInit ==
  /\ clock = 0
  /\ positions = [u \in Borrowers |-> [collateral |-> 0, debt |-> 0, last |-> 0]]
  /\ stable = [u \in Borrowers |-> 0]
  /\ vaultTokens = 0 /\ ownTokens = Collateral
  /\ totalCollateral = 0 /\ totalDebt = 0 /\ stableSupply = 0
  /\ cdpReserves = 0 /\ badDebt = 0
  /\ interestPaid = 0 /\ covered = 0

-----------------------------------------------------------------------------
\* Ratios, rates and interest

ValueOf(amount, price) == (amount * price) \div PriceScale

\* Rounded to the nearest.
Ratio(pos, price) ==
  LET n == pos.collateral * price * Full
      d == pos.debt * PriceScale
  IN  IF 2 * (n % d) >= d THEN n \div d + 1 ELSE n \div d

Utilization(price) ==
  LET value == ValueOf(totalCollateral, price)
  IN  IF value = 0 THEN 0 ELSE Min({Full, (totalDebt * Full) \div value})

BorrowRate(price) ==
  LET used == Utilization(price)
  IN  IF used <= Optimal THEN BaseRate + (used * Slope1) \div Optimal
      ELSE BaseRate + Slope1 + ((used - Optimal) * Slope2) \div (Full - Optimal)

\* What was rounded off is not asked for again: the ledger is recorded anyway.
Interest(u, price) ==
  LET p == positions[u]
  IN  ((p.debt * BorrowRate(price) * (clock - p.last)) \div Full) \div LedgersPerYear

Accrued(u, price) ==
  [positions[u] EXCEPT !.debt = @ + Interest(u, price), !.last = clock]

\* dynamic_collateral_floor
Floor(volatility) ==
  CASE volatility <= LowVolatility -> BaseFloor
    [] volatility >= HighVolatility -> MaxFloor
    [] OTHER -> BaseFloor + ((MaxFloor - BaseFloor) * (volatility - LowVolatility))
                              \div (HighVolatility - LowVolatility)

Safe(pos, price, volatility) ==
  pos.debt # 0 => /\ Ratio(pos, price) >= MinRatio
                  /\ Ratio(pos, price) >= Floor(volatility)

Liquidatable(pos, price) == pos.debt # 0 /\ Ratio(pos, price) < MinRatio

\* The debt a position's collateral pays for, incentive included.
Coverable(pos, price) ==
  (ValueOf(pos.collateral, price) * Full) \div (Full + Incentive)

-----------------------------------------------------------------------------
\* A call on u's position: what it leaves of it, and by how much the debt and
\* the supply change on top of the interest.
Book(u, pos, price, debtChange, supplyChange) ==
  LET interest == Interest(u, price)
  IN  /\ positions' = [positions EXCEPT ![u] = pos]
      /\ totalDebt' = totalDebt + interest + debtChange
      /\ stableSupply' = stableSupply + interest + supplyChange
      /\ interestPaid' = interestPaid + interest

DepositCollateral(u, amount, price) ==
  /\ amount <= ownTokens[u]
  /\ Book(u, [Accrued(u, price) EXCEPT !.collateral = @ + amount], price, 0, 0)
  /\ ownTokens' = [ownTokens EXCEPT ![u] = @ - amount]
  /\ vaultTokens' = vaultTokens + amount
  /\ totalCollateral' = totalCollateral + amount
  /\ UNCHANGED <<clock, stable, cdpReserves, badDebt, covered>>

WithdrawCollateral(u, amount, price, volatility) ==
  LET pos == [Accrued(u, price) EXCEPT !.collateral = @ - amount]
  IN  /\ amount <= positions[u].collateral
      /\ Safe(pos, price, volatility)
      /\ Book(u, pos, price, 0, 0)
      /\ amount <= vaultTokens
      /\ ownTokens' = [ownTokens EXCEPT ![u] = @ + amount]
      /\ vaultTokens' = vaultTokens - amount
      /\ totalCollateral' = totalCollateral - amount
      /\ UNCHANGED <<clock, stable, cdpReserves, badDebt, covered>>

MintStable(u, amount, price, volatility) ==
  LET pos == [Accrued(u, price) EXCEPT !.debt = @ + amount]
  IN  /\ Safe(pos, price, volatility)
      /\ Book(u, pos, price, amount, amount)
      /\ stable' = [stable EXCEPT ![u] = @ + amount]
      /\ UNCHANGED <<clock, vaultTokens, ownTokens, totalCollateral, cdpReserves,
                     badDebt, covered>>

\* No more than the caller has or owes.
Repay(u, amount, price) ==
  LET pos == Accrued(u, price)
      paid == Min({amount, stable[u], pos.debt})
  IN  /\ paid > 0
      /\ Book(u, [pos EXCEPT !.debt = @ - paid], price, -paid, -paid)
      /\ stable' = [stable EXCEPT ![u] = @ - paid]
      /\ UNCHANGED <<clock, vaultTokens, ownTokens, totalCollateral, cdpReserves,
                     badDebt, covered>>

TransferStable(from, to, amount) ==
  /\ amount <= stable[from]
  /\ LET sent == [stable EXCEPT ![from] = @ - amount]
     IN  stable' = [sent EXCEPT ![to] = @ + amount]
  /\ UNCHANGED <<clock, positions, vaultTokens, ownTokens, totalCollateral,
                 totalDebt, stableSupply, cdpReserves, badDebt, interestPaid,
                 covered>>

Quote(pos, requested, price) ==
  LET paid == Min({requested, pos.debt, Coverable(pos, price)})
      seizedValue == (paid * (Full + Incentive)) \div Full
  IN  [paid |-> paid,
       seized |-> Min({pos.collateral, (seizedValue * PriceScale) \div price})]

\* A call of its own as well: it stores the interest it finds.
QuoteLiquidation(u, requested, price) ==
  LET pos == Accrued(u, price)
  IN  /\ Liquidatable(pos, price)
      /\ Quote(pos, requested, price).paid > 0
      /\ Book(u, pos, price, 0, 0)
      /\ UNCHANGED <<clock, stable, vaultTokens, ownTokens, totalCollateral,
                     cdpReserves, badDebt, covered>>

Liquidate(liquidator, u, requested, price) ==
  LET pos == Accrued(u, price)
      quote == Quote(pos, requested, price)
  IN  /\ Liquidatable(pos, price)
      /\ quote.paid > 0 /\ quote.paid <= stable[liquidator]
      /\ Book(u, [pos EXCEPT !.debt = @ - quote.paid,
                             !.collateral = @ - quote.seized],
              price, -quote.paid, -quote.paid)
      /\ stable' = [stable EXCEPT ![liquidator] = @ - quote.paid]
      /\ totalCollateral' = totalCollateral - quote.seized
      /\ quote.seized <= vaultTokens
      /\ vaultTokens' = vaultTokens - quote.seized
      /\ ownTokens' = [ownTokens EXCEPT ![liquidator] = @ + quote.seized]
      /\ UNCHANGED <<clock, cdpReserves, badDebt, covered>>

(* Mutant: what was written off is no longer counted as debt.             *)
SelfLiquidateWritten(u, price) ==
  LET pos == Accrued(u, price)
      repaid == Min({pos.debt, Coverable(pos, price)})
  IN  /\ Liquidatable(pos, price)
      /\ Book(u, [pos EXCEPT !.collateral = 0, !.debt = 0], price, -pos.debt, 0)
      /\ cdpReserves' = cdpReserves + pos.collateral
      /\ totalCollateral' = totalCollateral - pos.collateral
      /\ badDebt' = badDebt + pos.debt - repaid
      /\ covered' = covered + repaid
      /\ UNCHANGED <<clock, stable, vaultTokens, ownTokens>>

\* Asks for nobody's signature.  The whole collateral goes to the reserves;
\* what it does not cover stays in the total debt and counts as bad.
SelfLiquidate(u, price) ==
  LET pos == Accrued(u, price)
      repaid == Min({pos.debt, Coverable(pos, price)})
  IN  /\ Liquidatable(pos, price)
      /\ Book(u, [pos EXCEPT !.collateral = 0, !.debt = 0], price, -repaid, 0)
      /\ cdpReserves' = cdpReserves + pos.collateral
      /\ totalCollateral' = totalCollateral - pos.collateral
      /\ badDebt' = badDebt + pos.debt - repaid
      /\ covered' = covered + repaid
      /\ UNCHANGED <<clock, stable, vaultTokens, ownTokens>>

ClockTicks ==
  /\ clock < CdpHorizon
  /\ clock' = clock + 1
  /\ UNCHANGED <<positions, stable, vaultTokens, ownTokens, totalCollateral,
                 totalDebt, stableSupply, cdpReserves, badDebt, interestPaid,
                 covered>>

CdpNext ==
  \/ ClockTicks
  \/ \E u, other \in Borrowers, amount \in 1..MaxRequest :
       TransferStable(u, other, amount)
  \/ \E u \in Borrowers, price \in OraclePrices :
       \/ \E amount \in 1..ownTokens[u] + positions[u].collateral :
            \/ DepositCollateral(u, amount, price)
            \/ \E volatility \in Volatilities :
                 WithdrawCollateral(u, amount, price, volatility)
       \/ \E amount \in 1..MaxRequest :
            \/ \E volatility \in Volatilities : MintStable(u, amount, price, volatility)
            \/ Repay(u, amount, price)
            \/ QuoteLiquidation(u, amount, price)
            \/ \E other \in Borrowers : Liquidate(other, u, amount, price)
       \/ SelfLiquidate(u, price)

CdpSpec == CdpInit /\ [][CdpNext]_cdpVars

-----------------------------------------------------------------------------
\* Properties

\* The totals agree with the positions after any mix of accruals,
\* liquidations and write-offs: the collateral of the positions and of the
\* protocol is there, every debt is somebody's or written off, and there are
\* as many stablecoins as debts that were minted or covered by a seizure,
\* interest aside.
CdpBooked ==
  /\ totalCollateral = SumFunction([u \in Borrowers |-> positions[u].collateral])
  /\ vaultTokens = totalCollateral + cdpReserves
  /\ totalDebt = SumFunction([u \in Borrowers |-> positions[u].debt]) + badDebt
  /\ stableSupply = SumFunction(stable) + interestPaid
  /\ stableSupply = totalDebt + covered
=============================================================================
