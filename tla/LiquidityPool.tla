--------------------------- MODULE LiquidityPool ---------------------------
(***************************************************************************)
(* contracts/liquidity_pool: two tokens, a constant product, and shares of  *)
(* it.  A call is one action; a transfer the caller cannot pay fails it.    *)
(* The operations below are not paused.  Amounts are whole and every        *)
(* division rounds down, unless it is said otherwise.                       *)
(***************************************************************************)
EXTENDS Integers, FiniteSetsExt

CONSTANTS
  Traders,    \* who deposits and swaps
  TraderCoins, \* of each token, what each trader starts with
  Bps,        \* the whole of a rate: 10_000
  SwapRates,  \* what the admin sets the fee on swaps to
  LpRates,    \* and the fee on deposits and withdrawals
  Penalty,    \* EARLY_WITHDRAWAL_PENALTY_BPS
  MinHolding, \* MIN_HOLDING_PERIOD
  LastLedger  \* bound: last ledger

ASSUME PoolAssumption ==
  /\ IsFiniteSet(Traders)
  /\ TraderCoins \in Nat /\ LastLedger \in Nat /\ MinHolding \in Nat
  /\ Bps \in Nat \ {0} /\ Penalty \in 0..Bps
  /\ SwapRates \subseteq 0..Bps - 1 /\ LpRates \subseteq 0..Bps
  /\ \A rate \in LpRates : rate + Penalty <= Bps

VARIABLES
  seq,         \* ledger sequence
  reserveA, reserveB, totalShares,
  feeBps, lpFeeBps,
  shares,      \* Balance of each trader
  depositedAt, \* DepositLedger of each; 0 for none
  walletA, walletB

reserves == <<reserveA, reserveB>>
wallets == <<walletA, walletB>>
poolVars == <<seq, reserves, totalShares, feeBps, lpFeeBps, shares,
              depositedAt, wallets>>

PoolTypeOK ==
  /\ seq \in 1..LastLedger + 1
  /\ reserveA \in Nat /\ reserveB \in Nat /\ totalShares \in Nat
  /\ feeBps \in SwapRates /\ lpFeeBps \in LpRates
  /\ shares \in [Traders -> Nat] /\ depositedAt \in [Traders -> Nat]
  /\ walletA \in [Traders -> Nat] /\ walletB \in [Traders -> Nat]

PoolInit ==
  /\ seq = 1
  /\ reserveA = 0 /\ reserveB = 0 /\ totalShares = 0
  /\ feeBps \in SwapRates /\ lpFeeBps \in LpRates
  /\ shares = [t \in Traders |-> 0] /\ depositedAt = shares
  /\ walletA = [t \in Traders |-> TraderCoins] /\ walletB = walletA

-----------------------------------------------------------------------------
\* The integer square root that sqrt's iteration reaches.
Root(x) == CHOOSE r \in 0..x : r * r <= x /\ x < (r + 1) * (r + 1)

Lesser(x, y) == IF x < y THEN x ELSE y

\* Constant product, net of the fee.
AmountOut(in, reserveIn, reserveOut) ==
  LET net == in * (Bps - feeBps)
  IN  (net * reserveOut) \div (reserveIn * Bps + net)

(* Mutant: rounded down.                                                  *)
AmountInDown(out, reserveIn, reserveOut) ==
  (reserveIn * out * Bps) \div ((reserveOut - out) * (Bps - feeBps))

\* Rounded up.
AmountIn(out, reserveIn, reserveOut) ==
  LET owed == reserveIn * out * Bps
      per == (reserveOut - out) * (Bps - feeBps)
  IN  (owed + per - 1) \div per

-----------------------------------------------------------------------------
\* Shares for a deposit: of the product for the first, else in proportion to
\* the token that was brought too little of.  Part of them is never issued,
\* while the whole deposit stays.
GrossShares(a, b) ==
  IF totalShares = 0 THEN Root(a * b)
  ELSE Lesser((a * totalShares) \div reserveA, (b * totalShares) \div reserveB)

(* Mutant: the shares that are never issued are counted.                  *)
PoolDepositGross(t, a, b) ==
  LET gross == GrossShares(a, b)
      net == gross - (gross * lpFeeBps) \div Bps
  IN  /\ a <= walletA[t] /\ b <= walletB[t]
      /\ totalShares = 0 \/ (reserveA > 0 /\ reserveB > 0)
      /\ gross > 0
      /\ walletA' = [walletA EXCEPT ![t] = @ - a]
      /\ walletB' = [walletB EXCEPT ![t] = @ - b]
      /\ shares' = [shares EXCEPT ![t] = @ + net]
      /\ depositedAt' = [depositedAt EXCEPT ![t] = seq]
      /\ totalShares' = totalShares + gross
      /\ reserveA' = reserveA + a /\ reserveB' = reserveB + b
      /\ UNCHANGED <<seq, feeBps, lpFeeBps>>

PoolDeposit(t, a, b) ==
  LET gross == GrossShares(a, b)
      net == gross - (gross * lpFeeBps) \div Bps
  IN  /\ a <= walletA[t] /\ b <= walletB[t]
      /\ totalShares = 0 \/ (reserveA > 0 /\ reserveB > 0)
      /\ gross > 0
      /\ walletA' = [walletA EXCEPT ![t] = @ - a]
      /\ walletB' = [walletB EXCEPT ![t] = @ - b]
      /\ shares' = [shares EXCEPT ![t] = @ + net]
      /\ depositedAt' = [depositedAt EXCEPT ![t] = seq]
      /\ totalShares' = totalShares + net
      /\ reserveA' = reserveA + a /\ reserveB' = reserveB + b
      /\ UNCHANGED <<seq, feeBps, lpFeeBps>>

\* settle_swap, for either direction.
SettleB(t, in, out) ==
  /\ in <= walletA[t]
  /\ walletA' = [walletA EXCEPT ![t] = @ - in]
  /\ walletB' = [walletB EXCEPT ![t] = @ + out]
  /\ reserveA' = reserveA + in /\ reserveB' = reserveB - out
  /\ UNCHANGED <<seq, totalShares, feeBps, lpFeeBps, shares, depositedAt>>

SettleA(t, in, out) ==
  /\ in <= walletB[t]
  /\ walletB' = [walletB EXCEPT ![t] = @ - in]
  /\ walletA' = [walletA EXCEPT ![t] = @ + out]
  /\ reserveB' = reserveB + in /\ reserveA' = reserveA - out
  /\ UNCHANGED <<seq, totalShares, feeBps, lpFeeBps, shares, depositedAt>>

\* The caller's bound only decides whether the swap fails.
Swap(t, buyA, out) ==
  /\ reserveA > 0 /\ reserveB > 0
  /\ IF buyA
     THEN out < reserveA /\ SettleA(t, AmountIn(out, reserveB, reserveA), out)
     ELSE out < reserveB /\ SettleB(t, AmountIn(out, reserveA, reserveB), out)

SwapExactIn(t, buyA, in) ==
  LET out == IF buyA THEN AmountOut(in, reserveB, reserveA)
                     ELSE AmountOut(in, reserveA, reserveB)
  IN  /\ reserveA > 0 /\ reserveB > 0
      /\ out > 0
      /\ IF buyA THEN out < reserveA /\ SettleA(t, in, out)
                 ELSE out < reserveB /\ SettleB(t, in, out)

\* What leaves for shares worth gross: the fee and, early after the holder's
\* last deposit, the penalty stay in the pool.
Payout(t, gross) ==
  LET early == depositedAt[t] > 0 /\ seq < depositedAt[t] + MinHolding
  IN  gross - (gross * lpFeeBps) \div Bps
            - (IF early THEN (gross * Penalty) \div Bps ELSE 0)

Withdraw(t, amount) ==
  LET a == Payout(t, (amount * reserveA) \div totalShares)
      b == Payout(t, (amount * reserveB) \div totalShares)
  IN  /\ amount <= shares[t] /\ totalShares > 0
      /\ shares' = [shares EXCEPT ![t] = @ - amount]
      /\ totalShares' = totalShares - amount
      /\ reserveA' = reserveA - a /\ reserveB' = reserveB - b
      /\ walletA' = [walletA EXCEPT ![t] = @ + a]
      /\ walletB' = [walletB EXCEPT ![t] = @ + b]
      /\ UNCHANGED <<seq, feeBps, lpFeeBps, depositedAt>>

Burn(t, amount) ==
  /\ amount <= shares[t]
  /\ shares' = [shares EXCEPT ![t] = @ - amount]
  /\ totalShares' = totalShares - amount
  /\ UNCHANGED <<seq, reserves, feeBps, lpFeeBps, depositedAt, wallets>>

\* The time of the deposit does not move with the shares.
Transfer(t, to, amount) ==
  /\ amount <= shares[t]
  /\ shares' = [[shares EXCEPT ![t] = @ - amount] EXCEPT ![to] = @ + amount]
  /\ UNCHANGED <<seq, reserves, totalShares, feeBps, lpFeeBps, depositedAt,
                 wallets>>

SetFee(rate) ==
  /\ feeBps' = rate
  /\ UNCHANGED <<seq, reserves, totalShares, lpFeeBps, shares, depositedAt,
                 wallets>>

SetLpFee(rate) ==
  /\ lpFeeBps' = rate
  /\ UNCHANGED <<seq, reserves, totalShares, feeBps, shares, depositedAt,
                 wallets>>

NextLedger ==
  /\ seq <= LastLedger
  /\ seq' = seq + 1
  /\ UNCHANGED <<reserves, totalShares, feeBps, lpFeeBps, shares, depositedAt,
                 wallets>>

PoolAmounts == 1..TraderCoins * Cardinality(Traders)

PoolNext ==
  \/ NextLedger
  \/ \E rate \in SwapRates : SetFee(rate)
  \/ \E rate \in LpRates : SetLpFee(rate)
  \/ \E t \in Traders, x \in PoolAmounts :
       \/ \E y \in PoolAmounts : PoolDeposit(t, x, y)
       \/ \E buyA \in BOOLEAN : Swap(t, buyA, x) \/ SwapExactIn(t, buyA, x)
       \/ Withdraw(t, x) \/ Burn(t, x)
       \/ \E to \in Traders : Transfer(t, to, x)

PoolSpec == PoolInit /\ [][PoolNext]_poolVars

-----------------------------------------------------------------------------
\* Properties

\* Nobody's call makes the others' shares worth less: whatever was rounded, the
\* product of the reserves over the square of the shares does not go down as
\* long as there are shares.
PoolFavoured ==
  [][totalShares > 0 /\ totalShares' > 0 =>
       reserveA' * reserveB' * totalShares * totalShares
         >= reserveA * reserveB * totalShares' * totalShares']_poolVars

\* The shares are all somebody's, the tokens are all somewhere, and shares are
\* never left with an empty reserve, where no deposit could be priced.
PoolBacked ==
  LET brought == TraderCoins * Cardinality(Traders)
  IN  /\ SumFunction(shares) = totalShares
      /\ SumFunction(walletA) + reserveA = brought
      /\ SumFunction(walletB) + reserveB = brought
      /\ totalShares > 0 => reserveA > 0 /\ reserveB > 0
=============================================================================
