----------------------------- MODULE PoolProofs -----------------------------
(***************************************************************************)
(* Proofs about the contracts that trade against a reserve, for any persons,*)
(* amounts, fees and ranges: LiquidityPool, ConcentratedAmm and HybridBook. *)
(***************************************************************************)
EXTENDS LiquidityPool, ConcentratedAmm, HybridBook, FoldLemmas

-----------------------------------------------------------------------------
(* The pool                                                                *)

(* The root the first shares are minted by is a natural.                   *)
LEMMA RootTyped == ASSUME NEW x \in Nat PROVE Root(x) \in Nat
<1>1. Root(x) \in 0..x
  BY RootExists, Zenon DEF Root
<1> QED  BY <1>1

-----------------------------------------------------------------------------
(* The rates leave something of every amount.                              *)
LEMMA PoolConstants ==
  /\ TraderCoins \in Nat /\ IsFiniteSet(Traders) /\ Bps \in Nat \ {0} /\ Penalty \in 0..Bps
  /\ \A rate \in SwapRates : rate \in Nat /\ rate < Bps
  /\ \A rate \in LpRates : rate \in Nat /\ rate + Penalty <= Bps /\ rate <= Bps
BY PoolAssumption

\* The part of a rate that is kept is not more than the whole.
LEMMA PartTyped ==
  ASSUME NEW gross \in Nat, NEW rate \in 0..Bps
  PROVE  /\ (gross * rate) \div Bps \in 0..gross
         /\ ((gross * rate) \div Bps) * Bps <= gross * rate
<1>0. Bps \in Nat \ {0}
  BY PoolConstants
<1> DEFINE part == gross * rate  q == part \div Bps
<1>1. part \in Nat /\ part <= gross * Bps /\ gross * Bps \in Nat
  BY <1>0
<1> HIDE DEF part
<1>2. q \in Nat /\ Bps * q <= part
  BY <1>0, <1>1, DivNatural, DivFloor
<1> HIDE DEF q
<1>3. q * Bps <= part /\ q * Bps <= gross * Bps
  BY <1>0, <1>1, <1>2
<1>4. q <= gross
  BY <1>0, <1>2, <1>3, Cancels
<1> QED  BY <1>2, <1>3, <1>4 DEF q, part

(* A penalty leaves at most all of a payout.                               *)
LEMMA PayoutTyped ==
  ASSUME PoolTypeOK, NEW t \in Traders, NEW gross \in Nat
  PROVE  Payout(t, gross) \in 0..gross
<1>0. /\ Bps \in Nat \ {0} /\ Penalty \in 0..Bps
      /\ lpFeeBps \in 0..Bps /\ lpFeeBps + Penalty <= Bps
  BY PoolConstants DEF PoolTypeOK
<1> DEFINE f == (gross * lpFeeBps) \div Bps  p == (gross * Penalty) \div Bps
<1>1. /\ f \in 0..gross /\ f * Bps <= gross * lpFeeBps
      /\ p \in 0..gross /\ p * Bps <= gross * Penalty
  BY <1>0, PartTyped
<1>2. Payout(t, gross) = gross - f - p \/ Payout(t, gross) = gross - f - 0
  BY DEF Payout
<1> HIDE DEF f, p
<1>3. (f + p) * Bps <= gross * Bps
  <2>1. (f + p) * Bps = f * Bps + p * Bps
    BY <1>0, <1>1
  <2>2. gross * lpFeeBps + gross * Penalty = gross * (lpFeeBps + Penalty)
    BY <1>0
  <2>3. gross * (lpFeeBps + Penalty) <= gross * Bps
    BY <1>0
  <2>4. /\ f * Bps \in Int /\ p * Bps \in Int /\ gross * lpFeeBps \in Int
        /\ gross * Penalty \in Int /\ gross * Bps \in Int
    BY <1>0, <1>1
  <2> QED  BY <1>1, <2>1, <2>2, <2>3, <2>4
<1>4. f + p <= gross
  BY <1>0, <1>1, <1>3, Cancels
<1> QED  BY <1>1, <1>2, <1>4

\* A share of a reserve, and how it compares with the share of the shares.
LEMMA ShareOfReserve ==
  ASSUME NEW backing \in Nat, NEW total \in Nat \ {0}, NEW amount \in Nat, amount <= total,
         NEW given \in 0..((amount * backing) \div total)
  PROVE  /\ given * total <= amount * backing
         /\ given <= backing
         /\ backing * (total - amount) <= (backing - given) * total
         /\ amount < total /\ backing > 0 => given < backing
<1> DEFINE part == amount * backing  q == part \div total
<1>1. part \in Nat
  OBVIOUS
<1> HIDE DEF part
<1>2. q \in Nat /\ total * q <= part
  BY <1>1, DivNatural, DivFloor
<1>3. given \in Nat /\ given <= q
  BY <1>2 DEF part
<1> HIDE DEF q
<1>4. given * total <= q * total /\ q * total = total * q /\ q * total \in Int
      /\ given * total \in Int
  BY <1>2, <1>3
<1>5. given * total <= part
  BY <1>1, <1>2, <1>4
<1>6. part <= total * backing /\ total * backing = backing * total /\ backing * total \in Int
  BY DEF part
<1>7. given <= backing
  <2>1. given * total <= backing * total
    BY <1>1, <1>4, <1>5, <1>6
  <2> QED  BY <1>3, <2>1, Cancels
<1>8. backing * (total - amount) <= (backing - given) * total
  <2>1. backing * (total - amount) = backing * total - part
    BY DEF part
  <2>2. (backing - given) * total = backing * total - given * total
    BY <1>3
  <2> QED  BY <1>1, <1>4, <1>5, <1>6, <2>1, <2>2
<1>9. ASSUME amount < total, backing > 0 PROVE given < backing
  <2>1. backing * (total - amount) >= 1
    BY <1>9
  <2>2. (backing - given) * total >= 1
    BY <1>3, <1>8, <2>1
  <2>3. given # backing
    BY <2>2
  <2> QED  BY <1>3, <1>7, <2>3
<1> QED  BY <1>5, <1>7, <1>8, <1>9 DEF part

-----------------------------------------------------------------------------
Brought == TraderCoins * Cardinality(Traders)

PoolInv == PoolTypeOK /\ PoolBacked

(* What the invariant says of each variable of the pool.                   *)
LEMMA PoolFacts ==
  ASSUME PoolInv
  PROVE  /\ shares \in [Traders -> Nat] /\ walletA \in [Traders -> Nat]
         /\ walletB \in [Traders -> Nat] /\ depositedAt \in [Traders -> Nat]
         /\ totalShares \in Nat /\ reserveA \in Nat /\ reserveB \in Nat
         /\ feeBps \in Nat /\ feeBps < Bps /\ lpFeeBps \in 0..Bps
         /\ Bps \in Nat \ {0} /\ IsFiniteSet(Traders) /\ seq \in 1..LastLedger + 1
         /\ feeBps \in SwapRates /\ lpFeeBps \in LpRates
         /\ IntegersOn(shares, Traders) /\ IntegersOn(walletA, Traders)
         /\ IntegersOn(walletB, Traders)
         /\ SumFunctionOnSet(shares, Traders) = totalShares
         /\ SumFunctionOnSet(walletA, Traders) + reserveA = Brought
         /\ SumFunctionOnSet(walletB, Traders) + reserveB = Brought
         /\ SumFunctionOnSet(walletA, Traders) \in Int
         /\ SumFunctionOnSet(walletB, Traders) \in Int
         /\ totalShares > 0 => reserveA > 0 /\ reserveB > 0
         /\ \A t \in Traders : shares[t] <= totalShares
<1>1. PoolTypeOK
  BY DEF PoolInv
<1>2. /\ shares \in [Traders -> Nat] /\ walletA \in [Traders -> Nat]
      /\ walletB \in [Traders -> Nat] /\ depositedAt \in [Traders -> Nat]
      /\ totalShares \in Nat /\ reserveA \in Nat /\ reserveB \in Nat
      /\ feeBps \in SwapRates /\ lpFeeBps \in LpRates /\ seq \in 1..LastLedger + 1
  BY <1>1 DEF PoolTypeOK
<1>3. /\ feeBps \in Nat /\ feeBps < Bps /\ lpFeeBps \in 0..Bps
      /\ Bps \in Nat \ {0} /\ IsFiniteSet(Traders)
  BY <1>2, PoolConstants
<1>4. IntegersOn(shares, Traders) /\ IntegersOn(walletA, Traders)
      /\ IntegersOn(walletB, Traders)
  BY <1>2, <1>3 DEF IntegersOn
<1>5. /\ SumFunction(shares) = SumFunctionOnSet(shares, Traders)
      /\ SumFunction(walletA) = SumFunctionOnSet(walletA, Traders)
      /\ SumFunction(walletB) = SumFunctionOnSet(walletB, Traders)
  BY <1>2 DEF SumFunction, SumFunctionOnSet, FoldFunction
<1>6. /\ SumFunctionOnSet(walletA, Traders) \in Int /\ SumFunctionOnSet(walletB, Traders) \in Int
  BY <1>4, SumTyped
<1>7. /\ SumFunctionOnSet(shares, Traders) = totalShares
      /\ SumFunctionOnSet(walletA, Traders) + reserveA = Brought
      /\ SumFunctionOnSet(walletB, Traders) + reserveB = Brought
      /\ totalShares > 0 => reserveA > 0 /\ reserveB > 0
  BY <1>5 DEF PoolInv, PoolBacked, Brought
<1>8. \A t \in Traders : shares[t] <= SumFunctionOnSet(shares, Traders)
  BY <1>2, <1>3, SumCovers
<1> QED  BY <1>2, <1>3, <1>4, <1>6, <1>7, <1>8

\* A holding of one trader changes.
Shifted(held, t, x) == [held EXCEPT ![t] = held[t] + x]

(* One holding is changed, and the sum with it.                            *)
LEMMA HoldingMoves ==
  ASSUME NEW held \in [Traders -> Nat], IsFiniteSet(Traders), NEW t \in Traders,
         NEW x \in Int, held[t] + x \in Nat
  PROVE  /\ Shifted(held, t, x) \in [Traders -> Nat]
         /\ SumFunctionOnSet(Shifted(held, t, x), Traders)
              = SumFunctionOnSet(held, Traders) + x
<1> DEFINE after == Shifted(held, t, x)
<1>0. after = [held EXCEPT ![t] = held[t] + x]
  BY DEF Shifted
<1> HIDE DEF after
<1>1. IntegersOn(held, Traders) /\ after \in [Traders -> Nat] /\ after[t] = held[t] + x
  BY <1>0 DEF IntegersOn
<1>2. \A v \in Traders \ {t} : held[v] = after[v]
  BY <1>0
<1>3. after[t] \in Int /\ t \in Traders
  BY <1>1
<1>4. SumFunctionOnSet(after, Traders)
        = SumFunctionOnSet(held, Traders) + after[t] - held[t]
  BY ONLY <1>1, <1>2, <1>3, SumUpdate
<1>5. SumFunctionOnSet(held, Traders) \in Int /\ held[t] \in Int
  BY <1>1, SumTyped
<1> QED  BY <1>1, <1>4, <1>5 DEF after

\* What one call moves, for one trader: shares, and tokens against the reserves.
Moves(t, ds, da, db) ==
  /\ shares' = [shares EXCEPT ![t] = shares[t] + ds]
  /\ walletA' = [walletA EXCEPT ![t] = walletA[t] - da]
  /\ walletB' = [walletB EXCEPT ![t] = walletB[t] - db]
  /\ totalShares' = totalShares + ds
  /\ reserveA' = reserveA + da /\ reserveB' = reserveB + db
  /\ UNCHANGED <<seq, feeBps, lpFeeBps>>

(* Tokens and shares that move between one trader and the pool keep the    *)
(* invariant, if both can pay and shares never stand for nothing.          *)
LEMMA MovesBacked ==
  ASSUME PoolInv, NEW t \in Traders, NEW ds \in Int, NEW da \in Int, NEW db \in Int,
         Moves(t, ds, da, db), depositedAt' \in [Traders -> Nat],
         shares[t] + ds \in Nat, walletA[t] - da \in Nat, walletB[t] - db \in Nat,
         totalShares + ds \in Nat, reserveA + da \in Nat, reserveB + db \in Nat,
         totalShares + ds > 0 => reserveA + da > 0 /\ reserveB + db > 0
  PROVE  PoolInv'
<1> DEFINE minusA == -da  minusB == -db
<1>0. /\ walletA[t] \in Nat /\ walletB[t] \in Nat /\ minusA \in Int /\ minusB \in Int
      /\ walletA[t] - da = walletA[t] + minusA /\ walletB[t] - db = walletB[t] + minusB
      /\ shares \in [Traders -> Nat] /\ walletA \in [Traders -> Nat]
      /\ walletB \in [Traders -> Nat] /\ IsFiniteSet(Traders) /\ t \in Traders /\ ds \in Int
      /\ shares[t] + ds \in Nat
  BY PoolFacts
<1> HIDE DEF minusA, minusB
<1>1. /\ shares' \in [Traders -> Nat]
      /\ SumFunctionOnSet(shares', Traders) = SumFunctionOnSet(shares, Traders) + ds
  <2>1. shares' = Shifted(shares, t, ds)
    BY DEF Moves, Shifted
  <2> QED  BY ONLY <1>0, <2>1, HoldingMoves
<1>2. /\ walletA' \in [Traders -> Nat]
      /\ SumFunctionOnSet(walletA', Traders) = SumFunctionOnSet(walletA, Traders) + minusA
  <2>1. walletA' = Shifted(walletA, t, minusA) /\ walletA[t] + minusA \in Nat
    BY <1>0 DEF Moves, Shifted
  <2> QED  BY ONLY <1>0, <2>1, HoldingMoves
<1>3. /\ walletB' \in [Traders -> Nat]
      /\ SumFunctionOnSet(walletB', Traders) = SumFunctionOnSet(walletB, Traders) + minusB
  <2>1. walletB' = Shifted(walletB, t, minusB) /\ walletB[t] + minusB \in Nat
    BY <1>0 DEF Moves, Shifted
  <2> QED  BY ONLY <1>0, <2>1, HoldingMoves
<1>4. /\ totalShares' = totalShares + ds /\ reserveA' = reserveA + da
      /\ reserveB' = reserveB + db /\ UNCHANGED <<seq, feeBps, lpFeeBps>>
  BY DEF Moves
<1>5. PoolTypeOK'
  BY <1>1, <1>2, <1>3, <1>4, PoolFacts DEF PoolTypeOK
<1>6. /\ SumFunctionOnSet(shares', Traders) = totalShares'
      /\ SumFunctionOnSet(walletA', Traders) + reserveA' = Brought
      /\ SumFunctionOnSet(walletB', Traders) + reserveB' = Brought
  BY <1>1, <1>2, <1>3, <1>4, PoolFacts DEF minusA, minusB
<1>7. /\ SumFunction(shares') = SumFunctionOnSet(shares', Traders)
      /\ SumFunction(walletA') = SumFunctionOnSet(walletA', Traders)
      /\ SumFunction(walletB') = SumFunctionOnSet(walletB', Traders)
  BY <1>1, <1>2, <1>3 DEF SumFunction, SumFunctionOnSet, FoldFunction
<1>8. totalShares' > 0 => reserveA' > 0 /\ reserveB' > 0
  BY <1>4
<1>9. Brought' = Brought
  BY DEF Brought
<1>10. PoolBacked'
  BY <1>6, <1>7, <1>8 DEF PoolBacked, Brought
<1> QED  BY <1>5, <1>10 DEF PoolInv

-----------------------------------------------------------------------------
\* The value of a share, squared, does not go down.
Favours ==
  totalShares > 0 /\ totalShares' > 0 =>
    reserveA' * reserveB' * totalShares * totalShares
      >= reserveA * reserveB * totalShares' * totalShares'

\* A reserve that shrinks no faster than the shares keeps their value.
LEMMA EachFavours ==
  ASSUME NEW a \in Nat, NEW b \in Nat, NEW s \in Nat,
         NEW c \in Nat, NEW d \in Nat, NEW r \in Nat,
         a * r <= c * s, b * r <= d * s
  PROVE  c * d * s * s >= a * b * r * r
<1>1. (a * r) * (b * r) <= (c * s) * (d * s)
  <2>1. a * r \in Nat /\ b * r \in Nat /\ c * s \in Nat /\ d * s \in Nat
    OBVIOUS
  <2> DEFINE x == a * r  y == b * r  z == c * s  w == d * s
  <2>2. x \in Nat /\ y \in Nat /\ z \in Nat /\ w \in Nat /\ x <= z /\ y <= w
    BY <2>1
  <2> HIDE DEF x, y, z, w
  <2>3. x * y <= z * w
    BY <2>2, ProductGrows
  <2> QED  BY <2>3 DEF x, y, z, w
<1>2. (a * r) * (b * r) = a * b * r * r
  OBVIOUS
<1>3. (c * s) * (d * s) = c * d * s * s
  OBVIOUS
<1> QED  BY <1>1, <1>2, <1>3

\* So does a product of the reserves that does not go down while the shares
\* stay.
LEMMA ProductFavours ==
  ASSUME NEW a \in Nat, NEW b \in Nat, NEW s \in Nat, NEW c \in Nat, NEW d \in Nat,
         a * b <= c * d
  PROVE  c * d * s * s >= a * b * s * s
<1> DEFINE p == a * b  q == c * d
<1>1. p \in Nat /\ q \in Nat /\ p <= q
  OBVIOUS
<1> HIDE DEF p, q
<1>2. p * s \in Nat /\ q * s \in Nat /\ p * s <= q * s
  BY <1>1
<1>3. p * s * s <= q * s * s
  BY <1>2
<1> QED  BY <1>3 DEF p, q

\* The shares of a deposit are not more than in proportion to either token.
LEMMA GrossTyped ==
  ASSUME PoolInv, NEW a \in Nat, NEW b \in Nat
  PROVE  /\ GrossShares(a, b) \in Nat
         /\ totalShares > 0 =>
              /\ GrossShares(a, b) * reserveA <= a * totalShares
              /\ GrossShares(a, b) * reserveB <= b * totalShares
<1>0. /\ totalShares \in Nat /\ reserveA \in Nat /\ reserveB \in Nat
      /\ totalShares > 0 => reserveA > 0 /\ reserveB > 0
  BY PoolFacts
<1>1. CASE totalShares = 0
  <2>1. GrossShares(a, b) = Root(a * b) /\ a * b \in Nat
    BY <1>1 DEF GrossShares
  <2> QED  BY <1>1, <2>1, RootTyped
<1>2. CASE totalShares > 0
  <2> DEFINE p == a * totalShares  q == b * totalShares
             x == p \div reserveA  y == q \div reserveB
  <2>1. GrossShares(a, b) = Lesser(x, y) /\ p \in Nat /\ q \in Nat
        /\ reserveA \in Nat \ {0} /\ reserveB \in Nat \ {0}
    BY <1>0, <1>2 DEF GrossShares
  <2> HIDE DEF p, q
  <2>2. x \in Nat /\ reserveA * x <= p /\ y \in Nat /\ reserveB * y <= q
    BY <2>1, DivNatural, DivFloor
  <2> HIDE DEF x, y
  <2> DEFINE g == GrossShares(a, b)
  <2>3. g \in Nat /\ g <= x /\ g <= y
    BY <2>1, <2>2 DEF Lesser
  <2> HIDE DEF g
  <2>4. g * reserveA <= p /\ g * reserveB <= q
    <3>1. g * reserveA <= x * reserveA /\ g * reserveB <= y * reserveB
      BY <2>1, <2>2, <2>3
    <3> QED  BY <2>1, <2>2, <2>3, <3>1
  <2> QED  BY <2>3, <2>4 DEF g, p, q
<1> QED  BY <1>0, <1>1, <1>2

(* A deposit keeps the pool backed and makes no share worth less.          *)
LEMMA DepositBacked ==
  ASSUME PoolInv, NEW t \in Traders, NEW a \in Nat \ {0}, NEW b \in Nat \ {0},
         PoolDeposit(t, a, b)
  PROVE  PoolInv' /\ Favours
<1> DEFINE gross == GrossShares(a, b)
           net == gross - (gross * lpFeeBps) \div Bps
<1>0. /\ totalShares \in Nat /\ reserveA \in Nat /\ reserveB \in Nat
      /\ shares[t] \in Nat /\ walletA[t] \in Nat /\ walletB[t] \in Nat
      /\ depositedAt \in [Traders -> Nat] /\ seq \in Nat /\ lpFeeBps \in 0..Bps
  BY PoolFacts
<1>1. gross \in Nat /\ (totalShares > 0 =>
        gross * reserveA <= a * totalShares /\ gross * reserveB <= b * totalShares)
  BY GrossTyped
<1>2. /\ a <= walletA[t] /\ b <= walletB[t]
      /\ walletA' = [walletA EXCEPT ![t] = @ - a]
      /\ walletB' = [walletB EXCEPT ![t] = @ - b]
      /\ shares' = [shares EXCEPT ![t] = @ + net]
      /\ depositedAt' = [depositedAt EXCEPT ![t] = seq]
      /\ totalShares' = totalShares + net
      /\ reserveA' = reserveA + a /\ reserveB' = reserveB + b
      /\ UNCHANGED <<seq, feeBps, lpFeeBps>>
  BY DEF PoolDeposit
<1> HIDE DEF gross
<1>3. net \in Nat /\ net <= gross
  BY <1>0, <1>1, PartTyped
<1> HIDE DEF net
<1>4. PoolInv'
  <2>1. Moves(t, net, a, b)
    BY <1>2 DEF Moves
  <2>2. depositedAt' \in [Traders -> Nat]
    BY <1>0, <1>2
  <2>3. /\ shares[t] + net \in Nat /\ walletA[t] - a \in Nat /\ walletB[t] - b \in Nat
        /\ totalShares + net \in Nat /\ reserveA + a \in Nat /\ reserveB + b \in Nat
        /\ reserveA + a > 0 /\ reserveB + b > 0 /\ net \in Int
    BY <1>0, <1>2, <1>3
  <2> QED  BY <2>1, <2>2, <2>3, MovesBacked
<1>5. Favours
  <2> SUFFICES ASSUME totalShares > 0
               PROVE  reserveA' * reserveB' * totalShares * totalShares
                        >= reserveA * reserveB * totalShares' * totalShares'
    BY DEF Favours
  <2>1. net * reserveA <= a * totalShares
    <3>1. net * reserveA <= gross * reserveA /\ gross * reserveA \in Int
          /\ net * reserveA \in Int /\ a * totalShares \in Int
      BY <1>0, <1>1, <1>3
    <3> QED  BY <1>1, <3>1
  <2>2. net * reserveB <= b * totalShares
    <3>1. net * reserveB <= gross * reserveB /\ gross * reserveB \in Int
          /\ net * reserveB \in Int /\ b * totalShares \in Int
      BY <1>0, <1>1, <1>3
    <3> QED  BY <1>1, <3>1
  <2>3. reserveA * (totalShares + net) <= (reserveA + a) * totalShares
    BY <1>0, <1>3, <2>1
  <2>4. reserveB * (totalShares + net) <= (reserveB + b) * totalShares
    BY <1>0, <1>3, <2>2
  <2>5. totalShares + net \in Nat /\ reserveA + a \in Nat /\ reserveB + b \in Nat
    BY <1>0, <1>3
  <2>6. (reserveA + a) * (reserveB + b) * totalShares * totalShares
          >= reserveA * reserveB * (totalShares + net) * (totalShares + net)
    BY ONLY <1>0, <2>3, <2>4, <2>5, EachFavours
  <2> QED  BY <1>2, <2>6
<1> QED  BY <1>4, <1>5

-----------------------------------------------------------------------------
\* What is asked for a given output is at least its part of the reserve.
LEMMA AmountInTyped ==
  ASSUME PoolInv, NEW out \in Nat, NEW x \in Nat, NEW y \in Nat, out < y
  PROVE  /\ AmountIn(out, x, y) \in Nat
         /\ x * out <= AmountIn(out, x, y) * (y - out)
<1>0. feeBps \in Nat /\ feeBps < Bps /\ Bps \in Nat \ {0}
  BY PoolFacts
<1> DEFINE o == x * out  owed == o * Bps
           d == y - out  k == Bps - feeBps  per == d * k
           in == (owed + per - 1) \div per
<1>1. AmountIn(out, x, y) = in
  BY DEF AmountIn
<1>2. o \in Nat /\ d \in Nat \ {0} /\ k \in Nat \ {0} /\ k <= Bps
  BY <1>0
<1> HIDE DEF o, d, k
<1>3. owed \in Nat /\ per \in Nat \ {0}
  BY <1>0, <1>2
<1> HIDE DEF owed, per
<1>4. in \in Nat /\ owed <= per * in
  <2>1. owed + per - 1 \in Nat
    BY <1>3
  <2>2. in \in Nat /\ owed + per - 1 < per * in + per /\ per * in \in Nat
    BY <1>3, <2>1, DivNatural, DivFloor
  <2> HIDE DEF in
  <2> QED  BY <1>3, <2>1, <2>2
<1> HIDE DEF in
<1>5. per * in <= (in * d) * Bps
  <2>1. per * in = (in * d) * k
    BY <1>0, <1>2, <1>4 DEF per
  <2>2. in * d \in Nat
    BY <1>2, <1>4
  <2> DEFINE m == in * d
  <2>3. m \in Nat
    BY <2>2
  <2> HIDE DEF m
  <2>4. m * k <= m * Bps
    BY <1>0, <1>2, <2>3
  <2> QED  BY <2>1, <2>4 DEF m
<1>6. o * Bps <= (in * d) * Bps
  <2>1. /\ owed \in Int /\ per * in \in Int /\ (in * d) * Bps \in Int
    BY <1>0, <1>2, <1>3, <1>4
  <2>2. owed <= (in * d) * Bps
    BY <1>4, <1>5, <2>1
  <2> QED  BY <2>2 DEF owed
<1>7. o \in Int /\ in * d \in Int
  BY <1>2, <1>4
<1>8. o <= in * d
  BY <1>0, <1>6, <1>7, Cancels
<1> QED  BY <1>1, <1>4, <1>8 DEF o, d

\* What is paid for a given input is at most its part of the reserve.
LEMMA AmountOutTyped ==
  ASSUME PoolInv, NEW in \in Nat, NEW x \in Nat, NEW y \in Nat, x > 0
  PROVE  /\ AmountOut(in, x, y) \in Nat
         /\ AmountOut(in, x, y) < y =>
              x * AmountOut(in, x, y) <= in * (y - AmountOut(in, x, y))
<1>0. feeBps \in Nat /\ feeBps < Bps /\ Bps \in Nat \ {0}
  BY PoolFacts
<1> DEFINE k == Bps - feeBps  net == in * k  w == x * Bps  den == w + net
           out == (net * y) \div den
<1>1. AmountOut(in, x, y) = out
  BY DEF AmountOut
<1>2. k \in Nat /\ k <= Bps
  BY <1>0
<1> HIDE DEF k
<1>3. net \in Nat /\ net <= in * Bps /\ w \in Nat \ {0} /\ in * Bps \in Nat
  BY <1>0, <1>2
<1> HIDE DEF net, w
<1>4. den \in Nat \ {0} /\ net * y \in Nat
  BY <1>3
<1> HIDE DEF den
<1>5. out \in Nat /\ den * out <= net * y
  BY <1>4, DivNatural, DivFloor
<1> HIDE DEF out
<1>6. ASSUME out < y PROVE x * out <= in * (y - out)
  <2> DEFINE d == y - out  m == in * d  o == x * out
  <2>1. d \in Nat /\ y = d + out
    BY <1>5, <1>6
  <2> HIDE DEF d
  <2>2. den * out = w * out + net * out /\ net * y = net * d + net * out
        /\ w * out \in Int /\ net * out \in Int /\ net * d \in Int
    BY <1>3, <1>5, <2>1 DEF den
  <2>3. w * out <= net * d
    BY <1>5, <2>2
  <2>4. net * d <= (in * Bps) * d
    BY <1>3, <2>1
  <2>5. (in * Bps) * d = m * Bps /\ w * out = o * Bps /\ m * Bps \in Int /\ o * Bps \in Int
        /\ m \in Int /\ o \in Int
    BY <1>0, <1>5, <2>1 DEF w
  <2> HIDE DEF m, o
  <2>6. o * Bps <= m * Bps
    BY <2>2, <2>3, <2>4, <2>5
  <2>7. o <= m
    BY <1>0, <2>5, <2>6, Cancels
  <2> QED  BY <2>7 DEF o, m, d
<1> QED  BY <1>1, <1>5, <1>6

\* A swap at such a price, either way.
LEMMA SettleBacked ==
  ASSUME PoolInv, NEW t \in Traders, NEW in \in Nat, NEW out \in Nat,
         reserveA > 0, reserveB > 0,
         \/ SettleA(t, in, out) /\ out < reserveA /\ reserveB * out <= in * (reserveA - out)
         \/ SettleB(t, in, out) /\ out < reserveB /\ reserveA * out <= in * (reserveB - out)
  PROVE  PoolInv' /\ Favours
<1>0. /\ totalShares \in Nat /\ reserveA \in Nat /\ reserveB \in Nat
      /\ shares \in [Traders -> Nat] /\ depositedAt \in [Traders -> Nat]
      /\ shares[t] \in Nat /\ walletA[t] \in Nat /\ walletB[t] \in Nat
      /\ walletA \in [Traders -> Nat] /\ walletB \in [Traders -> Nat]
  BY PoolFacts
<1> DEFINE minus == -out
<1>1. minus \in Int /\ minus = -out
  OBVIOUS
<1> HIDE DEF minus
<1>2. CASE SettleA(t, in, out) /\ out < reserveA /\ reserveB * out <= in * (reserveA - out)
  <2>1. /\ in <= walletB[t]
        /\ walletB' = [walletB EXCEPT ![t] = @ - in]
        /\ walletA' = [walletA EXCEPT ![t] = @ + out]
        /\ reserveB' = reserveB + in /\ reserveA' = reserveA - out
        /\ UNCHANGED <<seq, totalShares, feeBps, lpFeeBps, shares, depositedAt>>
    BY <1>2 DEF SettleA
  <2>2. /\ walletA[t] + out = walletA[t] - minus /\ reserveA - out = reserveA + minus
        /\ totalShares + 0 = totalShares /\ shares = [shares EXCEPT ![t] = shares[t] + 0]
    BY <1>0, <1>1
  <2>3. Moves(t, 0, minus, in)
    BY <2>1, <2>2 DEF Moves
  <2>4. /\ shares[t] + 0 \in Nat /\ walletA[t] - minus \in Nat /\ walletB[t] - in \in Nat
        /\ totalShares + 0 \in Nat /\ reserveA + minus \in Nat /\ reserveB + in \in Nat
        /\ reserveA + minus > 0 /\ reserveB + in > 0 /\ 0 \in Int /\ in \in Int
    BY <1>0, <1>1, <1>2, <2>1
  <2>5. PoolInv'
    BY <1>0, <1>1, <2>1, <2>3, <2>4, MovesBacked
  <2>6. reserveA * reserveB <= (reserveA - out) * (reserveB + in)
    <3> DEFINE d == reserveA - out
    <3>1. d \in Nat /\ reserveA = d + out
      BY <1>0, <1>2
    <3> HIDE DEF d
    <3>2. reserveB * out <= in * d
      BY <1>2 DEF d
    <3>3. (d + out) * reserveB <= d * (reserveB + in)
      BY <1>0, <3>1, <3>2
    <3> QED  BY <3>1, <3>3 DEF d
  <2>7. reserveA - out \in Nat /\ reserveB + in \in Nat
    BY <1>0, <1>2
  <2>8. (reserveA - out) * (reserveB + in) * totalShares * totalShares
          >= reserveA * reserveB * totalShares * totalShares
    BY ONLY <1>0, <2>6, <2>7, ProductFavours
  <2> QED  BY <2>1, <2>5, <2>8 DEF Favours
<1>3. CASE SettleB(t, in, out) /\ out < reserveB /\ reserveA * out <= in * (reserveB - out)
  <2>1. /\ in <= walletA[t]
        /\ walletA' = [walletA EXCEPT ![t] = @ - in]
        /\ walletB' = [walletB EXCEPT ![t] = @ + out]
        /\ reserveA' = reserveA + in /\ reserveB' = reserveB - out
        /\ UNCHANGED <<seq, totalShares, feeBps, lpFeeBps, shares, depositedAt>>
    BY <1>3 DEF SettleB
  <2>2. /\ walletB[t] + out = walletB[t] - minus /\ reserveB - out = reserveB + minus
        /\ totalShares + 0 = totalShares /\ shares = [shares EXCEPT ![t] = shares[t] + 0]
    BY <1>0, <1>1
  <2>3. Moves(t, 0, in, minus)
    BY <2>1, <2>2 DEF Moves
  <2>4. /\ shares[t] + 0 \in Nat /\ walletA[t] - in \in Nat /\ walletB[t] - minus \in Nat
        /\ totalShares + 0 \in Nat /\ reserveA + in \in Nat /\ reserveB + minus \in Nat
        /\ reserveA + in > 0 /\ reserveB + minus > 0 /\ 0 \in Int /\ in \in Int
    BY <1>0, <1>1, <1>3, <2>1
  <2>5. PoolInv'
    BY <1>0, <1>1, <2>1, <2>3, <2>4, MovesBacked
  <2>6. reserveA * reserveB <= (reserveA + in) * (reserveB - out)
    <3> DEFINE d == reserveB - out
    <3>1. d \in Nat /\ reserveB = d + out
      BY <1>0, <1>3
    <3> HIDE DEF d
    <3>2. reserveA * out <= in * d
      BY <1>3 DEF d
    <3>3. reserveA * (d + out) <= (reserveA + in) * d
      BY <1>0, <3>1, <3>2
    <3> QED  BY <3>1, <3>3 DEF d
  <2>7. reserveB - out \in Nat /\ reserveA + in \in Nat
    BY <1>0, <1>3
  <2>8. (reserveA + in) * (reserveB - out) * totalShares * totalShares
          >= reserveA * reserveB * totalShares * totalShares
    BY ONLY <1>0, <2>6, <2>7, ProductFavours
  <2> QED  BY <2>1, <2>5, <2>8 DEF Favours
<1> QED  BY <1>2, <1>3

(* A swap for an exact output keeps the pool backed and makes no share     *)
(* worth less.                                                             *)
LEMMA SwapBacked ==
  ASSUME PoolInv, NEW t \in Traders, NEW buyA \in BOOLEAN, NEW out \in Nat,
         Swap(t, buyA, out)
  PROVE  PoolInv' /\ Favours
<1>0. reserveA \in Nat /\ reserveB \in Nat /\ reserveA > 0 /\ reserveB > 0
  BY PoolFacts DEF Swap
<1>1. CASE buyA
  <2> DEFINE in == AmountIn(out, reserveB, reserveA)
  <2>1. SettleA(t, in, out) /\ out < reserveA
    BY <1>1 DEF Swap
  <2>2. in \in Nat /\ reserveB * out <= in * (reserveA - out)
    BY <1>0, <2>1, AmountInTyped
  <2> HIDE DEF in
  <2> QED  BY <1>0, <2>1, <2>2, SettleBacked
<1>2. CASE ~ buyA
  <2> DEFINE in == AmountIn(out, reserveA, reserveB)
  <2>1. SettleB(t, in, out) /\ out < reserveB
    BY <1>2 DEF Swap
  <2>2. in \in Nat /\ reserveA * out <= in * (reserveB - out)
    BY <1>0, <2>1, AmountInTyped
  <2> HIDE DEF in
  <2> QED  BY <1>0, <2>1, <2>2, SettleBacked
<1> QED  BY <1>1, <1>2

(* A swap of an exact input keeps the pool backed and makes no share worth *)
(* less.                                                                   *)
LEMMA SwapExactInBacked ==
  ASSUME PoolInv, NEW t \in Traders, NEW buyA \in BOOLEAN, NEW in \in Nat,
         SwapExactIn(t, buyA, in)
  PROVE  PoolInv' /\ Favours
<1>0. reserveA \in Nat /\ reserveB \in Nat /\ reserveA > 0 /\ reserveB > 0
  BY PoolFacts DEF SwapExactIn
<1>1. CASE buyA
  <2> DEFINE out == AmountOut(in, reserveB, reserveA)
  <2>1. SettleA(t, in, out) /\ out < reserveA
    BY <1>1 DEF SwapExactIn
  <2>2. out \in Nat /\ reserveB * out <= in * (reserveA - out)
    BY <1>0, <2>1, AmountOutTyped
  <2> HIDE DEF out
  <2> QED  BY <1>0, <2>1, <2>2, SettleBacked
<1>2. CASE ~ buyA
  <2> DEFINE out == AmountOut(in, reserveA, reserveB)
  <2>1. SettleB(t, in, out) /\ out < reserveB
    BY <1>2 DEF SwapExactIn
  <2>2. out \in Nat /\ reserveA * out <= in * (reserveB - out)
    BY <1>0, <2>1, AmountOutTyped
  <2> HIDE DEF out
  <2> QED  BY <1>0, <2>1, <2>2, SettleBacked
<1> QED  BY <1>1, <1>2

-----------------------------------------------------------------------------
(* A withdrawal keeps the pool backed and makes no share that is left      *)
(* worth less.                                                             *)
LEMMA WithdrawBacked ==
  ASSUME PoolInv, NEW t \in Traders, NEW amount \in Nat, Withdraw(t, amount)
  PROVE  PoolInv' /\ Favours
<1> DEFINE pa == (amount * reserveA) \div totalShares  a == Payout(t, pa)
           pb == (amount * reserveB) \div totalShares  b == Payout(t, pb)
<1>0. /\ totalShares \in Nat \ {0} /\ reserveA \in Nat /\ reserveB \in Nat
      /\ reserveA > 0 /\ reserveB > 0
      /\ shares[t] \in Nat /\ walletA[t] \in Nat /\ walletB[t] \in Nat
      /\ depositedAt \in [Traders -> Nat] /\ amount <= shares[t] /\ amount <= totalShares
      /\ PoolTypeOK
  BY PoolFacts DEF Withdraw, PoolInv
<1>1. /\ shares' = [shares EXCEPT ![t] = @ - amount]
      /\ totalShares' = totalShares - amount
      /\ reserveA' = reserveA - a /\ reserveB' = reserveB - b
      /\ walletA' = [walletA EXCEPT ![t] = @ + a]
      /\ walletB' = [walletB EXCEPT ![t] = @ + b]
      /\ UNCHANGED <<seq, feeBps, lpFeeBps, depositedAt>>
  BY DEF Withdraw
<1>2. pa \in Nat /\ pb \in Nat
  <2>1. amount * reserveA \in Nat /\ amount * reserveB \in Nat
    BY <1>0
  <2> QED  BY <1>0, <2>1, DivNatural
<1>3. a \in 0..pa /\ b \in 0..pb
  <2> HIDE DEF pa, pb
  <2> QED  BY <1>0, <1>2, PayoutTyped
<1> HIDE DEF a, b
<1>4. /\ a <= reserveA /\ reserveA * (totalShares - amount) <= (reserveA - a) * totalShares
      /\ amount < totalShares => a < reserveA
  BY <1>0, <1>3, ShareOfReserve
<1>5. /\ b <= reserveB /\ reserveB * (totalShares - amount) <= (reserveB - b) * totalShares
      /\ amount < totalShares => b < reserveB
  BY <1>0, <1>3, ShareOfReserve
<1>6. a \in Nat /\ b \in Nat
  BY <1>2, <1>3
<1> HIDE DEF pa, pb
<1>7. PoolInv'
  <2> DEFINE ds == -amount  da == -a  db == -b
  <2>1. /\ ds \in Int /\ da \in Int /\ db \in Int
        /\ shares[t] + ds = shares[t] - amount /\ totalShares + ds = totalShares - amount
        /\ walletA[t] - da = walletA[t] + a /\ walletB[t] - db = walletB[t] + b
        /\ reserveA + da = reserveA - a /\ reserveB + db = reserveB - b
    BY <1>0, <1>6
  <2> HIDE DEF ds, da, db
  <2>2. Moves(t, ds, da, db)
    BY <1>1, <2>1 DEF Moves
  <2>3. /\ shares[t] + ds \in Nat /\ walletA[t] - da \in Nat /\ walletB[t] - db \in Nat
        /\ totalShares + ds \in Nat /\ reserveA + da \in Nat /\ reserveB + db \in Nat
        /\ totalShares + ds > 0 => reserveA + da > 0 /\ reserveB + db > 0
    BY <1>0, <1>4, <1>5, <1>6, <2>1
  <2>4. depositedAt' \in [Traders -> Nat]
    BY <1>0, <1>1
  <2> QED  BY <2>1, <2>2, <2>3, <2>4, MovesBacked
<1>8. Favours
  <2>1. totalShares - amount \in Nat /\ reserveA - a \in Nat /\ reserveB - b \in Nat
    BY <1>0, <1>4, <1>5, <1>6
  <2>2. (reserveA - a) * (reserveB - b) * totalShares * totalShares
          >= reserveA * reserveB * (totalShares - amount) * (totalShares - amount)
    BY ONLY <1>0, <1>4, <1>5, <2>1, EachFavours
  <2> QED  BY <1>1, <2>2 DEF Favours
<1> QED  BY <1>7, <1>8

(* Burnt shares keep the pool backed and make no share that is left worth  *)
(* less.                                                                   *)
LEMMA BurnBacked ==
  ASSUME PoolInv, NEW t \in Traders, NEW amount \in Nat, Burn(t, amount)
  PROVE  PoolInv' /\ Favours
<1>0. /\ totalShares \in Nat /\ reserveA \in Nat /\ reserveB \in Nat
      /\ totalShares > 0 => reserveA > 0 /\ reserveB > 0
      /\ shares[t] \in Nat /\ walletA[t] \in Nat /\ walletB[t] \in Nat
      /\ walletA \in [Traders -> Nat] /\ walletB \in [Traders -> Nat]
      /\ depositedAt \in [Traders -> Nat] /\ amount <= shares[t] /\ amount <= totalShares
  BY PoolFacts DEF Burn
<1>1. /\ shares' = [shares EXCEPT ![t] = @ - amount]
      /\ totalShares' = totalShares - amount
      /\ UNCHANGED <<seq, reserveA, reserveB, feeBps, lpFeeBps, depositedAt, walletA, walletB>>
  BY DEF Burn, reserves, wallets
<1> DEFINE ds == -amount
<1>2. /\ ds \in Int /\ shares[t] + ds = shares[t] - amount
      /\ totalShares + ds = totalShares - amount
      /\ walletA = [walletA EXCEPT ![t] = walletA[t] - 0]
      /\ walletB = [walletB EXCEPT ![t] = walletB[t] - 0]
      /\ reserveA + 0 = reserveA /\ reserveB + 0 = reserveB
  BY <1>0
<1> HIDE DEF ds
<1>3. Moves(t, ds, 0, 0)
  BY <1>1, <1>2 DEF Moves
<1>4. /\ shares[t] + ds \in Nat /\ walletA[t] - 0 \in Nat /\ walletB[t] - 0 \in Nat
      /\ totalShares + ds \in Nat /\ reserveA + 0 \in Nat /\ reserveB + 0 \in Nat
      /\ totalShares + ds > 0 => reserveA + 0 > 0 /\ reserveB + 0 > 0
      /\ 0 \in Int /\ depositedAt' \in [Traders -> Nat]
  BY <1>0, <1>1, <1>2
<1>5. PoolInv'
  BY <1>2, <1>3, <1>4, MovesBacked
<1>6. totalShares - amount \in Nat
  BY <1>0
<1>7. /\ reserveA * (totalShares - amount) <= reserveA * totalShares
      /\ reserveB * (totalShares - amount) <= reserveB * totalShares
  BY <1>0, <1>6
<1>8. reserveA * reserveB * totalShares * totalShares
        >= reserveA * reserveB * (totalShares - amount) * (totalShares - amount)
  BY ONLY <1>0, <1>6, <1>7, EachFavours
<1> QED  BY <1>1, <1>5, <1>8 DEF Favours

(* Shares that change hands keep the pool backed, and their worth.         *)
LEMMA TransferBacked ==
  ASSUME PoolInv, NEW t \in Traders, NEW to \in Traders, NEW amount \in Nat,
         Transfer(t, to, amount)
  PROVE  PoolInv' /\ Favours
<1> DEFINE sent == [shares EXCEPT ![t] = @ - amount]  ds == -amount
<1>0. /\ shares \in [Traders -> Nat] /\ amount <= shares[t] /\ shares[t] \in Nat
      /\ IsFiniteSet(Traders) /\ totalShares \in Nat /\ reserveA \in Nat /\ reserveB \in Nat
      /\ SumFunctionOnSet(shares, Traders) = totalShares /\ t \in Traders /\ to \in Traders
  BY PoolFacts DEF Transfer
<1>1. /\ shares' = [sent EXCEPT ![to] = @ + amount]
      /\ UNCHANGED <<seq, reserveA, reserveB, totalShares, feeBps, lpFeeBps, depositedAt,
                     walletA, walletB>>
  BY DEF Transfer, reserves, wallets
<1>2. /\ sent = Shifted(shares, t, ds) /\ shares[t] + ds \in Nat /\ ds \in Int
      /\ ds = -amount
  <2>1. /\ shares[t] - amount = shares[t] + ds /\ ds \in Int /\ shares[t] + ds \in Nat
    BY ONLY <1>0, amount \in Nat
  <2>2. sent = Shifted(shares, t, ds)
    <3>1. sent = [shares EXCEPT ![t] = shares[t] - amount]
      OBVIOUS
    <3> HIDE DEF sent, ds
    <3> QED  BY ONLY <3>1, <2>1, Zenon DEF Shifted
  <2> QED  BY <2>1, <2>2
<1> HIDE DEF sent, ds
<1>3. /\ sent \in [Traders -> Nat]
      /\ SumFunctionOnSet(sent, Traders) = SumFunctionOnSet(shares, Traders) + ds
  BY ONLY <1>0, <1>2, HoldingMoves
<1>4. sent[to] + amount \in Nat /\ amount \in Int /\ shares' = Shifted(sent, to, amount)
  <2>1. sent[to] \in Nat
    BY <1>0, <1>3
  <2> QED  BY <1>1, <2>1 DEF Shifted
<1>5. /\ shares' \in [Traders -> Nat]
      /\ SumFunctionOnSet(shares', Traders) = SumFunctionOnSet(sent, Traders) + amount
  BY ONLY <1>0, <1>3, <1>4, HoldingMoves
<1>6. SumFunctionOnSet(shares', Traders) = totalShares
  BY <1>0, <1>2, <1>3, <1>5
<1>7. SumFunction(shares') = SumFunctionOnSet(shares', Traders)
  BY <1>5 DEF SumFunction, SumFunctionOnSet, FoldFunction
<1>8. PoolTypeOK'
  BY <1>1, <1>5 DEF PoolInv, PoolTypeOK
<1>9. PoolBacked'
  BY <1>1, <1>6, <1>7 DEF PoolInv, PoolBacked
<1> QED  BY <1>0, <1>1, <1>8, <1>9 DEF PoolInv, Favours

(* The pool as it is deployed.                                             *)
LEMMA PoolStart == PoolInit => PoolInv
<1> SUFFICES ASSUME PoolInit PROVE PoolInv
  OBVIOUS
<1>0. IsFiniteSet(Traders) /\ TraderCoins \in Nat /\ LastLedger \in Nat
  BY PoolConstants, PoolAssumption
<1>1. /\ shares \in [Traders -> Nat] /\ walletA \in [Traders -> Nat]
      /\ walletB \in [Traders -> Nat] /\ depositedAt \in [Traders -> Nat]
      /\ \A t \in Traders : shares[t] = 0 /\ walletA[t] = TraderCoins /\ walletB[t] = TraderCoins
      /\ seq = 1 /\ reserveA = 0 /\ reserveB = 0 /\ totalShares = 0
      /\ feeBps \in SwapRates /\ lpFeeBps \in LpRates
  BY <1>0 DEF PoolInit
<1>2. PoolTypeOK
  BY <1>0, <1>1 DEF PoolTypeOK
<1>3. /\ SumFunction(shares) = SumFunctionOnSet(shares, Traders)
      /\ SumFunction(walletA) = SumFunctionOnSet(walletA, Traders)
      /\ SumFunction(walletB) = SumFunctionOnSet(walletB, Traders)
  BY <1>1 DEF SumFunction, SumFunctionOnSet, FoldFunction
<1>4. /\ SumFunctionOnSet(shares, Traders) = 0
      /\ SumFunctionOnSet(walletA, Traders) = Brought
      /\ SumFunctionOnSet(walletB, Traders) = Brought
  BY <1>0, <1>1, SumZero, SumConstant DEF Brought
<1>5. Brought \in Nat
  BY <1>0, FS_CardinalityType DEF Brought
<1>6. PoolBacked
  BY <1>1, <1>3, <1>4, <1>5 DEF PoolBacked, Brought
<1> QED  BY <1>2, <1>6 DEF PoolInv

(* Every call on the pool keeps the invariant and makes no share worth     *)
(* less.                                                                   *)
LEMMA PoolStep ==
  ASSUME PoolInv, PoolNext
  PROVE  PoolInv' /\ Favours
<1>0. /\ Brought \in Nat /\ PoolAmounts = 1..Brought
      /\ totalShares \in Nat /\ reserveA \in Nat /\ reserveB \in Nat /\ LastLedger \in Nat
  BY PoolFacts, PoolConstants, PoolAssumption, FS_CardinalityType DEF PoolAmounts, Brought
<1>1. CASE NextLedger
  <2>1. /\ seq' = seq + 1 /\ seq <= LastLedger
        /\ UNCHANGED <<reserveA, reserveB, totalShares, feeBps, lpFeeBps, shares, depositedAt,
                       walletA, walletB>>
    BY <1>1 DEF NextLedger, reserves, wallets
  <2>2. PoolTypeOK'
    BY <1>0, <2>1 DEF PoolInv, PoolTypeOK
  <2>3. PoolBacked'
    BY <2>1 DEF PoolInv, PoolBacked
  <2> QED  BY <1>0, <2>1, <2>2, <2>3 DEF PoolInv, Favours
<1>2. ASSUME NEW rate, (rate \in SwapRates /\ SetFee(rate)) \/ (rate \in LpRates /\ SetLpFee(rate))
      PROVE  PoolInv' /\ Favours
  <2>1. /\ feeBps' \in SwapRates /\ lpFeeBps' \in LpRates
        /\ UNCHANGED <<seq, reserveA, reserveB, totalShares, shares, depositedAt,
                       walletA, walletB>>
    BY <1>2, PoolFacts DEF SetFee, SetLpFee, reserves, wallets
  <2>2. PoolTypeOK'
    BY <2>1 DEF PoolInv, PoolTypeOK
  <2>3. PoolBacked'
    BY <2>1 DEF PoolInv, PoolBacked
  <2> QED  BY <1>0, <2>1, <2>2, <2>3 DEF PoolInv, Favours
<1>3. ASSUME NEW t \in Traders, NEW x \in PoolAmounts, NEW y \in PoolAmounts,
             PoolDeposit(t, x, y)
      PROVE  PoolInv' /\ Favours
  <2>1. x \in Nat \ {0} /\ y \in Nat \ {0}
    BY <1>0
  <2> QED  BY <1>3, <2>1, DepositBacked
<1>4. ASSUME NEW t \in Traders, NEW x \in PoolAmounts, NEW buyA \in BOOLEAN,
             Swap(t, buyA, x) \/ SwapExactIn(t, buyA, x)
      PROVE  PoolInv' /\ Favours
  <2>1. x \in Nat
    BY <1>0
  <2> QED  BY <1>4, <2>1, SwapBacked, SwapExactInBacked
<1>5. ASSUME NEW t \in Traders, NEW x \in PoolAmounts, NEW to \in Traders,
             Withdraw(t, x) \/ Burn(t, x) \/ Transfer(t, to, x)
      PROVE  PoolInv' /\ Favours
  <2>1. x \in Nat
    BY <1>0
  <2> QED  BY <1>5, <2>1, WithdrawBacked, BurnBacked, TransferBacked
<1> QED  BY <1>1, <1>2, <1>3, <1>4, <1>5 DEF PoolNext

(* Every step of the pool keeps the invariant.                             *)
LEMMA PoolKeeps == PoolInv /\ [PoolNext]_poolVars => PoolInv'
<1>1. PoolInv /\ UNCHANGED poolVars => PoolInv'
  BY DEF PoolInv, PoolTypeOK, PoolBacked, poolVars, reserves, wallets
<1> QED  BY <1>1, PoolStep

\* Whoever deposits, swaps, withdraws, burns or hands over shares, in whatever
\* order and at whatever fees: the shares are all somebody's, the tokens are all
\* somewhere, and shares are never left with an empty reserve.
THEOREM PoolStaysBacked == PoolSpec => [](PoolTypeOK /\ PoolBacked)
<1>1. PoolInv => PoolTypeOK /\ PoolBacked
  BY DEF PoolInv
<1> QED  BY <1>1, PoolStart, PoolKeeps, PTL DEF PoolSpec

\* However the divisions round, and at whatever fees: no call of one trader
\* makes a share of the others worth less.
THEOREM SharesKeepTheirWorth == PoolSpec => PoolFavoured
<1>1. PoolInv /\ [PoolNext]_poolVars =>
        [totalShares > 0 /\ totalShares' > 0 =>
           reserveA' * reserveB' * totalShares * totalShares
             >= reserveA * reserveB * totalShares' * totalShares']_poolVars
  BY PoolStep DEF Favours
<1> QED  BY <1>1, PoolStart, PoolKeeps, PTL DEF PoolSpec, PoolFavoured

-----------------------------------------------------------------------------
(* The concentrated pool                                                   *)

AmmPosition == [liquidity : Nat, last : Int, owed : Nat]
Info == [gross : Nat, net : Int, outside : Int]

From(t) == {k \in PositionKeys : k[2][1] = t}
UpTo(t) == {k \in PositionKeys : k[2][2] = t}
InRange == {k \in PositionKeys : InSpan(tick, k[2])}
Liquid == [k \in PositionKeys |-> position[k].liquidity]

(* There are finitely many positions, each between two ends.               *)
LEMMA Keys ==
  /\ IsFiniteSet(PositionKeys) /\ IsFiniteSet(Ends) /\ Ends \subseteq Int
  /\ \A k \in PositionKeys :
       /\ k[2] \in Spans /\ k[2][1] \in Ends /\ k[2][2] \in Ends
       /\ k[2][1] \in Int /\ k[2][2] \in Int /\ k[2][1] < k[2][2]
<1>1. \A span \in Spans : span[1] \in Int /\ span[2] \in Int /\ span[1] < span[2]
  BY AmmAssumption
<1>2. IsFiniteSet(Spans) /\ IsFiniteSet(Providers)
  BY AmmAssumption
<1>3. IsFiniteSet(PositionKeys)
  BY <1>2, FS_Product DEF PositionKeys
<1>4. IsFiniteSet(Ends)
  <2> DEFINE lower == [span \in Spans |-> span[1]]  upper == [span \in Spans |-> span[2]]
  <2>1. /\ lower \in Surjection(Spans, {span[1] : span \in Spans})
        /\ upper \in Surjection(Spans, {span[2] : span \in Spans})
    BY DEF Surjection
  <2>2. IsFiniteSet({span[1] : span \in Spans}) /\ IsFiniteSet({span[2] : span \in Spans})
    <3> HIDE DEF lower, upper
    <3> QED  BY <1>2, <2>1, FS_Surjection
  <2> QED  BY <2>2, FS_Union DEF Ends
<1>5. Ends \subseteq Int
  BY <1>1 DEF Ends
<1>6. \A k \in PositionKeys : k[2] \in Spans /\ k[2][1] \in Ends /\ k[2][2] \in Ends
  BY DEF PositionKeys, Ends
<1> QED  BY <1>1, <1>3, <1>4, <1>5, <1>6

-----------------------------------------------------------------------------
(* Ranges                                                                  *)

(* The sum of what some positions provide is at least what each provides.  *)
LEMMA LiquidityAdds ==
  ASSUME NEW pos \in [PositionKeys -> AmmPosition], NEW K \in SUBSET PositionKeys
  PROVE  LET sum == SumFunctionOnSet([k \in PositionKeys |-> pos[k].liquidity], K)
         IN  sum \in Nat /\ \A k \in K : pos[k].liquidity <= sum
<1> DEFINE f == [k \in PositionKeys |-> pos[k].liquidity]
<1>1. IsFiniteSet(K)
  BY Keys, FS_Subset
<1>2. \A k \in K : f[k] = pos[k].liquidity /\ f[k] \in Nat
  BY DEF AmmPosition
<1> HIDE DEF f
<1>3. SumFunctionOnSet(f, K) \in Nat
  BY <1>1, <1>2, SumNatural
<1>4. \A k \in K : f[k] <= SumFunctionOnSet(f, K)
  BY <1>1, <1>2, SumCovers
<1> QED  BY <1>2, <1>3, <1>4 DEF f

(* What a set of positions provides is a natural that bounds each of them, *)
(* before a step and after it.                                             *)
LEMMA ProvidedTyped ==
  ASSUME NEW K \in SUBSET PositionKeys
  PROVE  /\ position \in [PositionKeys -> AmmPosition] =>
              Provided(K) \in Nat /\ \A k \in K : position[k].liquidity <= Provided(K)
         /\ position' \in [PositionKeys -> AmmPosition] =>
              Provided(K)' \in Nat /\ \A k \in K : position'[k].liquidity <= Provided(K)'
BY LiquidityAdds DEF Provided

(* What a change of one position's liquidity changes in the sums.          *)
LEMMA ProvidedMoves ==
  ASSUME position \in [PositionKeys -> AmmPosition], position' \in [PositionKeys -> AmmPosition],
         NEW k \in PositionKeys, NEW d \in Int,
         position'[k].liquidity = position[k].liquidity + d,
         \A j \in PositionKeys \ {k} : position'[j].liquidity = position[j].liquidity,
         NEW K \in SUBSET PositionKeys
  PROVE  Provided(K)' = Provided(K) + (IF k \in K THEN d ELSE 0)
<1> DEFINE f == Liquid  g == Liquid'
<1>1. IsFiniteSet(K)
  BY Keys, FS_Subset
<1>2. \A j \in PositionKeys : /\ f[j] = position[j].liquidity /\ g[j] = position'[j].liquidity
                              /\ f[j] \in Int /\ g[j] \in Int
  BY DEF Liquid, AmmPosition
<1>3. Provided(K) = SumFunctionOnSet(f, K) /\ Provided(K)' = SumFunctionOnSet(g, K)
  BY DEF Provided, Liquid
<1>4. IntegersOn(f, K) /\ IntegersOn(g, K)
  BY <1>1, <1>2 DEF IntegersOn
<1>5. SumFunctionOnSet(f, K) \in Int
  BY <1>4, SumTyped
<1>6. CASE k \in K
  <2>1. \A j \in K \ {k} : f[j] = g[j]
    BY <1>2
  <2> HIDE DEF f, g
  <2>2. SumFunctionOnSet(g, K) = SumFunctionOnSet(f, K) + g[k] - f[k]
    BY <1>2, <1>4, <1>6, <2>1, SumUpdate
  <2> QED  BY <1>2, <1>3, <1>5, <1>6, <2>2
<1>7. CASE k \notin K
  <2>1. \A j \in K : f[j] = g[j]
    BY <1>2, <1>7
  <2> HIDE DEF f, g
  <2>2. SumFunctionOnSet(g, K) = SumFunctionOnSet(f, K)
    BY <1>4, <2>1, SumAgree
  <2> QED  BY <1>3, <1>5, <1>7, <2>2
<1> QED  BY <1>6, <1>7

(* The active liquidity, the ticks and the bitmap, by what the positions   *)
(* on each side of an end provide.                                         *)
LEMMA RangesMeaning ==
  RangesSound <=>
    /\ active = Provided(InRange)
    /\ \A t \in Ends :
         /\ tickInfo[t].net = Provided(From(t)) - Provided(UpTo(t))
         /\ tickInfo[t].gross = Provided(From(t)) + Provided(UpTo(t))
         /\ t \in bitmap <=> tickInfo[t].gross > 0
BY DEF RangesSound, InRange, From, UpTo

(* A position that has liquidity uses its ends.                            *)
LEMMA UsedEnds ==
  ASSUME position \in [PositionKeys -> AmmPosition], RangesSound,
         NEW k \in PositionKeys, position[k].liquidity > 0
  PROVE  /\ tickInfo[k[2][1]].gross > 0 /\ tickInfo[k[2][2]].gross > 0
         /\ k[2][1] \in bitmap /\ k[2][2] \in bitmap
<1> DEFINE a == k[2][1]  b == k[2][2]
<1>1. a \in Ends /\ b \in Ends
  BY Keys
<1>2. k \in From(a) /\ k \in UpTo(b)
  BY DEF From, UpTo
<1>3. \A t : From(t) \in SUBSET PositionKeys /\ UpTo(t) \in SUBSET PositionKeys
  BY DEF From, UpTo
<1>4. position[k].liquidity \in Nat
  BY DEF AmmPosition
<1> HIDE DEF a, b
<1>5. /\ Provided(From(a)) \in Nat /\ Provided(UpTo(a)) \in Nat
      /\ Provided(From(b)) \in Nat /\ Provided(UpTo(b)) \in Nat
      /\ Provided(From(a)) > 0 /\ Provided(UpTo(b)) > 0
  BY <1>2, <1>3, <1>4, ProvidedTyped
<1>6. tickInfo[a].gross > 0 /\ tickInfo[b].gross > 0
  BY <1>1, <1>5, RangesMeaning
<1> QED  BY <1>1, <1>6, RangesMeaning DEF a, b

(* What a change of a range's liquidity does to its two ends.              *)
LEMMA EndsMoved ==
  ASSUME tick \in Int, growth \in Int, tickInfo \in [Ends -> Info],
         NEW k \in PositionKeys, NEW d \in Int,
         tickInfo[k[2][1]].gross + d >= 0, tickInfo[k[2][2]].gross + d >= 0
  PROVE  LET info == EndsUpdated(k[2], d)
             delta(t) == IF t = k[2][1] \/ t = k[2][2] THEN d ELSE 0
         IN  /\ info \in [Ends -> Info]
             /\ \A t \in Ends :
                  /\ info[t].gross = tickInfo[t].gross + delta(t)
                  /\ info[t].net = IF t \in {k[2][1], k[2][2]} /\ info[t].gross = 0 THEN 0
                                   ELSE tickInfo[t].net + (IF t = k[2][2] THEN - delta(t)
                                                           ELSE delta(t))
                  /\ tickInfo[t].gross # 0 /\ info[t].gross # 0
                       => info[t].outside = tickInfo[t].outside
<1> DEFINE a == k[2][1]  b == k[2][2]
           low == TickUpdated(tickInfo[a], a, d, FALSE)
           high == TickUpdated(tickInfo[b], b, d, TRUE)
           info == EndsUpdated(k[2], d)
<1>1. a \in Ends /\ b \in Ends /\ a # b /\ a \in Int /\ b \in Int
  BY Keys
<1>2. tickInfo[a] \in Info /\ tickInfo[b] \in Info
  BY <1>1
<1>3. info = [[tickInfo EXCEPT ![a] = low] EXCEPT ![b] = high]
  BY <1>1 DEF EndsUpdated
<1>4. /\ low \in Info
      /\ low.gross = tickInfo[a].gross + d
      /\ low.net = IF low.gross = 0 THEN 0 ELSE tickInfo[a].net + d
      /\ tickInfo[a].gross # 0 /\ low.gross # 0 => low.outside = tickInfo[a].outside
  BY <1>1, <1>2 DEF TickUpdated, Info, NoInfo
<1>5. /\ high \in Info
      /\ high.gross = tickInfo[b].gross + d
      /\ high.net = IF high.gross = 0 THEN 0 ELSE tickInfo[b].net + (- d)
      /\ tickInfo[b].gross # 0 /\ high.gross # 0 => high.outside = tickInfo[b].outside
  BY <1>1, <1>2 DEF TickUpdated, Info, NoInfo
<1> HIDE DEF low, high, info
<1>6. /\ info \in [Ends -> Info] /\ info[a] = low /\ info[b] = high
      /\ \A t \in Ends \ {a, b} : info[t] = tickInfo[t]
  BY <1>1, <1>3, <1>4, <1>5
<1>7. \A t \in Ends : tickInfo[t].gross \in Int /\ tickInfo[t].net \in Int
  BY DEF Info
<1>8. ASSUME NEW t \in Ends, t \notin {a, b}
      PROVE  /\ info[t].gross = tickInfo[t].gross + 0
             /\ info[t].net = tickInfo[t].net + 0
             /\ info[t].outside = tickInfo[t].outside
  BY <1>6, <1>7, <1>8
<1> QED  BY <1>1, <1>4, <1>5, <1>6, <1>8 DEF info

(* Liquidity is added to a position or taken from it.                      *)
Moved(k, d) ==
  /\ position' \in [PositionKeys -> AmmPosition]
  /\ position'[k].liquidity = position[k].liquidity + d
  /\ \A j \in PositionKeys \ {k} : position'[j].liquidity = position[j].liquidity
  /\ tickInfo' = EndsUpdated(k[2], d)
  /\ bitmap' = Flipped(tickInfo', k[2])
  /\ active' = IF InSpan(tick, k[2]) THEN active + d ELSE active
  /\ tick' = tick

(* What the types say of the variables that the arithmetic is about.       *)
LEMMA Typed ==
  ASSUME AmmTypeOK
  PROVE  /\ position \in [PositionKeys -> AmmPosition] /\ tickInfo \in [Ends -> Info]
         /\ tick \in Int /\ growth \in Nat /\ active \in Nat
         /\ \A k \in PositionKeys : position[k].liquidity \in Nat
         /\ \A t \in Ends : tickInfo[t].gross \in Nat /\ tickInfo[t].net \in Int
                            /\ tickInfo[t].outside \in Int
BY DEF AmmTypeOK, AmmPosition, Info

(* Liquidity added to a position counts at its two ends only.              *)
LEMMA MovedSums ==
  ASSUME AmmTypeOK, RangesSound, NEW k \in PositionKeys, NEW d \in Int, Moved(k, d),
         NEW t \in Ends
  PROVE  LET a == k[2][1]  b == k[2][2]  IN
         /\ Provided(From(t))' = Provided(From(t)) + (IF t = a THEN d ELSE 0)
         /\ Provided(UpTo(t))' = Provided(UpTo(t)) + (IF t = b THEN d ELSE 0)
         /\ Provided(From(t))' \in Nat /\ Provided(UpTo(t))' \in Nat
         /\ Provided(From(t)) \in Nat /\ Provided(UpTo(t)) \in Nat
<1>1. From(t) \in SUBSET PositionKeys /\ UpTo(t) \in SUBSET PositionKeys
  BY DEF From, UpTo
<1>2. k \in From(t) <=> t = k[2][1]
  BY DEF From
<1>3. k \in UpTo(t) <=> t = k[2][2]
  BY DEF UpTo
<1>4. ASSUME NEW K \in SUBSET PositionKeys
      PROVE  /\ Provided(K)' = Provided(K) + (IF k \in K THEN d ELSE 0)
             /\ Provided(K) \in Nat
             /\ Provided(K)' \in Nat
  <2>1. Provided(K)' = Provided(K) + (IF k \in K THEN d ELSE 0)
    BY Typed, ProvidedMoves DEF Moved
  <2>2. Provided(K) \in Nat
    BY Typed, ProvidedTyped
  <2>3. Provided(K)' \in Nat
    BY ProvidedTyped DEF Moved
  <2> QED  BY <2>1, <2>2, <2>3
<1>5. From(t)' = From(t) /\ UpTo(t)' = UpTo(t)
  BY DEF From, UpTo
<1> QED  BY <1>1, <1>2, <1>3, <1>4, <1>5

(* Such a change keeps the ranges.                                         *)
LEMMA RangesMoved ==
  ASSUME AmmTypeOK, RangesSound, NEW k \in PositionKeys, NEW d \in Int, Moved(k, d)
  PROVE  /\ RangesSound'
         /\ tickInfo' \in [Ends -> Info] /\ bitmap' \subseteq Ends /\ active' \in Nat
         /\ \A j \in PositionKeys :
              position[j].liquidity > 0 /\ position'[j].liquidity > 0
                => /\ tickInfo'[j[2][1]].outside = tickInfo[j[2][1]].outside
                   /\ tickInfo'[j[2][2]].outside = tickInfo[j[2][2]].outside
<1> DEFINE a == k[2][1]  b == k[2][2]
<1>1. a \in Ends /\ b \in Ends /\ a \in Int /\ b \in Int /\ a < b
  BY Keys
<1>2. \A t \in Ends :
        /\ Provided(From(t))' = Provided(From(t)) + (IF t = a THEN d ELSE 0)
        /\ Provided(UpTo(t))' = Provided(UpTo(t)) + (IF t = b THEN d ELSE 0)
        /\ Provided(From(t))' \in Nat /\ Provided(UpTo(t))' \in Nat
        /\ Provided(From(t)) \in Nat /\ Provided(UpTo(t)) \in Nat
  BY MovedSums
<1>3. \A t \in Ends :
        /\ tickInfo[t].net = Provided(From(t)) - Provided(UpTo(t))
        /\ tickInfo[t].gross = Provided(From(t)) + Provided(UpTo(t))
        /\ t \in bitmap <=> tickInfo[t].gross > 0
  BY RangesMeaning
<1>4. tickInfo[a].gross + d >= 0 /\ tickInfo[b].gross + d >= 0
  <2> HIDE DEF a, b
  <2> QED  BY <1>1, <1>2, <1>3
<1>5. /\ tickInfo' \in [Ends -> Info]
      /\ \A t \in Ends :
           LET delta == IF t = a \/ t = b THEN d ELSE 0 IN
           /\ tickInfo'[t].gross = tickInfo[t].gross + delta
           /\ tickInfo'[t].net = IF t \in {a, b} /\ tickInfo'[t].gross = 0 THEN 0
                                 ELSE tickInfo[t].net + (IF t = b THEN - delta ELSE delta)
           /\ tickInfo[t].gross # 0 /\ tickInfo'[t].gross # 0
                => tickInfo'[t].outside = tickInfo[t].outside
  BY <1>4, EndsMoved, Typed DEF Moved
<1>6. \A t \in Ends :
        /\ tickInfo'[t].gross = Provided(From(t))' + Provided(UpTo(t))'
        /\ tickInfo'[t].net = Provided(From(t))' - Provided(UpTo(t))'
  <2> SUFFICES ASSUME NEW t \in Ends
               PROVE  /\ tickInfo'[t].gross = Provided(From(t))' + Provided(UpTo(t))'
                      /\ tickInfo'[t].net = Provided(From(t))' - Provided(UpTo(t))'
    OBVIOUS
  <2> HIDE DEF a, b
  <2>1. tickInfo'[t].gross = Provided(From(t))' + Provided(UpTo(t))'
    <3>1. tickInfo[t].gross = Provided(From(t)) + Provided(UpTo(t))
      BY <1>3
    <3>2. CASE t = a
      BY <1>1, <1>2, <1>5, <3>1, <3>2
    <3>3. CASE t = b
      BY <1>1, <1>2, <1>5, <3>1, <3>3
    <3>4. CASE t # a /\ t # b
      BY <1>1, <1>2, <1>5, <3>1, <3>4
    <3> QED  BY <3>2, <3>3, <3>4
  <2>2. CASE t \in {a, b} /\ tickInfo'[t].gross = 0
    BY <1>2, <1>5, <2>1, <2>2
  <2>3. CASE ~ (t \in {a, b} /\ tickInfo'[t].gross = 0)
    BY <1>1, <1>2, <1>3, <1>5, <2>3
  <2> QED  BY <2>1, <2>2, <2>3
<1>7. bitmap' \subseteq Ends /\ \A t \in Ends : t \in bitmap' <=> tickInfo'[t].gross > 0
  <2>1. bitmap' = LET flips == {t \in {a, b} : (tickInfo'[t].gross = 0) # (tickInfo[t].gross = 0)}
                  IN  (bitmap \ flips) \cup (flips \ bitmap)
    BY DEF Moved, Flipped
  <2>2. \A t \in Ends : tickInfo'[t].gross \in Nat /\ tickInfo[t].gross \in Nat
    BY <1>5, Typed DEF Info
  <2>3. \A t \in Ends \ {a, b} : tickInfo'[t].gross = tickInfo[t].gross
    <3> HIDE DEF a, b
    <3> QED  BY <1>5, <2>2
  <2>4. bitmap \subseteq Ends
    BY DEF AmmTypeOK
  <2> HIDE DEF a, b
  <2>5. bitmap' \subseteq Ends
    BY <1>1, <2>1, <2>4
  <2>6. ASSUME NEW t \in Ends PROVE t \in bitmap' <=> tickInfo'[t].gross > 0
    <3>1. t \in bitmap <=> tickInfo[t].gross # 0
      BY <1>3, <2>2
    <3>2. CASE t \in {a, b}
      <4>1. t \in bitmap' <=> ((t \in bitmap) # ((tickInfo'[t].gross = 0) # (tickInfo[t].gross = 0)))
        BY <2>1, <3>2
      <4> QED  BY <2>2, <3>1, <4>1
    <3>3. CASE t \notin {a, b}
      <4>1. t \in bitmap' <=> t \in bitmap
        BY <2>1, <3>3
      <4> QED  BY <2>2, <2>3, <3>1, <3>3, <4>1
    <3> QED  BY <3>2, <3>3
  <2> QED  BY <2>5, <2>6
<1>8. active' = Provided(InRange)' /\ active' \in Nat
  <2>1. InRange' = InRange /\ InRange \in SUBSET PositionKeys
    BY DEF InRange, Moved
  <2>2. Provided(InRange)' = Provided(InRange) + (IF k \in InRange THEN d ELSE 0)
    <3>1. ASSUME NEW K \in SUBSET PositionKeys
          PROVE  Provided(K)' = Provided(K) + (IF k \in K THEN d ELSE 0)
      BY Typed, ProvidedMoves DEF Moved
    <3>2. Provided(InRange)' = SumFunctionOnSet([j \in PositionKeys |-> position'[j].liquidity], InRange)
      BY <2>1 DEF Provided
    <3> DEFINE K == InRange
    <3>3. SumFunctionOnSet([j \in PositionKeys |-> position'[j].liquidity], K)
            = Provided(K) + (IF k \in K THEN d ELSE 0)
      <4> SUFFICES ASSUME NEW J \in SUBSET PositionKeys
                   PROVE  SumFunctionOnSet([j \in PositionKeys |-> position'[j].liquidity], J)
                            = Provided(J) + (IF k \in J THEN d ELSE 0)
        BY <2>1
      <4> QED  BY <3>1 DEF Provided
    <3> QED  BY <3>2, <3>3
  <2>3. k \in InRange <=> InSpan(tick, k[2])
    BY DEF InRange
  <2>4. active = Provided(InRange) /\ active \in Nat
    BY RangesMeaning, Typed
  <2>5. active' = Provided(InRange)'
    BY <2>2, <2>3, <2>4 DEF Moved
  <2>6. Provided(InRange)' \in Nat
    <3>1. SumFunctionOnSet([j \in PositionKeys |-> position'[j].liquidity], InRange) \in Nat
      BY <2>1, LiquidityAdds DEF Moved
    <3> QED  BY <2>1, <3>1 DEF Provided
  <2> QED  BY <2>5, <2>6
<1>9. RangesSound'
  BY <1>6, <1>7, <1>8 DEF RangesSound, InRange, From, UpTo
<1>10. ASSUME NEW j \in PositionKeys, position[j].liquidity > 0, position'[j].liquidity > 0
       PROVE  /\ tickInfo'[j[2][1]].outside = tickInfo[j[2][1]].outside
              /\ tickInfo'[j[2][2]].outside = tickInfo[j[2][2]].outside
  <2>1. \A t \in {j[2][1], j[2][2]} : t \in Ends /\ tickInfo[t].gross # 0
    BY <1>10, Keys, UsedEnds, Typed
  <2>2. \A t \in {j[2][1], j[2][2]} : tickInfo'[t].gross # 0
    <3>1. j \in From(j[2][1]) /\ j \in UpTo(j[2][2])
      BY DEF From, UpTo
    <3>2. \A t : From(t) \in SUBSET PositionKeys /\ UpTo(t) \in SUBSET PositionKeys
      BY DEF From, UpTo
    <3>3. position'[j].liquidity \in Nat
      BY DEF Moved, AmmPosition
    <3>4. Provided(From(j[2][1]))' > 0 /\ Provided(UpTo(j[2][2]))' > 0
      <4>1. ASSUME NEW K \in SUBSET PositionKeys, j \in K PROVE Provided(K)' > 0
        BY <1>10, <3>3, <4>1, ProvidedTyped DEF Moved
      <4> QED  BY <3>1, <3>2, <4>1
    <3>5. ASSUME NEW t \in Ends, Provided(From(t))' > 0 \/ Provided(UpTo(t))' > 0
          PROVE  tickInfo'[t].gross # 0
      BY <1>2, <1>6, <3>5
    <3> QED  BY <2>1, <3>4, <3>5
  <2> QED  BY <1>5, <2>1, <2>2
<1> QED  BY <1>5, <1>7, <1>8, <1>9, <1>10

-----------------------------------------------------------------------------
(* Fees                                                                    *)

(* What a position can claim, times Unit: what it is owed and what it has   *)
(* earned since, before that is rounded.                                   *)
Growing(k) == Inside(tickInfo, k[2]) - position[k].last
Weights ==
  [k \in PositionKeys |-> Unit * position[k].owed + position[k].liquidity * Growing(k)]

FeesAccounted ==
  /\ \A k \in PositionKeys : position[k].liquidity > 0 => Growing(k) >= 0
  /\ Unit * collected + SumFunctionOnSet(Weights, PositionKeys) <= Unit * paid

AmmInv == AmmTypeOK /\ RangesSound /\ FeesAccounted

(* The fees that are credited to a position are rounded down.              *)
LEMMA EarnedTyped ==
  ASSUME NEW p \in AmmPosition, NEW inside \in Int, p.liquidity > 0 => inside >= p.last
  PROVE  /\ Earned(p, inside) \in Nat
         /\ Unit * Earned(p, inside) <= p.liquidity * (inside - p.last)
<1> DEFINE sum == p.liquidity * (inside - p.last)
<1>1. p.liquidity \in Nat /\ p.last \in Int /\ Unit \in Nat \ {0}
  BY AmmAssumption DEF AmmPosition
<1>2. sum \in Nat
  <2>1. CASE p.liquidity = 0
    BY <1>1, <2>1
  <2>2. CASE p.liquidity > 0
    <3>1. inside - p.last \in Nat
      BY <1>1, <2>2
    <3> QED  BY <1>1, <3>1
  <2> QED  BY <1>1, <2>1, <2>2
<1> HIDE DEF sum
<1>3. sum \div Unit \in Nat /\ Unit * (sum \div Unit) <= sum
  BY <1>1, <1>2, DivFloor, DivNatural
<1> QED  BY <1>3 DEF Earned, sum

(* The growth inside a range is an integer.                                *)
LEMMA InsideTyped ==
  ASSUME tick \in Int, growth \in Int, NEW info \in [Ends -> Info], NEW k \in PositionKeys
  PROVE  Inside(info, k[2]) \in Int
<1>1. info[k[2][1]].outside \in Int /\ info[k[2][2]].outside \in Int
  BY Keys DEF Info
<1> QED  BY <1>1 DEF Inside

(* What a position can claim, scaled by the unit of growth.                *)
LEMMA WeightTyped ==
  ASSUME AmmTypeOK, NEW k \in PositionKeys
  PROVE  /\ Growing(k) \in Int /\ Weights[k] \in Int
         /\ Weights[k] = Unit * position[k].owed + position[k].liquidity * Growing(k)
<1>1. Growing(k) \in Int
  BY Typed, InsideTyped DEF Growing, AmmPosition
<1>2. Weights[k] = Unit * position[k].owed + position[k].liquidity * Growing(k)
  BY DEF Weights
<1>3. /\ Unit * position[k].owed \in Int
      /\ position[k].liquidity * Growing(k) \in Int
  BY <1>1, Typed, AmmAssumption DEF AmmPosition
<1> QED  BY <1>1, <1>2, <1>3

(* A position is untouched where neither it nor the ends of its range are.  *)
LEMMA WeightStays ==
  ASSUME AmmTypeOK, NEW k \in PositionKeys, tick' = tick, growth' = growth,
         position'[k] = position[k],
         position[k].liquidity > 0 =>
           /\ tickInfo'[k[2][1]].outside = tickInfo[k[2][1]].outside
           /\ tickInfo'[k[2][2]].outside = tickInfo[k[2][2]].outside,
         tickInfo' \in [Ends -> Info]
  PROVE  /\ Weights'[k] = Weights[k]
         /\ position[k].liquidity > 0 => Growing(k)' = Growing(k)
<1>1. Growing(k) \in Int /\ Weights[k] = Unit * position[k].owed + position[k].liquidity * Growing(k)
  BY WeightTyped
<1>2. Weights'[k] = Unit * position[k].owed + position[k].liquidity * Growing(k)'
  BY DEF Weights
<1>3. Growing(k)' \in Int
  <2>1. tickInfo'[k[2][1]].outside \in Int /\ tickInfo'[k[2][2]].outside \in Int
    BY Keys DEF Info
  <2> QED  BY <2>1, Typed DEF Growing, Inside, AmmPosition
<1>4. position[k].liquidity > 0 => Growing(k)' = Growing(k)
  BY DEF Growing, Inside
<1>5. position[k].liquidity \in Nat
  BY Typed
<1>6. position[k].liquidity = 0 =>
        position[k].liquidity * Growing(k)' = position[k].liquidity * Growing(k)
  BY <1>1, <1>3
<1> QED  BY <1>1, <1>2, <1>4, <1>5, <1>6

(* One position's claim is settled.                                        *)
LEMMA Settled ==
  ASSUME AmmTypeOK, AmmTypeOK', FeesAccounted, NEW k \in PositionKeys,
         \A j \in PositionKeys \ {k} : Weights'[j] = Weights[j],
         Unit * collected' + Weights'[k] <= Unit * collected + Weights[k],
         paid' = paid
  PROVE  Unit * collected' + SumFunctionOnSet(Weights', PositionKeys) <= Unit * paid'
<1> DEFINE S == PositionKeys  f == Weights  g == Weights'
<1>1. IntegersOn(f, S)
  BY Keys, WeightTyped DEF IntegersOn
<1>2. g[k] \in Int
  <2>1. Growing(k)' \in Int
    BY Keys DEF Growing, Inside, AmmTypeOK
  <2>2. position'[k].owed \in Nat /\ position'[k].liquidity \in Nat /\ Unit \in Nat
    BY AmmAssumption DEF AmmTypeOK
  <2>3. Unit * position'[k].owed \in Int /\ position'[k].liquidity * Growing(k)' \in Int
    BY <2>1, <2>2
  <2>4. g[k] = Unit * position'[k].owed + position'[k].liquidity * Growing(k)'
    BY DEF Weights
  <2> QED  BY <2>3, <2>4
<1>3. f[k] \in Int /\ SumFunctionOnSet(f, S) \in Int
  BY <1>1, SumTyped DEF IntegersOn
<1>4. \A j \in S \ {k} : f[j] = g[j]
  OBVIOUS
<1>5. Unit * collected + SumFunctionOnSet(f, S) <= Unit * paid
  BY DEF FeesAccounted
<1>6. Unit * collected \in Int /\ Unit * collected' \in Int /\ Unit * paid \in Int
  BY AmmAssumption DEF AmmTypeOK
<1>7. Unit * collected' + g[k] <= Unit * collected + f[k]
  OBVIOUS
<1> HIDE DEF f, g, S
<1>8. SumFunctionOnSet(g, S) = SumFunctionOnSet(f, S) + g[k] - f[k]
  BY <1>1, <1>2, <1>4, SumUpdate DEF S
<1>9. Unit * collected' + SumFunctionOnSet(g, S) <= Unit * paid
  BY <1>2, <1>3, <1>5, <1>6, <1>7, <1>8
<1> QED  BY <1>9 DEF f, g, S

(* Minting keeps the ranges sound and the fees accounted for.              *)
LEMMA MintKeeps ==
  ASSUME AmmInv, NEW k \in PositionKeys, NEW amount \in Nat, Mint(k, amount)
  PROVE  AmmInv'
<1> DEFINE info == EndsUpdated(k[2], amount)
           inside == Inside(info, k[2])
           old == position[k]
           p == IF old = NoPosition THEN [NoPosition EXCEPT !.last = inside] ELSE old
           new == [liquidity |-> p.liquidity + amount, last |-> inside,
                   owed |-> p.owed + Earned(p, inside)]
<1>0. AmmTypeOK /\ RangesSound /\ FeesAccounted
  BY DEF AmmInv
<1>1. /\ tickInfo' = info /\ bitmap' = Flipped(tickInfo', k[2])
      /\ position' = [position EXCEPT ![k] = new]
      /\ active' = IF InSpan(tick, k[2]) THEN active + amount ELSE active
      /\ UNCHANGED <<tick, price, growth, swapping, paid, collected>>
  BY DEF Mint
<1>2. old \in AmmPosition /\ k[2][1] \in Ends /\ k[2][2] \in Ends
  BY <1>0, Typed, Keys
<1>3. /\ info \in [Ends -> Info]
      /\ old.liquidity > 0 =>
           /\ info[k[2][1]].outside = tickInfo[k[2][1]].outside
           /\ info[k[2][2]].outside = tickInfo[k[2][2]].outside
  <2>1. /\ tickInfo[k[2][1]].gross + amount >= 0 /\ tickInfo[k[2][2]].gross + amount >= 0
        /\ tickInfo[k[2][1]].gross \in Nat /\ tickInfo[k[2][2]].gross \in Nat
    BY <1>0, <1>2, Typed
  <2>2. old.liquidity > 0 => tickInfo[k[2][1]].gross > 0 /\ tickInfo[k[2][2]].gross > 0
    BY <1>0, Typed, UsedEnds
  <2>3. /\ info \in [Ends -> Info]
        /\ \A t \in {k[2][1], k[2][2]} :
             /\ info[t].gross = tickInfo[t].gross + amount
             /\ tickInfo[t].gross # 0 /\ info[t].gross # 0
                  => info[t].outside = tickInfo[t].outside
    BY <1>0, <1>2, <2>1, Typed, EndsMoved
  <2> QED  BY <2>1, <2>2, <2>3
<1>4. inside \in Int /\ (old.liquidity > 0 => inside = Inside(tickInfo, k[2]))
  <2>1. inside \in Int
    BY <1>0, <1>3, Typed, InsideTyped
  <2> QED  BY <1>3, <2>1 DEF Inside
<1>5. /\ p \in AmmPosition /\ p.liquidity = old.liquidity /\ p.owed = old.owed
      /\ p.liquidity > 0 => p = old
  BY <1>2, <1>4 DEF AmmPosition, NoPosition
<1>6. old.liquidity > 0 => inside - old.last = Growing(k) /\ inside - old.last >= 0
  BY <1>0, <1>4 DEF FeesAccounted, Growing
<1>7. Earned(p, inside) \in Nat /\ Unit * Earned(p, inside) <= p.liquidity * (inside - p.last)
  BY <1>2, <1>4, <1>5, <1>6, EarnedTyped DEF AmmPosition
<1>8. new \in AmmPosition /\ position' \in [PositionKeys -> AmmPosition]
  BY <1>0, <1>1, <1>4, <1>5, <1>7, Typed DEF AmmPosition
<1>9. /\ position'[k] = new /\ new.liquidity = old.liquidity + amount
      /\ \A j \in PositionKeys \ {k} : position'[j] = position[j]
  BY <1>0, <1>1, <1>5, Typed
<1>10. Moved(k, amount)
  BY <1>1, <1>8, <1>9 DEF Moved
<1>11. /\ RangesSound'
       /\ tickInfo' \in [Ends -> Info] /\ bitmap' \subseteq Ends /\ active' \in Nat
       /\ \A j \in PositionKeys :
            position[j].liquidity > 0 /\ position'[j].liquidity > 0
              => /\ tickInfo'[j[2][1]].outside = tickInfo[j[2][1]].outside
                 /\ tickInfo'[j[2][2]].outside = tickInfo[j[2][2]].outside
  BY <1>0, <1>10, RangesMoved
<1>12. AmmTypeOK'
  BY <1>0, <1>1, <1>8, <1>11 DEF AmmTypeOK, AmmPosition, Info
<1>13. \A j \in PositionKeys \ {k} :
         /\ Weights'[j] = Weights[j]
         /\ position[j].liquidity > 0 => Growing(j)' = Growing(j)
  BY <1>0, <1>1, <1>9, <1>11, WeightStays
<1>14. Growing(k)' = 0
  <2>1. Growing(k)' = inside - inside
    BY <1>1, <1>9 DEF Growing, Inside
  <2> QED  BY <1>4, <2>1
<1>15. Weights'[k] <= Weights[k]
  <2>1. Weights'[k] = Unit * (old.owed + Earned(p, inside)) + new.liquidity * 0
    BY <1>5, <1>9, <1>14 DEF Weights
  <2>2. Weights[k] = Unit * old.owed + old.liquidity * Growing(k) /\ Growing(k) \in Int
    BY <1>0, WeightTyped
  <2>3. p.liquidity * (inside - p.last) = old.liquidity * Growing(k)
    <3>1. CASE old.liquidity > 0
      BY <1>5, <1>6, <3>1
    <3>2. CASE old.liquidity = 0
      <4>1. inside - p.last \in Int
        BY <1>4, <1>5 DEF AmmPosition
      <4> QED  BY <1>5, <2>2, <3>2, <4>1
    <3> QED  BY <1>2, <3>1, <3>2 DEF AmmPosition
  <2>4. /\ old.owed \in Nat /\ Earned(p, inside) \in Nat /\ Unit \in Nat /\ new.liquidity \in Nat
        /\ old.liquidity * Growing(k) \in Int
    BY <1>2, <1>7, <1>8, <2>2, AmmAssumption DEF AmmPosition
  <2>5. Unit * (old.owed + Earned(p, inside)) = Unit * old.owed + Unit * Earned(p, inside)
    BY <2>4
  <2>6. Unit * old.owed \in Int /\ Unit * Earned(p, inside) \in Int /\ new.liquidity * 0 = 0
    BY <2>4
  <2> HIDE DEF new, p, inside, info, old
  <2> QED  BY <1>7, <2>1, <2>2, <2>3, <2>4, <2>5, <2>6
<1>16. FeesAccounted'
  <2>1. \A j \in PositionKeys : position'[j].liquidity > 0 => Growing(j)' >= 0
    BY <1>0, <1>9, <1>13, <1>14 DEF FeesAccounted
  <2>2. Unit * collected' + Weights'[k] <= Unit * collected + Weights[k]
    <3>1. Unit * collected \in Int /\ Weights[k] \in Int
      BY <1>0, WeightTyped, AmmAssumption DEF AmmTypeOK
    <3>2. Weights'[k] \in Int
      BY <1>12, <1>14, AmmAssumption DEF Weights, AmmTypeOK
    <3> QED  BY <1>1, <1>15, <3>1, <3>2
  <2>3. Unit * collected' + SumFunctionOnSet(Weights', PositionKeys) <= Unit * paid'
    BY <1>0, <1>1, <1>12, <1>13, <2>2, Settled
  <2> QED  BY <2>1, <2>3 DEF FeesAccounted
<1> QED  BY <1>11, <1>12, <1>16 DEF AmmInv

(* Burning keeps the ranges sound and the fees accounted for.              *)
LEMMA BurnKeeps ==
  ASSUME AmmInv, NEW k \in PositionKeys, NEW amount \in Nat, BurnLiquidity(k, amount)
  PROVE  AmmInv'
<1> DEFINE inside == Inside(tickInfo, k[2])
           old == position[k]
           left == [liquidity |-> old.liquidity - amount, last |-> inside,
                    owed |-> old.owed + Earned(old, inside)]
           new == IF left.liquidity = 0 /\ left.owed = 0 THEN NoPosition ELSE left
<1>0. AmmTypeOK /\ RangesSound /\ FeesAccounted
  BY DEF AmmInv
<1>1. /\ tickInfo' = EndsUpdated(k[2], -amount) /\ bitmap' = Flipped(tickInfo', k[2])
      /\ position' = [position EXCEPT ![k] = new]
      /\ active' = IF InSpan(tick, k[2]) THEN active - amount ELSE active
      /\ amount <= old.liquidity
      /\ UNCHANGED <<tick, price, growth, swapping, paid, collected>>
  BY DEF BurnLiquidity
<1>2. old \in AmmPosition /\ inside \in Int
  BY <1>0, Typed, InsideTyped
<1>3. /\ old.liquidity > 0 => inside - old.last >= 0
      /\ inside - old.last = Growing(k)
  BY <1>0 DEF FeesAccounted, Growing
<1>4. Earned(old, inside) \in Nat /\ Unit * Earned(old, inside) <= old.liquidity * Growing(k)
  BY <1>2, <1>3, EarnedTyped DEF AmmPosition
<1>5. /\ left \in AmmPosition /\ new \in AmmPosition /\ new.liquidity = left.liquidity
      /\ new.owed = left.owed /\ left.liquidity = old.liquidity + (-amount)
      /\ new.liquidity > 0 => new.last = inside
  BY <1>1, <1>2, <1>4 DEF AmmPosition, NoPosition
<1>6. /\ position' \in [PositionKeys -> AmmPosition] /\ position'[k] = new
      /\ \A j \in PositionKeys \ {k} : position'[j] = position[j]
  BY <1>0, <1>1, <1>5, Typed
<1>7. active' = IF InSpan(tick, k[2]) THEN active + (-amount) ELSE active
  BY <1>0, <1>1, Typed
<1>8. Moved(k, -amount)
  <2> HIDE DEF new, left, inside
  <2> QED  BY <1>1, <1>5, <1>6, <1>7 DEF Moved
<1>9. /\ RangesSound'
      /\ tickInfo' \in [Ends -> Info] /\ bitmap' \subseteq Ends /\ active' \in Nat
      /\ \A j \in PositionKeys :
           position[j].liquidity > 0 /\ position'[j].liquidity > 0
             => /\ tickInfo'[j[2][1]].outside = tickInfo[j[2][1]].outside
                /\ tickInfo'[j[2][2]].outside = tickInfo[j[2][2]].outside
  BY <1>0, <1>8, RangesMoved
<1>10. AmmTypeOK'
  BY <1>0, <1>1, <1>6, <1>9 DEF AmmTypeOK, AmmPosition, Info
<1>11. \A j \in PositionKeys \ {k} :
         /\ Weights'[j] = Weights[j]
         /\ position[j].liquidity > 0 => Growing(j)' = Growing(j)
  BY <1>0, <1>1, <1>6, <1>9, WeightStays
<1>12. Growing(k)' \in Int /\ (new.liquidity > 0 => Growing(k)' = 0)
  <2>1. new.liquidity > 0 => old.liquidity > 0
    BY <1>2, <1>5 DEF AmmPosition
  <2>2. new.liquidity > 0 => Inside(tickInfo, k[2])' = inside
    BY <1>1, <1>6, <1>9, <2>1 DEF Inside
  <2>3. new.liquidity > 0 => Growing(k)' = 0
    BY <1>2, <1>5, <1>6, <2>2 DEF Growing
  <2>4. Growing(k)' \in Int
    BY <1>10, Keys DEF Growing, Inside, AmmTypeOK
  <2> QED  BY <2>3, <2>4
<1>13. Weights'[k] \in Int /\ Weights'[k] <= Weights[k]
  <2>1. Weights'[k] = Unit * new.owed + new.liquidity * Growing(k)'
    BY <1>6 DEF Weights
  <2>2. new.liquidity * Growing(k)' = 0
    <3>1. new.liquidity \in Nat
      BY <1>5 DEF AmmPosition
    <3>2. CASE new.liquidity = 0
      BY <1>12, <3>2
    <3>3. CASE new.liquidity > 0
      BY <1>12, <3>1, <3>3
    <3> QED  BY <3>1, <3>2, <3>3
  <2>3. new.owed = old.owed + Earned(old, inside)
    BY <1>5
  <2>4. Weights[k] = Unit * old.owed + old.liquidity * Growing(k) /\ Weights[k] \in Int
    BY <1>0, WeightTyped
  <2>5. /\ old.owed \in Nat /\ Earned(old, inside) \in Nat /\ Unit \in Nat
        /\ old.liquidity * Growing(k) \in Int
    BY <1>0, <1>2, <1>4, WeightTyped, AmmAssumption DEF AmmPosition
  <2>6. /\ Unit * (old.owed + Earned(old, inside)) = Unit * old.owed + Unit * Earned(old, inside)
        /\ Unit * old.owed \in Int /\ Unit * Earned(old, inside) \in Int
    BY <2>5
  <2> HIDE DEF new, left, inside, old
  <2> QED  BY <1>4, <2>1, <2>2, <2>3, <2>4, <2>5, <2>6
<1>14. FeesAccounted'
  <2>1. \A j \in PositionKeys : position'[j].liquidity > 0 => Growing(j)' >= 0
    BY <1>0, <1>6, <1>11, <1>12 DEF FeesAccounted
  <2>2. Unit * collected' + Weights'[k] <= Unit * collected + Weights[k]
    <3>1. Unit * collected \in Int /\ Weights[k] \in Int
      BY <1>0, WeightTyped, AmmAssumption DEF AmmTypeOK
    <3> QED  BY <1>1, <1>13, <3>1
  <2>3. Unit * collected' + SumFunctionOnSet(Weights', PositionKeys) <= Unit * paid'
    BY <1>0, <1>1, <1>10, <1>11, <2>2, Settled
  <2> QED  BY <2>1, <2>3 DEF FeesAccounted
<1> QED  BY <1>9, <1>10, <1>14 DEF AmmInv

(* Where nobody's liquidity changes, nor the tick, the ranges stay.        *)
LEMMA ProvidedStays ==
  ASSUME AmmTypeOK,
         \A k \in PositionKeys : position'[k].liquidity = position[k].liquidity,
         NEW K \in SUBSET PositionKeys
  PROVE  Provided(K)' = Provided(K)
<1> DEFINE f == Liquid  g == Liquid'
<1>1. \A k \in K : f[k] = g[k] /\ f[k] \in Int
  BY Typed DEF Liquid
<1>2. Provided(K) = SumFunctionOnSet(f, K) /\ Provided(K)' = SumFunctionOnSet(g, K)
  BY DEF Provided, Liquid
<1>3. IntegersOn(f, K)
  BY <1>1, Keys, FS_Subset DEF IntegersOn
<1> HIDE DEF f, g
<1> QED  BY <1>1, <1>2, <1>3, SumAgree

(* Steps that touch neither liquidity nor the tick keep the ranges sound.  *)
LEMMA RangesStay ==
  ASSUME AmmTypeOK, RangesSound,
         \A k \in PositionKeys : position'[k].liquidity = position[k].liquidity,
         UNCHANGED <<tick, active, bitmap, tickInfo>>
  PROVE  RangesSound'
<1>1. InRange' = InRange /\ InRange \in SUBSET PositionKeys
  BY DEF InRange
<1>2. \A t \in Ends : From(t) \in SUBSET PositionKeys /\ UpTo(t) \in SUBSET PositionKeys
  BY DEF From, UpTo
<1>3. \A t \in Ends : Provided(From(t))' = Provided(From(t)) /\ Provided(UpTo(t))' = Provided(UpTo(t))
  <2>1. \A t \in Ends : From(t)' = From(t) /\ UpTo(t)' = UpTo(t)
    BY DEF From, UpTo
  <2> QED  BY <1>2, <2>1, ProvidedStays
<1>4. Provided(InRange)' = Provided(InRange)
  <2>1. ASSUME NEW K \in SUBSET PositionKeys
        PROVE  SumFunctionOnSet(Liquid', K) = Provided(K)
    BY ProvidedStays DEF Provided, Liquid
  <2>2. Provided(InRange)' = SumFunctionOnSet(Liquid', InRange)
    BY <1>1 DEF Provided, Liquid
  <2> QED  BY <1>1, <2>1, <2>2
<1>5. /\ active = Provided(InRange)
      /\ \A t \in Ends :
           /\ tickInfo[t].net = Provided(From(t)) - Provided(UpTo(t))
           /\ tickInfo[t].gross = Provided(From(t)) + Provided(UpTo(t))
           /\ t \in bitmap <=> tickInfo[t].gross > 0
  BY RangesMeaning
<1>6. /\ active' = Provided(InRange)'
      /\ \A t \in Ends :
           /\ tickInfo'[t].net = Provided(From(t))' - Provided(UpTo(t))'
           /\ tickInfo'[t].gross = Provided(From(t))' + Provided(UpTo(t))'
           /\ t \in bitmap' <=> tickInfo'[t].gross > 0
  BY <1>3, <1>4, <1>5
<1> QED  BY <1>6 DEF RangesSound, InRange, From, UpTo

(* Collecting pays no more fees than are accounted for.                    *)
LEMMA CollectKeeps ==
  ASSUME AmmInv, NEW k \in PositionKeys, CollectFees(k)
  PROVE  AmmInv'
<1> DEFINE inside == Inside(tickInfo, k[2])
           old == position[k]
           new == IF old.liquidity = 0 THEN NoPosition
                  ELSE [old EXCEPT !.last = inside, !.owed = 0]
<1>0. AmmTypeOK /\ RangesSound /\ FeesAccounted
  BY DEF AmmInv
<1>1. /\ position' = [position EXCEPT ![k] = new]
      /\ collected' = collected + old.owed + Earned(old, inside)
      /\ UNCHANGED <<tick, price, active, growth, tickInfo, bitmap, swapping, paid>>
  BY DEF CollectFees
<1>2. old \in AmmPosition /\ inside \in Int
  BY <1>0, Typed, InsideTyped
<1>3. /\ old.liquidity > 0 => inside - old.last >= 0
      /\ inside - old.last = Growing(k)
  BY <1>0 DEF FeesAccounted, Growing
<1>4. Earned(old, inside) \in Nat /\ Unit * Earned(old, inside) <= old.liquidity * Growing(k)
  BY <1>2, <1>3, EarnedTyped DEF AmmPosition
<1>5. /\ new \in AmmPosition /\ new.liquidity = old.liquidity /\ new.owed = 0
      /\ new.liquidity > 0 => new.last = inside
  <2>1. CASE old.liquidity = 0
    BY <2>1 DEF AmmPosition, NoPosition
  <2>2. CASE old.liquidity # 0
    <3>1. new = [liquidity |-> old.liquidity, last |-> inside, owed |-> 0]
      BY <1>2, <2>2 DEF AmmPosition
    <3> QED  BY <1>2, <3>1 DEF AmmPosition
  <2> QED  BY <2>1, <2>2
<1>6. /\ position' \in [PositionKeys -> AmmPosition] /\ position'[k] = new
      /\ \A j \in PositionKeys \ {k} : position'[j] = position[j]
  BY <1>0, <1>1, <1>5, Typed
<1>7. RangesSound'
  BY <1>0, <1>1, <1>5, <1>6, RangesStay
<1>8. AmmTypeOK'
  <2>1. collected' \in Nat
    BY <1>0, <1>1, <1>2, <1>4 DEF AmmTypeOK, AmmPosition
  <2> QED  BY <1>0, <1>1, <1>6, <2>1 DEF AmmTypeOK, AmmPosition
<1>9. \A j \in PositionKeys \ {k} :
         /\ Weights'[j] = Weights[j]
         /\ position[j].liquidity > 0 => Growing(j)' = Growing(j)
  BY <1>0, <1>1, <1>6, Typed, WeightStays
<1>10. Growing(k)' \in Int /\ (new.liquidity > 0 => Growing(k)' = 0)
  <2>1. new.liquidity > 0 => Growing(k)' = 0
    BY <1>1, <1>2, <1>5, <1>6 DEF Growing, Inside
  <2>2. Growing(k)' \in Int
    BY <1>8, Keys DEF Growing, Inside, AmmTypeOK
  <2> QED  BY <2>1, <2>2
<1>11. Weights'[k] = 0
  <2>1. Weights'[k] = Unit * new.owed + new.liquidity * Growing(k)'
    BY <1>6 DEF Weights
  <2>2. new.liquidity * Growing(k)' = 0
    <3>1. new.liquidity \in Nat
      BY <1>5 DEF AmmPosition
    <3>2. CASE new.liquidity = 0
      BY <1>10, <3>2
    <3>3. CASE new.liquidity > 0
      BY <1>10, <3>1, <3>3
    <3> QED  BY <3>1, <3>2, <3>3
  <2>3. Unit * new.owed = 0
    BY <1>5, AmmAssumption
  <2> QED  BY <2>1, <2>2, <2>3
<1>12. FeesAccounted'
  <2>1. \A j \in PositionKeys : position'[j].liquidity > 0 => Growing(j)' >= 0
    <3> HIDE DEF new, inside, old
    <3> QED  BY <1>0, <1>6, <1>9, <1>10 DEF FeesAccounted
  <2>2. Unit * collected' + Weights'[k] <= Unit * collected + Weights[k]
    <3>1. Weights[k] = Unit * old.owed + old.liquidity * Growing(k) /\ Growing(k) \in Int
      BY <1>0, WeightTyped
    <3>2. /\ collected \in Nat /\ old.owed \in Nat /\ Unit \in Nat /\ Earned(old, inside) \in Nat
          /\ old.liquidity * Growing(k) \in Int
      BY <1>0, <1>2, <1>4, <3>1, AmmAssumption DEF AmmTypeOK, AmmPosition
    <3>3. Unit * collected' = Unit * collected + Unit * old.owed + Unit * Earned(old, inside)
      BY <1>1, <3>2
    <3>4. Unit * collected \in Int /\ Unit * old.owed \in Int /\ Unit * Earned(old, inside) \in Int
      BY <3>2
    <3> HIDE DEF new, inside, old
    <3> QED  BY <1>4, <1>11, <3>1, <3>2, <3>3, <3>4
  <2>3. Unit * collected' + SumFunctionOnSet(Weights', PositionKeys) <= Unit * paid'
    BY <1>0, <1>1, <1>8, <1>9, <2>2, Settled
  <2> QED  BY <2>1, <2>3 DEF FeesAccounted
<1> QED  BY <1>7, <1>8, <1>12 DEF AmmInv

(* A turn's fee is shared by what counts, and nobody's share is more than   *)
(* has been paid for it.                                                   *)
LEMMA GrowthShared ==
  ASSUME AmmTypeOK, RangesSound, FeesAccounted, AmmTypeOK',
         NEW fee \in Nat, NEW delta \in Nat, active * delta <= Unit * fee,
         position' = position, collected' = collected, paid' = paid + fee,
         \A k \in PositionKeys : position[k].liquidity > 0 =>
           Growing(k)' = Growing(k) + (IF InSpan(tick, k[2]) THEN delta ELSE 0)
  PROVE  FeesAccounted'
<1> DEFINE counting == [k \in PositionKeys |-> IF k \in InRange THEN Liquid[k] ELSE 0]
           S == PositionKeys  w == Weights  v == Weights'  l == Liquid
<1>1. \A k \in S : /\ l[k] = position[k].liquidity /\ l[k] \in Nat
                   /\ counting[k] = IF k \in InRange THEN l[k] ELSE 0
                   /\ counting[k] \in Nat
  BY Typed DEF Liquid
<1>2. \A k \in S : w[k] \in Int /\ Growing(k) \in Int
  BY WeightTyped
<1>3. IntegersOn(l, S) /\ IntegersOn(counting, S) /\ IntegersOn(w, S)
  BY <1>1, <1>2, Keys DEF IntegersOn
<1>4. SumFunctionOnSet(counting, S) = active
  <2>1. InRange \subseteq S
    BY DEF InRange
  <2>2. SumFunctionOnSet(counting, S) = SumFunctionOnSet(l, InRange)
    <3> HIDE DEF counting, l, S
    <3> QED  BY <1>1, <1>3, <2>1, SumRestricted
  <2>3. SumFunctionOnSet(l, InRange) = Provided(InRange)
    BY DEF Provided, Liquid
  <2> QED  BY <2>2, <2>3, RangesMeaning
<1>5. \A k \in S : v[k] = w[k] + delta * counting[k]
  <2> SUFFICES ASSUME NEW k \in S PROVE v[k] = w[k] + delta * counting[k]
    OBVIOUS
  <2>1. /\ w[k] = Unit * position[k].owed + position[k].liquidity * Growing(k)
        /\ v[k] = Unit * position[k].owed + position[k].liquidity * Growing(k)'
    BY WeightTyped DEF Weights
  <2>2. /\ Growing(k) \in Int /\ Growing(k)' \in Int
        /\ position[k].liquidity \in Nat /\ Unit * position[k].owed \in Int
    <3>1. Growing(k)' \in Int
      BY Keys DEF Growing, Inside, AmmTypeOK
    <3> QED  BY <1>2, <3>1, Typed, AmmAssumption DEF AmmTypeOK
  <2>3. k \in InRange <=> InSpan(tick, k[2])
    BY DEF InRange
  <2>4. CASE position[k].liquidity = 0
    <3>1. counting[k] = 0
      BY <1>1, <2>4
    <3>2. v[k] = w[k]
      BY <2>1, <2>2, <2>4
    <3>3. delta * counting[k] = 0
      BY <3>1
    <3> QED  BY <1>2, <3>2, <3>3
  <2>5. CASE position[k].liquidity > 0 /\ k \in InRange
    <3>1. Growing(k)' = Growing(k) + delta /\ counting[k] = position[k].liquidity
      BY <1>1, <2>3, <2>5
    <3>2. position[k].liquidity * (Growing(k) + delta)
            = position[k].liquidity * Growing(k) + delta * position[k].liquidity
      BY <2>2
    <3>3. /\ position[k].liquidity * Growing(k) \in Int
          /\ delta * position[k].liquidity \in Int
      BY <2>2
    <3> HIDE DEF w, v, counting
    <3> QED  BY <2>1, <2>2, <3>1, <3>2, <3>3
  <2>6. CASE position[k].liquidity > 0 /\ k \notin InRange
    <3>1. Growing(k)' = Growing(k) /\ counting[k] = 0
      BY <1>1, <2>2, <2>3, <2>6
    <3>2. v[k] = w[k]
      BY <2>1, <3>1
    <3>3. delta * counting[k] = 0
      BY <3>1
    <3> QED  BY <1>2, <3>2, <3>3
  <2> QED  BY <2>2, <2>4, <2>5, <2>6
<1>6. SumFunctionOnSet(v, S) = SumFunctionOnSet(w, S) + delta * active
  <2> HIDE DEF w, v, counting, S
  <2> QED  BY <1>3, <1>4, <1>5, SumLinear
<1>7. Unit * collected' + SumFunctionOnSet(Weights', PositionKeys) <= Unit * paid'
  <2>1. SumFunctionOnSet(w, S) \in Int
    BY <1>3, SumTyped
  <2>2. Unit * collected + SumFunctionOnSet(w, S) <= Unit * paid
    BY DEF FeesAccounted
  <2>3. /\ Unit \in Nat /\ active \in Nat /\ paid \in Nat /\ collected \in Nat
    BY AmmAssumption DEF AmmTypeOK
  <2>4. Unit * paid' = Unit * paid + Unit * fee /\ active * delta = delta * active
    BY <2>3
  <2>5. /\ Unit * paid \in Int /\ Unit * fee \in Int /\ Unit * collected \in Int
        /\ delta * active \in Int
    BY <2>3
  <2>6. Unit * collected' + SumFunctionOnSet(v, S) <= Unit * paid'
    <3> HIDE DEF w, v, S
    <3> QED  BY <1>6, <2>1, <2>2, <2>4, <2>5
  <2> QED  BY <2>6
<1>8. \A k \in PositionKeys : position'[k].liquidity > 0 => Growing(k)' >= 0
  BY <1>2 DEF FeesAccounted
<1> QED  BY <1>7, <1>8 DEF FeesAccounted

(* What a turn's fee adds to the growth.                                   *)
LEMMA FeeGrows ==
  ASSUME AmmTypeOK, NEW fee \in Nat,
         \/ fee = 0 /\ UNCHANGED <<growth, paid>>
         \/ active # 0 /\ FeePaid(fee)
  PROVE  /\ growth' - growth \in Nat /\ active * (growth' - growth) <= Unit * fee
         /\ paid' = paid + fee /\ growth' \in Nat /\ paid' \in Nat
<1>1. active \in Nat /\ growth \in Nat /\ paid \in Nat /\ Unit \in Nat
  BY AmmAssumption DEF AmmTypeOK
<1>2. paid' = paid + fee
  BY <1>1 DEF FeePaid
<1>3. CASE growth' = growth
  <2>1. growth' - growth = 0 /\ active * 0 = 0 /\ Unit * fee \in Nat
    BY <1>1, <1>3
  <2> QED  BY <1>1, <1>2, <1>3, <2>1
<1>4. CASE growth' # growth
  <2>1. active # 0 /\ growth' = growth + (fee * Unit) \div active
    BY <1>4 DEF FeePaid
  <2>2. fee * Unit \in Nat /\ fee * Unit = Unit * fee
    BY <1>1
  <2> DEFINE sum == fee * Unit
  <2>3. sum \div active \in Nat /\ active * (sum \div active) <= sum
    <3> HIDE DEF sum
    <3> QED  BY <1>1, <2>1, <2>2, DivNatural, DivFloor DEF sum
  <2>4. growth' - growth = sum \div active
    BY <1>1, <2>1, <2>3
  <2> QED  BY <1>1, <1>2, <2>1, <2>2, <2>3, <2>4
<1> QED  BY <1>3, <1>4

(* The last part of a swap shares out no more than its fee.                *)
LEMMA SwapEndsKeeps ==
  ASSUME AmmInv, NEW fee \in Nat, SwapEnds(fee)
  PROVE  AmmInv'
<1>0. AmmTypeOK /\ RangesSound /\ FeesAccounted
  BY DEF AmmInv
<1>1. UNCHANGED <<tick, active, tickInfo, bitmap, position, collected>>
  BY DEF SwapEnds
<1>2. /\ growth' - growth \in Nat /\ active * (growth' - growth) <= Unit * fee
      /\ paid' = paid + fee /\ growth' \in Nat /\ paid' \in Nat
  BY <1>0, FeeGrows DEF SwapEnds
<1>3. price' \in Int
  <2>1. price' \in PriceReached /\ price \in Int
    BY <1>0 DEF SwapEnds, AmmTypeOK
  <2>2. PriceRange \subseteq Int
    BY DEF PriceRange
  <2> QED  BY <2>1, <2>2 DEF PriceReached
<1>4. AmmTypeOK'
  BY <1>0, <1>1, <1>2, <1>3 DEF AmmTypeOK, SwapEnds
<1>5. RangesSound'
  BY <1>0, <1>1, RangesStay
<1>6. \A k \in PositionKeys :
        Growing(k)' = Growing(k) + (IF InSpan(tick, k[2]) THEN growth' - growth ELSE 0)
  <2> SUFFICES ASSUME NEW k \in PositionKeys
               PROVE  Growing(k)' = Growing(k) + (IF InSpan(tick, k[2]) THEN growth' - growth ELSE 0)
    OBVIOUS
  <2>1. /\ k[2][1] \in Int /\ k[2][2] \in Int /\ k[2][1] < k[2][2]
        /\ tickInfo[k[2][1]].outside \in Int /\ tickInfo[k[2][2]].outside \in Int
        /\ position[k].last \in Int /\ tick \in Int /\ growth \in Int /\ growth' \in Int
    BY <1>0, <1>2, Keys, Typed DEF AmmPosition
  <2> QED  BY <1>1, <2>1 DEF Growing, Inside, InSpan
<1>7. FeesAccounted'
  BY <1>0, <1>1, <1>2, <1>4, <1>6, GrowthShared
<1> QED  BY <1>4, <1>5, <1>7 DEF AmmInv

(* The tick that a swap comes to next: no tick in use lies before it.       *)
LEMMA NextFacts ==
  ASSUME AmmTypeOK, NEW t \in Ends, t \in NextInUse
  PROVE  /\ t \in bitmap
         /\ swapping = "falls" => t <= tick /\ \A u \in bitmap : u <= t \/ u > tick
         /\ swapping # "falls" => t > tick /\ \A u \in bitmap : u <= tick \/ u >= t
<1> DEFINE here == tick \div Spacing
           word(c) == c \div WordSize
           below == {u \in bitmap : u \div Spacing <= here /\ word(u \div Spacing) = word(here)}
           above == {u \in bitmap : u \div Spacing > here /\ word(u \div Spacing) = word(here + 1)}
<1>1. /\ Spacing \in Nat \ {0} /\ WordSize \in Nat \ {0} /\ tick \in Int
      /\ bitmap \subseteq Ends /\ Ends \subseteq Int /\ IsFiniteSet(bitmap)
      /\ \A u \in Ends : u % Spacing = 0
  BY AmmAssumption, Keys, FS_Subset DEF AmmTypeOK
<1>2. \A u \in bitmap : u \in Int /\ u \div Spacing \in Int
                        /\ (u \div Spacing <= here <=> u <= tick)
  BY <1>1, DivMultiple, DivFloor
<1>3. here \in Int
  BY <1>1, DivFloor
<1>4. \A c, e \in Int : c <= e => word(c) \in Int /\ word(e) \in Int /\ word(c) <= word(e)
  BY <1>1, DivMonotone, DivFloor
<1>5. CASE swapping = "falls"
  <2>1. below # {} /\ t = Max(below)
    BY <1>5 DEF NextInUse
  <2>2. below \in SUBSET Int /\ IsFiniteSet(below)
    BY <1>1, <1>2, FS_Subset
  <2>3. t \in below /\ \A u \in below : u <= t
    <3> HIDE DEF below
    <3> QED  BY <2>1, <2>2, FiniteExtremes
  <2>4. t \in bitmap /\ t <= tick /\ word(t \div Spacing) = word(here)
    BY <1>2, <2>3
  <2>5. ASSUME NEW u \in bitmap, t < u, u <= tick PROVE FALSE
    <3>1. t \div Spacing <= u \div Spacing /\ u \div Spacing <= here
      <4>1. t \in Int /\ u \in Int /\ t <= u /\ Spacing \in Nat \ {0}
        BY <1>1, <2>4, <2>5
      <4>2. t \div Spacing <= u \div Spacing
        BY <4>1, DivMonotone
      <4> QED  BY <1>2, <2>5, <4>2
    <3>2. word(u \div Spacing) = word(here)
      <4> HIDE DEF word, here
      <4> QED  BY <1>2, <1>3, <1>4, <2>4, <3>1
    <3>3. u \in below
      BY <3>1, <3>2
    <3> QED  BY <1>2, <2>3, <2>4, <2>5, <3>3
  <2> QED  BY <1>1, <1>2, <1>5, <2>4, <2>5
<1>6. CASE swapping # "falls"
  <2>1. above # {} /\ t = Min(above)
    BY <1>6 DEF NextInUse
  <2>2. above \in SUBSET Int /\ IsFiniteSet(above)
    BY <1>1, <1>2, FS_Subset
  <2>3. t \in above /\ \A u \in above : t <= u
    <3> HIDE DEF above
    <3> QED  BY <2>1, <2>2, FiniteExtremes
  <2>4. t \in bitmap /\ ~ (t \div Spacing <= here) /\ t \div Spacing \in Int
        /\ word(t \div Spacing) = word(here + 1)
    BY <1>2, <1>3, <2>3
  <2>5. t > tick
    BY <1>1, <1>2, <2>4
  <2>6. ASSUME NEW u \in bitmap, tick < u, u < t PROVE FALSE
    <3>1. u \div Spacing <= t \div Spacing /\ ~ (u \div Spacing <= here) /\ u \div Spacing \in Int
      <4>1. t \in Int /\ u \in Int /\ u <= t /\ tick < u /\ tick \in Int /\ Spacing \in Nat \ {0}
        BY <1>1, <2>4, <2>6
      <4>2. u \div Spacing <= t \div Spacing
        BY <4>1, DivMonotone
      <4> QED  BY <1>2, <4>1, <4>2
    <3>2. here + 1 <= u \div Spacing /\ here + 1 \in Int
      BY <1>3, <3>1
    <3>3. word(u \div Spacing) = word(here + 1)
      <4> HIDE DEF word, here
      <4> QED  BY <1>4, <2>4, <3>1, <3>2
    <3>4. u \in above
      BY <1>3, <3>1, <3>3
    <3> QED  BY <1>2, <2>3, <2>4, <2>6, <3>4
  <2> QED  BY <1>1, <1>2, <1>6, <2>4, <2>5, <2>6
<1> QED  BY <1>5, <1>6

(* With what ends at a tick taken out and what begins there put in, what    *)
(* counts is what has a range about the tick on its other side.            *)
LEMMA CrossCounts ==
  ASSUME AmmTypeOK, RangesSound, NEW t \in Ends, NEW c \in {1, -1}, NEW to \in Int,
         \A k \in PositionKeys : position[k].liquidity > 0 =>
           (IF InSpan(to, k[2]) THEN 1 ELSE 0) =
             (IF InSpan(tick, k[2]) THEN 1 ELSE 0)
               + c * ((IF k[2][1] = t THEN 1 ELSE 0) + (IF k[2][2] = t THEN -1 ELSE 0))
  PROVE  active + c * tickInfo[t].net
           = Provided({k \in PositionKeys : InSpan(to, k[2])})
<1> DEFINE S == PositionKeys  l == Liquid
           After == {k \in S : InSpan(to, k[2])}
           before == [k \in S |-> IF k \in InRange THEN l[k] ELSE 0]
           after == [k \in S |-> IF k \in After THEN l[k] ELSE 0]
           begin == [k \in S |-> IF k \in From(t) THEN l[k] ELSE 0]
           end == [k \in S |-> IF k \in UpTo(t) THEN l[k] ELSE 0]
           net == [k \in S |-> begin[k] + (-1) * end[k]]
<1>1. \A k \in S : l[k] = position[k].liquidity /\ l[k] \in Nat
  BY Typed DEF Liquid
<1>2. IntegersOn(l, S) /\ IntegersOn(before, S) /\ IntegersOn(after, S)
      /\ IntegersOn(begin, S) /\ IntegersOn(end, S)
  BY <1>1, Keys DEF IntegersOn
<1>3. IntegersOn(net, S)
  BY <1>1, Keys DEF IntegersOn
<1>4. ASSUME NEW K \in SUBSET S, NEW g, \A k \in S : g[k] = IF k \in K THEN l[k] ELSE 0
      PROVE  SumFunctionOnSet(g, S) = Provided(K)
  <2>1. SumFunctionOnSet(g, S) = SumFunctionOnSet(l, K)
    <3> HIDE DEF l, S
    <3> QED  BY <1>2, <1>4, SumRestricted
  <2> QED  BY <2>1 DEF Provided, Liquid
<1>5. /\ SumFunctionOnSet(before, S) = Provided(InRange)
      /\ SumFunctionOnSet(after, S) = Provided(After)
      /\ SumFunctionOnSet(begin, S) = Provided(From(t))
      /\ SumFunctionOnSet(end, S) = Provided(UpTo(t))
  <2>1. /\ InRange \in SUBSET S /\ After \in SUBSET S
        /\ From(t) \in SUBSET S /\ UpTo(t) \in SUBSET S
    BY DEF InRange, From, UpTo
  <2>2. /\ \A k \in S : before[k] = IF k \in InRange THEN l[k] ELSE 0
        /\ \A k \in S : after[k] = IF k \in After THEN l[k] ELSE 0
        /\ \A k \in S : begin[k] = IF k \in From(t) THEN l[k] ELSE 0
        /\ \A k \in S : end[k] = IF k \in UpTo(t) THEN l[k] ELSE 0
    OBVIOUS
  <2> HIDE DEF S, l, After, before, after, begin, end
  <2> QED  BY <1>4, <2>1, <2>2
<1>6. SumFunctionOnSet(net, S) = SumFunctionOnSet(begin, S) + (-1) * SumFunctionOnSet(end, S)
  <2>1. \A k \in S : net[k] = begin[k] + (-1) * end[k]
    OBVIOUS
  <2> HIDE DEF net, begin, end, S
  <2> QED  BY <1>2, <2>1, SumLinear
<1>7. \A k \in S : after[k] = before[k] + c * net[k]
  <2> SUFFICES ASSUME NEW k \in S PROVE after[k] = before[k] + c * net[k]
    OBVIOUS
  <2>1. /\ after[k] = IF InSpan(to, k[2]) THEN l[k] ELSE 0
        /\ before[k] = IF InSpan(tick, k[2]) THEN l[k] ELSE 0
        /\ begin[k] = IF k[2][1] = t THEN l[k] ELSE 0
        /\ end[k] = IF k[2][2] = t THEN l[k] ELSE 0
        /\ net[k] = begin[k] + (-1) * end[k]
    BY DEF InRange, From, UpTo
  <2>2. l[k] = position[k].liquidity /\ l[k] \in Nat
    BY <1>1
  <2> HIDE DEF after, before, begin, end, net, l
  <2>3. CASE l[k] = 0
    BY <2>1, <2>3
  <2>4. CASE l[k] > 0
    <3>1. (IF InSpan(to, k[2]) THEN 1 ELSE 0) =
             (IF InSpan(tick, k[2]) THEN 1 ELSE 0)
               + c * ((IF k[2][1] = t THEN 1 ELSE 0) + (IF k[2][2] = t THEN -1 ELSE 0))
      BY <2>2, <2>4
    <3>2. c = 1 \/ c = -1
      OBVIOUS
    <3> QED  BY <2>1, <2>2, <3>1, <3>2
  <2> QED  BY <2>2, <2>3, <2>4
<1>8. SumFunctionOnSet(after, S) = SumFunctionOnSet(before, S) + c * SumFunctionOnSet(net, S)
  <2>1. c \in Int
    OBVIOUS
  <2> HIDE DEF after, before, net, S
  <2> QED  BY <1>2, <1>3, <1>7, <2>1, SumLinear
<1>9. /\ active = Provided(InRange)
      /\ tickInfo[t].net = Provided(From(t)) - Provided(UpTo(t))
  BY RangesMeaning
<1>10. Provided(From(t)) \in Nat /\ Provided(UpTo(t)) \in Nat
  BY Typed, ProvidedTyped DEF From, UpTo
<1>11. Provided(After) = active + c * tickInfo[t].net
  <2> HIDE DEF after, before, begin, end, net, S, After
  <2> QED  BY <1>5, <1>6, <1>8, <1>9, <1>10
<1> QED  BY <1>11

(* Crossing a tick changes sides: it keeps the ranges sound and moves no   *)
(* fees from one position to another.                                      *)
LEMMA CrossKeeps ==
  ASSUME AmmInv, NEW fee \in Nat, NEW t \in Ends, Cross(t, fee)
  PROVE  AmmInv'
<1> DEFINE c == IF swapping = "falls" THEN -1 ELSE 1
           to == IF swapping = "falls" THEN t - 1 ELSE t
           net == IF swapping = "falls" THEN -tickInfo[t].net ELSE tickInfo[t].net
<1>0. AmmTypeOK /\ RangesSound /\ FeesAccounted
  BY DEF AmmInv
<1>1. /\ tickInfo' = [tickInfo EXCEPT ![t].outside = growth' - @]
      /\ active' = Max({0, active + net}) /\ tick' = to
      /\ price' = 2 * (IF active = 0 THEN tick' ELSE t)
      /\ UNCHANGED <<bitmap, position, swapping, collected>>
  BY DEF Cross
<1>2. /\ growth' - growth \in Nat /\ active * (growth' - growth) <= Unit * fee
      /\ paid' = paid + fee /\ growth' \in Nat /\ paid' \in Nat
  <2>1. \/ fee = 0 /\ UNCHANGED <<growth, paid>>
        \/ active # 0 /\ FeePaid(fee)
    BY DEF Cross
  <2> QED  BY <1>0, <2>1, FeeGrows
<1>3. /\ t \in bitmap /\ t \in Int /\ to \in Int /\ tick \in Int
      /\ swapping = "falls" => t <= tick /\ \A u \in bitmap : u <= t \/ u > tick
      /\ swapping # "falls" => t > tick /\ \A u \in bitmap : u <= tick \/ u >= t
  BY <1>0, Keys, Typed, NextFacts DEF Cross
<1>4. \A k \in PositionKeys : position[k].liquidity > 0 =>
        /\ k[2][1] \in bitmap /\ k[2][2] \in bitmap
        /\ k[2][1] \in Int /\ k[2][2] \in Int /\ k[2][1] < k[2][2]
  BY <1>0, Keys, Typed, UsedEnds
<1>5. \A k \in PositionKeys : position[k].liquidity > 0 =>
        (IF InSpan(to, k[2]) THEN 1 ELSE 0) =
          (IF InSpan(tick, k[2]) THEN 1 ELSE 0)
            + c * ((IF k[2][1] = t THEN 1 ELSE 0) + (IF k[2][2] = t THEN -1 ELSE 0))
  BY <1>3, <1>4 DEF InSpan
<1>6. active + c * tickInfo[t].net = Provided({k \in PositionKeys : InSpan(to, k[2])})
  <2> c \in {1, -1}
    OBVIOUS
  <2> HIDE DEF c, to
  <2> QED  BY <1>0, <1>3, <1>5, CrossCounts
<1>7. active' = Provided({k \in PositionKeys : InSpan(to, k[2])}) /\ active' \in Nat
  <2>1. Provided({k \in PositionKeys : InSpan(to, k[2])}) \in Nat
    BY <1>0, Typed, ProvidedTyped
  <2>2. active + net = active + c * tickInfo[t].net
    BY <1>0, Typed
  <2>3. \A n \in Nat : Max({0, n}) = n
    BY DEF Max
  <2> HIDE DEF net, c, to
  <2> QED  BY <1>1, <1>6, <2>1, <2>2, <2>3
<1>8. /\ tickInfo' \in [Ends -> Info]
      /\ tickInfo'[t].outside = growth' - tickInfo[t].outside
      /\ \A u \in Ends : /\ tickInfo'[u].gross = tickInfo[u].gross
                         /\ tickInfo'[u].net = tickInfo[u].net
                         /\ u # t => tickInfo'[u] = tickInfo[u]
  BY <1>0, <1>1, <1>2, Typed DEF Info
<1>9. AmmTypeOK'
  BY <1>0, <1>1, <1>2, <1>3, <1>7, <1>8 DEF AmmTypeOK, Info
<1>10. RangesSound'
  <2>1. ASSUME NEW K \in SUBSET PositionKeys PROVE Provided(K)' = Provided(K)
    BY <1>0, <1>1, ProvidedStays
  <2>2. active' = Provided(InRange)'
    <3>1. InRange' = {k \in PositionKeys : InSpan(to, k[2])}
      BY <1>1 DEF InRange
    <3>2. Provided(InRange)' = SumFunctionOnSet(Liquid, {k \in PositionKeys : InSpan(to, k[2])})
      BY <1>1, <3>1 DEF Provided, Liquid
    <3> QED  BY <1>7, <3>2 DEF Provided, Liquid
  <2>3. \A u \in Ends : /\ Provided(From(u))' = Provided(From(u))
                        /\ Provided(UpTo(u))' = Provided(UpTo(u))
    <3>1. \A u \in Ends : From(u)' = From(u) /\ UpTo(u)' = UpTo(u)
      BY DEF From, UpTo
    <3>2. \A u \in Ends : From(u) \in SUBSET PositionKeys /\ UpTo(u) \in SUBSET PositionKeys
      BY DEF From, UpTo
    <3> QED  BY <2>1, <3>1, <3>2
  <2>4. \A u \in Ends :
          /\ tickInfo[u].net = Provided(From(u)) - Provided(UpTo(u))
          /\ tickInfo[u].gross = Provided(From(u)) + Provided(UpTo(u))
          /\ u \in bitmap <=> tickInfo[u].gross > 0
    BY <1>0, RangesMeaning
  <2>5. \A u \in Ends :
          /\ tickInfo'[u].net = Provided(From(u))' - Provided(UpTo(u))'
          /\ tickInfo'[u].gross = Provided(From(u))' + Provided(UpTo(u))'
          /\ u \in bitmap' <=> tickInfo'[u].gross > 0
    BY <1>1, <1>8, <2>3, <2>4
  <2> QED  BY <2>2, <2>5 DEF RangesSound, InRange, From, UpTo
<1>11. \A k \in PositionKeys : position[k].liquidity > 0 =>
         Growing(k)' = Growing(k) + (IF InSpan(tick, k[2]) THEN growth' - growth ELSE 0)
  <2> SUFFICES ASSUME NEW k \in PositionKeys, position[k].liquidity > 0
               PROVE  Growing(k)' = Growing(k)
                        + (IF InSpan(tick, k[2]) THEN growth' - growth ELSE 0)
    OBVIOUS
  <2> DEFINE a == k[2][1]  b == k[2][2]  outA == tickInfo[a].outside  outB == tickInfo[b].outside
  <2>1. /\ a \in bitmap /\ b \in bitmap /\ a \in Int /\ b \in Int /\ a < b
        /\ a \in Ends /\ b \in Ends
    BY <1>4, Keys
  <2>2. /\ outA \in Int /\ outB \in Int /\ position[k].last \in Int
        /\ growth \in Int /\ growth' \in Int
    BY <1>0, <1>2, <2>1, Typed DEF AmmPosition
  <2>3. /\ tickInfo'[a].outside = IF a = t THEN growth' - outA ELSE outA
        /\ tickInfo'[b].outside = IF b = t THEN growth' - outB ELSE outB
    BY <1>8, <2>1
  <2>4. Growing(k) = growth - (IF tick >= a THEN outA ELSE growth - outA)
                            - (IF tick < b THEN outB ELSE growth - outB) - position[k].last
    BY DEF Growing, Inside
  <2>5. Growing(k)' = growth' - (IF to >= a THEN tickInfo'[a].outside ELSE growth' - tickInfo'[a].outside)
                            - (IF to < b THEN tickInfo'[b].outside ELSE growth' - tickInfo'[b].outside)
                            - position[k].last
    BY <1>1 DEF Growing, Inside
  <2>6. InSpan(tick, k[2]) <=> a <= tick /\ tick < b
    BY DEF InSpan
  <2>7. CASE swapping = "falls"
    <3>1. to = t - 1 /\ t <= tick /\ (a <= t \/ a > tick) /\ (b <= t \/ b > tick)
      BY <1>3, <2>1, <2>7
    <3> HIDE DEF a, b, outA, outB, to
    <3> QED  BY <1>3, <2>1, <2>2, <2>3, <2>4, <2>5, <2>6, <3>1
  <2>8. CASE swapping # "falls"
    <3>1. to = t /\ t > tick /\ (a <= tick \/ a >= t) /\ (b <= tick \/ b >= t)
      BY <1>3, <2>1, <2>8
    <3> HIDE DEF a, b, outA, outB, to
    <3> QED  BY <1>3, <2>1, <2>2, <2>3, <2>4, <2>5, <2>6, <3>1
  <2> QED  BY <2>7, <2>8
<1>12. FeesAccounted'
  BY <1>0, <1>1, <1>2, <1>9, <1>11, GrowthShared
<1> QED  BY <1>9, <1>10, <1>12 DEF AmmInv

-----------------------------------------------------------------------------
(* The concentrated pool as it is deployed.                                *)
LEMMA AmmStart == AmmInit => AmmInv
<1> SUFFICES ASSUME AmmInit PROVE AmmInv
  OBVIOUS
<1>1. AmmTypeOK
  BY AmmAssumption DEF AmmInit, AmmTypeOK, NoInfo, NoPosition
<1>2. \A K \in SUBSET PositionKeys : Provided(K) = 0
  <2> SUFFICES ASSUME NEW K \in SUBSET PositionKeys PROVE Provided(K) = 0
    OBVIOUS
  <2>1. \A k \in K : Liquid[k] = 0
    BY DEF AmmInit, Liquid, NoPosition
  <2>2. IsFiniteSet(K)
    BY Keys, FS_Subset
  <2>3. SumFunctionOnSet(Liquid, K) = 0
    BY <2>1, <2>2, SumZero
  <2> QED  BY <2>3 DEF Provided, Liquid
<1>3. RangesSound
  <2>1. Provided(InRange) = 0
    BY <1>2 DEF InRange
  <2>2. \A t \in Ends : Provided(From(t)) = 0 /\ Provided(UpTo(t)) = 0
    BY <1>2 DEF From, UpTo
  <2> QED  BY <2>1, <2>2, RangesMeaning DEF AmmInit, NoInfo
<1>4. FeesAccounted
  <2>1. \A k \in PositionKeys : position[k].liquidity = 0 /\ position[k].owed = 0
    BY DEF AmmInit, NoPosition
  <2>2. \A k \in PositionKeys : Growing(k) \in Int /\ Unit \in Nat
    BY <1>1, WeightTyped, AmmAssumption
  <2>3. \A k \in PositionKeys : Weights[k] = 0
    BY <2>1, <2>2 DEF Weights
  <2>4. SumFunctionOnSet(Weights, PositionKeys) = 0
    BY <2>3, Keys, SumZero
  <2>5. collected = 0 /\ paid = 0 /\ Unit * 0 = 0
    BY AmmAssumption DEF AmmInit
  <2> QED  BY <2>1, <2>4, <2>5 DEF FeesAccounted
<1> QED  BY <1>1, <1>3, <1>4 DEF AmmInv

(* Every step of the concentrated pool keeps the invariant.                *)
LEMMA AmmStep == AmmInv /\ [AmmNext]_ammVars => AmmInv'
<1> SUFFICES ASSUME AmmInv, [AmmNext]_ammVars PROVE AmmInv'
  OBVIOUS
<1>0. Portions \subseteq Nat /\ Earnings \subseteq Nat
  BY AmmAssumption
<1>1. ASSUME NEW direction \in {"falls", "rises"}, SwapStart(direction) PROVE AmmInv'
  <2>1. AmmTypeOK /\ RangesSound /\ FeesAccounted
    BY DEF AmmInv
  <2>2. UNCHANGED <<tick, price, active, growth, tickInfo, bitmap, position, paid, collected>>
    BY <1>1 DEF SwapStart
  <2>3. AmmTypeOK'
    BY <1>1, <2>1, <2>2 DEF AmmTypeOK, SwapStart
  <2>4. RangesSound'
    BY <2>1, <2>2, RangesStay
  <2>5. FeesAccounted'
    BY <2>1, <2>2 DEF FeesAccounted, Growing, Weights, Inside
  <2> QED  BY <2>3, <2>4, <2>5 DEF AmmInv
<1>2. CASE UNCHANGED ammVars
  BY <1>2 DEF AmmInv, AmmTypeOK, RangesSound, Provided, InSpan, FeesAccounted, Growing,
              Weights, Inside, ammVars
<1>3. ASSUME NEW k \in PositionKeys, CollectFees(k) PROVE AmmInv'
  BY <1>3, CollectKeeps
<1>4. ASSUME NEW k \in PositionKeys, NEW amount \in Portions, Mint(k, amount) PROVE AmmInv'
  BY <1>0, <1>4, MintKeeps
<1>5. ASSUME NEW k \in PositionKeys, NEW amount \in Portions, BurnLiquidity(k, amount)
      PROVE  AmmInv'
  BY <1>0, <1>5, BurnKeeps
<1>6. ASSUME NEW fee \in Earnings, SwapEnds(fee) PROVE AmmInv'
  BY <1>0, <1>6, SwapEndsKeeps
<1>7. ASSUME NEW fee \in Earnings, NEW t \in Ends, Cross(t, fee) PROVE AmmInv'
  BY <1>0, <1>7, CrossKeeps
<1> QED  BY <1>1, <1>2, <1>3, <1>4, <1>5, <1>6, <1>7 DEF AmmNext

(* What can be claimed, rounded down for each position, has been paid.      *)
LEMMA ClaimsCovered == AmmInv => FeesCovered
<1> SUFFICES ASSUME AmmInv PROVE FeesCovered
  OBVIOUS
<1>0. AmmTypeOK /\ FeesAccounted
  BY DEF AmmInv
<1> DEFINE S == PositionKeys
           due == [k \in S |-> Earned(position[k], Inside(tickInfo, k[2]))]
           claim == [k \in S |-> position[k].owed + due[k]]
           scaled == [k \in S |-> Unit * claim[k]]
           none == [k \in S |-> 0]
<1>1. \A k \in S : /\ due[k] \in Nat /\ claim[k] \in Nat /\ scaled[k] \in Int
                   /\ scaled[k] <= Weights[k] /\ Weights[k] \in Int
                   /\ scaled[k] = none[k] + Unit * claim[k]
  <2> SUFFICES ASSUME NEW k \in S
               PROVE  /\ due[k] \in Nat /\ claim[k] \in Nat /\ scaled[k] \in Int
                      /\ scaled[k] <= Weights[k] /\ Weights[k] \in Int
                      /\ scaled[k] = none[k] + Unit * claim[k]
    OBVIOUS
  <2>1. position[k] \in AmmPosition /\ Inside(tickInfo, k[2]) \in Int
    BY <1>0, Typed, InsideTyped
  <2>2. position[k].liquidity > 0 => Inside(tickInfo, k[2]) >= position[k].last
    BY <1>0, <2>1 DEF FeesAccounted, Growing, AmmPosition
  <2>3. due[k] \in Nat /\ Unit * due[k] <= position[k].liquidity * Growing(k)
    BY <2>1, <2>2, EarnedTyped DEF Growing
  <2>4. /\ Weights[k] = Unit * position[k].owed + position[k].liquidity * Growing(k)
        /\ Weights[k] \in Int /\ Growing(k) \in Int
    BY <1>0, WeightTyped
  <2>5. /\ claim[k] = position[k].owed + due[k] /\ scaled[k] = Unit * claim[k] /\ none[k] = 0
        /\ position[k].owed \in Nat /\ Unit \in Nat /\ position[k].liquidity \in Nat
    BY <2>1, AmmAssumption DEF AmmPosition
  <2> HIDE DEF due, claim, scaled, none
  <2>6. /\ Unit * claim[k] = Unit * position[k].owed + Unit * due[k]
        /\ Unit * position[k].owed \in Int /\ Unit * due[k] \in Int
        /\ position[k].liquidity * Growing(k) \in Int /\ Unit * claim[k] \in Int
    BY <2>3, <2>4, <2>5
  <2> QED  BY <2>3, <2>4, <2>5, <2>6
<1>2. /\ IntegersOn(claim, S) /\ IntegersOn(scaled, S) /\ IntegersOn(Weights, S)
      /\ IntegersOn(none, S) /\ SumFunctionOnSet(none, S) = 0
  <2>1. \A k \in S : none[k] = 0 /\ none[k] \in Int
    OBVIOUS
  <2> HIDE DEF claim, scaled, none, due
  <2> QED  BY <1>1, <2>1, Keys, SumZero DEF IntegersOn
<1>3. SumFunctionOnSet(claim, S) \in Int /\ SumFunctionOnSet(Weights, S) \in Int
  BY <1>2, SumTyped
<1>4. SumFunctionOnSet(scaled, S) = 0 + Unit * SumFunctionOnSet(claim, S)
  <2>1. Unit \in Int
    BY AmmAssumption
  <2> HIDE DEF claim, scaled, none, S
  <2> QED  BY <1>1, <1>2, <2>1, SumLinear
<1>5. SumFunctionOnSet(scaled, S) <= SumFunctionOnSet(Weights, S)
  <2> HIDE DEF claim, scaled, none, S
  <2> QED  BY <1>1, <1>2, SumMonotone
<1>6. collected + SumFunctionOnSet(claim, S) <= paid
  <2>1. Unit * collected + SumFunctionOnSet(Weights, S) <= Unit * paid
    BY <1>0 DEF FeesAccounted
  <2>2. Unit \in Nat \ {0} /\ collected \in Nat /\ paid \in Nat
    BY <1>0, AmmAssumption DEF AmmTypeOK
  <2> DEFINE sum == SumFunctionOnSet(claim, S)
  <2>3. sum \in Int
    BY <1>3
  <2>4. Unit * sum <= SumFunctionOnSet(Weights, S) /\ Unit * sum \in Int
    <3> HIDE DEF claim, scaled, S
    <3> QED  BY <1>3, <1>4, <1>5, <2>2
  <2>5. Unit * collected \in Int /\ Unit * paid \in Int
    BY <2>2
  <2>6. Unit * collected + Unit * sum <= Unit * paid
    <3> HIDE DEF sum, S
    <3> QED  BY <1>3, <2>1, <2>4, <2>5
  <2> HIDE DEF sum
  <2>7. Unit * (collected + sum) <= Unit * paid
    BY <2>2, <2>3, <2>6
  <2>8. collected + sum <= paid
    BY <2>2, <2>3, <2>7
  <2> QED  BY <2>8 DEF sum
<1> QED  BY <1>1, <1>6 DEF FeesCovered

(* In every state the ranges are sound and each position's fees are        *)
(* accounted for (concentrated_amm, mint to swap).                         *)
THEOREM AmmInvariant == AmmSpec => []AmmInv
BY AmmStart, AmmStep, PTL DEF AmmSpec

(* What counts is the liquidity of the ranges that hold the pool's tick,    *)
(* after any swaps: lib.rs add_tick_liquidity, swap and cross_tick.         *)
THEOREM ActiveIsWhatCounts == AmmSpec => [](AmmTypeOK /\ RangesSound)
<1>1. AmmInv => AmmTypeOK /\ RangesSound
  BY DEF AmmInv
<1> QED  BY <1>1, AmmInvariant, PTL

(* The positions can never collect more fees than the swaps have paid.      *)
THEOREM FeesAreCovered == AmmSpec => []FeesCovered
BY ClaimsCovered, AmmInvariant, PTL

-----------------------------------------------------------------------------
(* The order book                                                          *)

(* The members of two sequences joined.                                    *)
LEMMA JoinIs ==
  ASSUME NEW S, NEW a \in Seq(S), NEW b \in Seq(S)
  PROVE  /\ a \o b \in Seq(S) /\ Len(a \o b) = Len(a) + Len(b)
         /\ \A k \in 1..Len(a) + Len(b) :
              (a \o b)[k] = IF k <= Len(a) THEN a[k] ELSE b[k - Len(a)]
OBVIOUS

(* The members of a sequence with one inserted.                            *)
LEMMA InsertAtIs ==
  ASSUME NEW S, NEW s \in Seq(S), NEW e \in S, NEW i \in 1..Len(s) + 1
  PROVE  /\ InsertAt(s, i, e) \in Seq(S) /\ Len(InsertAt(s, i, e)) = Len(s) + 1
         /\ \A k \in 1..Len(s) + 1 :
              InsertAt(s, i, e)[k] = IF k < i THEN s[k] ELSE IF k = i THEN e ELSE s[k - 1]
<1> DEFINE a == SubSeq(s, 1, i - 1)  b == SubSeq(s, i, Len(s))
<1>1. /\ a \in Seq(S) /\ Len(a) = i - 1 /\ \A k \in 1..i - 1 : a[k] = s[k]
  OBVIOUS
<1>2. /\ b \in Seq(S) /\ Len(b) = Len(s) - i + 1 
      /\ \A k \in 1..Len(s) - i + 1 : b[k] = s[k + i - 1]
  OBVIOUS
<1>3. InsertAt(s, i, e) = (a \o <<e>>) \o b
  BY DEF InsertAt
<1> HIDE DEF a, b
<1> DEFINE c == a \o <<e>>
<1>4. /\ c \in Seq(S) /\ Len(c) = i
      /\ \A k \in 1..i : c[k] = IF k < i THEN s[k] ELSE e
  BY <1>1
<1> HIDE DEF c
<1> DEFINE d == c \o b
<1>5. /\ d \in Seq(S) /\ Len(d) = Len(s) + 1
      /\ \A k \in 1..Len(s) + 1 : d[k] = IF k <= i THEN c[k] ELSE b[k - i]
  <2>1. Len(c) + Len(b) = Len(s) + 1
    BY <1>2, <1>4
  <2>2. c \in Seq(S) /\ b \in Seq(S)
    BY <1>2, <1>4
  <2>3. /\ d \in Seq(S) /\ Len(d) = Len(c) + Len(b)
        /\ \A k \in 1..Len(c) + Len(b) :
             d[k] = IF k <= Len(c) THEN c[k] ELSE b[k - Len(c)]
    BY ONLY <2>2, JoinIs
  <2> HIDE DEF d
  <2> QED  BY <1>4, <2>1, <2>3
<1>6. ASSUME NEW k \in 1..Len(s) + 1
      PROVE  d[k] = IF k < i THEN s[k] ELSE IF k = i THEN e ELSE s[k - 1]
  <2>1. d[k] = IF k <= i THEN c[k] ELSE b[k - i]
    BY <1>5
  <2>2. k > i => k - i \in 1..Len(s) - i + 1 /\ (k - i) + i - 1 = k - 1
    OBVIOUS
  <2> HIDE DEF d
  <2>3. CASE k <= i
    BY <1>4, <2>1, <2>3
  <2>4. CASE k > i
    BY <1>2, <2>1, <2>2, <2>4
  <2> QED  BY <2>3, <2>4
<1> HIDE DEF d
<1> QED  BY <1>3, <1>5, <1>6 DEF c, d

(* The members of a sequence with one removed.                             *)
LEMMA RemoveAtIs ==
  ASSUME NEW S, NEW s \in Seq(S), NEW i \in 1..Len(s)
  PROVE  /\ RemoveAt(s, i) \in Seq(S) /\ Len(RemoveAt(s, i)) = Len(s) - 1
         /\ \A k \in 1..Len(s) - 1 :
              RemoveAt(s, i)[k] = IF k < i THEN s[k] ELSE s[k + 1]
<1> DEFINE a == SubSeq(s, 1, i - 1)  b == SubSeq(s, i + 1, Len(s))
<1>1. /\ a \in Seq(S) /\ Len(a) = i - 1 /\ \A k \in 1..i - 1 : a[k] = s[k]
  OBVIOUS
<1>2. /\ b \in Seq(S) /\ Len(b) = Len(s) - i 
      /\ \A k \in 1..Len(s) - i : b[k] = s[k + i]
  OBVIOUS
<1>3. RemoveAt(s, i) = a \o b
  BY DEF RemoveAt
<1> HIDE DEF a, b
<1> DEFINE d == a \o b
<1>5. /\ d \in Seq(S) /\ Len(d) = Len(s) - 1
      /\ \A k \in 1..Len(s) - 1 : d[k] = IF k <= i - 1 THEN a[k] ELSE b[k - (i - 1)]
  <2>1. Len(a) + Len(b) = Len(s) - 1
    BY <1>1, <1>2
  <2>2. a \in Seq(S) /\ b \in Seq(S)
    BY <1>1, <1>2
  <2>3. /\ d \in Seq(S) /\ Len(d) = Len(a) + Len(b)
        /\ \A k \in 1..Len(a) + Len(b) :
             d[k] = IF k <= Len(a) THEN a[k] ELSE b[k - Len(a)]
    BY ONLY <2>2, JoinIs
  <2> HIDE DEF d
  <2> QED  BY <1>1, <2>1, <2>3
<1>6. ASSUME NEW k \in 1..Len(s) - 1
      PROVE  d[k] = IF k < i THEN s[k] ELSE s[k + 1]
  <2>1. d[k] = IF k < i THEN a[k] ELSE b[k - i + 1]
    BY <1>5
  <2>2. k >= i => k - i + 1 \in 1..Len(s) - i /\ (k - i + 1) + i = k + 1
    OBVIOUS
  <2> HIDE DEF d
  <2>3. CASE k < i
    BY <1>1, <2>1, <2>3
  <2>4. CASE k >= i
    BY <1>2, <2>1, <2>2, <2>4
  <2> QED  BY <2>3, <2>4
<1> HIDE DEF d
<1> QED  BY <1>3, <1>5, <1>6 DEF d

-----------------------------------------------------------------------------
\* Who is met first.
Ahead(t, p, q) ==
  \/ Better(t, p.price, q.price)
  \/ p.price = q.price /\ p.id < q.id

\* Orders that offer t, as the book keeps them.
Ranked(t, s) ==
  /\ s \in Seq(Order)
  /\ \A i, j \in 1..Len(s) : i < j => Ahead(t, s[i], s[j])
  /\ \A i \in 1..Len(s) : s[i].amount > 0

(* The constants of the book.                                              *)
LEMMA BookConstants ==
  /\ Scale \in Nat \ {0} /\ Points \in Nat \ {0} /\ LpCharge \in Nat /\ LpCharge < Points
  /\ OrderPrices \subseteq Nat \ {0} /\ Depths \subseteq Nat \ {0}
  /\ MaxOrders \in Nat /\ MaxHeld \in Nat
BY BookAssumption

(* The fields of an order.                                                 *)
LEMMA OrderTyped ==
  ASSUME NEW o \in Order
  PROVE  /\ o.id \in Nat /\ o.price \in Nat \ {0} /\ o.price \in OrderPrices /\ o.amount \in Nat
         /\ o = [id |-> o.id, price |-> o.price, amount |-> o.amount]
BY BookConstants DEF Order

(* No order is ahead of itself, and who is ahead of the next is ahead of   *)
(* all behind it.                                                          *)
LEMMA AheadOrders ==
  ASSUME NEW t \in Tokens, NEW p \in Order, NEW q \in Order, NEW r \in Order
  PROVE  /\ ~ Ahead(t, p, p)
         /\ Ahead(t, p, q) /\ Ahead(t, q, r) => Ahead(t, p, r)
BY OrderTyped DEF Ahead, Better

\* A new order goes where it belongs.
LEMMA Inserted ==
  ASSUME NEW t \in Tokens, NEW s, Ranked(t, s), NEW o \in Order, o.amount > 0,
         \A i \in 1..Len(s) : s[i].id < o.id
  PROVE  /\ Ranked(t, InsertOrder(t, s, o))
         /\ ToSet(InsertOrder(t, s, o)) = ToSet(s) \cup {o}
         /\ o \notin ToSet(s)
<1> DEFINE worse == {i \in 1..Len(s) : Better(t, o.price, s[i].price)}
           n == Len(s)
           places == worse \cup {n + 1}
           at == CHOOSE i \in places : \A j \in worse : i <= j
<1>1. s \in Seq(Order) /\ n \in Nat /\ \A i \in 1..n : s[i] \in Order
  BY DEF Ranked
<1>2. \E i \in places : \A j \in worse : i <= j
  <2>1. worse \in SUBSET Nat /\ worse \subseteq 1..n
    BY <1>1
  <2> HIDE DEF worse
  <2>2. CASE worse = {}
    BY <2>2
  <2>3. CASE worse # {}
    BY <2>1, <2>3, LeastNatural
  <2> QED  BY <2>2, <2>3
<1>3. at \in places /\ \A j \in worse : at <= j
  <2> HIDE DEF worse, places
  <2> QED  BY <1>2
<1>4. InsertOrder(t, s, o) = InsertAt(s, at, o)
  BY DEF InsertOrder
<1> HIDE DEF at
<1>5. at \in 1..n + 1
  BY <1>1, <1>3
<1>6. ASSUME NEW i \in 1..n, i < at PROVE Ahead(t, s[i], o)
  <2>1. ~ Better(t, o.price, s[i].price) /\ s[i].id < o.id
    BY <1>3, <1>5, <1>6
  <2> QED  BY <1>1, <2>1, OrderTyped DEF Ahead, Better
<1>7. ASSUME NEW i \in 1..n, at <= i PROVE Ahead(t, o, s[i])
  <2>1. at \in worse /\ Better(t, o.price, s[at].price) /\ at \in 1..n
    BY <1>1, <1>3, <1>5, <1>7
  <2>2. Ahead(t, o, s[at])
    BY <2>1 DEF Ahead
  <2>3. i = at \/ Ahead(t, s[at], s[i])
    BY <1>5, <1>7, <2>1 DEF Ranked
  <2> QED  BY <1>1, <2>1, <2>2, <2>3, AheadOrders
<1> DEFINE r == InsertAt(s, at, o)
<1>8. /\ r \in Seq(Order) /\ Len(r) = n + 1
      /\ \A k \in 1..n + 1 : r[k] = IF k < at THEN s[k] ELSE IF k = at THEN o ELSE s[k - 1]
  <2>1. n = Len(s) /\ s \in Seq(Order) /\ o \in Order /\ at \in 1..Len(s) + 1
    BY <1>1, <1>5
  <2> QED  BY ONLY <2>1, InsertAtIs
<1> HIDE DEF r
<1>9. ASSUME NEW i \in 1..n + 1, NEW j \in 1..n + 1, i < j PROVE Ahead(t, r[i], r[j])
  <2>1. CASE j < at
    <3>1. i \in 1..n /\ j \in 1..n /\ r[i] = s[i] /\ r[j] = s[j]
      BY <1>1, <1>5, <1>8, <1>9, <2>1
    <3> QED  BY <1>9, <3>1 DEF Ranked
  <2>2. CASE j = at
    <3>1. i \in 1..n /\ i < at /\ r[i] = s[i] /\ r[j] = o
      BY <1>1, <1>5, <1>8, <1>9, <2>2
    <3> QED  BY <1>6, <3>1
  <2>3. CASE j > at /\ i = at
    <3>1. j - 1 \in 1..n /\ at <= j - 1 /\ r[i] = o /\ r[j] = s[j - 1]
      BY <1>1, <1>5, <1>8, <1>9, <2>3
    <3> QED  BY <1>7, <3>1
  <2>4. CASE j > at /\ i < at
    <3>1. i \in 1..n /\ j - 1 \in 1..n /\ i < j - 1 /\ r[i] = s[i] /\ r[j] = s[j - 1]
      BY <1>1, <1>5, <1>8, <1>9, <2>4
    <3> QED  BY <3>1 DEF Ranked
  <2>5. CASE j > at /\ i > at
    <3>1. i - 1 \in 1..n /\ j - 1 \in 1..n /\ i - 1 < j - 1 /\ r[i] = s[i - 1] /\ r[j] = s[j - 1]
      BY <1>1, <1>5, <1>8, <1>9, <2>5
    <3> QED  BY <3>1 DEF Ranked
  <2> QED  BY <1>1, <1>5, <2>1, <2>2, <2>3, <2>4, <2>5
<1>10. ASSUME NEW k \in 1..n + 1 PROVE r[k].amount > 0 /\ r[k] \in ToSet(s) \cup {o}
  <2>1. r[k] = o \/ \E i \in 1..n : r[k] = s[i]
    <3>1. CASE k < at
      BY <1>1, <1>5, <1>8, <3>1
    <3>2. CASE k = at
      BY <1>8, <3>2
    <3>3. CASE k > at
      <4>1. k - 1 \in 1..n /\ r[k] = s[k - 1]
        BY <1>1, <1>5, <1>8, <3>3
      <4> QED  BY <4>1
    <3> QED  BY <1>1, <1>5, <3>1, <3>2, <3>3
  <2> QED  BY <1>1, <2>1 DEF Ranked, ToSet
<1>11. ASSUME NEW i \in 1..n PROVE \E k \in 1..n + 1 : r[k] = s[i]
  <2>1. CASE i < at
    BY <1>1, <1>8, <2>1
  <2>2. CASE i >= at
    <3>1. i + 1 \in 1..n + 1 /\ r[i + 1] = s[i]
      BY <1>1, <1>5, <1>8, <2>2
    <3> QED  BY <3>1
  <2> QED  BY <1>1, <1>5, <2>1, <2>2
<1>12. at \in 1..n + 1 /\ r[at] = o
  BY <1>5, <1>8
<1>13. ToSet(r) = ToSet(s) \cup {o}
  <2>1. ToSet(r) = {r[k] : k \in 1..n + 1} /\ ToSet(s) = {s[k] : k \in 1..n}
    BY <1>1, <1>8 DEF ToSet
  <2>2. ToSet(r) \subseteq ToSet(s) \cup {o}
    BY <1>10, <2>1
  <2>3. \A i \in 1..n : s[i] \in ToSet(r)
    BY <1>11, <2>1
  <2>4. o \in ToSet(r)
    BY <1>12, <2>1
  <2> QED  BY <2>1, <2>2, <2>3, <2>4
<1>14. o \notin ToSet(s)
  <2>1. ASSUME NEW i \in 1..n PROVE s[i] # o
    BY <1>1, OrderTyped
  <2> QED  BY <1>1, <2>1 DEF ToSet
<1>15. Ranked(t, r)
  BY <1>8, <1>9, <1>10 DEF Ranked
<1> QED  BY <1>4, <1>13, <1>14, <1>15 DEF r

(* A book without one of its orders is ranked as before.                   *)
LEMMA Removed ==
  ASSUME NEW t \in Tokens, NEW s, Ranked(t, s), NEW i \in 1..Len(s)
  PROVE  /\ Ranked(t, RemoveAt(s, i))
         /\ ToSet(RemoveAt(s, i)) = ToSet(s) \ {s[i]}
         /\ s[i] \in ToSet(s)
<1> DEFINE n == Len(s)  r == RemoveAt(s, i)
<1>1. s \in Seq(Order) /\ n \in Nat /\ \A k \in 1..n : s[k] \in Order
  BY DEF Ranked
<1>2. /\ r \in Seq(Order) /\ Len(r) = n - 1
      /\ \A k \in 1..n - 1 : r[k] = IF k < i THEN s[k] ELSE s[k + 1]
  BY <1>1, RemoveAtIs
<1> HIDE DEF r
<1>3. ASSUME NEW k \in 1..n, NEW l \in 1..n, k # l PROVE s[k] # s[l]
  <2>1. k < l \/ l < k
    BY <1>3
  <2> QED  BY <1>1, <2>1, AheadOrders DEF Ranked
<1>4. ASSUME NEW k \in 1..n - 1, NEW l \in 1..n - 1, k < l PROVE Ahead(t, r[k], r[l])
  <2>1. \E x, y \in 1..n : x < y /\ r[k] = s[x] /\ r[l] = s[y]
    <3>1. CASE l < i
      <4>1. k \in 1..n /\ l \in 1..n /\ r[k] = s[k] /\ r[l] = s[l]
        BY <1>1, <1>2, <1>4, <3>1
      <4> QED  BY <1>4, <4>1
    <3>2. CASE k < i /\ i <= l
      <4>1. k \in 1..n /\ l + 1 \in 1..n /\ k < l + 1 /\ r[k] = s[k] /\ r[l] = s[l + 1]
        BY <1>1, <1>2, <1>4, <3>2
      <4> QED  BY <4>1
    <3>3. CASE i <= k
      <4>1. k + 1 \in 1..n /\ l + 1 \in 1..n /\ k + 1 < l + 1 /\ r[k] = s[k + 1] /\ r[l] = s[l + 1]
        BY <1>1, <1>2, <1>4, <3>3
      <4> QED  BY <4>1
    <3> QED  BY <1>1, <3>1, <3>2, <3>3
  <2> QED  BY <2>1 DEF Ranked
<1>5. ASSUME NEW k \in 1..n - 1
      PROVE  r[k].amount > 0 /\ r[k] # s[i] /\ \E x \in 1..n : r[k] = s[x]
  <2>1. \E x \in 1..n : x # i /\ r[k] = s[x]
    <3>1. CASE k < i
      BY <1>1, <1>2, <3>1
    <3>2. CASE k >= i
      <4>1. k + 1 \in 1..n /\ k + 1 # i /\ r[k] = s[k + 1]
        BY <1>1, <1>2, <3>2
      <4> QED  BY <4>1
    <3> QED  BY <1>1, <3>1, <3>2
  <2> QED  BY <1>3, <2>1 DEF Ranked
<1>6. ASSUME NEW x \in 1..n, x # i PROVE \E k \in 1..n - 1 : r[k] = s[x]
  <2>1. CASE x < i
    BY <1>1, <1>2, <2>1
  <2>2. CASE x > i
    <3>1. x - 1 \in 1..n - 1 /\ r[x - 1] = s[x]
      BY <1>1, <1>2, <2>2
    <3> QED  BY <3>1
  <2> QED  BY <1>1, <1>6, <2>1, <2>2
<1>7. ToSet(r) = {r[k] : k \in 1..n - 1} /\ ToSet(s) = {s[k] : k \in 1..n}
  BY <1>1, <1>2 DEF ToSet
<1>8. ToSet(r) = ToSet(s) \ {s[i]}
  <2>1. ToSet(r) \subseteq ToSet(s) \ {s[i]}
    BY <1>5, <1>7
  <2>2. ASSUME NEW e \in ToSet(s) \ {s[i]} PROVE e \in ToSet(r)
    <3>1. PICK x \in 1..n : e = s[x]
      BY <1>7
    <3>2. x # i
      BY <2>2, <3>1
    <3> QED  BY <1>6, <1>7, <3>1, <3>2
  <2> QED  BY <2>1, <2>2
<1>9. Ranked(t, r)
  BY <1>2, <1>4, <1>5 DEF Ranked
<1> QED  BY <1>7, <1>8, <1>9 DEF r

-----------------------------------------------------------------------------
\* What orders hold in escrow.
ClaimOf(t) == [o \in Order |-> Escrow(t, o)]
ClaimsOf(t, S) == SumFunctionOnSet(ClaimOf(t), S)

\* Prices at which nothing is lost to rounding.
Divides == \A asked \in OrderPrices : Scale % asked = 0

\* Taking a whole number of parts off before or after the division.
LEMMA DivShift ==
  ASSUME NEW a \in Int, NEW q \in Int, NEW d \in Nat \ {0}
  PROVE  (a - q * d) \div d = (a \div d) - q
<1> DEFINE x == a \div d  b == a - q * d  y == b \div d
<1>1. x \in Int /\ d * x <= a /\ a < d * x + d
  BY DivFloor
<1>2. b \in Int /\ b = a - q * d
  OBVIOUS
<1> HIDE DEF x, b
<1>3. y \in Int /\ d * y <= b /\ b < d * y + d
  BY <1>2, DivFloor
<1> HIDE DEF y
<1>4. d * (x - q) = d * x - q * d /\ d * (y + q) = d * y + q * d
  BY <1>1, <1>3
<1>5. d * (x - q) <= b /\ d * (y + q) <= a
  <2>1. d * x \in Int /\ d * y \in Int /\ q * d \in Int
    BY <1>1, <1>3
  <2> QED  BY <1>1, <1>2, <1>3, <1>4, <2>1
<1>6. x - q <= y
  BY <1>1, <1>2, <1>5, DivGreatest DEF y
<1>7. y + q <= x
  BY <1>3, <1>5, DivGreatest DEF x
<1> QED  BY <1>1, <1>3, <1>6, <1>7 DEF x, y, b

(* What stands in escrow for an order is rounded down.                     *)
LEMMA EscrowTyped ==
  ASSUME NEW t \in Tokens, NEW o \in Order
  PROVE  /\ Escrow(t, o) \in Nat
         /\ o.amount = 0 => Escrow(t, o) = 0
         /\ t = "B" => Scale * Escrow(t, o) <= o.amount * o.price
<1>0. Scale \in Nat \ {0} /\ o.price \in Nat /\ o.amount \in Nat
  BY BookConstants, OrderTyped
<1>1. CASE t = "A"
  BY <1>0, <1>1 DEF Escrow
<1>2. CASE t = "B"
  <2> DEFINE p == o.amount * o.price
  <2>1. Escrow(t, o) = p \div Scale /\ p \in Nat /\ (o.amount = 0 => p = 0)
    BY <1>0, <1>2 DEF Escrow
  <2> HIDE DEF p
  <2>2. p \div Scale \in Nat /\ Scale * (p \div Scale) <= p
    BY <1>0, <2>1, DivNatural, DivFloor
  <2>3. p = 0 => p \div Scale = 0
    BY <1>0, <2>2
  <2> QED  BY <2>1, <2>2, <2>3 DEF p
<1> QED  BY <1>1, <1>2 DEF Tokens

\* An order that is filled in part.
LEMMA FilledIs ==
  ASSUME NEW t \in Tokens, NEW o \in Order, NEW fill \in Nat, fill <= Escrow(t, o),
         NEW rest, rest = [o EXCEPT !.amount = @ - UsedBy(t, o, fill)]
  PROVE  /\ rest \in Order /\ rest.id = o.id /\ rest.price = o.price
         /\ Divides => Escrow(t, rest) + fill = Escrow(t, o)
<1>0. /\ Scale \in Nat \ {0} /\ o.price \in Nat \ {0} /\ o.amount \in Nat
      /\ o.price \in OrderPrices /\ o.id \in Nat
      /\ o = [id |-> o.id, price |-> o.price, amount |-> o.amount]
  BY BookConstants, OrderTyped
<1> DEFINE used == UsedBy(t, o, fill)
<1>1. rest = [id |-> o.id, price |-> o.price, amount |-> o.amount - used]
  BY <1>0
<1>2. CASE t = "A"
  <2>1. used = fill /\ Escrow(t, o) = o.amount /\ Escrow(t, rest) = rest.amount
    BY <1>2 DEF UsedBy, Escrow
  <2> HIDE DEF used
  <2>2. o.amount - used \in Nat /\ rest.amount = o.amount - used
    BY <1>0, <1>1, <2>1
  <2> QED  BY <1>0, <1>1, <2>1, <2>2 DEF Order
<1>3. CASE t = "B"
  <2> DEFINE whole == fill * Scale  value == o.amount * o.price
  <2>1. used = whole \div o.price /\ Escrow(t, o) = value \div Scale
    BY <1>3 DEF UsedBy, Escrow
  <2>2. whole \in Nat /\ value \in Nat
    BY <1>0
  <2>3. whole <= value
    <3> DEFINE e == Escrow(t, o)
    <3>1. e \in Nat /\ Scale * e <= value /\ fill <= e
      BY <1>3, EscrowTyped
    <3> HIDE DEF e
    <3>2. fill * Scale <= e * Scale /\ e * Scale = Scale * e /\ e * Scale \in Int
      BY <1>0, <3>1
    <3> HIDE DEF value
    <3> QED  BY <2>2, <3>1, <3>2
  <2> HIDE DEF used
  <2>4. used \in Nat /\ o.price * used <= whole /\ (Divides => o.price * used = whole)
    <3>1. used \in Nat /\ o.price * used <= whole
      <4> HIDE DEF whole
      <4> QED  BY <1>0, <2>1, <2>2, DivNatural, DivFloor
    <3>2. ASSUME Divides PROVE o.price * used = whole
      <4> DEFINE k == Scale \div o.price
      <4>1. Scale % o.price = 0
        BY <1>0, <3>2 DEF Divides
      <4>2. o.price * k = Scale /\ k \in Int
        BY <1>0, <4>1, DivMultiple, DivFloor
      <4> HIDE DEF k
      <4>3. whole = o.price * (fill * k) /\ fill * k \in Int
        BY <1>0, <4>2
      <4> DEFINE j == fill * k
      <4>4. j \in Int /\ whole = o.price * j
        BY <4>3
      <4> HIDE DEF j, whole
      <4>5. j <= used
        BY <1>0, <2>1, <2>2, <4>4, DivGreatest
      <4>6. o.price * j <= o.price * used
        BY <1>0, <3>1, <4>4, <4>5
      <4> QED  BY <1>0, <2>2, <3>1, <4>4, <4>6
    <3> QED  BY <3>1, <3>2
  <2>5. used <= o.amount
    <3>1. used * o.price <= o.amount * o.price
      <4>1. o.price * used = used * o.price /\ used * o.price \in Int
        BY <1>0, <2>4
      <4> QED  BY <2>2, <2>3, <2>4, <4>1
    <3> QED  BY <1>0, <2>4, <3>1, Cancels
  <2>6. rest \in Order /\ rest.id = o.id /\ rest.price = o.price /\ rest.amount = o.amount - used
    BY <1>0, <1>1, <2>4, <2>5 DEF Order
  <2>7. ASSUME Divides PROVE Escrow(t, rest) + fill = Escrow(t, o)
    <3>1. Escrow(t, rest) = ((o.amount - used) * o.price) \div Scale
      BY <1>3, <2>6 DEF Escrow
    <3>2. (o.amount - used) * o.price = value - fill * Scale
      <4>1. (o.amount - used) * o.price = o.amount * o.price - o.price * used
        BY <1>0, <2>4
      <4> QED  BY <2>4, <2>7, <4>1
    <3> HIDE DEF value
    <3>3. (value - fill * Scale) \div Scale = (value \div Scale) - fill
      BY <1>0, <2>2, DivShift
    <3>4. value \div Scale \in Int
      BY <1>0, <2>2, DivFloor
    <3> QED  BY <2>1, <3>1, <3>2, <3>3, <3>4
  <2> QED  BY <2>6, <2>7
<1> QED  BY <1>2, <1>3 DEF Tokens

(* The escrow of the orders grows by that of one more.                     *)
LEMMA ClaimAdds ==
  ASSUME NEW t \in Tokens, NEW S \in SUBSET Order, IsFiniteSet(S), NEW o \in Order
  PROVE  /\ ClaimsOf(t, S) \in Int
         /\ o \notin S => ClaimsOf(t, S \cup {o}) = ClaimsOf(t, S) + Escrow(t, o)
<1>1. IsFiniteSet(S \cup {o})
  BY FS_AddElement
<1>2. \A p \in Order : ClaimOf(t)[p] = Escrow(t, p) /\ ClaimOf(t)[p] \in Int
  BY EscrowTyped DEF ClaimOf
<1>3. IntegersOn(ClaimOf(t), S) /\ IntegersOn(ClaimOf(t), S \cup {o})
  BY <1>1, <1>2 DEF IntegersOn
<1>4. ClaimsOf(t, S) \in Int
  BY <1>3, SumTyped DEF ClaimsOf
<1>5. ASSUME o \notin S PROVE ClaimsOf(t, S \cup {o}) = ClaimsOf(t, S) + Escrow(t, o)
  <2>1. (S \cup {o}) \ {o} = S /\ o \in S \cup {o}
    BY <1>5
  <2>2. SumFunctionOnSet(ClaimOf(t), S \cup {o})
          = ClaimOf(t)[o] + SumFunctionOnSet(ClaimOf(t), (S \cup {o}) \ {o})
    BY ONLY <1>3, <2>1, SumStep
  <2>3. ClaimOf(t)[o] = Escrow(t, o) /\ ClaimOf(t)[o] \in Int
    BY <1>2
  <2>4. /\ ClaimsOf(t, S \cup {o}) = SumFunctionOnSet(ClaimOf(t), S \cup {o})
        /\ ClaimsOf(t, S) = SumFunctionOnSet(ClaimOf(t), S)
    BY Zenon DEF ClaimsOf
  <2>5. ClaimsOf(t, S \cup {o}) = Escrow(t, o) + ClaimsOf(t, S)
    BY ONLY <2>1, <2>2, <2>3, <2>4, Zenon
  <2>6. Escrow(t, o) \in Int
    BY ONLY <2>3, Zenon
  <2> QED  BY ONLY <1>4, <2>5, <2>6
<1> QED  BY <1>4, <1>5

(* The orders of a book, and of each prefix of it, are finitely many.      *)
LEMMA RankedFinite ==
  ASSUME NEW t \in Tokens, NEW s, Ranked(t, s)
  PROVE  /\ ToSet(s) \in SUBSET Order /\ IsFiniteSet(ToSet(s))
         /\ \A n \in 0..Len(s) : LET S == {s[j] : j \in 1..n}
                                 IN  S \in SUBSET Order /\ IsFiniteSet(S)
         /\ ToSet(s) = {s[j] : j \in 1..Len(s)}
<1>1. Len(s) \in Nat /\ DOMAIN s = 1..Len(s) /\ \A i \in 1..Len(s) : s[i] \in Order
  BY DEF Ranked
<1>2. ASSUME NEW n \in 0..Len(s)
      PROVE  {s[j] : j \in 1..n} \in SUBSET Order /\ IsFiniteSet({s[j] : j \in 1..n})
  <2>1. IsFiniteSet(1..n)
    BY <1>1, FS_Interval
  <2>2. IsFiniteSet({s[j] : j \in 1..n})
    <3> DEFINE image == {s[j] : j \in 1..n}
               f == [j \in 1..n |-> s[j]]
    <3>1. f \in Surjection(1..n, image)
      BY DEF Surjection
    <3> HIDE DEF f, image
    <3>2. IsFiniteSet(image)
      BY ONLY <2>1, <3>1, FS_Surjection
    <3> QED  BY <3>2 DEF image
  <2>3. \A j \in 1..n : s[j] \in Order
    BY <1>1
  <2> QED  BY <2>2, <2>3
<1>3. ToSet(s) = {s[j] : j \in 1..Len(s)}
  BY <1>1 DEF ToSet
<1>4. Len(s) \in 0..Len(s)
  BY <1>1
<1> QED  BY <1>2, <1>3, <1>4

(* An order behind all the others can be put at the end.                   *)
LEMMA Appended ==
  ASSUME NEW t \in Tokens, NEW s, Ranked(t, s), NEW o \in Order, o.amount > 0,
         \A i \in 1..Len(s) : Ahead(t, s[i], o)
  PROVE  /\ Ranked(t, Append(s, o)) /\ ToSet(Append(s, o)) = ToSet(s) \cup {o}
         /\ o \notin ToSet(s)
<1> DEFINE n == Len(s)  r == Append(s, o)
<1>1. n \in Nat /\ s \in Seq(Order) /\ \A i \in 1..n : s[i] \in Order
  BY DEF Ranked
<1>2. /\ r \in Seq(Order) /\ Len(r) = n + 1 /\ r[n + 1] = o
      /\ \A i \in 1..n : r[i] = s[i]
  BY <1>1
<1> HIDE DEF r
<1>3. Ranked(t, r)
  <2>1. ASSUME NEW i \in 1..n + 1, NEW j \in 1..n + 1, i < j PROVE Ahead(t, r[i], r[j])
    <3>1. i \in 1..n /\ r[i] = s[i]
      BY <1>1, <1>2, <2>1
    <3>2. CASE j \in 1..n
      BY <1>2, <2>1, <3>1, <3>2 DEF Ranked
    <3>3. CASE j = n + 1
      BY <1>2, <3>1, <3>3
    <3> QED  BY <1>1, <3>2, <3>3
  <2>2. ASSUME NEW i \in 1..n + 1 PROVE r[i].amount > 0
    <3>1. CASE i \in 1..n
      BY <1>2, <3>1 DEF Ranked
    <3>2. CASE i = n + 1
      BY <1>2, <3>2
    <3> QED  BY <1>1, <3>1, <3>2
  <2> QED  BY <1>2, <2>1, <2>2 DEF Ranked
<1>4. ToSet(r) = ToSet(s) \cup {o}
  <2>1. ToSet(r) = {r[i] : i \in 1..n + 1} /\ ToSet(s) = {s[i] : i \in 1..n}
    BY <1>1, <1>2 DEF ToSet
  <2>2. \A i \in 1..n + 1 : i = n + 1 \/ i \in 1..n
    BY <1>1
  <2>3. \A i \in 1..n : i \in 1..n + 1
    BY <1>1
  <2>4. n + 1 \in 1..n + 1
    BY <1>1
  <2> QED  BY <1>2, <2>1, <2>2, <2>3, <2>4
<1>5. o \notin ToSet(s)
  <2>1. \A i \in 1..n : s[i] # o
    BY <1>1, AheadOrders
  <2> QED  BY <1>1, <2>1 DEF ToSet
<1> QED  BY <1>3, <1>4, <1>5 DEF r

-----------------------------------------------------------------------------
\* The course of a swap through the orders
Course == [over : BOOLEAN, left : Nat, count : Nat, orders : Seq(Order)]

CourseStep(t, out, f, i) ==
  IF i = 0 THEN [over |-> FALSE, left |-> out, count |-> 0, orders |-> <<>>]
  ELSE Meet(f[i - 1], t, book[t][i])
Courses(t, out, f, n) == f = [i \in 0..n |-> CourseStep(t, out, f, i)]

(* The recursion that meets order by order exists for any number of them.  *)
LEMMA CourseExists ==
  ASSUME NEW t, NEW out
  PROVE  \A n \in Nat : \E f : Courses(t, out, f, n)
<1> DEFINE T == {n \in Nat : \E f : Courses(t, out, f, n)}
<1>1. 0 \in T
  <2> DEFINE f == [i \in 0..0 |-> [over |-> FALSE, left |-> out, count |-> 0, orders |-> <<>>]]
  <2>1. Courses(t, out, f, 0)
    BY DEF Courses, CourseStep
  <2> QED  BY <2>1
<1>2. ASSUME NEW n \in T PROVE n + 1 \in T
  <2>1. n \in Nat
    OBVIOUS
  <2>2. PICK f : Courses(t, out, f, n)
    OBVIOUS
  <2> DEFINE last == CourseStep(t, out, f, n + 1)
             g == [i \in 0..n + 1 |-> IF i = n + 1 THEN last ELSE f[i]]
  <2>3. \A i \in 0..n : g[i] = f[i]
    BY <2>1
  <2>4. ASSUME NEW i \in 0..n + 1 PROVE CourseStep(t, out, g, i) = CourseStep(t, out, f, i)
    <3>1. i # 0 => i - 1 \in 0..n
      BY <2>1
    <3> HIDE DEF g
    <3> QED  BY <2>3, <3>1 DEF CourseStep
  <2>5. ASSUME NEW i \in 0..n + 1 PROVE g[i] = CourseStep(t, out, g, i)
    <3>1. CASE i = n + 1
      BY <2>1, <2>4, <3>1
    <3>2. CASE i # n + 1
      <4>1. i \in 0..n
        BY <2>1, <3>2
      <4>2. f[i] = CourseStep(t, out, f, i)
        BY <2>2, <4>1 DEF Courses
      <4> QED  BY <2>3, <2>4, <4>1, <4>2
    <3> QED  BY <3>1, <3>2
  <2>6. g = [i \in 0..n + 1 |-> g[i]]
    OBVIOUS
  <2> HIDE DEF g
  <2>7. Courses(t, out, g, n + 1)
    BY <2>5, <2>6 DEF Courses
  <2> QED  BY <2>1, <2>7
<1> QED
  <2>1. T \in SUBSET Nat
    OBVIOUS
  <2> HIDE DEF T
  <2>2. T = Nat
    BY <1>1, <1>2, <2>1, NaturalsByInduction
  <2> QED  BY <2>2 DEF T

\* An order that is passed over.
PassedBy(s, v, o) == [s EXCEPT !.over = v, !.orders = Append(@, o)]

(* An order that is passed is kept as it was.                              *)
LEMMA PassedIs ==
  ASSUME NEW s, NEW v, NEW o,
         s = [over |-> s.over, left |-> s.left, count |-> s.count, orders |-> s.orders]
  PROVE  PassedBy(s, v, o) = [over |-> v, left |-> s.left, count |-> s.count,
                              orders |-> Append(s.orders, o)]
<1> DEFINE a == s.over  l == s.left  c == s.count  q == s.orders
           r == [s EXCEPT !.over = v]
<1>1. r = [over |-> v, left |-> l, count |-> c, orders |-> q]
  <2>1. s = [over |-> a, left |-> l, count |-> c, orders |-> q]
    OBVIOUS
  <2>2. r = [[over |-> a, left |-> l, count |-> c, orders |-> q] EXCEPT !.over = v]
    BY <2>1
  <2> HIDE DEF a, l, c, q, r
  <2> QED  BY ONLY <2>2
<1>2. PassedBy(s, v, o) = [r EXCEPT !.orders = Append(@, o)]
  BY DEF PassedBy
<1> HIDE DEF r, l, c, q
<1>3. [r EXCEPT !.orders = Append(@, o)]
        = [over |-> v, left |-> l, count |-> c, orders |-> Append(q, o)]
  BY ONLY <1>1
<1> QED  BY <1>2, <1>3 DEF l, c, q

(* A course has the fields of one.                                         *)
LEMMA CourseTyped ==
  ASSUME NEW v \in BOOLEAN, NEW l \in Nat, NEW c \in Nat, NEW q \in Seq(Order)
  PROVE  [over |-> v, left |-> l, count |-> c, orders |-> q] \in Course
BY DEF Course

\* An order is filled by some of what is left to fill, or by nothing.
LEMMA MeetIs ==
  ASSUME NEW t \in Tokens, NEW s \in Course, NEW o \in Order, o.amount > 0
  PROVE  /\ Meet(s, t, o) \in Course
         /\ \E fill \in Nat, rest \in Order :
              /\ fill <= s.left /\ Meet(s, t, o).left = s.left - fill
              /\ rest.id = o.id /\ rest.price = o.price
              /\ Divides => Escrow(t, rest) + fill = Escrow(t, o)
              /\ Meet(s, t, o).orders = IF rest.amount = 0 THEN s.orders
                                        ELSE Append(s.orders, rest)
<1> DEFINE m == Meet(s, t, o)
           fill == Smaller(s.left, Escrow(t, o))
           rest == [o EXCEPT !.amount = @ - UsedBy(t, o, fill)]
           passed == [s EXCEPT !.over = TRUE, !.orders = Append(@, o)]
           met == [over |-> FALSE, left |-> s.left - fill, count |-> s.count + 1,
                   orders |-> IF rest.amount = 0 THEN s.orders ELSE Append(s.orders, rest)]
<1>1. /\ s.over \in BOOLEAN /\ s.left \in Nat /\ s.count \in Nat /\ s.orders \in Seq(Order)
      /\ s = [over |-> s.over, left |-> s.left, count |-> s.count, orders |-> s.orders]
  BY DEF Course
<1>2. m = passed \/ m = met
  BY DEF Meet
<1>3. CASE m = passed
  <2>1. passed = [over |-> TRUE, left |-> s.left, count |-> s.count, orders |-> Append(s.orders, o)]
    <3>1. passed = PassedBy(s, TRUE, o)
      BY DEF PassedBy
    <3> HIDE DEF passed
    <3> QED  BY ONLY <1>1, <3>1, PassedIs
  <2> HIDE DEF m, passed
  <2>2. m \in Course /\ m.left = s.left - 0 /\ m.orders = Append(s.orders, o)
    BY <1>1, <1>3, <2>1 DEF Course
  <2>3. o.amount # 0 /\ Escrow(t, o) + 0 = Escrow(t, o) /\ 0 <= s.left
    BY <1>1, EscrowTyped, OrderTyped
  <2> QED  BY <2>2, <2>3 DEF m
<1>4. CASE m = met
  <2>1. fill \in Nat /\ fill <= s.left /\ fill <= Escrow(t, o)
    BY <1>1, EscrowTyped DEF Smaller
  <2> HIDE DEF fill
  <2>2. /\ rest \in Order /\ rest.id = o.id /\ rest.price = o.price
        /\ Divides => Escrow(t, rest) + fill = Escrow(t, o)
    BY <2>1, FilledIs
  <2>3. m.left = s.left - fill
        /\ m.orders = IF rest.amount = 0 THEN s.orders ELSE Append(s.orders, rest)
    BY <1>4
  <2>4. m \in Course
    <3>1. m = [over |-> FALSE, left |-> m.left, count |-> s.count + 1, orders |-> m.orders]
      BY <1>4
    <3> HIDE DEF m, rest, met
    <3>2. m.left \in Nat /\ s.count + 1 \in Nat /\ m.orders \in Seq(Order)
      BY <1>1, <2>1, <2>2, <2>3
    <3>3. FALSE \in BOOLEAN
      OBVIOUS
    <3> QED  BY ONLY <3>1, <3>2, <3>3, CourseTyped, Zenon
  <2> HIDE DEF m, rest
  <2> QED  BY <2>1, <2>2, <2>3, <2>4 DEF m
<1> QED  BY <1>2, <1>3, <1>4

\* What a course leaves is ranked as it was, and what it fills is released.
LEMMA MatchedIs ==
  ASSUME NEW t \in Tokens, Ranked(t, book[t]), NEW out \in Nat
  PROVE  /\ Matched(t, out) \in Course /\ Matched(t, out).left <= out
         /\ Ranked(t, Matched(t, out).orders)
         /\ \A k \in 1..Len(Matched(t, out).orders) : \E j \in 1..Len(book[t]) :
              Matched(t, out).orders[k].id = book[t][j].id
         /\ Divides => ClaimsOf(t, ToSet(book[t]))
                         = ClaimsOf(t, ToSet(Matched(t, out).orders)) + out - Matched(t, out).left
<1> DEFINE b == book[t]  n == Len(b)
           f == CHOOSE f : Courses(t, out, f, n)
           Prefix(i) == {b[j] : j \in 1..i}
           Good(i) == /\ f[i] \in Course /\ f[i].left <= out /\ Ranked(t, f[i].orders)
                      /\ \A k \in 1..Len(f[i].orders) : \E j \in 1..i :
                           f[i].orders[k].id = b[j].id /\ f[i].orders[k].price = b[j].price
                      /\ Divides => ClaimsOf(t, Prefix(i))
                                      = ClaimsOf(t, ToSet(f[i].orders)) + out - f[i].left
           T == {i \in Nat : i <= n => Good(i)}
<1>1. /\ n \in Nat /\ b \in Seq(Order)
      /\ \A i \in 1..n : b[i] \in Order /\ b[i].amount > 0
      /\ \A i, j \in 1..n : i < j => Ahead(t, b[i], b[j])
  BY DEF Ranked
<1>2. Matched(t, out) = f[n]
  BY DEF Matched, Courses, CourseStep
<1>3. Courses(t, out, f, n)
  BY <1>1, CourseExists
<1>4. /\ f[0] = [over |-> FALSE, left |-> out, count |-> 0, orders |-> <<>>]
      /\ \A i \in 1..n : f[i] = Meet(f[i - 1], t, b[i])
  <2> HIDE DEF f
  <2>1. \A i \in 0..n : f[i] = CourseStep(t, out, f, i)
    BY <1>3 DEF Courses
  <2>2. f[0] = CourseStep(t, out, f, 0) /\ \A i \in 1..n : f[i] = CourseStep(t, out, f, i)
    <3>1. 0 \in 0..n /\ \A i \in 1..n : i \in 0..n
      BY ONLY <1>1
    <3> QED  BY ONLY <2>1, <3>1
  <2>3. f[0] = [over |-> FALSE, left |-> out, count |-> 0, orders |-> <<>>]
    BY ONLY <2>2, Zenon DEF CourseStep
  <2>4. ASSUME NEW i \in 1..n PROVE f[i] = Meet(f[i - 1], t, b[i])
    <3>1. i # 0
      BY ONLY <1>1
    <3> QED  BY ONLY <2>2, <3>1, Zenon DEF CourseStep
  <2> QED  BY <2>3, <2>4
<1> HIDE DEF f
<1>5. 0 \in T
  <2>1. f[0] \in Course /\ f[0].left = out /\ f[0].orders = <<>>
    BY <1>4 DEF Course
  <2>2. Ranked(t, <<>>)
    BY DEF Ranked
  <2>3. Prefix(0) = {} /\ ToSet(<<>>) = {}
    BY DEF ToSet
  <2>4. ClaimsOf(t, {}) = 0
    BY SumEmpty DEF ClaimsOf
  <2>5. Divides => ClaimsOf(t, Prefix(0)) = ClaimsOf(t, ToSet(f[0].orders)) + out - f[0].left
    <3>1. ClaimsOf(t, Prefix(0)) = 0 /\ ClaimsOf(t, ToSet(f[0].orders)) = 0
      BY <2>1, <2>3, <2>4
    <3> HIDE DEF Prefix
    <3> QED  BY <2>1, <3>1
  <2>6. Good(0)
    <3> HIDE DEF Prefix
    <3>1. f[0].left <= out /\ Ranked(t, f[0].orders) /\ 1..Len(f[0].orders) = {}
      BY <2>1, <2>2
    <3> QED  BY <2>1, <2>5, <3>1
  <2> HIDE DEF Good
  <2> QED  BY <2>6
<1>6. ASSUME NEW i \in T PROVE i + 1 \in T
  <2>0. i \in Nat /\ (i <= n => Good(i)) /\ n \in Nat
    <3> HIDE DEF Good
    <3> QED  BY <1>1
  <2> SUFFICES ASSUME i + 1 <= n PROVE Good(i + 1)
    <3> HIDE DEF Good
    <3> QED  BY <2>0
  <2> DEFINE s == f[i]  o == b[i + 1]  m == f[i + 1]
  <2>1. i \in Nat /\ i + 1 \in 1..n /\ Good(i) /\ o \in Order /\ o.amount > 0
    <3> HIDE DEF Good, T
    <3>1. i \in Nat /\ i + 1 \in 1..n /\ Good(i)
      BY ONLY <2>0, i + 1 <= n
    <3> QED  BY ONLY <1>1, <3>1
  <2>2. /\ s \in Course /\ s.left <= out /\ Ranked(t, s.orders)
        /\ \A k \in 1..Len(s.orders) : \E j \in 1..i :
             s.orders[k].id = b[j].id /\ s.orders[k].price = b[j].price
        /\ Divides => ClaimsOf(t, Prefix(i)) = ClaimsOf(t, ToSet(s.orders)) + out - s.left
        /\ s.left \in Nat /\ s.orders \in Seq(Order)
    BY <2>1 DEF Course
  <2>3. m = Meet(s, t, o)
    BY <1>4, <2>1
  <2>4. PICK fill \in Nat, rest \in Order :
          /\ fill <= s.left /\ m.left = s.left - fill
          /\ rest.id = o.id /\ rest.price = o.price
          /\ Divides => Escrow(t, rest) + fill = Escrow(t, o)
          /\ m.orders = IF rest.amount = 0 THEN s.orders ELSE Append(s.orders, rest)
    <3>1. s \in Course /\ o \in Order /\ o.amount > 0 /\ m = Meet(s, t, o) /\ t \in Tokens
      BY <2>1, <2>2, <2>3
    <3> HIDE DEF s, o, m
    <3> QED  BY ONLY <3>1, MeetIs
  <2>5. m \in Course
    BY <2>1, <2>2, <2>3, MeetIs
  <2>6. /\ Prefix(i + 1) = Prefix(i) \cup {o} /\ o \notin Prefix(i)
        /\ Prefix(i) \in SUBSET Order /\ IsFiniteSet(Prefix(i))
    <3>1. \A j \in 1..i + 1 : j = i + 1 \/ j \in 1..i
      BY <2>1
    <3>2. \A j \in 1..i : j \in 1..i + 1 /\ j \in 1..n /\ j < i + 1
      BY <1>1, <2>1
    <3>3. i + 1 \in 1..i + 1 /\ i \in 0..n
      BY <1>1, <2>1
    <3>4. \A j \in 1..i : b[j] # o
      BY <1>1, <2>1, <3>2, AheadOrders
    <3>5. Prefix(i) \in SUBSET Order /\ IsFiniteSet(Prefix(i))
      BY <3>3, RankedFinite
    <3> QED  BY <3>1, <3>2, <3>3, <3>4, <3>5
  <2>7. ClaimsOf(t, Prefix(i + 1)) = ClaimsOf(t, Prefix(i)) + Escrow(t, o)
        /\ ClaimsOf(t, Prefix(i)) \in Int
    BY <2>1, <2>6, ClaimAdds
  <2> HIDE DEF Prefix, T
  <2>8. /\ ToSet(s.orders) \in SUBSET Order /\ IsFiniteSet(ToSet(s.orders))
        /\ ClaimsOf(t, ToSet(s.orders)) \in Int
    BY <2>1, <2>2, RankedFinite, ClaimAdds
  <2>9. Escrow(t, o) \in Nat /\ Escrow(t, rest) \in Nat
    BY <2>1, EscrowTyped
  <2> HIDE DEF s, m, o
  <2>10. m.left <= out /\ m.left \in Nat
    BY <2>2, <2>4
  <2>11. CASE rest.amount = 0
    <3>1. m.orders = s.orders /\ Escrow(t, rest) = 0
      BY <2>4, <2>11, EscrowTyped
    <3>2. Divides => ClaimsOf(t, Prefix(i + 1)) = ClaimsOf(t, ToSet(m.orders)) + out - m.left
      BY <2>2, <2>4, <2>7, <2>8, <2>9, <3>1
    <3>3. \A k \in 1..Len(m.orders) : \E j \in 1..i + 1 :
             m.orders[k].id = b[j].id /\ m.orders[k].price = b[j].price
      <4>1. \A j \in 1..i : j \in 1..i + 1
        BY <2>1
      <4> QED  BY <2>2, <3>1, <4>1
    <3> QED  BY <2>2, <2>5, <2>10, <3>1, <3>2, <3>3 DEF s, m
  <2>12. CASE rest.amount # 0
    <3>1. rest.amount > 0 /\ m.orders = Append(s.orders, rest)
      BY <2>4, <2>12, OrderTyped
    <3>2. ASSUME NEW k \in 1..Len(s.orders) PROVE Ahead(t, s.orders[k], rest)
      <4>1. PICK j \in 1..i : s.orders[k].id = b[j].id /\ s.orders[k].price = b[j].price
        BY <2>2
      <4>2. Ahead(t, b[j], o)
        <5>1. j \in 1..n /\ i + 1 \in 1..n /\ j < i + 1
          BY <1>1, <2>1
        <5> QED  BY <1>1, <5>1 DEF o
      <4> QED  BY <2>4, <4>1, <4>2 DEF Ahead
    <3>3. /\ Ranked(t, m.orders) /\ ToSet(m.orders) = ToSet(s.orders) \cup {rest}
          /\ rest \notin ToSet(s.orders)
      BY <2>2, <3>1, <3>2, Appended
    <3>4. ClaimsOf(t, ToSet(m.orders)) = ClaimsOf(t, ToSet(s.orders)) + Escrow(t, rest)
      BY <2>8, <3>3, ClaimAdds
    <3>5. Divides => ClaimsOf(t, Prefix(i + 1)) = ClaimsOf(t, ToSet(m.orders)) + out - m.left
      BY <2>2, <2>4, <2>7, <2>8, <2>9, <3>4
    <3>6. ASSUME NEW k \in 1..Len(m.orders)
          PROVE  \E j \in 1..i + 1 : m.orders[k].id = b[j].id /\ m.orders[k].price = b[j].price
      <4>1. Len(m.orders) = Len(s.orders) + 1 /\ Len(s.orders) \in Nat
        BY <2>2, <3>1
      <4>2. CASE k = Len(s.orders) + 1
        <5>1. m.orders[k] = rest /\ i + 1 \in 1..i + 1
          BY <2>1, <2>2, <3>1, <4>2
        <5> QED  BY <2>4, <5>1 DEF o
      <4>3. CASE k \in 1..Len(s.orders)
        <5>1. m.orders[k] = s.orders[k] /\ \A j \in 1..i : j \in 1..i + 1
          BY <2>1, <2>2, <3>1, <4>3
        <5> QED  BY <2>2, <4>3, <5>1
      <4> QED  BY <4>1, <4>2, <4>3
    <3> QED  BY <2>5, <2>10, <3>3, <3>5, <3>6 DEF m
  <2> QED  BY <2>11, <2>12
<1>7. T = Nat
  <2>1. T \in SUBSET Nat
    OBVIOUS
  <2> HIDE DEF T
  <2> QED  BY <1>5, <1>6, <2>1, NaturalsByInduction
<1>8. Good(n)
  <2> HIDE DEF Good
  <2> QED  BY <1>1, <1>7
<1>9. Prefix(n) = ToSet(b)
  BY RankedFinite
<1> QED  BY <1>2, <1>8, <1>9

-----------------------------------------------------------------------------
BookInv ==
  /\ BookTypeOK
  /\ \A t \in Tokens : /\ Ranked(t, book[t])
                       /\ \A i \in 1..Len(book[t]) : book[t][i].id < nextOrder
                       /\ Divides => owned[t] = reserve[t] + ClaimsOf(t, ToSet(book[t]))

(* What the invariant says of each variable of the book.                   *)
LEMMA BookFacts ==
  ASSUME BookInv
  PROVE  /\ depth \in Nat /\ limits \in [depth : Depths, tolerance : Tolerances]
         /\ reserve \in [Tokens -> Nat] /\ lpShares \in Nat /\ owned \in [Tokens -> Nat]
         /\ book \in [Tokens -> Seq(Order)] /\ nextOrder \in 1..MaxOrders + 1
         /\ \A t \in Tokens : reserve[t] \in Nat /\ owned[t] \in Nat
         /\ \A t \in Tokens : /\ Ranked(t, book[t])
                              /\ \A i \in 1..Len(book[t]) : book[t][i].id < nextOrder
                              /\ ClaimsOf(t, ToSet(book[t])) \in Int
                              /\ Divides => owned[t] = reserve[t] + ClaimsOf(t, ToSet(book[t]))
<1>1. \A t \in Tokens : ClaimsOf(t, ToSet(book[t])) \in Int
  <2> SUFFICES ASSUME NEW t \in Tokens PROVE ClaimsOf(t, ToSet(book[t])) \in Int
    OBVIOUS
  <2>1. Ranked(t, book[t])
    BY DEF BookInv
  <2>2. ToSet(book[t]) \in SUBSET Order /\ IsFiniteSet(ToSet(book[t]))
    BY <2>1, RankedFinite
  <2>3. CASE ToSet(book[t]) = {}
    BY <2>3, SumEmpty DEF ClaimsOf
  <2>4. CASE ToSet(book[t]) # {}
    <3>1. \E o \in Order : TRUE
      BY <2>2, <2>4
    <3> QED  BY <2>2, <3>1, ClaimAdds
  <2> QED  BY <2>3, <2>4
<1> QED  BY <1>1 DEF BookInv, BookTypeOK

\* A call that leaves the orders alone and moves as much into the reserves, or
\* out of them, as the contract gets or gives.
LEMMA ReservesMove ==
  ASSUME BookInv, NEW x \in [Tokens -> Int],
         \A t \in Tokens : owned[t] + x[t] \in Nat /\ reserve[t] + x[t] \in Nat,
         owned' = [t \in Tokens |-> owned[t] + x[t]],
         reserve' = [t \in Tokens |-> reserve[t] + x[t]],
         lpShares' \in Nat, UNCHANGED <<depth, limits, book, nextOrder>>
  PROVE  BookInv'
<1>1. /\ owned' \in [Tokens -> Nat] /\ reserve' \in [Tokens -> Nat]
      /\ \A t \in Tokens : owned'[t] = owned[t] + x[t] /\ reserve'[t] = reserve[t] + x[t]
  OBVIOUS
<1>2. BookTypeOK'
  BY <1>1 DEF BookInv, BookTypeOK
<1>3. ASSUME NEW t \in Tokens
      PROVE  /\ Ranked(t, book'[t])
             /\ \A i \in 1..Len(book'[t]) : book'[t][i].id < nextOrder'
             /\ Divides => owned'[t] = reserve'[t] + ClaimsOf(t, ToSet(book'[t]))
  <2>1. Ranked(t, book'[t]) /\ \A i \in 1..Len(book'[t]) : book'[t][i].id < nextOrder'
    BY DEF BookInv
  <2>2. ASSUME Divides PROVE owned'[t] = reserve'[t] + ClaimsOf(t, ToSet(book'[t]))
    <3>1. /\ owned[t] \in Nat /\ reserve[t] \in Nat /\ x[t] \in Int
          /\ ClaimsOf(t, ToSet(book[t])) \in Int
          /\ owned[t] = reserve[t] + ClaimsOf(t, ToSet(book[t]))
      BY <2>2, BookFacts
    <3>2. /\ owned'[t] = owned[t] + x[t] /\ reserve'[t] = reserve[t] + x[t] /\ book' = book
      BY <1>1
    <3> QED  BY <3>1, <3>2
  <2> QED  BY <2>1, <2>2
<1>4. \A t \in Tokens :
        /\ Ranked(t, book[t])'
        /\ \A i \in 1..Len(book'[t]) : book'[t][i].id < nextOrder'
        /\ Divides => owned'[t] = reserve'[t] + ClaimsOf(t, ToSet(book'[t]))
  BY <1>3
<1> QED  BY <1>2, <1>4 DEF BookInv, Divides

(* Liquidity that is deposited is owned by the pool.                       *)
LEMMA DepositKeeps ==
  ASSUME BookInv, NEW a \in Nat \ {0}, NEW b \in Nat \ {0}, DepositPair(a, b)
  PROVE  BookInv'
<1> DEFINE root == CHOOSE r \in 0..a * b : r * r <= a * b /\ a * b < (r + 1) * (r + 1)
           minted == IF lpShares = 0 THEN root
                     ELSE Smaller((a * lpShares) \div reserve["A"],
                                  (b * lpShares) \div reserve["B"])
           brought == [t \in Tokens |-> IF t = "A" THEN a ELSE b]
<1>0. lpShares \in Nat /\ reserve["A"] \in Nat /\ reserve["B"] \in Nat
  BY BookFacts DEF Tokens
<1>1. /\ lpShares > 0 => reserve["A"] > 0 /\ reserve["B"] > 0
      /\ owned' = [t \in Tokens |-> owned[t] + brought[t]]
      /\ reserve' = [t \in Tokens |-> reserve[t] + brought[t]]
      /\ lpShares' = lpShares + minted
      /\ UNCHANGED <<depth, limits, book, nextOrder>>
  BY DEF DepositPair
<1>2. root \in Nat
  <2>1. a * b \in Nat
    OBVIOUS
  <2>2. root \in 0..a * b
    <3>1. \E r \in 0..a * b : r * r <= a * b /\ a * b < (r + 1) * (r + 1)
      BY <2>1, RootExists
    <3> QED  BY <3>1, Zenon
  <2> QED  BY <2>2
<1> HIDE DEF root
<1>3. minted \in Nat
  <2>1. CASE lpShares = 0
    BY <1>2, <2>1
  <2>2. CASE lpShares # 0
    <3>1. /\ a * lpShares \in Nat /\ b * lpShares \in Nat
          /\ reserve["A"] \in Nat \ {0} /\ reserve["B"] \in Nat \ {0}
      BY <1>0, <1>1, <2>2
    <3>2. /\ (a * lpShares) \div reserve["A"] \in Nat
          /\ (b * lpShares) \div reserve["B"] \in Nat
      BY <3>1, DivNatural
    <3> QED  BY <2>2, <3>2 DEF Smaller
  <2> QED  BY <2>1, <2>2
<1> HIDE DEF minted
<1>4. brought \in [Tokens -> Int] /\ \A t \in Tokens : brought[t] \in Nat
  OBVIOUS
<1> HIDE DEF brought
<1>5. \A t \in Tokens : owned[t] + brought[t] \in Nat /\ reserve[t] + brought[t] \in Nat
  BY <1>4, BookFacts
<1>6. lpShares' \in Nat
  BY <1>0, <1>1, <1>3
<1> QED  BY <1>1, <1>4, <1>5, <1>6, ReservesMove

(* Liquidity that is withdrawn leaves the orders covered.                  *)
LEMMA WithdrawKeeps ==
  ASSUME BookInv, NEW burnt \in Nat, WithdrawPair(burnt)
  PROVE  BookInv'
<1> DEFINE out == [t \in Tokens |-> (burnt * reserve[t]) \div lpShares]
           x == [t \in Tokens |-> - out[t]]
<1>0. /\ burnt \in 1..lpShares /\ lpShares \in Nat \ {0}
      /\ \A t \in Tokens : out[t] <= owned[t]
      /\ owned' = [t \in Tokens |-> owned[t] - out[t]]
      /\ reserve' = [t \in Tokens |-> reserve[t] - out[t]]
      /\ lpShares' = lpShares - burnt
      /\ UNCHANGED <<depth, limits, book, nextOrder>>
  BY BookFacts DEF WithdrawPair
<1>1. ASSUME NEW t \in Tokens PROVE out[t] \in Nat /\ out[t] <= reserve[t]
  <2> DEFINE q == (burnt * reserve[t]) \div lpShares
  <2>1. reserve[t] \in Nat
    BY BookFacts
  <2>2. burnt * reserve[t] \in Nat
    BY <1>0, <2>1
  <2>3. q \in Nat
    BY <1>0, <2>2, DivNatural
  <2>4. q \in 0..q
    <3> HIDE DEF q
    <3> QED  BY <2>3
  <2>5. q <= reserve[t]
    BY <1>0, <2>1, <2>4, ShareOfReserve
  <2> QED  BY <2>3, <2>5
<1> HIDE DEF out
<1>2. x \in [Tokens -> Int] /\ \A t \in Tokens : x[t] = - out[t]
  BY <1>1
<1> HIDE DEF x
<1>3. \A t \in Tokens : owned[t] + x[t] = owned[t] - out[t] /\ reserve[t] + x[t] = reserve[t] - out[t]
                        /\ owned[t] - out[t] \in Nat /\ reserve[t] - out[t] \in Nat
  BY <1>0, <1>1, <1>2, BookFacts
<1>4. /\ owned' = [t \in Tokens |-> owned[t] + x[t]]
      /\ reserve' = [t \in Tokens |-> reserve[t] + x[t]]
      /\ lpShares' \in Nat
  BY <1>0, <1>3
<1>5. \A t \in Tokens : owned[t] + x[t] \in Nat /\ reserve[t] + x[t] \in Nat
  BY <1>3
<1> QED  BY <1>0, <1>2, <1>4, <1>5, ReservesMove

\* A call that changes the orders that offer t.
LEMMA OrdersMove ==
  ASSUME BookInv, NEW t \in Tokens, NEW u \in Tokens, u # t, NEW orders, Ranked(t, orders),
         book' = [book EXCEPT ![t] = orders],
         nextOrder' \in 1..MaxOrders + 1, nextOrder <= nextOrder',
         \A i \in 1..Len(orders) : orders[i].id < nextOrder',
         depth' \in Nat, UNCHANGED <<limits, lpShares>>,
         owned' \in [Tokens -> Nat], reserve' \in [Tokens -> Nat],
         owned'[u] - owned[u] = reserve'[u] - reserve[u],
         Divides => owned'[t] = reserve'[t] + ClaimsOf(t, ToSet(orders))
  PROVE  BookInv'
<1>0. \A v \in Tokens : v = t \/ v = u
  BY DEF Tokens
<1>1. orders \in Seq(Order)
  BY DEF Ranked
<1>2. book' \in [Tokens -> Seq(Order)] /\ book'[t] = orders /\ book'[u] = book[u]
  BY <1>1, BookFacts
<1>3. BookTypeOK'
  BY <1>2, BookFacts DEF BookTypeOK
<1>4. \A i \in 1..Len(book[u]) : book[u][i].id < nextOrder'
  <2> SUFFICES ASSUME NEW i \in 1..Len(book[u]) PROVE book[u][i].id < nextOrder'
    OBVIOUS
  <2>1. MaxOrders \in Nat /\ nextOrder \in Nat /\ nextOrder' \in Nat /\ nextOrder <= nextOrder'
    BY BookFacts, BookConstants
  <2>2. book[u][i].id < nextOrder
    BY BookFacts
  <2>3. book[u][i].id \in Nat
    <3>1. book[u][i] \in Order
      BY BookFacts
    <3> QED  BY <3>1, OrderTyped
  <2> DEFINE id == book[u][i].id
  <2> HIDE DEF id
  <2>4. id \in Nat /\ id < nextOrder
    BY <2>2, <2>3 DEF id
  <2>5. id < nextOrder'
    BY ONLY <2>1, <2>4
  <2> QED  BY <2>5 DEF id
<1>5. Divides => owned'[u] = reserve'[u] + ClaimsOf(u, ToSet(book[u]))
  <2>1. /\ owned[u] \in Nat /\ reserve[u] \in Nat /\ owned'[u] \in Nat /\ reserve'[u] \in Nat
        /\ ClaimsOf(u, ToSet(book[u])) \in Int
        /\ Divides => owned[u] = reserve[u] + ClaimsOf(u, ToSet(book[u]))
    BY BookFacts
  <2>2. owned'[u] - owned[u] = reserve'[u] - reserve[u]
    OBVIOUS
  <2>3. ASSUME Divides PROVE owned'[u] = reserve'[u] + ClaimsOf(u, ToSet(book[u]))
    <3>1. owned[u] = reserve[u] + ClaimsOf(u, ToSet(book[u]))
      BY <2>1, <2>3
    <3> QED  BY ONLY <2>1, <2>2, <3>1
  <2> QED  BY <2>3
<1>6. \A v \in Tokens :
        /\ Ranked(v, book'[v])
        /\ \A i \in 1..Len(book'[v]) : book'[v][i].id < nextOrder'
        /\ Divides => owned'[v] = reserve'[v] + ClaimsOf(v, ToSet(book'[v]))
  BY <1>0, <1>2, <1>4, <1>5, BookFacts
<1> QED  BY <1>3, <1>6 DEF BookInv, Divides

(* There are two tokens.                                                   *)
LEMMA TheOther ==
  ASSUME NEW t \in Tokens
  PROVE  OtherToken(t) \in Tokens /\ OtherToken(t) # t
BY DEF OtherToken, Tokens

(* An order that is placed brings its escrow and finds its rank.           *)
LEMMA PlaceKeeps ==
  ASSUME BookInv, NEW t \in Tokens, NEW asked \in OrderPrices, NEW amount \in Nat \ {0},
         PlaceOrder(t, asked, amount)
  PROVE  BookInv'
<1> DEFINE o == [id |-> nextOrder, price |-> asked, amount |-> amount]
           u == OtherToken(t)
           orders == InsertOrder(t, book[t], o)
           e == Escrow(t, o)
           s == ToSet(book[t])
<1>0. /\ nextOrder <= MaxOrders /\ owned' = [owned EXCEPT ![t] = @ + e]
      /\ book' = [book EXCEPT ![t] = orders]
      /\ nextOrder' = nextOrder + 1 /\ UNCHANGED <<depth, limits, reserve, lpShares>>
  BY DEF PlaceOrder
<1>1. u \in Tokens /\ u # t
  BY TheOther
<1>2. nextOrder \in Nat /\ nextOrder >= 1 /\ MaxOrders \in Nat
  BY BookFacts, BookConstants
<1>3. o \in Order /\ o.amount > 0 /\ o.id = nextOrder
  BY <1>2 DEF Order
<1>4. /\ Ranked(t, book[t]) /\ owned[t] \in Nat /\ reserve[t] \in Nat
      /\ \A i \in 1..Len(book[t]) : book[t][i].id < o.id
      /\ Divides => owned[t] = reserve[t] + ClaimsOf(t, s)
  BY <1>3, BookFacts
<1> HIDE DEF u, o
<1>5. Ranked(t, orders) /\ ToSet(orders) = s \cup {o} /\ o \notin s
  BY <1>3, <1>4, Inserted
<1>6. s \in SUBSET Order /\ IsFiniteSet(s)
  BY <1>4, RankedFinite
<1>7. e \in Nat
  BY <1>3, EscrowTyped
<1> HIDE DEF orders, s
<1>8. ClaimsOf(t, ToSet(orders)) = ClaimsOf(t, s) + e /\ ClaimsOf(t, s) \in Int
  BY <1>3, <1>5, <1>6, ClaimAdds
<1> HIDE DEF e
<1>9. \A i \in 1..Len(orders) : orders[i].id < nextOrder'
  <2> SUFFICES ASSUME NEW i \in 1..Len(orders) PROVE orders[i].id < nextOrder'
    OBVIOUS
  <2>1. orders[i] \in Order /\ orders[i] \in s \cup {o}
    BY <1>5, RankedFinite DEF Ranked
  <2>2. CASE orders[i] = o
    BY <1>0, <1>2, <1>3, <2>2
  <2>3. CASE orders[i] \in s
    <3>1. \E j \in 1..Len(book[t]) : orders[i] = book[t][j]
      BY <1>4, <2>3, RankedFinite DEF s
    <3>2. orders[i].id < nextOrder /\ orders[i].id \in Nat
      BY <1>3, <1>4, <2>1, <3>1, OrderTyped
    <3> QED  BY <1>0, <1>2, <3>2
  <2> QED  BY <2>1, <2>2, <2>3
<1>10. /\ owned \in [Tokens -> Nat] /\ reserve \in [Tokens -> Nat] /\ depth \in Nat
  BY BookFacts
<1>11. /\ owned' \in [Tokens -> Nat] /\ reserve' \in [Tokens -> Nat] /\ depth' \in Nat
       /\ owned'[t] = owned[t] + e /\ owned'[u] = owned[u] /\ reserve' = reserve
       /\ owned'[u] - owned[u] = reserve'[u] - reserve[u]
  BY <1>0, <1>1, <1>4, <1>7, <1>10
<1>12. Divides => owned'[t] = reserve'[t] + ClaimsOf(t, ToSet(orders))
  BY <1>4, <1>7, <1>8, <1>11
<1>13. nextOrder' \in 1..MaxOrders + 1 /\ nextOrder <= nextOrder' /\ UNCHANGED <<limits, lpShares>>
  BY <1>0, <1>2
<1> QED  BY <1>0, <1>1, <1>5, <1>9, <1>11, <1>12, <1>13, OrdersMove

(* An order that is cancelled takes its escrow and no other's.             *)
LEMMA CancelKeeps ==
  ASSUME BookInv, NEW t \in Tokens, NEW i \in 1..Len(book[t]), CancelOrder(t, i)
  PROVE  BookInv'
<1> DEFINE b == book[t]
           o == b[i]
           u == OtherToken(t)
           orders == RemoveAt(b, i)
           e == Escrow(t, o)
           s == ToSet(b)
<1>0. /\ e <= owned[t] /\ owned' = [owned EXCEPT ![t] = @ - e]
      /\ book' = [book EXCEPT ![t] = orders]
      /\ UNCHANGED <<depth, limits, reserve, lpShares, nextOrder>>
  BY DEF CancelOrder
<1>1. u \in Tokens /\ u # t
  BY TheOther
<1>2. nextOrder \in 1..MaxOrders + 1 /\ nextOrder \in Nat
  BY BookFacts
<1>3. /\ Ranked(t, b) /\ owned[t] \in Nat /\ reserve[t] \in Nat
      /\ \A j \in 1..Len(b) : b[j].id < nextOrder
      /\ Divides => owned[t] = reserve[t] + ClaimsOf(t, s)
  BY BookFacts
<1> HIDE DEF u
<1>4. o \in Order
  BY <1>3 DEF Ranked
<1>5. Ranked(t, orders) /\ ToSet(orders) = s \ {o} /\ o \in s
  BY <1>3, Removed
<1>6. s \in SUBSET Order /\ IsFiniteSet(s) /\ s \ {o} \in SUBSET Order /\ IsFiniteSet(s \ {o})
  <2>1. s \in SUBSET Order /\ IsFiniteSet(s)
    BY <1>3, RankedFinite
  <2> QED  BY <2>1, FS_Subset
<1>7. e \in Nat
  BY <1>4, EscrowTyped
<1>8. \A j \in 1..Len(orders) : orders[j].id < nextOrder
  <2> SUFFICES ASSUME NEW j \in 1..Len(orders) PROVE orders[j].id < nextOrder
    OBVIOUS
  <2>1. orders[j] \in s
    BY <1>5, RankedFinite
  <2>2. \E k \in 1..Len(b) : orders[j] = b[k]
    BY <1>3, <2>1, RankedFinite
  <2> QED  BY <1>3, <2>2
<1> HIDE DEF orders, s, o, b
<1>9. ClaimsOf(t, s) = ClaimsOf(t, ToSet(orders)) + e /\ ClaimsOf(t, ToSet(orders)) \in Int
  <2>1. (s \ {o}) \cup {o} = s /\ o \notin s \ {o}
    BY <1>5
  <2>2. ClaimsOf(t, (s \ {o}) \cup {o}) = ClaimsOf(t, s \ {o}) + Escrow(t, o)
        /\ ClaimsOf(t, s \ {o}) \in Int
    BY <1>4, <1>6, <2>1, ClaimAdds
  <2> QED  BY <1>5, <2>1, <2>2
<1> HIDE DEF e
<1>10. /\ owned \in [Tokens -> Nat] /\ reserve \in [Tokens -> Nat] /\ depth \in Nat
  BY BookFacts
<1>11. /\ owned' \in [Tokens -> Nat] /\ reserve' \in [Tokens -> Nat] /\ depth' \in Nat
       /\ owned'[t] = owned[t] - e /\ owned'[u] = owned[u] /\ reserve' = reserve
       /\ owned'[u] - owned[u] = reserve'[u] - reserve[u]
  BY <1>0, <1>1, <1>3, <1>7, <1>10
<1>12. Divides => owned'[t] = reserve'[t] + ClaimsOf(t, ToSet(orders))
  BY <1>3, <1>7, <1>9, <1>11
<1>13. /\ nextOrder' \in 1..MaxOrders + 1 /\ nextOrder <= nextOrder' /\ nextOrder' = nextOrder
       /\ UNCHANGED <<limits, lpShares>>
  BY <1>0, <1>2
<1> QED  BY <1>0, <1>1, <1>5, <1>8, <1>11, <1>12, <1>13, OrdersMove

(* The pool's part of a swap costs a natural.                              *)
LEMMA InputTyped ==
  ASSUME BookInv, NEW t \in Tokens, NEW out \in Nat, out < reserve[t]
  PROVE  PoolInput(t, out) \in Nat
<1> DEFINE in == reserve[OtherToken(t)]
           owed == in * out * Points
           per == (reserve[t] - out) * (Points - LpCharge)
<1>1. /\ in \in Nat /\ reserve[t] - out \in Nat \ {0}
      /\ Points \in Nat /\ Points - LpCharge \in Nat \ {0}
  BY TheOther, BookFacts, BookConstants
<1>2. owed \in Nat /\ per \in Nat \ {0}
  BY <1>1
<1>3. PoolInput(t, out) = owed \div per + 1
  BY DEF PoolInput
<1> HIDE DEF owed, per
<1>4. owed \div per \in Nat
  BY <1>2, DivNatural
<1> QED  BY <1>3, <1>4

(* A swap through book and pool leaves the orders that remain covered.     *)
LEMMA SwapKeeps ==
  ASSUME BookInv, NEW t \in Tokens, NEW out \in Nat, SwapFor(t, out)
  PROVE  BookInv'
<1> DEFINE b == book[t]
           m == Matched(t, out)
           u == OtherToken(t)
           in == IF m.left > 0 THEN PoolInput(t, m.left) ELSE 0
<1>0. /\ m.left > 0 => m.left < reserve[t]
      /\ out <= owned[t]
      /\ book' = [book EXCEPT ![t] = m.orders]
      /\ depth' = depth + m.count
      /\ reserve' = [reserve EXCEPT ![t] = @ - m.left, ![u] = @ + in]
      /\ owned' = [owned EXCEPT ![t] = @ - out, ![u] = @ + in]
      /\ UNCHANGED <<limits, lpShares, nextOrder>>
  BY DEF SwapFor
<1>1. u \in Tokens /\ u # t
  BY TheOther
<1>2. /\ nextOrder \in 1..MaxOrders + 1 /\ nextOrder \in Nat
      /\ owned \in [Tokens -> Nat] /\ reserve \in [Tokens -> Nat] /\ depth \in Nat
  BY BookFacts
<1>3. /\ Ranked(t, b) /\ owned[t] \in Nat /\ reserve[t] \in Nat
      /\ owned[u] \in Nat /\ reserve[u] \in Nat
      /\ \A j \in 1..Len(b) : b[j].id < nextOrder
      /\ Divides => owned[t] = reserve[t] + ClaimsOf(t, ToSet(b))
      /\ ClaimsOf(t, ToSet(b)) \in Int
  BY <1>1, BookFacts
<1>4. /\ m \in Course /\ m.left <= out /\ Ranked(t, m.orders)
      /\ \A k \in 1..Len(m.orders) : \E j \in 1..Len(b) : m.orders[k].id = b[j].id
      /\ Divides => ClaimsOf(t, ToSet(b)) = ClaimsOf(t, ToSet(m.orders)) + out - m.left
  BY <1>3, MatchedIs
<1> HIDE DEF u, m
<1>5. m.left \in Nat /\ m.count \in Nat
  BY <1>4 DEF Course
<1>6. in \in Nat
  BY <1>0, <1>5, InputTyped
<1> HIDE DEF in
<1>7. /\ reserve' \in [Tokens -> Nat] /\ reserve'[t] = reserve[t] - m.left
      /\ reserve'[u] = reserve[u] + in
      /\ owned' \in [Tokens -> Nat] /\ owned'[t] = owned[t] - out
      /\ owned'[u] = owned[u] + in
  <2>1. reserve[t] - m.left \in Nat /\ owned[t] - out \in Nat
        /\ reserve[u] + in \in Nat /\ owned[u] + in \in Nat
    <3>1. m.left <= reserve[t] /\ out <= owned[t]
      <4>1. m.left > 0 => m.left < reserve[t]
        BY <1>0
      <4>2. reserve[t] >= 0
        BY ONLY <1>3
      <4> QED  BY ONLY <1>3, <1>5, <4>1, <4>2, <1>0
    <3>2. reserve[t] - m.left \in Nat
      BY ONLY <1>3, <1>5, <3>1
    <3>3. owned[t] - out \in Nat
      BY ONLY <1>3, <3>1, out \in Nat
    <3> QED  BY ONLY <1>3, <1>6, <3>2, <3>3
  <2> QED  BY <1>0, <1>1, <1>2, <2>1
<1>8. owned'[u] - owned[u] = reserve'[u] - reserve[u]
  BY <1>3, <1>6, <1>7
<1>9. Divides => owned'[t] = reserve'[t] + ClaimsOf(t, ToSet(m.orders))
  <2>1. ClaimsOf(t, ToSet(m.orders)) \in Int
    <3>1. ToSet(m.orders) \in SUBSET Order /\ IsFiniteSet(ToSet(m.orders))
      BY <1>4, RankedFinite
    <3>2. CASE ToSet(m.orders) = {}
      BY <3>2, SumEmpty DEF ClaimsOf
    <3>3. CASE ToSet(m.orders) # {}
      <4>1. \E o \in Order : TRUE
        BY <3>1, <3>3
      <4> QED  BY <3>1, <4>1, ClaimAdds
    <3> QED  BY <3>2, <3>3
  <2>2. ASSUME Divides PROVE owned'[t] = reserve'[t] + ClaimsOf(t, ToSet(m.orders))
    <3>1. owned[t] = reserve[t] + ClaimsOf(t, ToSet(b))
      BY <1>3, <2>2
    <3>2. ClaimsOf(t, ToSet(b)) = ClaimsOf(t, ToSet(m.orders)) + out - m.left
      BY <1>4, <2>2
    <3>3. /\ owned'[t] = owned[t] - out /\ reserve'[t] = reserve[t] - m.left
          /\ owned[t] \in Int /\ reserve[t] \in Int /\ m.left \in Int /\ out \in Int
      BY <1>3, <1>5, <1>7
    <3> QED  BY ONLY <2>1, <3>1, <3>2, <3>3
  <2> QED  BY <2>2
<1>10. \A k \in 1..Len(m.orders) : m.orders[k].id < nextOrder'
  BY <1>0, <1>3, <1>4
<1>11. /\ depth' \in Nat /\ nextOrder' \in 1..MaxOrders + 1 /\ nextOrder <= nextOrder'
       /\ UNCHANGED <<limits, lpShares>>
  BY <1>0, <1>2, <1>5
<1> QED  BY <1>0, <1>1, <1>4, <1>7, <1>8, <1>9, <1>10, <1>11, OrdersMove

(* The book as it is deployed.                                             *)
LEMMA BookStart == BookInit => BookInv
<1> SUFFICES ASSUME BookInit PROVE BookInv
  OBVIOUS
<1>1. BookTypeOK
  BY BookConstants DEF BookInit, BookTypeOK
<1>2. ASSUME NEW t \in Tokens
      PROVE  /\ Ranked(t, book[t]) /\ \A i \in 1..Len(book[t]) : book[t][i].id < nextOrder
             /\ owned[t] = reserve[t] + ClaimsOf(t, ToSet(book[t]))
  <2>1. book[t] = << >> /\ owned[t] = 0 /\ reserve[t] = 0
    BY DEF BookInit
  <2>2. Ranked(t, << >>) /\ ToSet(<< >>) = {}
    BY DEF Ranked, ToSet
  <2>3. ClaimsOf(t, {}) = 0
    BY SumEmpty DEF ClaimsOf
  <2>4. Ranked(t, book[t]) /\ ToSet(book[t]) = {} /\ 1..Len(book[t]) = {}
    BY ONLY <2>1, <2>2
  <2>5. ClaimsOf(t, ToSet(book[t])) = 0
    BY ONLY <2>3, <2>4
  <2> QED  BY ONLY <2>1, <2>4, <2>5
<1> QED  BY <1>1, <1>2 DEF BookInv

(* Every step of the book keeps the invariant.                             *)
LEMMA BookKeeps == BookInv /\ [BookNext]_bookVars => BookInv'
<1> SUFFICES ASSUME BookInv, [BookNext]_bookVars PROVE BookInv'
  OBVIOUS
<1>0. MaxHeld \in Nat
  BY BookConstants
<1>1. CASE \/ DepthRenewed \/ UNCHANGED bookVars
           \/ \E g \in [depth : Depths, tolerance : Tolerances] : SetGuards(g)
  <2>1. /\ depth' \in Nat /\ limits' \in [depth : Depths, tolerance : Tolerances]
        /\ UNCHANGED <<reserve, lpShares, book, nextOrder, owned>>
    BY <1>1, BookFacts DEF DepthRenewed, SetGuards, bookVars
  <2>2. BookTypeOK'
    BY <2>1 DEF BookInv, BookTypeOK
  <2> QED  BY <2>1, <2>2 DEF BookInv, Divides
<1>2. ASSUME NEW a \in 1..MaxHeld, NEW b \in 1..MaxHeld, DepositPair(a, b)
      PROVE  BookInv'
  <2>1. a \in Nat \ {0} /\ b \in Nat \ {0}
    BY <1>0
  <2> QED  BY <1>2, <2>1, DepositKeeps
<1>3. ASSUME NEW a \in 1..MaxHeld, NEW t \in Tokens,
             WithdrawPair(a) \/ SwapFor(t, a) \/ \E asked \in OrderPrices : PlaceOrder(t, asked, a)
      PROVE  BookInv'
  <2>1. a \in Nat \ {0} /\ a \in Nat
    BY <1>0
  <2> QED  BY <1>3, <2>1, WithdrawKeeps, SwapKeeps, PlaceKeeps
<1>4. ASSUME NEW t \in Tokens, NEW i \in 1..Len(book[t]), CancelOrder(t, i)
      PROVE  BookInv'
  BY <1>4, CancelKeeps
<1>5. "A" \in Tokens
  BY DEF Tokens
<1> QED  BY <1>1, <1>2, <1>3, <1>4, <1>5 DEF BookNext

(* At any prices, and whatever is placed, filled in part or cancelled: no   *)
(* reserve, no share and no token held is ever overdrawn, each book is      *)
(* ranked by price and then by arrival, and no order that is used up is in  *)
(* it (hybrid_amm_lob, deposit to swap).                                    *)
THEOREM BookStaysRanked ==
  BookSpec => [](BookTypeOK /\ \A t \in Tokens : Ranked(t, book[t]))
<1>1. BookInv => BookTypeOK /\ \A t \in Tokens : Ranked(t, book[t])
  <2> SUFFICES ASSUME BookInv PROVE \A t \in Tokens : Ranked(t, book[t])
    BY DEF BookInv
  <2> QED  BY BookFacts
<1> QED  BY <1>1, BookStart, BookKeeps, PTL DEF BookSpec

\* At prices that divide the scale (at others it is false: see PoolUntouched), for
\* any fees, limits and number of orders: what the contract owns is the reserves
\* and the escrow of the orders, and of two orders the one that is met first is
\* the better or the older one.
THEOREM OrdersAreCovered ==
  ASSUME \A asked \in OrderPrices : Scale % asked = 0
  PROVE  BookSpec => []BookSound
<1>1. BookInv => BookSound
  <2> SUFFICES ASSUME BookInv, NEW t \in Tokens
               PROVE  /\ owned[t] = reserve[t] + InEscrow(t)
                      /\ \A i, j \in 1..Len(book[t]) : i < j =>
                           \/ Better(t, book[t][i].price, book[t][j].price)
                           \/ book[t][i].price = book[t][j].price /\ book[t][i].id < book[t][j].id
                      /\ \A i \in 1..Len(book[t]) : book[t][i].amount > 0
    BY DEF BookSound
  <2> DEFINE s == ToSet(book[t])  f == [o \in s |-> Escrow(t, o)]
  <2>1. Ranked(t, book[t]) /\ owned[t] = reserve[t] + ClaimsOf(t, s)
    BY BookFacts DEF Divides
  <2>2. s \in SUBSET Order /\ IsFiniteSet(s)
    BY <2>1, RankedFinite
  <2>3. IntegersOn(f, s) /\ \A o \in s : f[o] = ClaimOf(t)[o]
    BY <2>2, EscrowTyped DEF IntegersOn, ClaimOf
  <2>4. InEscrow(t) = SumFunctionOnSet(f, s)
    BY DEF InEscrow, SumFunction, SumFunctionOnSet, FoldFunction
  <2> HIDE DEF f, s
  <2>5. SumFunctionOnSet(f, s) = ClaimsOf(t, s)
    BY <2>2, <2>3, SumAgree DEF ClaimsOf
  <2> QED  BY <2>1, <2>4, <2>5 DEF Ranked, Ahead
<1> QED  BY <1>1, BookStart, BookKeeps, PTL DEF BookSpec
=============================================================================
