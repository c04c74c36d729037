---------------------------- MODULE LedgerProofs ----------------------------
(***************************************************************************)
(* Proofs about the contracts that keep accounts over time, StakingRewards  *)
(* and Cdp, and about all ten contracts together: what each of them books is*)
(* what it holds.                                                           *)
(***************************************************************************)
EXTENDS MCContracts, ContractProofs, PoolProofs

-----------------------------------------------------------------------------
(* The stakes                                                              *)

(* A power of two is positive.                                             *)
LEMMA PowerPositive == ASSUME NEW n \in Nat PROVE 2 ^ n \in Nat \ {0}
<1>1. IsFiniteSet(1..n) /\ Cardinality(1..n) = n
  BY FS_Interval
<1>2. IsFiniteSet(SUBSET (1..n)) /\ Cardinality(SUBSET (1..n)) = 2 ^ n
  BY <1>1, FS_SUBSET
<1>3. SUBSET (1..n) # {}
  OBVIOUS
<1> QED  BY <1>2, <1>3, FS_CardinalityType, FS_EmptySet

(* The next power is twice as much (both count the subsets of a set).      *)
LEMMA PowerDoubles == ASSUME NEW n \in Nat PROVE 2 ^ (n + 1) = 2 * 2 ^ n
<1> DEFINE S == 1..n  T == 1..(n + 1)
           with == {s \in SUBSET T : n + 1 \in s}
           f == [s \in SUBSET S |-> s \cup {n + 1}]
<1>1. /\ IsFiniteSet(SUBSET S) /\ Cardinality(SUBSET S) = 2 ^ n
      /\ IsFiniteSet(SUBSET T) /\ Cardinality(SUBSET T) = 2 ^ (n + 1)
  <2>1. IsFiniteSet(S) /\ Cardinality(S) = n /\ IsFiniteSet(T) /\ Cardinality(T) = n + 1
    BY FS_Interval
  <2> QED  BY <2>1, FS_SUBSET
<1>2. f \in Bijection(SUBSET S, with)
  <2>1. \A s \in SUBSET S : f[s] \in with /\ n + 1 \notin s
    OBVIOUS
  <2>2. ASSUME NEW s \in SUBSET S, NEW t \in SUBSET S, f[s] = f[t] PROVE s = t
    <3>1. s \cup {n + 1} = t \cup {n + 1} /\ n + 1 \notin s /\ n + 1 \notin t
      BY <2>1, <2>2
    <3> QED  BY <3>1
  <2>3. ASSUME NEW t \in with PROVE \E s \in SUBSET S : f[s] = t
    <3>1. t \ {n + 1} \in SUBSET S /\ f[t \ {n + 1}] = t
      OBVIOUS
    <3> QED  BY <3>1
  <2> HIDE DEF with, f
  <2>4. f \in [SUBSET S -> with]
    BY <2>1 DEF f
  <2>5. f \in Surjection(SUBSET S, with)
    BY <2>3, <2>4 DEF Surjection
  <2>6. f \in Injection(SUBSET S, with)
    BY <2>2, <2>4 DEF Injection, IsInjective
  <2> QED  BY <2>5, <2>6 DEF Bijection
<1>3. IsFiniteSet(with) /\ Cardinality(with) = 2 ^ n
  <2> HIDE DEF f, with
  <2>1. ExistsBijection(SUBSET S, with)
    BY <1>2 DEF ExistsBijection
  <2> QED  BY <1>1, <2>1, FS_Bijection
<1>4. SUBSET T = (SUBSET S) \cup with /\ (SUBSET S) \cap with = {}
  <2>1. ASSUME NEW t \in SUBSET T, n + 1 \notin t PROVE t \in SUBSET S
    BY <2>1
  <2>2. \A s \in SUBSET S : s \in SUBSET T /\ n + 1 \notin s
    OBVIOUS
  <2> QED  BY <2>1, <2>2
<1>5. 2 ^ (n + 1) = 2 ^ n + 2 ^ n - 0
  <2> HIDE DEF S, T, with
  <2>1. Cardinality((SUBSET S) \cup with)
          = Cardinality(SUBSET S) + Cardinality(with) - Cardinality((SUBSET S) \cap with)
    BY <1>1, <1>3, FS_Union
  <2> QED  BY <1>1, <1>3, <1>4, <2>1, FS_EmptySet
<1> QED  BY <1>5, PowerPositive

(* Exponents add.                                                          *)
LEMMA PowerAdds ==
  ASSUME NEW a \in Nat, NEW b \in Nat
  PROVE  2 ^ (a + b) = 2 ^ a * 2 ^ b
<1> DEFINE T == {n \in Nat : 2 ^ (a + n) = 2 ^ a * 2 ^ n}
<1>1. 0 \in T
  <2>1. a + 0 = a /\ 2 ^ 0 = 1 /\ 2 ^ a \in Nat
    BY PowerPositive
  <2> QED  BY <2>1
<1>2. ASSUME NEW n \in T PROVE n + 1 \in T
  <2>1. a + n \in Nat /\ a + (n + 1) = (a + n) + 1
    OBVIOUS
  <2>2. 2 ^ (a + (n + 1)) = 2 * 2 ^ (a + n) /\ 2 ^ (n + 1) = 2 * 2 ^ n
    BY <2>1, PowerDoubles
  <2>3. 2 ^ (a + n) = 2 ^ a * 2 ^ n /\ 2 ^ a \in Nat /\ 2 ^ n \in Nat
    BY PowerPositive
  <2>4. ASSUME NEW x \in Nat, NEW y \in Nat PROVE 2 * (x * y) = x * (2 * y)
    OBVIOUS
  <2> QED  BY <2>2, <2>3, <2>4
<1>3. T = Nat
  <2> HIDE DEF T
  <2>1. T \in SUBSET Nat
    BY DEF T
  <2> QED  BY <1>1, <1>2, <2>1, NaturalsByInduction
<1> QED  BY <1>3

-----------------------------------------------------------------------------
\* fixed_pow_int: rates are never negative.
LEMMA RateTyped == EpochRate \in [Nat -> Nat]
<1> DEFINE Rated(g, n) == IF n = 0 THEN InitialRate ELSE g[n - 1] \div Decay
           Upto(g, n) == g = [i \in 0..n |-> Rated(g, i)]
           T == {n \in Nat : \E g : Upto(g, n) /\ g \in [0..n -> Nat]}
           U(n) == {i \in Nat : i <= n}
<1>0. InitialRate \in Nat /\ Decay \in Nat \ {0}
  BY StakingAssumption
<1>1. 0 \in T
  <2> DEFINE g == [i \in 0..0 |-> InitialRate]
  <2>1. Upto(g, 0) /\ g \in [0..0 -> Nat]
    BY <1>0
  <2> QED  BY <2>1
<1>2. ASSUME NEW n \in T PROVE n + 1 \in T
  <2>1. PICK g : Upto(g, n) /\ g \in [0..n -> Nat]
    OBVIOUS
  <2> DEFINE h == [i \in 0..(n + 1) |-> Rated(g, i)]
  <2>2. ASSUME NEW i \in 0..(n + 1) PROVE Rated(g, i) \in Nat
    <3>1. CASE i = 0
      BY <1>0, <3>1
    <3>2. CASE i # 0
      <4>1. i - 1 \in 0..n /\ g \in [0..n -> Nat]
        BY <2>1, <3>2
      <4>2. g[i - 1] \in Nat
        BY <4>1
      <4>3. g[i - 1] \div Decay \in Nat
        BY <1>0, <4>2, DivNatural
      <4> QED  BY <3>2, <4>3
    <3> QED  BY <3>1, <3>2
  <2>3. \A i \in 0..n : h[i] = g[i]
    BY <2>1
  <2>4. ASSUME NEW i \in 0..(n + 1) PROVE Rated(h, i) = Rated(g, i)
    <3>1. i # 0 => i - 1 \in 0..n
      OBVIOUS
    <3> HIDE DEF h
    <3> QED  BY <2>3, <3>1
  <2>5. Upto(h, n + 1) /\ h \in [0..(n + 1) -> Nat]
    BY <2>2, <2>4
  <2> HIDE DEF h, Upto
  <2> QED  BY <2>5
<1>3. T = Nat
  <2> HIDE DEF T
  <2>1. T \in SUBSET Nat
    BY DEF T
  <2> QED  BY <1>1, <1>2, <2>1, NaturalsByInduction
<1> DEFINE G(n) == CHOOSE g : Upto(g, n) /\ g \in [0..n -> Nat]
<1>4. \A n \in Nat : Upto(G(n), n) /\ G(n) \in [0..n -> Nat]
  BY <1>3
<1> HIDE DEF G
<1> DEFINE r == [n \in Nat |-> G(n)[n]]
<1>5. ASSUME NEW n \in Nat, n # 0 PROVE G(n)[n - 1] = G(n - 1)[n - 1]
  <2> DEFINE m == n - 1
             V == {i \in Nat : i <= m => G(n)[i] = G(m)[i]}
  <2>0. m \in Nat /\ m <= n
    BY <1>5
  <2> HIDE DEF m
  <2>1. Upto(G(n), n) /\ Upto(G(m), m)
    BY <1>4, <2>0
  <2>2. \A i \in 0..m : G(n)[i] = Rated(G(n), i) /\ G(m)[i] = Rated(G(m), i)
    BY <2>0, <2>1
  <2>3. 0 \in V
    BY <2>2, <2>0
  <2>4. ASSUME NEW i \in V PROVE i + 1 \in V
    BY <2>2, <2>0
  <2>5. V = Nat
    <3> HIDE DEF V
    <3>1. V \in SUBSET Nat
      BY DEF V
    <3> QED  BY <2>3, <2>4, <3>1, NaturalsByInduction
  <2> QED  BY <2>0, <2>5 DEF m
<1>6. r = [n \in Nat |-> Rated(r, n)] /\ r \in [Nat -> Nat]
  <2>1. ASSUME NEW n \in Nat PROVE r[n] = Rated(r, n) /\ r[n] \in Nat
    <3>1. G(n)[n] = Rated(G(n), n) /\ G(n)[n] \in Nat
      BY <1>4
    <3> QED  BY <1>5, <3>1
  <2> QED  BY <2>1
<1>7. EpochRate = [n \in Nat |-> Rated(EpochRate, n)]
  <2>1. EpochRate = CHOOSE g : g = [n \in Nat |-> Rated(g, n)]
    BY DEF EpochRate
  <2>2. \E g : g = [n \in Nat |-> Rated(g, n)]
    <3> HIDE DEF r
    <3> QED  BY <1>6
  <2> HIDE DEF Rated
  <2> QED  BY <2>1, <2>2, Zenon
<1>8. \A n \in Nat : EpochRate[n] \in Nat
  <2> DEFINE V == {n \in Nat : EpochRate[n] \in Nat}
  <2>1. 0 \in V
    BY <1>0, <1>7
  <2>2. ASSUME NEW n \in V PROVE n + 1 \in V
    <3>1. EpochRate[n + 1] = EpochRate[n] \div Decay
      BY <1>7
    <3> QED  BY <1>0, <3>1, DivNatural
  <2>3. V = Nat
    <3> HIDE DEF V
    <3>1. V \in SUBSET Nat
      BY DEF V
    <3> QED  BY <2>1, <2>2, <3>1, NaturalsByInduction
  <2> QED  BY <2>3
<1> QED  BY <1>7, <1>8

-----------------------------------------------------------------------------
\* Epochs are counted from the start; one ledger belongs to one of them.
LEMMA EpochTyped ==
  ASSUME NEW b \in Nat
  PROVE  /\ EpochAt(b) \in Nat
         /\ b >= StartBlock => /\ EpochAt(b) = (b - StartBlock) \div EpochLength
                               /\ StartBlock + EpochAt(b) * EpochLength <= b
                               /\ b < StartBlock + EpochAt(b) * EpochLength + EpochLength
<1>0. StartBlock \in Nat /\ EpochLength \in Nat \ {0}
  BY StakingAssumption
<1>1. CASE b <= StartBlock
  <2>1. 0 \div EpochLength = 0
    BY <1>0
  <2> QED  BY <1>0, <1>1, <2>1 DEF EpochAt
<1>2. CASE b > StartBlock
  <2> DEFINE d == b - StartBlock
  <2>1. d \in Nat /\ EpochAt(b) = d \div EpochLength
    BY <1>0, <1>2 DEF EpochAt
  <2> HIDE DEF d
  <2>2. d \div EpochLength \in Nat
    BY <1>0, <2>1, DivNatural
  <2>3. EpochLength * (d \div EpochLength) <= d
        /\ d < EpochLength * (d \div EpochLength) + EpochLength
    BY <1>0, <2>1, DivFloor
  <2> DEFINE q == d \div EpochLength
  <2>4. q \in Nat /\ EpochLength * q = q * EpochLength
    BY <1>0, <2>2
  <2> HIDE DEF q
  <2> QED  BY <1>0, <2>1, <2>2, <2>3, <2>4 DEF d, q
<1> QED  BY <1>0, <1>1, <1>2

(* The blocks a period has in an epoch are a natural.                      *)
LEMMA OverlapTyped ==
  ASSUME NEW e \in Nat, NEW from \in Nat, NEW to \in Nat
  PROVE  Overlap(e, from, to) \in Nat
<1> DEFINE start == StartBlock + e * EpochLength
<1>0. start \in Nat /\ EpochLength \in Nat \ {0}
  BY StakingAssumption
<1> HIDE DEF start
<1> QED  BY <1>0 DEF Overlap, Later, Earlier, start

\* Where epochs begin and end, in order.
LEMMA EpochsApart ==
  ASSUME NEW e \in Nat, NEW k \in Nat, e < k
  PROVE  e * EpochLength + EpochLength <= k * EpochLength
<1>0. EpochLength \in Nat \ {0} /\ e + 1 <= k
  BY StakingAssumption
<1>1. (e + 1) * EpochLength <= k * EpochLength
  BY <1>0
<1>2. (e + 1) * EpochLength = e * EpochLength + EpochLength
  BY <1>0
<1> QED  BY <1>1, <1>2

\* An epoch outside the span overlaps nothing of it.
LEMMA NoOverlap ==
  ASSUME NEW e \in Nat, NEW from \in Nat, NEW to \in Nat,
         StartBlock <= from, from <= to, e \notin EpochAt(from)..EpochAt(to)
  PROVE  Overlap(e, from, to) = 0
<1> DEFINE start == StartBlock + e * EpochLength
           f == EpochAt(from)  t == EpochAt(to)
           fs == f * EpochLength  ts == t * EpochLength  es == e * EpochLength
<1>0. StartBlock \in Nat /\ EpochLength \in Nat \ {0} /\ es \in Nat
  BY StakingAssumption
<1>1. f \in Nat /\ t \in Nat /\ StartBlock <= to
  <2>1. StartBlock <= to
    BY <1>0
  <2> QED  BY <2>1, EpochTyped
<1>2. StartBlock + fs <= from /\ to < StartBlock + ts + EpochLength
  BY <1>1, EpochTyped
<1>3. fs \in Nat /\ ts \in Nat
  BY <1>0, <1>1
<1>4. CASE e < f
  <2>1. es + EpochLength <= fs
    BY <1>1, <1>4, EpochsApart
  <2> HIDE DEF f, t, fs, ts, es
  <2> QED  BY <1>0, <1>1, <1>2, <1>3, <2>1 DEF Overlap, Later, Earlier, es
<1>5. CASE t < e
  <2>1. ts + EpochLength <= es
    BY <1>1, <1>5, EpochsApart
  <2> HIDE DEF f, t, fs, ts, es
  <2> QED  BY <1>0, <1>1, <1>2, <1>3, <2>1 DEF Overlap, Later, Earlier, es
<1> QED  BY <1>1, <1>4, <1>5

\* One more ledger is one more of its own epoch's.
LEMMA OverlapGrows ==
  ASSUME NEW e \in Nat, NEW from \in Nat, NEW to \in Nat, StartBlock <= from, from <= to
  PROVE  Overlap(e, from, to + 1)
           = Overlap(e, from, to) + (IF e = EpochAt(to) THEN 1 ELSE 0)
<1> DEFINE t == EpochAt(to)  ts == t * EpochLength  es == e * EpochLength
<1>0. StartBlock \in Nat /\ EpochLength \in Nat \ {0} /\ es \in Nat
  BY StakingAssumption
<1>1. t \in Nat /\ StartBlock + ts <= to /\ to < StartBlock + ts + EpochLength
  BY <1>0, EpochTyped
<1>2. ts \in Nat
  BY <1>0, <1>1
<1>3. CASE e = t
  <2>1. es = ts
    BY <1>3
  <2> HIDE DEF t, ts, es
  <2> QED  BY <1>0, <1>1, <1>2, <1>3, <2>1 DEF Overlap, Later, Earlier, es, t
<1>4. CASE e < t
  <2>1. es + EpochLength <= ts
    BY <1>1, <1>4, EpochsApart
  <2> HIDE DEF t, ts, es
  <2> QED  BY <1>0, <1>1, <1>2, <1>4, <2>1 DEF Overlap, Later, Earlier, es, t
<1>5. CASE t < e
  <2>1. ts + EpochLength <= es
    BY <1>1, <1>5, EpochsApart
  <2> HIDE DEF t, ts, es
  <2> QED  BY <1>0, <1>1, <1>2, <1>5, <2>1 DEF Overlap, Later, Earlier, es, t
<1> QED  BY <1>1, <1>3, <1>4, <1>5

\* What each epoch contributes to the exponent, over the first epochs.
OverlapShares(from, to, last) == [e \in 0..last |-> EpochRate[e] * Overlap(e, from, to)]

(* So they are for all the epochs, and in all.                             *)
LEMMA SharesTyped ==
  ASSUME NEW from \in Nat, NEW to \in Nat, NEW last \in Nat
  PROVE  /\ OverlapShares(from, to, last) \in [0..last -> Nat]
         /\ IntegersOn(OverlapShares(from, to, last), 0..last)
         /\ SumFunctionOnSet(OverlapShares(from, to, last), 0..last) \in Nat
<1>1. ASSUME NEW e \in 0..last PROVE EpochRate[e] * Overlap(e, from, to) \in Nat
  <2>1. e \in Nat
    OBVIOUS
  <2>2. EpochRate[e] \in Nat /\ Overlap(e, from, to) \in Nat
    BY <2>1, RateTyped, OverlapTyped
  <2> QED  BY <2>2
<1>2. OverlapShares(from, to, last) \in [0..last -> Nat]
  BY <1>1 DEF OverlapShares
<1>3. IsFiniteSet(0..last)
  BY FS_Interval
<1> QED  BY <1>2, <1>3, SumNatural DEF IntegersOn

(* The multiplier of a period is one power of two, of the shares of all    *)
(* its epochs.                                                             *)
LEMMA MultiplierIs ==
  ASSUME NEW from \in Nat, NEW to \in Nat, StartBlock <= from, from <= to,
         NEW last \in Nat, EpochAt(to) <= last
  PROVE  Multiplier(from, to) = 2 ^ SumFunctionOnSet(OverlapShares(from, to, last), 0..last)
<1> DEFINE f == EpochAt(from)  t == EpochAt(to)  w == OverlapShares(from, to, last)
<1>0. StartBlock \in Nat /\ EpochLength \in Nat \ {0} /\ f \in Nat /\ t \in Nat
  BY StakingAssumption, EpochTyped
<1>1. CASE to <= from
  <2>1. Multiplier(from, to) = 1
    BY <1>0, <1>1 DEF Multiplier, Later
  <2>2. ASSUME NEW e \in 0..last PROVE w[e] = 0
    <3> DEFINE es == e * EpochLength
    <3>1. e \in Nat /\ es \in Nat
      BY <1>0
    <3>2. Overlap(e, from, to) = 0
      <4> HIDE DEF es
      <4> QED  BY <1>0, <1>1, <3>1 DEF Overlap, Later, Earlier, es
    <3>3. EpochRate[e] \in Nat /\ w[e] = EpochRate[e] * Overlap(e, from, to)
      BY <3>1, RateTyped DEF OverlapShares
    <3> QED  BY <3>2, <3>3
  <2>3. SumFunctionOnSet(w, 0..last) = 0
    <3>1. IsFiniteSet(0..last)
      BY FS_Interval
    <3> HIDE DEF w
    <3> QED  BY <2>2, <3>1, SumZero
  <2>4. 2 ^ 0 = 1
    OBVIOUS
  <2> QED  BY <2>1, <2>3, <2>4
<1>2. CASE from < to
  <2> DEFINE p == [e \in f..t |-> EpochRate[e] * Overlap(e, from, to)]
  <2>1. Multiplier(from, to) = 2 ^ SumFunction(p)
    BY <1>0, <1>2 DEF Multiplier, Later
  <2>2. SumFunction(p) = SumFunctionOnSet(p, f..t)
    BY DEF SumFunction, SumFunctionOnSet, FoldFunction
  <2>3. f..t \subseteq 0..last
    BY <1>0
  <2>4. IntegersOn(w, 0..last) /\ IntegersOn(w, f..t)
    <3>1. IntegersOn(w, 0..last)
      BY SharesTyped
    <3>2. IsFiniteSet(f..t)
      BY <1>0, FS_Interval
    <3> HIDE DEF w, f, t
    <3> QED  BY <2>3, <3>1, <3>2 DEF IntegersOn
  <2>5. \A e \in f..t : w[e] = p[e]
    BY <2>3 DEF OverlapShares
  <2>6. SumFunctionOnSet(w, f..t) = SumFunctionOnSet(p, f..t)
    <3> HIDE DEF w, p
    <3> QED  BY <2>4, <2>5, SumAgree
  <2>7. ASSUME NEW e \in 0..last PROVE w[e] = IF e \in f..t THEN w[e] ELSE 0
    <3>1. e \in Nat /\ EpochRate[e] \in Nat
      BY RateTyped
    <3>2. CASE e \notin f..t
      <4>1. Overlap(e, from, to) = 0
        BY <3>1, <3>2, NoOverlap
      <4> QED  BY <3>1, <3>2, <4>1 DEF OverlapShares
    <3> QED  BY <3>2
  <2>8. SumFunctionOnSet(w, 0..last) = SumFunctionOnSet(w, f..t)
    <3> DEFINE S == 0..last  R == f..t
    <3>1. R \subseteq S /\ IntegersOn(w, S)
      BY <2>3, <2>4
    <3>2. \A e \in S : w[e] = IF e \in R THEN w[e] ELSE 0
      BY <2>7
    <3> HIDE DEF w, S, R
    <3>3. SumFunctionOnSet(w, S) = SumFunctionOnSet(w, R)
      BY <3>1, <3>2, SumRestricted
    <3> QED  BY <3>3 DEF S, R
  <2> QED  BY <2>1, <2>2, <2>6, <2>8
<1> QED  BY <1>1, <1>2

(* The multiplier is positive.                                             *)
LEMMA MultiplierTyped ==
  ASSUME NEW from \in Nat, NEW to \in Nat
  PROVE  Multiplier(from, to) \in Nat \ {0}
<1> DEFINE f == Later(from, StartBlock)  t == Later(to, StartBlock)
<1>0. StartBlock \in Nat /\ f \in Nat /\ t \in Nat /\ StartBlock <= f
  BY StakingAssumption DEF Later
<1>1. CASE t <= f
  BY <1>1 DEF Multiplier
<1>2. CASE f < t
  <2>1. Later(f, StartBlock) = f /\ Later(t, StartBlock) = t
    BY <1>0, <1>2 DEF Later
  <2>2. Multiplier(from, to) = Multiplier(f, t)
    <3> HIDE DEF f, t
    <3> QED  BY <2>1 DEF Multiplier, f, t
  <2>3. EpochAt(t) \in Nat
    BY <1>0, EpochTyped
  <2> HIDE DEF f, t
  <2>4. SumFunctionOnSet(OverlapShares(f, t, EpochAt(t)), 0..EpochAt(t)) \in Nat
    BY <1>0, <2>3, SharesTyped
  <2>5. Multiplier(f, t) = 2 ^ SumFunctionOnSet(OverlapShares(f, t, EpochAt(t)), 0..EpochAt(t))
    <3>1. f <= t /\ EpochAt(t) <= EpochAt(t)
      BY <1>0, <1>2, <2>3
    <3> QED  BY <1>0, <2>3, <3>1, MultiplierIs
  <2> QED  BY <2>2, <2>4, <2>5, PowerPositive
<1> QED  BY <1>0, <1>1, <1>2

\* One more ledger multiplies by the factor of that ledger's epoch.
LEMMA MultiplierGrows ==
  ASSUME NEW from \in Nat, NEW to \in Nat, StartBlock <= from, from <= to
  PROVE  /\ EpochRate[(to - StartBlock) \div EpochLength] \in Nat
         /\ Multiplier(from, to + 1)
              = Multiplier(from, to) * 2 ^ EpochRate[(to - StartBlock) \div EpochLength]
<1> DEFINE e == EpochAt(to)  n == EpochAt(to + 1)
<1>0. StartBlock \in Nat /\ StartBlock <= to /\ to + 1 \in Nat /\ from <= to + 1
  BY StakingAssumption
<1>1. e \in Nat /\ n \in Nat /\ e = (to - StartBlock) \div EpochLength
  BY <1>0, EpochTyped
<1>2. e <= n
  <2>1. /\ to + 1 < StartBlock + n * EpochLength + EpochLength
        /\ StartBlock + e * EpochLength <= to
    BY <1>0, EpochTyped
  <2>2. n < e => n * EpochLength + EpochLength <= e * EpochLength
    BY <1>1, EpochsApart
  <2>3. n * EpochLength \in Nat /\ e * EpochLength \in Nat /\ EpochLength \in Nat
    BY <1>1, StakingAssumption
  <2> HIDE DEF n, e
  <2> DEFINE ns == n * EpochLength  es == e * EpochLength
  <2> HIDE DEF ns, es
  <2>4. ~ (n < e)
    BY <1>0, <2>1, <2>2, <2>3 DEF ns, es
  <2> QED  BY <1>1, <2>4
<1> DEFINE S == 0..n  v == OverlapShares(from, to, n)  w == OverlapShares(from, to + 1, n)
<1>3. IntegersOn(v, S) /\ SumFunctionOnSet(v, S) \in Nat /\ w \in [S -> Nat]
  BY <1>0, <1>1, SharesTyped
<1>4. e \in S
  BY <1>1, <1>2
<1>5. EpochRate[e] \in Nat
  BY <1>1, RateTyped
<1>6. \A k \in S : w[k] = v[k] + (IF k = e THEN EpochRate[e] ELSE 0)
  <2> SUFFICES ASSUME NEW k \in S PROVE w[k] = v[k] + (IF k = e THEN EpochRate[e] ELSE 0)
    OBVIOUS
  <2>1. k \in Nat
    BY <1>1
  <2>2. /\ Overlap(k, from, to + 1) = Overlap(k, from, to) + (IF k = e THEN 1 ELSE 0)
        /\ Overlap(k, from, to) \in Nat /\ EpochRate[k] \in Nat
    BY <1>0, <2>1, OverlapGrows, OverlapTyped, RateTyped
  <2>3. /\ w[k] = EpochRate[k] * Overlap(k, from, to + 1)
        /\ v[k] = EpochRate[k] * Overlap(k, from, to)
    BY DEF OverlapShares
  <2> DEFINE o == Overlap(k, from, to)  r == EpochRate[k]
  <2>4. r * (o + 1) = r * o + r
    BY <2>2
  <2> HIDE DEF o, r, e, v, w
  <2> QED  BY <2>2, <2>3, <2>4 DEF o, r
<1>7. SumFunctionOnSet(w, S) = SumFunctionOnSet(v, S) + EpochRate[e]
  <2> HIDE DEF v, w, S, e
  <2>1. v[e] \in Int /\ w[e] = v[e] + EpochRate[e] /\ w[e] \in Int
    BY <1>3, <1>4, <1>5, <1>6 DEF IntegersOn
  <2>2. \A k \in S \ {e} : v[k] = w[k]
    BY <1>3, <1>6 DEF IntegersOn
  <2>3. SumFunctionOnSet(w, S) = SumFunctionOnSet(v, S) + w[e] - v[e]
    BY <1>3, <1>4, <2>1, <2>2, SumUpdate
  <2> QED  BY <1>3, <1>5, <2>1, <2>3
<1>8. /\ Multiplier(from, to) = 2 ^ SumFunctionOnSet(v, S)
      /\ Multiplier(from, to + 1) = 2 ^ SumFunctionOnSet(w, S)
  <2>1. n <= n
    BY <1>1
  <2> HIDE DEF e
  <2> QED  BY <1>0, <1>1, <1>2, <2>1, MultiplierIs DEF e
<1> HIDE DEF v, w, S, e
<1>9. 2 ^ (SumFunctionOnSet(v, S) + EpochRate[e])
        = 2 ^ SumFunctionOnSet(v, S) * 2 ^ EpochRate[e]
  BY <1>3, <1>5, PowerAdds
<1> QED  BY <1>1, <1>5, <1>7, <1>8, <1>9

-----------------------------------------------------------------------------
StakingInv ==
  /\ StakingTypeOK /\ StakesBacked /\ RewardsCompound
  /\ \A u \in Stakers :
       /\ stakerPurse[u] + accounts[u].staked <= StakerCoins
       /\ accounts[u].staked > 0 =>
            accounts[u].last \in StartBlock..Later(height, StartBlock)

\* What the accounts are known to hold, and what their rewards come to.
LEMMA AccountTyped ==
  ASSUME StakingInv, NEW u \in Stakers
  PROVE  /\ accounts[u] \in Account
         /\ accounts[u].staked \in Nat /\ accounts[u].accrued \in Nat
         /\ Pending(u) = earned[u] /\ earned[u] \in Nat
         /\ Later(height, StartBlock) \in Nat
         /\ DOMAIN accounts[u] = {"staked", "accrued", "last"}
         /\ stakerPurse[u] \in Nat
BY StakingAssumption DEF StakingInv, StakingTypeOK, RewardsCompound, Account, None, Later

(* What update_rewards leaves in an account.                               *)
LEMMA UpdatedIs ==
  ASSUME StakingInv, NEW u \in Stakers
  PROVE  /\ Updated(u) = [staked |-> accounts[u].staked, accrued |-> earned[u],
                          last |-> Later(height, StartBlock)]
         /\ Updated(u) \in [staked : Nat, accrued : Nat, last : Nat]
<1>1. accounts[u] \in Account /\ DOMAIN accounts[u] = {"staked", "accrued", "last"}
  BY AccountTyped
<1> DEFINE a == accounts[u]
<1>2. a = [staked |-> a.staked, accrued |-> a.accrued, last |-> a.last]
  BY <1>1 DEF Account, None
<1>3. /\ a.staked \in Nat /\ Pending(u) = earned[u] /\ earned[u] \in Nat
      /\ Later(height, StartBlock) \in Nat
  BY AccountTyped
<1>4. Updated(u) = [a EXCEPT !.accrued = Pending(u), !.last = Later(height, StartBlock)]
  BY DEF Updated
<1> HIDE DEF a
<1>5. Updated(u) = [staked |-> a.staked, accrued |-> earned[u],
                    last |-> Later(height, StartBlock)]
  BY <1>2, <1>3, <1>4
<1> QED  BY <1>3, <1>5 DEF a

\* A call on one staker's account: what must hold of what it leaves.
LEMMA AccountChanges ==
  ASSUME StakingInv, StakingTypeOK', NEW u \in Stakers, NEW state \in Account,
         accounts' = [accounts EXCEPT ![u] = state],
         \A v \in Stakers \ {u} : /\ stakerPurse'[v] = stakerPurse[v]
                                  /\ earned'[v] = earned[v],
         height' = height,
         totalStaked' = totalStaked + state.staked - accounts[u].staked,
         heldStakes' = totalStaked' + penalties',
         stakerPurse'[u] + state.staked <= StakerCoins,
         state.staked > 0 => state.last = Later(height, StartBlock),
         earned'[u] = state.accrued
  PROVE  StakingInv'
<1> DEFINE f == [v \in Stakers |-> accounts[v].staked]
           g == [v \in Stakers |-> accounts'[v].staked]
<1>0. IsFiniteSet(Stakers) /\ StartBlock \in Nat /\ height \in Nat
      /\ accounts \in [Stakers -> Account]
  BY StakingAssumption DEF StakingInv, StakingTypeOK
<1>1. \A v \in Stakers : accounts'[v] = IF v = u THEN state ELSE accounts[v]
  BY <1>0
<1>2. state.staked \in Nat /\ \A v \in Stakers : accounts[v].staked \in Nat
  BY AccountTyped DEF Account, None
<1>3. IntegersOn(f, Stakers) /\ g[u] = state.staked /\ f[u] = accounts[u].staked
  BY <1>0, <1>1, <1>2 DEF IntegersOn
<1>4. \A v \in Stakers \ {u} : f[v] = g[v]
  BY <1>1
<1>5. SumFunctionOnSet(g, Stakers) = SumFunctionOnSet(f, Stakers) + g[u] - f[u]
  <2>1. g[u] \in Int
    BY <1>2, <1>3
  <2> HIDE DEF f, g
  <2>2. u \in Stakers
    OBVIOUS
  <2> QED  BY ONLY <2>1, <2>2, <1>3, <1>4, SumUpdate
<1>6. SumFunction(f) = SumFunctionOnSet(f, Stakers) /\ SumFunction(g) = SumFunctionOnSet(g, Stakers)
  BY DEF SumFunction, SumFunctionOnSet, FoldFunction
<1>7. totalStaked = SumFunction(f)
  BY DEF StakingInv, StakesBacked
<1>8. totalStaked' = SumFunction(g)
  <2> HIDE DEF f, g
  <2> QED  BY <1>3, <1>5, <1>6, <1>7
<1>9. StakesBacked'
  BY <1>8 DEF StakesBacked
<1>10. ASSUME NEW v \in Stakers PROVE Pending(v)' = earned'[v]
  <2>1. CASE v = u
    <3>1. accounts'[v] = state
      BY <1>1, <2>1
    <3>2. ~ (state.staked > 0 /\ height > state.last)
      BY <1>0, <1>2 DEF Later
    <3> QED  BY <2>1, <3>1, <3>2 DEF Pending
  <2>2. CASE v # u
    <3>1. accounts'[v] = accounts[v] /\ earned'[v] = earned[v]
      BY <1>1, <2>2
    <3>2. Pending(v) = earned[v]
      BY DEF StakingInv, RewardsCompound
    <3> QED  BY <3>1, <3>2 DEF Pending
  <2> QED  BY <2>1, <2>2
<1>11. RewardsCompound'
  BY <1>10 DEF RewardsCompound
<1>12. ASSUME NEW v \in Stakers
       PROVE  /\ stakerPurse'[v] + accounts'[v].staked <= StakerCoins
              /\ accounts'[v].staked > 0 =>
                   accounts'[v].last \in StartBlock..Later(height, StartBlock)'
  <2>1. CASE v = u
    BY <1>0, <1>1, <2>1 DEF Later
  <2>2. CASE v # u
    BY <1>1, <2>2 DEF StakingInv
  <2> QED  BY <2>1, <2>2
<1> QED  BY <1>9, <1>11, <1>12 DEF StakingInv

\* An account that is stored: nothing is kept of one that holds nothing.
LEMMA StoreIs ==
  ASSUME NEW u, NEW state \in [staked : Nat, accrued : Nat, last : Nat], Store(u, state)
  PROVE  \E kept \in Account :
           /\ accounts' = [accounts EXCEPT ![u] = kept]
           /\ kept.staked = state.staked /\ kept.accrued = state.accrued
           /\ kept.staked > 0 => kept.last = state.last
<1> DEFINE kept == IF state.staked = 0 /\ state.accrued = 0 THEN None ELSE state
<1>1. kept \in Account /\ kept.staked = state.staked /\ kept.accrued = state.accrued
      /\ (kept.staked > 0 => kept.last = state.last)
  BY DEF Account, None
<1>2. accounts' = [accounts EXCEPT ![u] = kept]
  BY DEF Store
<1> QED  BY <1>1, <1>2

\* Nobody's stake is more than the total.
LEMMA StakeCounted ==
  ASSUME StakingInv, NEW u \in Stakers
  PROVE  accounts[u].staked <= totalStaked /\ totalStaked \in Nat /\ heldStakes \in Nat
         /\ heldStakes = totalStaked + penalties /\ penalties \in Nat
<1> DEFINE f == [v \in Stakers |-> accounts[v].staked]
<1>1. IsFiniteSet(Stakers) /\ \A v \in Stakers : f[v] \in Nat
  BY StakingAssumption, AccountTyped
<1>2. f[u] <= SumFunctionOnSet(f, Stakers)
  <2> HIDE DEF f
  <2> QED  BY <1>1, SumCovers
<1>3. SumFunctionOnSet(f, Stakers) = SumFunction(f)
  BY DEF SumFunction, SumFunctionOnSet, FoldFunction
<1> QED  BY <1>2, <1>3 DEF StakingInv, StakesBacked, StakingTypeOK

(* The staking contract as it is deployed.                                 *)
LEMMA StakingStart == StakingInit => StakingInv
<1> SUFFICES ASSUME StakingInit PROVE StakingInv
  OBVIOUS
<1> DEFINE f == [v \in Stakers |-> accounts[v].staked]
<1>0. IsFiniteSet(Stakers) /\ 0 \in 0..LastBlock /\ RewardPot \in Nat
      /\ StakerCoins \in 0..StakerCoins /\ 0 \in 0..WholePenalty
  BY StakingAssumption
<1>1. \A u \in Stakers : accounts[u] = None /\ earned[u] = 0 /\ stakerPurse[u] = StakerCoins
  BY DEF StakingInit
<1>2. StakingTypeOK
  BY <1>0 DEF StakingInit, StakingTypeOK, Account
<1>3. \A u \in Stakers : f[u] = 0
  BY <1>1 DEF None
<1>4. SumFunctionOnSet(f, Stakers) = 0
  <2> HIDE DEF f
  <2> QED  BY <1>0, <1>3, SumZero
<1>5. SumFunctionOnSet(f, Stakers) = SumFunction(f)
  BY DEF SumFunction, SumFunctionOnSet, FoldFunction
<1>6. StakesBacked
  BY <1>4, <1>5 DEF StakingInit, StakesBacked
<1>7. RewardsCompound
  BY <1>1 DEF RewardsCompound, Pending, None
<1> QED  BY <1>0, <1>1, <1>2, <1>6, <1>7 DEF StakingInv, None

(* Staking keeps the rewards those of compounding.                         *)
LEMMA StakePaid ==
  ASSUME StakingInv, NEW u \in Stakers, NEW tokens \in 1..StakerCoins, Stake(u, tokens)
  PROVE  StakingInv'
<1> DEFINE state == [staked |-> accounts[u].staked + tokens, accrued |-> earned[u],
                     last |-> Later(height, StartBlock)]
<1>0. /\ accounts[u].staked \in Nat /\ earned[u] \in Nat /\ Later(height, StartBlock) \in Nat
      /\ stakerPurse[u] \in Nat /\ tokens \in Nat /\ StakerCoins \in Nat
      /\ stakerPurse[u] + accounts[u].staked <= StakerCoins
      /\ totalStaked \in Nat /\ heldStakes \in Nat /\ heldStakes = totalStaked + penalties
      /\ penalties \in Nat
  BY AccountTyped, StakeCounted, StakingAssumption DEF StakingInv
<1>1. [Updated(u) EXCEPT !.staked = @ + tokens] = state
  BY UpdatedIs
<1>2. accounts' = [accounts EXCEPT ![u] = state]
  BY <1>1 DEF Stake
<1>3. state \in Account
  BY <1>0 DEF Account
<1>4. /\ stakerPurse' = [stakerPurse EXCEPT ![u] = @ - tokens] /\ tokens <= stakerPurse[u]
      /\ heldStakes' = heldStakes + tokens /\ totalStaked' = totalStaked + tokens
      /\ UNCHANGED <<height, pot, penaltyBps, stakePaused, claimPaused, penalties, earned>>
  BY <1>0 DEF Stake
<1>5. StakingTypeOK'
  <2>1. StakingTypeOK
    BY DEF StakingInv
  <2>2. stakerPurse[u] - tokens \in 0..StakerCoins
    BY <1>0, <1>4
  <2> HIDE DEF state
  <2> QED  BY <1>0, <1>2, <1>3, <1>4, <2>1, <2>2 DEF StakingTypeOK
<1>6. /\ \A v \in Stakers \ {u} : stakerPurse'[v] = stakerPurse[v] /\ earned'[v] = earned[v]
      /\ stakerPurse'[u] = stakerPurse[u] - tokens /\ earned'[u] = earned[u]
  BY <1>4 DEF StakingInv, StakingTypeOK
<1>7. /\ state.staked = accounts[u].staked + tokens /\ state.accrued = earned[u]
      /\ state.last = Later(height, StartBlock)
  OBVIOUS
<1> HIDE DEF state
<1>8. /\ totalStaked' = totalStaked + state.staked - accounts[u].staked
      /\ heldStakes' = totalStaked' + penalties'
      /\ stakerPurse'[u] + state.staked <= StakerCoins
      /\ height' = height /\ earned'[u] = state.accrued
  BY <1>0, <1>4, <1>6, <1>7
<1> QED  BY <1>2, <1>3, <1>5, <1>6, <1>7, <1>8, AccountChanges

(* Unstaking keeps the rewards those of compounding.                       *)
LEMMA UnstakePaid ==
  ASSUME StakingInv, NEW u \in Stakers, NEW tokens \in 1..StakerCoins, Unstake(u, tokens)
  PROVE  StakingInv'
<1> DEFINE state == [staked |-> accounts[u].staked - tokens, accrued |-> earned[u],
                     last |-> Later(height, StartBlock)]
<1>0. /\ accounts[u].staked \in Nat /\ earned[u] \in Nat /\ Later(height, StartBlock) \in Nat
      /\ stakerPurse[u] \in Nat /\ tokens \in Nat /\ StakerCoins \in Nat
      /\ stakerPurse[u] + accounts[u].staked <= StakerCoins
      /\ totalStaked \in Nat /\ heldStakes \in Nat /\ heldStakes = totalStaked + penalties
      /\ penalties \in Nat /\ accounts[u].staked <= totalStaked
  BY AccountTyped, StakeCounted, StakingAssumption DEF StakingInv
<1>1. [Updated(u) EXCEPT !.staked = @ - tokens] = state
  BY UpdatedIs
<1>2. Store(u, state) /\ tokens <= accounts[u].staked
  BY <1>1, UpdatedIs DEF Unstake
<1>3. state \in [staked : Nat, accrued : Nat, last : Nat]
  BY <1>0, <1>2
<1>4. /\ state.staked = accounts[u].staked - tokens /\ state.accrued = earned[u]
      /\ state.last = Later(height, StartBlock)
  OBVIOUS
<1> HIDE DEF state
<1>5. PICK kept \in Account :
           /\ accounts' = [accounts EXCEPT ![u] = kept]
           /\ kept.staked = state.staked /\ kept.accrued = state.accrued
           /\ kept.staked > 0 => kept.last = state.last
  BY <1>2, <1>3, StoreIs
<1>6. /\ stakerPurse' = [stakerPurse EXCEPT ![u] = @ + tokens]
      /\ heldStakes' = heldStakes - tokens /\ totalStaked' = totalStaked - tokens
      /\ tokens <= heldStakes
      /\ UNCHANGED <<height, pot, penaltyBps, stakePaused, claimPaused, penalties, earned>>
  BY DEF Unstake
<1>7. StakingTypeOK'
  <2>1. StakingTypeOK
    BY DEF StakingInv
  <2>2. stakerPurse[u] + tokens \in 0..StakerCoins
    BY <1>0, <1>2
  <2> QED  BY <1>0, <1>2, <1>5, <1>6, <2>1, <2>2 DEF StakingTypeOK
<1>8. /\ \A v \in Stakers \ {u} : stakerPurse'[v] = stakerPurse[v] /\ earned'[v] = earned[v]
      /\ stakerPurse'[u] = stakerPurse[u] + tokens /\ earned'[u] = earned[u]
  BY <1>6 DEF StakingInv, StakingTypeOK
<1>9. /\ totalStaked' = totalStaked + kept.staked - accounts[u].staked
      /\ heldStakes' = totalStaked' + penalties'
      /\ stakerPurse'[u] + kept.staked <= StakerCoins
      /\ height' = height /\ earned'[u] = kept.accrued
      /\ kept.staked > 0 => kept.last = Later(height, StartBlock)
  BY <1>0, <1>4, <1>5, <1>6, <1>8
<1> QED  BY <1>5, <1>7, <1>8, <1>9, AccountChanges

(* Claiming keeps the rewards those of compounding.                        *)
LEMMA ClaimPaid ==
  ASSUME StakingInv, NEW u \in Stakers, Claim(u)
  PROVE  StakingInv'
<1> DEFINE state == [staked |-> accounts[u].staked, accrued |-> 0,
                     last |-> Later(height, StartBlock)]
<1>0. /\ accounts[u].staked \in Nat /\ earned[u] \in Nat /\ Later(height, StartBlock) \in Nat
      /\ stakerPurse[u] \in Nat /\ StakerCoins \in Nat
      /\ stakerPurse[u] + accounts[u].staked <= StakerCoins
      /\ totalStaked \in Nat /\ heldStakes \in Nat /\ heldStakes = totalStaked + penalties
      /\ penalties \in Nat
  BY AccountTyped, StakeCounted, StakingAssumption DEF StakingInv
<1>1. [Updated(u) EXCEPT !.accrued = 0] = state
  BY UpdatedIs
<1>2. Store(u, state)
  BY <1>1 DEF Claim
<1>3. state \in [staked : Nat, accrued : Nat, last : Nat]
  BY <1>0
<1>4. /\ state.staked = accounts[u].staked /\ state.accrued = 0
      /\ state.last = Later(height, StartBlock)
  OBVIOUS
<1> HIDE DEF state
<1>5. PICK kept \in Account :
           /\ accounts' = [accounts EXCEPT ![u] = kept]
           /\ kept.staked = state.staked /\ kept.accrued = state.accrued
           /\ kept.staked > 0 => kept.last = state.last
  BY <1>2, <1>3, StoreIs
<1>6. /\ pot' \in Nat
      /\ earned' = [earned EXCEPT ![u] = 0]
      /\ UNCHANGED <<height, totalStaked, heldStakes, stakerPurse, penaltyBps,
                     stakePaused, claimPaused, penalties>>
  <2>1. Updated(u).accrued = earned[u] /\ pot \in Nat
    BY UpdatedIs DEF StakingInv, StakingTypeOK
  <2> QED  BY <1>0, <2>1 DEF Claim
<1>7. StakingTypeOK'
  <2>1. StakingTypeOK
    BY DEF StakingInv
  <2> QED  BY <1>5, <1>6, <2>1 DEF StakingTypeOK
<1>8. /\ \A v \in Stakers \ {u} : stakerPurse'[v] = stakerPurse[v] /\ earned'[v] = earned[v]
      /\ stakerPurse'[u] = stakerPurse[u] /\ earned'[u] = 0
  BY <1>6 DEF StakingInv, StakingTypeOK
<1>9. /\ totalStaked' = totalStaked + kept.staked - accounts[u].staked
      /\ heldStakes' = totalStaked' + penalties'
      /\ stakerPurse'[u] + kept.staked <= StakerCoins
      /\ height' = height /\ earned'[u] = kept.accrued
      /\ kept.staked > 0 => kept.last = Later(height, StartBlock)
  BY <1>0, <1>4, <1>5, <1>6, <1>8
<1> QED  BY <1>5, <1>7, <1>8, <1>9, AccountChanges

(* An emergency withdrawal keeps the stakes backed.                        *)
LEMMA EmergencyPaid ==
  ASSUME StakingInv, NEW u \in Stakers, EmergencyWithdraw(u)
  PROVE  StakingInv'
<1> DEFINE tokens == accounts[u].staked
           penalty == (tokens * penaltyBps) \div WholePenalty
<1>0. /\ tokens \in Nat /\ penaltyBps \in 0..WholePenalty /\ WholePenalty \in Nat \ {0}
      /\ stakerPurse[u] \in Nat /\ StakerCoins \in Nat
      /\ stakerPurse[u] + tokens <= StakerCoins
      /\ totalStaked \in Nat /\ heldStakes \in Nat /\ heldStakes = totalStaked + penalties
      /\ penalties \in Nat /\ tokens <= totalStaked
  BY AccountTyped, StakeCounted, StakingAssumption DEF StakingInv, StakingTypeOK
<1>1. penalty \in 0..tokens
  <2> DEFINE part == tokens * penaltyBps  whole == tokens * WholePenalty
  <2>1. part \in Nat /\ whole \in Int /\ part <= whole
    BY <1>0
  <2>2. whole \div WholePenalty = tokens
    BY <1>0
  <2> HIDE DEF part, whole, tokens
  <2>3. part \div WholePenalty <= whole \div WholePenalty /\ part \div WholePenalty \in Nat
    BY <1>0, <2>1, DivMonotone, DivNatural
  <2> QED  BY <1>0, <2>2, <2>3 DEF part
<1>2. /\ accounts' = [accounts EXCEPT ![u] = None]
      /\ totalStaked' = totalStaked - tokens
      /\ heldStakes' = heldStakes - (tokens - penalty)
      /\ tokens - penalty <= heldStakes
      /\ stakerPurse' = [stakerPurse EXCEPT ![u] = @ + tokens - penalty]
      /\ penalties' = penalties + penalty
      /\ earned' = [earned EXCEPT ![u] = 0]
      /\ UNCHANGED <<height, pot, penaltyBps, stakePaused, claimPaused>>
  BY DEF EmergencyWithdraw
<1> HIDE DEF penalty, tokens
<1>3. None \in Account /\ None.staked = 0 /\ None.accrued = 0
  BY DEF Account, None
<1>4. StakingTypeOK'
  <2>1. StakingTypeOK
    BY DEF StakingInv
  <2>2. stakerPurse[u] + tokens - penalty \in 0..StakerCoins /\ totalStaked' \in Nat
        /\ heldStakes' \in Nat /\ penalties' \in Nat
    BY <1>0, <1>1, <1>2
  <2> QED  BY <1>2, <1>3, <2>1, <2>2 DEF StakingTypeOK
<1>5. /\ \A v \in Stakers \ {u} : stakerPurse'[v] = stakerPurse[v] /\ earned'[v] = earned[v]
      /\ stakerPurse'[u] = stakerPurse[u] + tokens - penalty /\ earned'[u] = 0
  BY <1>2 DEF StakingInv, StakingTypeOK
<1>6. /\ totalStaked' = totalStaked + None.staked - accounts[u].staked
      /\ heldStakes' = totalStaked' + penalties'
      /\ stakerPurse'[u] + None.staked <= StakerCoins
      /\ height' = height /\ earned'[u] = None.accrued
      /\ None.staked > 0 => None.last = Later(height, StartBlock)
  BY <1>0, <1>1, <1>2, <1>3, <1>5 DEF tokens
<1> QED  BY <1>2, <1>3, <1>4, <1>5, <1>6, AccountChanges

(* The admin's calls move no stake and no reward.                          *)
LEMMA AdministerPaid ==
  ASSUME StakingInv, NEW bps \in 0..WholePenalty, NEW s \in BOOLEAN, NEW c \in BOOLEAN,
         Administer(bps, s, c)
  PROVE  StakingInv'
<1>1. /\ penaltyBps' = bps /\ stakePaused' = s /\ claimPaused' = c
      /\ UNCHANGED <<height, accounts, totalStaked, heldStakes, stakerPurse, pot,
                     penalties, earned>>
  BY DEF Administer
<1>2. StakingTypeOK'
  BY <1>1 DEF StakingInv, StakingTypeOK
<1>3. StakesBacked'
  BY <1>1 DEF StakingInv, StakesBacked
<1>4. RewardsCompound'
  <2>1. \A u \in Stakers : Pending(u)' = Pending(u)
    BY <1>1 DEF Pending
  <2> QED  BY <1>1, <2>1 DEF StakingInv, RewardsCompound
<1>5. Later(height, StartBlock)' = Later(height, StartBlock)
  BY <1>1 DEF Later
<1> QED  BY <1>1, <1>2, <1>3, <1>4, <1>5 DEF StakingInv

\* The rewards of a staker whose account does not change, a ledger later.
LEMMA RewardsGrow ==
  ASSUME StakingInv, NEW u \in Stakers, BlockPasses
  PROVE  Pending(u)' = earned'[u] /\ earned'[u] \in Nat
<1> DEFINE s == accounts[u]
           rate == EpochRate[(height - StartBlock) \div EpochLength]
<1>0. /\ s.staked \in Nat /\ s.accrued \in Nat /\ Pending(u) = earned[u] /\ earned[u] \in Nat
      /\ height \in Nat /\ StartBlock \in Nat
      /\ s.staked > 0 => s.last \in StartBlock..Later(height, StartBlock)
  BY AccountTyped, StakingAssumption DEF StakingInv, StakingTypeOK
<1>1. /\ accounts' = accounts /\ height' = height + 1
      /\ earned'[u] = IF s.staked > 0 /\ height >= StartBlock
                      THEN (s.staked + earned[u]) * 2 ^ rate - s.staked ELSE earned[u]
  BY DEF BlockPasses
<1>2. Pending(u)' = IF s.staked > 0 /\ height + 1 > s.last
                    THEN RewardIndex(s.staked, s.accrued, Multiplier(s.last, height + 1))
                    ELSE s.accrued
  BY <1>1 DEF Pending
<1>3. CASE s.staked = 0
  BY <1>0, <1>1, <1>2, <1>3 DEF Pending
<1>4. CASE s.staked > 0 /\ height < StartBlock
  <2>1. s.last = StartBlock
    BY <1>0, <1>4 DEF Later
  <2> QED  BY <1>0, <1>1, <1>2, <1>4, <2>1 DEF Pending
<1>5. CASE s.staked > 0 /\ height >= StartBlock
  <2>1. s.last \in Nat /\ StartBlock <= s.last /\ s.last <= height
    BY <1>0, <1>5 DEF Later
  <2>2. /\ rate \in Nat
        /\ Multiplier(s.last, height + 1) = Multiplier(s.last, height) * 2 ^ rate
        /\ Multiplier(s.last, height) \in Nat \ {0}
    BY <1>0, <2>1, MultiplierGrows, MultiplierTyped
  <2>3. 2 ^ rate \in Nat \ {0}
    BY <2>2, PowerPositive
  <2>4. earned[u] = (s.staked + s.accrued) * Multiplier(s.last, height) - s.staked
    <3>1. CASE height > s.last
      BY <1>0, <1>5, <3>1 DEF Pending, RewardIndex
    <3>2. CASE height = s.last
      <4>1. Multiplier(s.last, height) = 1
        BY <1>0, <2>1, <3>2 DEF Multiplier, Later
      <4>2. earned[u] = s.accrued
        BY <1>0, <2>1, <3>2 DEF Pending
      <4> HIDE DEF s
      <4> QED  BY <1>0, <4>1, <4>2
    <3> QED  BY <1>0, <2>1, <3>1, <3>2
  <2>5. Pending(u)' = (s.staked + s.accrued) * Multiplier(s.last, height + 1) - s.staked
    BY <1>0, <1>2, <1>5, <2>1 DEF RewardIndex
  <2>6. earned'[u] = (s.staked + earned[u]) * 2 ^ rate - s.staked
    BY <1>1, <1>5
  <2> DEFINE m == Multiplier(s.last, height)  x == 2 ^ rate  b == s.staked + s.accrued
  <2>7. m \in Nat /\ x \in Nat \ {0} /\ b \in Nat /\ s.staked \in Nat
    BY <1>0, <2>2, <2>3
  <2>8. Pending(u)' = b * (m * x) - s.staked /\ s.staked + earned[u] = b * m
        /\ earned'[u] = (s.staked + earned[u]) * x - s.staked
    <3>1. b * m \in Nat
      BY <2>7
    <3> HIDE DEF s
    <3> QED  BY <1>0, <2>2, <2>4, <2>5, <2>6, <3>1
  <2>9. earned'[u] = (b * m) * x - s.staked
    BY <2>8
  <2> HIDE DEF b, m, x, s
  <2>10. (b * m) * x = b * (m * x)
    BY <2>7
  <2>11. (s.staked + earned[u]) * x \in Nat /\ (s.staked + earned[u]) * x >= s.staked + earned[u]
    BY <1>0, <2>7
  <2> QED  BY <1>0, <2>7, <2>8, <2>9, <2>10, <2>11
<1> QED  BY <1>0, <1>3, <1>4, <1>5

(* A block adds what compounding adds, to each.                            *)
LEMMA BlockPaid == ASSUME StakingInv, BlockPasses PROVE StakingInv'
<1>0. /\ height \in Nat /\ StartBlock \in Nat /\ height < LastBlock /\ LastBlock \in Nat
  BY StakingAssumption DEF StakingInv, StakingTypeOK, BlockPasses
<1>1. /\ height' = height + 1 /\ DOMAIN earned' = Stakers
      /\ UNCHANGED <<accounts, totalStaked, heldStakes, stakerPurse, pot,
                     penaltyBps, stakePaused, claimPaused, penalties>>
  BY DEF BlockPasses
<1>2. \A u \in Stakers : Pending(u)' = earned'[u] /\ earned'[u] \in Nat
  BY RewardsGrow
<1>3. earned' \in [Stakers -> Nat]
  <2>1. earned' = [u \in Stakers |-> earned'[u]]
    BY DEF BlockPasses
  <2> QED  BY <1>2, <2>1
<1>4. StakingTypeOK'
  BY <1>0, <1>1, <1>3 DEF StakingInv, StakingTypeOK
<1>5. StakesBacked'
  BY <1>1 DEF StakingInv, StakesBacked
<1>6. RewardsCompound'
  BY <1>2 DEF RewardsCompound
<1>7. ASSUME NEW u \in Stakers
      PROVE  /\ stakerPurse'[u] + accounts'[u].staked <= StakerCoins
             /\ accounts'[u].staked > 0 =>
                  accounts'[u].last \in StartBlock..Later(height, StartBlock)'
  <2>1. Later(height, StartBlock)' >= Later(height, StartBlock)
        /\ Later(height, StartBlock)' \in Nat /\ Later(height, StartBlock) \in Nat
    BY <1>0, <1>1 DEF Later
  <2> QED  BY <1>0, <1>1, <2>1 DEF StakingInv
<1> QED  BY <1>4, <1>5, <1>6, <1>7 DEF StakingInv

(* Every step of the staking contract keeps the invariant.                  *)
LEMMA StakingKeeps == StakingInv /\ [StakingNext]_stakingVars => StakingInv'
<1> SUFFICES ASSUME StakingInv, [StakingNext]_stakingVars PROVE StakingInv'
  OBVIOUS
<1>1. CASE BlockPasses
  BY <1>1, BlockPaid
<1>2. ASSUME NEW u \in Stakers, NEW tokens \in 1..StakerCoins,
             Stake(u, tokens) \/ Unstake(u, tokens)
      PROVE  StakingInv'
  BY <1>2, StakePaid, UnstakePaid
<1>3. ASSUME NEW u \in Stakers, Claim(u) \/ EmergencyWithdraw(u) PROVE StakingInv'
  BY <1>3, ClaimPaid, EmergencyPaid
<1>4. penaltyBps \in 0..WholePenalty /\ stakePaused \in BOOLEAN /\ claimPaused \in BOOLEAN
  BY DEF StakingInv, StakingTypeOK
<1>5. ASSUME NEW bps \in Penalties, Administer(bps, stakePaused, claimPaused)
      PROVE  StakingInv'
  <2>1. bps \in 0..WholePenalty
    BY StakingAssumption
  <2> QED  BY <1>4, <1>5, <2>1, AdministerPaid
<1>6. CASE Administer(penaltyBps, ~ stakePaused, claimPaused)
  <2>1. (~ stakePaused) \in BOOLEAN
    OBVIOUS
  <2> QED  BY <1>4, <1>6, <2>1, AdministerPaid
<1>7. CASE Administer(penaltyBps, stakePaused, ~ claimPaused)
  <2>1. (~ claimPaused) \in BOOLEAN
    OBVIOUS
  <2> QED  BY <1>4, <1>7, <2>1, AdministerPaid
<1>8. CASE UNCHANGED stakingVars
  <2>1. \A u \in Stakers : Pending(u)' = Pending(u)
    BY <1>8 DEF stakingVars, Pending
  <2>2. Later(height, StartBlock)' = Later(height, StartBlock)
    BY <1>8 DEF stakingVars, Later
  <2> QED  BY <1>8, <2>1, <2>2
           DEF stakingVars, StakingInv, StakingTypeOK, StakesBacked, RewardsCompound
<1> QED  BY <1>1, <1>2, <1>3, <1>5, <1>6, <1>7, <1>8 DEF StakingNext

\* Whoever stakes, leaves, claims or withdraws in whatever order: the contract
\* holds what its users staked and the penalties it kept, the total agrees with
\* the accounts, and the rewards are those of compounding ledger by ledger,
\* whatever periods the calls cut the time into and whatever epochs they cross.
THEOREM RewardsAreCompounded ==
  StakingSpec => [](StakingTypeOK /\ StakesBacked /\ RewardsCompound)
<1>1. StakingInv => StakingTypeOK /\ StakesBacked /\ RewardsCompound
  BY DEF StakingInv
<1> QED  BY <1>1, StakingStart, StakingKeeps, PTL DEF StakingSpec

-----------------------------------------------------------------------------
(* The loans                                                               *)

\* The least of a few numbers.
LEMMA LeastOf ==
  ASSUME NEW a \in Nat, NEW b \in Nat, NEW c \in Nat
  PROVE  /\ Min({a, b}) \in Nat /\ Min({a, b}) <= a /\ Min({a, b}) <= b
         /\ Min({a, b, c}) \in Nat
         /\ Min({a, b, c}) <= a /\ Min({a, b, c}) <= b /\ Min({a, b, c}) <= c
<1>1. IsFiniteSet({a, b}) /\ IsFiniteSet({a, b, c})
  <2>1. {a, b} = {a} \cup {b} /\ {a, b, c} = {a, b} \cup {c}
    OBVIOUS
  <2>2. IsFiniteSet({a})
    BY FS_Singleton
  <2>3. IsFiniteSet({a} \cup {b})
    BY <2>2, FS_AddElement
  <2>4. IsFiniteSet(({a} \cup {b}) \cup {c})
    BY <2>3, FS_AddElement
  <2> QED  BY <2>1, <2>3, <2>4
<1>2. {a, b} \in SUBSET Int /\ {a, b} # {} /\ {a, b, c} \in SUBSET Int /\ {a, b, c} # {}
  OBVIOUS
<1>3. Min({a, b}) \in {a, b} /\ \A y \in {a, b} : Min({a, b}) <= y
  BY <1>1, <1>2, FiniteExtremes
<1>4. Min({a, b, c}) \in {a, b, c} /\ \A y \in {a, b, c} : Min({a, b, c}) <= y
  BY <1>1, <1>2, FiniteExtremes
<1> QED  BY <1>3, <1>4

\* A position whose debt and collateral both change.
LEMMA LessOf ==
  ASSUME NEW r \in Position, NEW x, NEW y
  PROVE  [r EXCEPT !.debt = @ - x, !.collateral = @ - y]
           = [collateral |-> r.collateral - y, debt |-> r.debt - x, last |-> r.last]
<1> DEFINE q == [r EXCEPT !.debt = @ - x]
<1>1. q = [collateral |-> r.collateral, debt |-> r.debt - x, last |-> r.last]
  BY DEF Position
<1>2. [r EXCEPT !.debt = @ - x, !.collateral = @ - y] = [q EXCEPT !.collateral = @ - y]
  OBVIOUS
<1> HIDE DEF q
<1> QED  BY <1>1, <1>2

(* A position of which two fields are set.                                 *)
LEMMA BothSet ==
  ASSUME NEW r \in Position, NEW x, NEW y
  PROVE  [r EXCEPT !.collateral = x, !.debt = y]
           = [collateral |-> x, debt |-> y, last |-> r.last]
<1> DEFINE q == [r EXCEPT !.collateral = x]
<1>1. q = [collateral |-> x, debt |-> r.debt, last |-> r.last]
  BY DEF Position
<1>2. [r EXCEPT !.collateral = x, !.debt = y] = [q EXCEPT !.debt = y]
  OBVIOUS
<1> HIDE DEF q
<1> QED  BY <1>1, <1>2

CdpInv ==
  /\ CdpTypeOK /\ CdpBooked
  /\ \A u \in Borrowers : positions[u].last <= clock

CdpConstants ==
  /\ Full \in Nat \ {0} /\ PriceScale \in Nat \ {0} /\ LedgersPerYear \in Nat \ {0}
  /\ Incentive \in Nat /\ BaseRate \in Nat /\ Slope1 \in Nat /\ Slope2 \in Nat
  /\ Optimal \in Nat \ {0} /\ Full - Optimal \in Nat \ {0}
  /\ MaxRequest \in Nat /\ CdpHorizon \in Nat /\ IsFiniteSet(Borrowers)
  /\ \A quote \in OraclePrices : quote \in Nat \ {0}

(* The constants of the loans.                                             *)
LEMMA ConstantsTyped == CdpConstants
BY CdpAssumption DEF CdpConstants

(* A value is a natural.                                                   *)
LEMMA ValueTyped ==
  ASSUME NEW tokens \in Nat, NEW quote \in Nat
  PROVE  ValueOf(tokens, quote) \in Nat
<1>1. tokens * quote \in Nat /\ PriceScale \in Nat \ {0}
  BY ConstantsTyped DEF CdpConstants
<1> QED  BY <1>1, DivNatural DEF ValueOf

(* A rate is a natural.                                                    *)
LEMMA BorrowRateTyped ==
  ASSUME CdpTypeOK, NEW quote \in OraclePrices
  PROVE  BorrowRate(quote) \in Nat
<1>0. CdpConstants /\ totalCollateral \in Nat /\ totalDebt \in Nat
  BY ConstantsTyped DEF CdpTypeOK
<1>1. quote \in Nat /\ ValueOf(totalCollateral, quote) \in Nat
  BY <1>0, ValueTyped DEF CdpConstants
<1>2. Utilization(quote) \in Nat
  <2> DEFINE value == ValueOf(totalCollateral, quote)
             part == totalDebt * Full
  <2>1. part \in Nat /\ Full \in Nat /\ value \in Nat
    BY <1>0, <1>1 DEF CdpConstants
  <2>2. CASE value = 0
    BY <2>2 DEF Utilization
  <2>3. CASE value # 0
    <3>1. Utilization(quote) = Min({Full, part \div value})
      BY <2>3 DEF Utilization
    <3> HIDE DEF value, part
    <3>2. part \div value \in Nat
      BY <2>1, <2>3, DivNatural
    <3> QED  BY <2>1, <3>1, <3>2, LeastOf
  <2> QED  BY <2>2, <2>3
<1> DEFINE used == Utilization(quote)
<1>3. CASE used <= Optimal
  <2>1. used * Slope1 \in Nat
    BY <1>0, <1>2 DEF CdpConstants
  <2>2. (used * Slope1) \div Optimal \in Nat
    BY <1>0, <2>1, DivNatural DEF CdpConstants
  <2>3. BorrowRate(quote) = BaseRate + (used * Slope1) \div Optimal
    BY <1>3 DEF BorrowRate
  <2> HIDE DEF used
  <2> QED  BY <1>0, <2>2, <2>3 DEF CdpConstants
<1>4. CASE ~ (used <= Optimal)
  <2>1. used - Optimal \in Nat
    BY <1>0, <1>2, <1>4 DEF CdpConstants
  <2>2. (used - Optimal) * Slope2 \in Nat
    BY <1>0, <2>1 DEF CdpConstants
  <2>3. ((used - Optimal) * Slope2) \div (Full - Optimal) \in Nat
    BY <1>0, <2>2, DivNatural DEF CdpConstants
  <2>4. BorrowRate(quote)
          = BaseRate + Slope1 + ((used - Optimal) * Slope2) \div (Full - Optimal)
    BY <1>4 DEF BorrowRate
  <2> HIDE DEF used
  <2> QED  BY <1>0, <2>3, <2>4 DEF CdpConstants
<1> QED  BY <1>3, <1>4

(* Interest is never negative.                                             *)
LEMMA InterestTyped ==
  ASSUME CdpInv, NEW u \in Borrowers, NEW quote \in OraclePrices
  PROVE  Interest(u, quote) \in Nat
<1>0. CdpConstants /\ positions[u] \in Position /\ clock \in Nat /\ positions[u].last <= clock
  BY ConstantsTyped DEF CdpInv, CdpTypeOK
<1> DEFINE p == positions[u]
           owing == p.debt * BorrowRate(quote) * (clock - p.last)
<1>1. BorrowRate(quote) \in Nat
  BY BorrowRateTyped DEF CdpInv
<1>2. p.debt \in Nat /\ clock - p.last \in Nat
  BY <1>0 DEF Position
<1>3. p.debt * BorrowRate(quote) \in Nat
  BY <1>1, <1>2
<1>4. owing \in Nat
  BY <1>2, <1>3
<1>5. Interest(u, quote) = (owing \div Full) \div LedgersPerYear
  BY DEF Interest
<1> HIDE DEF owing
<1>6. owing \div Full \in Nat
  BY <1>0, <1>4, DivNatural DEF CdpConstants
<1> QED  BY <1>0, <1>5, <1>6, DivNatural DEF CdpConstants

(* What accruing leaves in a position.                                     *)
LEMMA AccruedIs ==
  ASSUME CdpInv, NEW u \in Borrowers, NEW quote \in OraclePrices
  PROVE  /\ Accrued(u, quote) = [collateral |-> positions[u].collateral,
                                 debt |-> positions[u].debt + Interest(u, quote),
                                 last |-> clock]
         /\ Accrued(u, quote) \in Position
         /\ positions[u].collateral \in Nat /\ positions[u].debt \in Nat /\ clock \in Nat
<1>1. positions[u] \in Position /\ clock \in Nat /\ Interest(u, quote) \in Nat
  BY InterestTyped DEF CdpInv, CdpTypeOK
<1> DEFINE p == positions[u]
<1>2. /\ p = [collateral |-> p.collateral, debt |-> p.debt, last |-> p.last]
      /\ p.collateral \in Nat /\ p.debt \in Nat
  BY <1>1 DEF Position
<1>3. Accrued(u, quote) = [p EXCEPT !.debt = @ + Interest(u, quote), !.last = clock]
  BY DEF Accrued
<1> HIDE DEF p
<1>4. Accrued(u, quote) = [collateral |-> p.collateral,
                           debt |-> p.debt + Interest(u, quote), last |-> clock]
  BY <1>2, <1>3
<1>5. Accrued(u, quote) \in Position
  BY <1>1, <1>2, <1>4 DEF Position
<1> QED  BY <1>1, <1>2, <1>4, <1>5 DEF p

(* The debt a collateral covers is a natural.                              *)
LEMMA CoverableTyped ==
  ASSUME NEW pos \in Position, NEW quote \in Nat
  PROVE  Coverable(pos, quote) \in Nat
<1>1. ValueOf(pos.collateral, quote) \in Nat
  BY ValueTyped DEF Position
<1>2. ValueOf(pos.collateral, quote) * Full \in Nat /\ Full + Incentive \in Nat \ {0}
  BY <1>1, ConstantsTyped DEF CdpConstants
<1> QED  BY <1>2, DivNatural DEF Coverable

(* A quote seizes no more than the collateral and pays no more than the    *)
(* debt.                                                                   *)
LEMMA QuoteTyped ==
  ASSUME NEW pos \in Position, NEW requested \in Nat, NEW quote \in OraclePrices
  PROVE  /\ Quote(pos, requested, quote).paid \in Nat
         /\ Quote(pos, requested, quote).paid <= pos.debt
         /\ Quote(pos, requested, quote).seized \in Nat
         /\ Quote(pos, requested, quote).seized <= pos.collateral
<1>0. CdpConstants /\ quote \in Nat \ {0} /\ pos.debt \in Nat /\ pos.collateral \in Nat
  BY ConstantsTyped DEF CdpConstants, Position
<1> DEFINE repaid == Min({requested, pos.debt, Coverable(pos, quote)})
           value == (repaid * (Full + Incentive)) \div Full
           seized == Min({pos.collateral, (value * PriceScale) \div quote})
<1>1. Quote(pos, requested, quote) = [paid |-> repaid, seized |-> seized]
  BY DEF Quote
<1>2. repaid \in Nat /\ repaid <= pos.debt
  <2>1. Coverable(pos, quote) \in Nat
    BY <1>0, CoverableTyped
  <2> QED  BY <1>0, <2>1, LeastOf
<1> HIDE DEF repaid
<1>3. value \in Nat
  <2>1. repaid * (Full + Incentive) \in Nat
    BY <1>0, <1>2 DEF CdpConstants
  <2> QED  BY <1>0, <2>1, DivNatural DEF CdpConstants
<1> HIDE DEF value
<1>4. (value * PriceScale) \div quote \in Nat
  <2>1. value * PriceScale \in Nat
    BY <1>0, <1>3 DEF CdpConstants
  <2> QED  BY <1>0, <2>1, DivNatural
<1>5. seized \in Nat /\ seized <= pos.collateral
  BY <1>0, <1>4, LeastOf
<1> QED  BY <1>1, <1>2, <1>5

-----------------------------------------------------------------------------
Collaterals == [v \in Borrowers |-> positions[v].collateral]
Debts == [v \in Borrowers |-> positions[v].debt]

(* What the invariant says of the totals.                                  *)
LEMMA BooksTyped ==
  ASSUME CdpInv
  PROVE  /\ IsFiniteSet(Borrowers)
         /\ IntegersOn(Collaterals, Borrowers) /\ IntegersOn(Debts, Borrowers)
         /\ IntegersOn(stable, Borrowers)
         /\ \A u \in Borrowers : /\ Collaterals[u] = positions[u].collateral
                                 /\ Debts[u] = positions[u].debt
                                 /\ positions[u].collateral \in Nat
                                 /\ positions[u].debt \in Nat /\ stable[u] \in Nat
                                 /\ positions[u].collateral <= totalCollateral
         /\ totalCollateral = SumFunctionOnSet(Collaterals, Borrowers)
         /\ totalDebt = SumFunctionOnSet(Debts, Borrowers) + badDebt
         /\ stableSupply = SumFunctionOnSet(stable, Borrowers) + interestPaid
         /\ SumFunctionOnSet(Collaterals, Borrowers) \in Nat
         /\ SumFunctionOnSet(Debts, Borrowers) \in Nat
         /\ SumFunctionOnSet(stable, Borrowers) \in Nat
<1>1. IsFiniteSet(Borrowers)
  BY ConstantsTyped DEF CdpConstants
<1>2. /\ \A u \in Borrowers : positions[u].collateral \in Nat /\ positions[u].debt \in Nat
                              /\ stable[u] \in Nat
      /\ DOMAIN stable = Borrowers
  BY DEF CdpInv, CdpTypeOK, Position
<1>3. \A u \in Borrowers : /\ Collaterals[u] = positions[u].collateral
                           /\ Debts[u] = positions[u].debt
  BY DEF Collaterals, Debts
<1>4. IntegersOn(Collaterals, Borrowers) /\ IntegersOn(Debts, Borrowers)
      /\ IntegersOn(stable, Borrowers)
  BY <1>1, <1>2, <1>3 DEF IntegersOn
<1>5. /\ SumFunction(Collaterals) = SumFunctionOnSet(Collaterals, Borrowers)
      /\ SumFunction(Debts) = SumFunctionOnSet(Debts, Borrowers)
      /\ SumFunction(stable) = SumFunctionOnSet(stable, Borrowers)
  BY <1>2 DEF SumFunction, SumFunctionOnSet, FoldFunction, Collaterals, Debts
<1>6. /\ totalCollateral = SumFunction(Collaterals)
      /\ totalDebt = SumFunction(Debts) + badDebt
      /\ stableSupply = SumFunction(stable) + interestPaid
  BY DEF CdpInv, CdpBooked, Collaterals, Debts
<1>7. ASSUME NEW u \in Borrowers
      PROVE  Collaterals[u] <= SumFunctionOnSet(Collaterals, Borrowers)
  BY <1>1, <1>2, <1>3, SumCovers
<1>8. /\ SumFunctionOnSet(Collaterals, Borrowers) \in Nat
      /\ SumFunctionOnSet(Debts, Borrowers) \in Nat
      /\ SumFunctionOnSet(stable, Borrowers) \in Nat
  BY <1>1, <1>2, <1>3, SumNatural
<1> QED  BY <1>1, <1>2, <1>3, <1>4, <1>5, <1>6, <1>7, <1>8

\* A call on one position: the books agree again if the debt, the collateral
\* and the stablecoins that moved are the ones the totals are changed by.
LEMMA PositionChanges ==
  ASSUME CdpInv, NEW u \in Borrowers, NEW quote \in OraclePrices, NEW pos \in Position,
         NEW debtChange \in Int, NEW supplyChange \in Int,
         Book(u, pos, quote, debtChange, supplyChange),
         clock' = clock, pos.last = clock,
         stable' \in [Borrowers -> Nat], ownTokens' \in [Borrowers -> Nat],
         cdpReserves' \in Nat, badDebt' \in Nat, covered' \in Nat,
         SumFunctionOnSet(stable', Borrowers)
           = SumFunctionOnSet(stable, Borrowers) + supplyChange,
         totalCollateral' = totalCollateral + pos.collateral - positions[u].collateral,
         vaultTokens' = totalCollateral' + cdpReserves',
         pos.debt + badDebt'
           = positions[u].debt + badDebt + Interest(u, quote) + debtChange,
         supplyChange = debtChange + covered' - covered
  PROVE  CdpInv'
<1> DEFINE C == Collaterals  D == Debts  i == Interest(u, quote)
           Sum(f) == SumFunctionOnSet(f, Borrowers)
<1>0. /\ positions \in [Borrowers -> Position] /\ clock \in 0..CdpHorizon
      /\ badDebt \in Nat /\ interestPaid \in Nat /\ covered \in Nat /\ i \in Nat
      /\ totalDebt \in Nat /\ stableSupply \in Nat /\ totalCollateral \in Nat
      /\ stableSupply = totalDebt + covered
      /\ pos.collateral \in Nat /\ pos.debt \in Nat
      /\ \A v \in Borrowers : positions[v].last <= clock
  BY InterestTyped DEF CdpInv, CdpTypeOK, CdpBooked, Position
<1>1. /\ positions' = [positions EXCEPT ![u] = pos]
      /\ totalDebt' = totalDebt + i + debtChange
      /\ stableSupply' = stableSupply + i + supplyChange
      /\ interestPaid' = interestPaid + i
  BY DEF Book
<1>2. /\ positions' \in [Borrowers -> Position]
      /\ \A v \in Borrowers : positions'[v] = IF v = u THEN pos ELSE positions[v]
  BY <1>0, <1>1
<1>3. /\ C'[u] = pos.collateral /\ D'[u] = pos.debt
      /\ C[u] = positions[u].collateral /\ D[u] = positions[u].debt
      /\ \A v \in Borrowers \ {u} : C[v] = C'[v] /\ D[v] = D'[v]
  BY <1>2 DEF Collaterals, Debts
<1>4. /\ IntegersOn(C, Borrowers) /\ IntegersOn(D, Borrowers)
      /\ Sum(C) \in Nat /\ Sum(D) \in Nat /\ Sum(stable) \in Nat
      /\ totalCollateral = Sum(C) /\ totalDebt = Sum(D) + badDebt
      /\ stableSupply = Sum(stable) + interestPaid
  BY BooksTyped
<1>5. Sum(C') = Sum(C) + C'[u] - C[u]
  <2>1. C'[u] \in Int /\ u \in Borrowers
    BY <1>0, <1>3
  <2>2. \A v \in Borrowers \ {u} : C[v] = C'[v]
    BY <1>3
  <2> HIDE DEF C
  <2> QED  BY ONLY <2>1, <2>2, <1>4, SumUpdate
<1>6. Sum(D') = Sum(D) + D'[u] - D[u]
  <2>1. D'[u] \in Int /\ u \in Borrowers
    BY <1>0, <1>3
  <2>2. \A v \in Borrowers \ {u} : D[v] = D'[v]
    BY <1>3
  <2> HIDE DEF D
  <2> QED  BY ONLY <2>1, <2>2, <1>4, SumUpdate
<1>7. /\ SumFunction(C') = Sum(C') /\ SumFunction(D') = Sum(D')
      /\ SumFunction(stable') = Sum(stable')
  BY DEF SumFunction, SumFunctionOnSet, FoldFunction, Collaterals, Debts
<1> HIDE DEF C, D, Sum, i
<1>8. positions[u].collateral \in Nat /\ positions[u].debt \in Nat
  BY <1>0 DEF Position
<1>9. /\ totalCollateral' = Sum(C')
      /\ totalDebt' = Sum(D') + badDebt'
  BY <1>0, <1>1, <1>3, <1>4, <1>5, <1>6, <1>8 DEF i
<1>10. /\ stableSupply' = Sum(stable') + interestPaid'
       /\ stableSupply' = totalDebt' + covered'
  BY <1>0, <1>1, <1>4 DEF i, Sum
<1>11. /\ Sum(C') \in Nat /\ Sum(D') \in Nat
  <2>1. IsFiniteSet(Borrowers)
    BY BooksTyped
  <2>2. \A v \in Borrowers : C'[v] \in Nat /\ D'[v] \in Nat
    BY <1>2 DEF C, D, Collaterals, Debts, Position
  <2> QED  BY <2>1, <2>2, SumNatural DEF Sum
<1>12. CdpTypeOK'
  <2>1. totalCollateral' \in Nat /\ totalDebt' \in Nat /\ vaultTokens' \in Nat
    BY <1>9, <1>11
  <2>2. stableSupply' \in Nat /\ interestPaid' \in Nat
    <3>1. interestPaid' \in Nat
      BY ONLY <1>0, <1>1
    <3>2. covered' \in Nat
      OBVIOUS
    <3>3. stableSupply' = totalDebt' + covered'
      BY <1>10
    <3>4. totalDebt' \in Nat
      BY <2>1
    <3>5. \A a, b \in Nat : a + b \in Nat
      OBVIOUS
    <3>6. totalDebt' + covered' \in Nat
      BY <3>2, <3>4, <3>5
    <3> QED  BY <3>1, <3>3, <3>6
  <2> QED  BY <1>0, <1>2, <2>1, <2>2 DEF CdpTypeOK
<1>13. CdpBooked'
  BY <1>7, <1>9, <1>10 DEF CdpBooked, C, D, Collaterals, Debts
<1>14. \A v \in Borrowers : positions'[v].last <= clock'
  BY <1>0, <1>2
<1> QED  BY <1>12, <1>13, <1>14 DEF CdpInv

\* Stablecoins of one person change, or move from one to another.
LEMMA StableChanges ==
  ASSUME CdpInv, NEW u \in Borrowers, NEW b \in Nat, stable' = [stable EXCEPT ![u] = b]
  PROVE  /\ stable' \in [Borrowers -> Nat]
         /\ SumFunctionOnSet(stable', Borrowers)
              = SumFunctionOnSet(stable, Borrowers) + (b - stable[u])
<1>1. stable \in [Borrowers -> Nat] /\ IntegersOn(stable, Borrowers)
      /\ SumFunctionOnSet(stable, Borrowers) \in Nat
  BY BooksTyped DEF CdpInv, CdpTypeOK
<1>2. stable' \in [Borrowers -> Nat] /\ stable'[u] = b /\ stable'[u] \in Int
      /\ u \in Borrowers
  BY <1>1
<1>3. \A v \in Borrowers \ {u} : stable[v] = stable'[v]
  BY <1>1
<1>4. SumFunctionOnSet(stable', Borrowers)
        = SumFunctionOnSet(stable, Borrowers) + stable'[u] - stable[u]
  BY ONLY <1>1, <1>2, <1>3, SumUpdate
<1>5. stable[u] \in Nat
  BY <1>1
<1> QED  BY <1>1, <1>2, <1>4, <1>5

(* What the invariant says of the vault.                                   *)
LEMMA CdpFacts ==
  ASSUME CdpInv
  PROVE  /\ vaultTokens = totalCollateral + cdpReserves /\ vaultTokens \in Nat
         /\ totalCollateral \in Nat /\ cdpReserves \in Nat /\ badDebt \in Nat /\ covered \in Nat
         /\ totalDebt \in Nat /\ stableSupply \in Nat /\ clock \in Nat
         /\ stable \in [Borrowers -> Nat] /\ ownTokens \in [Borrowers -> Nat]
BY DEF CdpInv, CdpTypeOK, CdpBooked

(* Collateral that is deposited is booked.                                 *)
LEMMA DepositBooked ==
  ASSUME CdpInv, NEW u \in Borrowers, NEW quote \in OraclePrices, NEW tokens \in Nat,
         DepositCollateral(u, tokens, quote)
  PROVE  CdpInv'
<1> DEFINE i == Interest(u, quote)
           pos == [collateral |-> positions[u].collateral + tokens,
                   debt |-> positions[u].debt + i, last |-> clock]
<1>0. /\ positions[u].collateral \in Nat /\ positions[u].debt \in Nat /\ i \in Nat
      /\ clock \in Nat /\ ownTokens[u] \in Nat
  BY AccruedIs, InterestTyped, CdpFacts
<1>1. [Accrued(u, quote) EXCEPT !.collateral = @ + tokens] = pos
  BY AccruedIs
<1>2. /\ pos \in Position /\ pos.last = clock /\ pos.debt = positions[u].debt + i
      /\ pos.collateral = positions[u].collateral + tokens
  BY <1>0 DEF Position
<1> HIDE DEF pos
<1>3. /\ Book(u, pos, quote, 0, 0) /\ tokens <= ownTokens[u]
      /\ ownTokens' = [ownTokens EXCEPT ![u] = @ - tokens]
      /\ vaultTokens' = vaultTokens + tokens
      /\ totalCollateral' = totalCollateral + tokens
      /\ UNCHANGED <<clock, stable, cdpReserves, badDebt, covered>>
  BY <1>1 DEF DepositCollateral
<1>4. ownTokens[u] - tokens \in Nat
  BY <1>0, <1>3
<1>5. ownTokens' \in [Borrowers -> Nat]
  BY <1>3, <1>4, CdpFacts
<1> HIDE DEF i
<1>6. /\ SumFunctionOnSet(stable', Borrowers) = SumFunctionOnSet(stable, Borrowers) + 0
      /\ totalCollateral' = totalCollateral + pos.collateral - positions[u].collateral
      /\ vaultTokens' = totalCollateral' + cdpReserves'
      /\ pos.debt + badDebt' = positions[u].debt + badDebt + Interest(u, quote) + 0
      /\ 0 = 0 + covered' - covered
      /\ stable' \in [Borrowers -> Nat] /\ cdpReserves' \in Nat /\ badDebt' \in Nat
      /\ covered' \in Nat /\ clock' = clock
  BY <1>0, <1>2, <1>3, CdpFacts, BooksTyped DEF i
<1> QED  BY <1>2, <1>3, <1>5, <1>6, PositionChanges

(* Collateral that is withdrawn is taken from the books.                   *)
LEMMA WithdrawBooked ==
  ASSUME CdpInv, NEW u \in Borrowers, NEW quote \in OraclePrices, NEW tokens \in Nat,
         NEW volatility, WithdrawCollateral(u, tokens, quote, volatility)
  PROVE  CdpInv'
<1> DEFINE i == Interest(u, quote)
           pos == [collateral |-> positions[u].collateral - tokens,
                   debt |-> positions[u].debt + i, last |-> clock]
<1>0. /\ positions[u].collateral \in Nat /\ positions[u].debt \in Nat /\ i \in Nat
      /\ clock \in Nat /\ ownTokens[u] \in Nat
  BY AccruedIs, InterestTyped, CdpFacts
<1>1. [Accrued(u, quote) EXCEPT !.collateral = @ - tokens] = pos
  BY AccruedIs
<1>2. tokens <= positions[u].collateral
  BY DEF WithdrawCollateral
<1>3. /\ pos \in Position /\ pos.last = clock /\ pos.debt = positions[u].debt + i
      /\ pos.collateral = positions[u].collateral - tokens
  BY <1>0, <1>2 DEF Position
<1> HIDE DEF pos
<1>4. /\ Book(u, pos, quote, 0, 0)
      /\ ownTokens' = [ownTokens EXCEPT ![u] = @ + tokens]
      /\ vaultTokens' = vaultTokens - tokens
      /\ totalCollateral' = totalCollateral - tokens
      /\ UNCHANGED <<clock, stable, cdpReserves, badDebt, covered>>
  BY <1>1 DEF WithdrawCollateral
<1>5. ownTokens' \in [Borrowers -> Nat]
  BY <1>0, <1>4, CdpFacts
<1> HIDE DEF i
<1>6. /\ SumFunctionOnSet(stable', Borrowers) = SumFunctionOnSet(stable, Borrowers) + 0
      /\ totalCollateral' = totalCollateral + pos.collateral - positions[u].collateral
      /\ vaultTokens' = totalCollateral' + cdpReserves'
      /\ pos.debt + badDebt' = positions[u].debt + badDebt + Interest(u, quote) + 0
      /\ 0 = 0 + covered' - covered
      /\ stable' \in [Borrowers -> Nat] /\ cdpReserves' \in Nat /\ badDebt' \in Nat
      /\ covered' \in Nat /\ clock' = clock
  BY <1>0, <1>3, <1>4, CdpFacts, BooksTyped DEF i
<1> QED  BY <1>3, <1>4, <1>5, <1>6, PositionChanges

(* Stablecoin that is minted is a debt.                                    *)
LEMMA MintBooked ==
  ASSUME CdpInv, NEW u \in Borrowers, NEW quote \in OraclePrices, NEW tokens \in Nat,
         NEW volatility, MintStable(u, tokens, quote, volatility)
  PROVE  CdpInv'
<1> DEFINE i == Interest(u, quote)
           pos == [collateral |-> positions[u].collateral,
                   debt |-> positions[u].debt + i + tokens, last |-> clock]
           b == stable[u] + tokens
<1>0. /\ positions[u].collateral \in Nat /\ positions[u].debt \in Nat /\ i \in Nat
      /\ clock \in Nat /\ stable[u] \in Nat
  BY AccruedIs, InterestTyped, CdpFacts
<1>1. [Accrued(u, quote) EXCEPT !.debt = @ + tokens] = pos
  BY AccruedIs
<1>2. /\ pos \in Position /\ pos.last = clock /\ pos.debt = positions[u].debt + i + tokens
      /\ pos.collateral = positions[u].collateral
  BY <1>0 DEF Position
<1> HIDE DEF pos
<1>3. /\ Book(u, pos, quote, tokens, tokens) /\ stable' = [stable EXCEPT ![u] = b]
      /\ UNCHANGED <<clock, vaultTokens, ownTokens, totalCollateral, cdpReserves,
                     badDebt, covered>>
  BY <1>1 DEF MintStable
<1>4. b \in Nat /\ tokens = b - stable[u]
  BY <1>0
<1> HIDE DEF i, b
<1>5. /\ stable' \in [Borrowers -> Nat]
      /\ SumFunctionOnSet(stable', Borrowers)
           = SumFunctionOnSet(stable, Borrowers) + (b - stable[u])
  BY <1>3, <1>4, StableChanges
<1>6. /\ SumFunctionOnSet(stable', Borrowers) = SumFunctionOnSet(stable, Borrowers) + tokens
      /\ totalCollateral' = totalCollateral + pos.collateral - positions[u].collateral
      /\ vaultTokens' = totalCollateral' + cdpReserves'
      /\ pos.debt + badDebt' = positions[u].debt + badDebt + Interest(u, quote) + tokens
      /\ tokens = tokens + covered' - covered
      /\ cdpReserves' \in Nat /\ badDebt' \in Nat
      /\ covered' \in Nat /\ clock' = clock /\ ownTokens' \in [Borrowers -> Nat]
      /\ tokens \in Int
  BY <1>0, <1>2, <1>3, <1>4, <1>5, CdpFacts DEF i
<1> QED  BY <1>2, <1>3, <1>5, <1>6, PositionChanges

(* A debt is repaid as much as stablecoin is burnt.                        *)
LEMMA RepayBooked ==
  ASSUME CdpInv, NEW u \in Borrowers, NEW quote \in OraclePrices, NEW tokens \in Nat,
         Repay(u, tokens, quote)
  PROVE  CdpInv'
<1> DEFINE i == Interest(u, quote)
           owed == positions[u].debt + i
           repaid == Min({tokens, stable[u], owed})
           pos == [collateral |-> positions[u].collateral,
                   debt |-> owed - repaid, last |-> clock]
           b == stable[u] - repaid
           minus == -repaid
<1>0. /\ positions[u].collateral \in Nat /\ positions[u].debt \in Nat /\ i \in Nat
      /\ clock \in Nat /\ stable[u] \in Nat /\ owed \in Nat
  BY AccruedIs, InterestTyped, CdpFacts
<1>1. Accrued(u, quote).debt = owed /\ [Accrued(u, quote) EXCEPT !.debt = @ - repaid] = pos
  BY AccruedIs
<1>2. Book(u, pos, quote, minus, minus) /\ stable' = [stable EXCEPT ![u] = b]
  BY <1>1 DEF Repay
<1>3. repaid \in Nat /\ repaid <= owed /\ repaid <= stable[u]
  <2> HIDE DEF owed
  <2> QED  BY <1>0, LeastOf
<1> HIDE DEF repaid
<1>4. /\ pos \in Position /\ pos.last = clock /\ pos.debt = owed - repaid
      /\ pos.collateral = positions[u].collateral /\ b \in Nat
  BY <1>0, <1>3 DEF Position
<1>5. UNCHANGED <<clock, vaultTokens, ownTokens, totalCollateral, cdpReserves,
                  badDebt, covered>>
  BY DEF Repay
<1>6. minus \in Int /\ minus = b - stable[u]
  BY <1>0, <1>3
<1>7. owed = positions[u].debt + Interest(u, quote)
  OBVIOUS
<1> HIDE DEF pos, b, minus, owed, i
<1>8. /\ stable' \in [Borrowers -> Nat]
      /\ SumFunctionOnSet(stable', Borrowers)
           = SumFunctionOnSet(stable, Borrowers) + (b - stable[u])
  BY <1>2, <1>4, StableChanges
<1>9. pos.debt + badDebt' = positions[u].debt + badDebt + Interest(u, quote) + minus
  BY <1>0, <1>3, <1>4, <1>5, <1>7, CdpFacts DEF minus, i
<1>10. /\ SumFunctionOnSet(stable', Borrowers) = SumFunctionOnSet(stable, Borrowers) + minus
       /\ totalCollateral' = totalCollateral + pos.collateral - positions[u].collateral
       /\ vaultTokens' = totalCollateral' + cdpReserves'
       /\ minus = minus + covered' - covered
       /\ cdpReserves' \in Nat /\ badDebt' \in Nat
       /\ covered' \in Nat /\ clock' = clock /\ ownTokens' \in [Borrowers -> Nat]
  BY <1>0, <1>4, <1>5, <1>6, <1>8, CdpFacts
<1> QED  BY <1>2, <1>4, <1>6, <1>8, <1>9, <1>10, PositionChanges

(* A liquidation that is only quoted accrues interest and moves nothing    *)
(* else.                                                                   *)
LEMMA QuoteBooked ==
  ASSUME CdpInv, NEW u \in Borrowers, NEW quote \in OraclePrices, NEW requested,
         QuoteLiquidation(u, requested, quote)
  PROVE  CdpInv'
<1> DEFINE i == Interest(u, quote)
           pos == Accrued(u, quote)
<1>0. /\ positions[u].collateral \in Nat /\ positions[u].debt \in Nat /\ i \in Nat
      /\ pos \in Position /\ pos.last = clock /\ pos.debt = positions[u].debt + i
      /\ pos.collateral = positions[u].collateral
  BY AccruedIs, InterestTyped
<1>1. /\ Book(u, pos, quote, 0, 0)
      /\ UNCHANGED <<clock, stable, vaultTokens, ownTokens, totalCollateral,
                     cdpReserves, badDebt, covered>>
  BY DEF QuoteLiquidation
<1> HIDE DEF pos, i
<1>2. /\ SumFunctionOnSet(stable', Borrowers) = SumFunctionOnSet(stable, Borrowers) + 0
      /\ totalCollateral' = totalCollateral + pos.collateral - positions[u].collateral
      /\ vaultTokens' = totalCollateral' + cdpReserves'
      /\ pos.debt + badDebt' = positions[u].debt + badDebt + Interest(u, quote) + 0
      /\ 0 = 0 + covered' - covered
      /\ stable' \in [Borrowers -> Nat] /\ cdpReserves' \in Nat /\ badDebt' \in Nat
      /\ covered' \in Nat /\ clock' = clock /\ ownTokens' \in [Borrowers -> Nat]
  BY <1>0, <1>1, CdpFacts, BooksTyped DEF i
<1> QED  BY <1>0, <1>1, <1>2, PositionChanges

(* A liquidation writes off what it takes.                                 *)
LEMMA LiquidateBooked ==
  ASSUME CdpInv, NEW liquidator \in Borrowers, NEW u \in Borrowers,
         NEW quote \in OraclePrices, NEW requested \in Nat,
         Liquidate(liquidator, u, requested, quote)
  PROVE  CdpInv'
<1> DEFINE i == Interest(u, quote)
           acc == Accrued(u, quote)
           repaid == Quote(acc, requested, quote).paid
           seized == Quote(acc, requested, quote).seized
           pos == [acc EXCEPT !.debt = @ - repaid, !.collateral = @ - seized]
           b == stable[liquidator] - repaid
           minus == -repaid
<1>0. /\ positions[u].collateral \in Nat /\ positions[u].debt \in Nat /\ i \in Nat
      /\ acc \in Position /\ acc.last = clock /\ acc.debt = positions[u].debt + i
      /\ acc.collateral = positions[u].collateral
      /\ clock \in Nat /\ stable[liquidator] \in Nat /\ ownTokens[liquidator] \in Nat
  BY AccruedIs, InterestTyped, CdpFacts
<1>1. repaid \in Nat /\ repaid <= acc.debt /\ seized \in Nat /\ seized <= acc.collateral
  <2> HIDE DEF acc
  <2> QED  BY <1>0, QuoteTyped
<1>2. /\ Book(u, pos, quote, minus, minus) /\ repaid <= stable[liquidator]
      /\ stable' = [stable EXCEPT ![liquidator] = b]
      /\ totalCollateral' = totalCollateral - seized
      /\ vaultTokens' = vaultTokens - seized
      /\ ownTokens' = [ownTokens EXCEPT ![liquidator] = @ + seized]
      /\ UNCHANGED <<clock, cdpReserves, badDebt, covered>>
  BY DEF Liquidate
<1> HIDE DEF acc, repaid, seized
<1>3. /\ pos = [collateral |-> acc.collateral - seized, debt |-> acc.debt - repaid,
                last |-> acc.last]
  BY <1>0, LessOf
<1> HIDE DEF pos
<1>4. /\ pos \in Position /\ pos.last = clock /\ pos.debt = positions[u].debt + i - repaid
      /\ pos.collateral = positions[u].collateral - seized
  BY <1>0, <1>1, <1>3 DEF Position
<1>5. b \in Nat /\ minus \in Int /\ minus = b - stable[liquidator]
  BY <1>0, <1>1, <1>2
<1>6. ownTokens' \in [Borrowers -> Nat]
  BY <1>0, <1>1, <1>2, CdpFacts
<1> HIDE DEF i, b
<1>7. pos.debt + badDebt' = positions[u].debt + badDebt + Interest(u, quote) + minus
  BY <1>0, <1>1, <1>2, <1>4, CdpFacts DEF i
<1> HIDE DEF minus
<1>8. /\ stable' \in [Borrowers -> Nat]
      /\ SumFunctionOnSet(stable', Borrowers)
           = SumFunctionOnSet(stable, Borrowers) + (b - stable[liquidator])
  BY <1>2, <1>5, StableChanges
<1>9. /\ SumFunctionOnSet(stable', Borrowers) = SumFunctionOnSet(stable, Borrowers) + minus
      /\ totalCollateral' = totalCollateral + pos.collateral - positions[u].collateral
      /\ vaultTokens' = totalCollateral' + cdpReserves'
      /\ minus = minus + covered' - covered
      /\ cdpReserves' \in Nat /\ badDebt' \in Nat
      /\ covered' \in Nat /\ clock' = clock
  BY <1>0, <1>1, <1>2, <1>4, <1>5, <1>8, CdpFacts
<1> QED  BY <1>2, <1>4, <1>5, <1>6, <1>7, <1>8, <1>9, PositionChanges

(* A position that liquidates itself leaves the rest of its debt as bad    *)
(* debt.                                                                   *)
LEMMA SelfLiquidateBooked ==
  ASSUME CdpInv, NEW u \in Borrowers, NEW quote \in OraclePrices, SelfLiquidate(u, quote)
  PROVE  CdpInv'
<1> DEFINE i == Interest(u, quote)
           acc == Accrued(u, quote)
           repaid == Min({acc.debt, Coverable(acc, quote)})
           pos == [acc EXCEPT !.collateral = 0, !.debt = 0]
           minus == -repaid
<1>0. /\ positions[u].collateral \in Nat /\ positions[u].debt \in Nat /\ i \in Nat
      /\ acc \in Position /\ acc.last = clock /\ acc.debt = positions[u].debt + i
      /\ acc.collateral = positions[u].collateral /\ clock \in Nat
  BY AccruedIs, InterestTyped
<1>1. repaid \in Nat /\ repaid <= acc.debt
  <2>1. quote \in Nat /\ acc.debt \in Nat
    BY <1>0, ConstantsTyped DEF CdpConstants, Position
  <2> HIDE DEF acc
  <2>2. Coverable(acc, quote) \in Nat
    BY <1>0, <2>1, CoverableTyped
  <2> QED  BY <2>1, <2>2, LeastOf
<1>2. /\ Book(u, pos, quote, minus, 0)
      /\ cdpReserves' = cdpReserves + acc.collateral
      /\ totalCollateral' = totalCollateral - acc.collateral
      /\ badDebt' = badDebt + acc.debt - repaid
      /\ covered' = covered + repaid
      /\ UNCHANGED <<clock, stable, vaultTokens, ownTokens>>
  BY DEF SelfLiquidate
<1> HIDE DEF acc, repaid
<1>3. pos = [collateral |-> 0, debt |-> 0, last |-> acc.last]
  BY <1>0, BothSet
<1> HIDE DEF pos
<1>4. /\ pos \in Position /\ pos.last = clock /\ pos.debt = 0 /\ pos.collateral = 0
  BY <1>0, <1>3 DEF Position
<1>5. minus \in Int
  BY <1>1
<1> HIDE DEF i
<1>6. /\ pos.debt + badDebt' = positions[u].debt + badDebt + Interest(u, quote) + minus
      /\ 0 = minus + covered' - covered
      /\ badDebt' \in Nat /\ covered' \in Nat
  BY <1>0, <1>1, <1>2, <1>4, CdpFacts DEF i
<1> HIDE DEF minus
<1>7. /\ SumFunctionOnSet(stable', Borrowers) = SumFunctionOnSet(stable, Borrowers) + 0
      /\ totalCollateral' = totalCollateral + pos.collateral - positions[u].collateral
      /\ vaultTokens' = totalCollateral' + cdpReserves'
      /\ cdpReserves' \in Nat /\ clock' = clock
      /\ ownTokens' \in [Borrowers -> Nat] /\ stable' \in [Borrowers -> Nat]
  BY <1>0, <1>2, <1>4, CdpFacts, BooksTyped
<1> QED  BY <1>2, <1>4, <1>5, <1>6, <1>7, PositionChanges

(* Stablecoin that changes hands is still somebody's.                      *)
LEMMA TransferBooked ==
  ASSUME CdpInv, NEW from \in Borrowers, NEW to \in Borrowers, NEW tokens \in Nat,
         TransferStable(from, to, tokens)
  PROVE  CdpInv'
<1> DEFINE sent == [stable EXCEPT ![from] = @ - tokens]
<1>0. /\ stable \in [Borrowers -> Nat] /\ tokens <= stable[from] /\ stable[from] \in Nat
      /\ IntegersOn(stable, Borrowers) /\ SumFunctionOnSet(stable, Borrowers) \in Nat
      /\ IsFiniteSet(Borrowers)
  BY CdpFacts, BooksTyped DEF TransferStable
<1>1. /\ stable' = [sent EXCEPT ![to] = @ + tokens]
      /\ UNCHANGED <<clock, positions, vaultTokens, ownTokens, totalCollateral,
                     totalDebt, stableSupply, cdpReserves, badDebt, interestPaid,
                     covered>>
  BY DEF TransferStable
<1>2. sent \in [Borrowers -> Nat] /\ sent[from] = stable[from] - tokens
      /\ \A v \in Borrowers \ {from} : stable[v] = sent[v]
  BY <1>0
<1> HIDE DEF sent
<1>3. SumFunctionOnSet(sent, Borrowers) = SumFunctionOnSet(stable, Borrowers) - tokens
      /\ IntegersOn(sent, Borrowers)
  <2>1. sent[from] \in Int /\ from \in Borrowers
    BY <1>2
  <2>2. SumFunctionOnSet(sent, Borrowers)
          = SumFunctionOnSet(stable, Borrowers) + sent[from] - stable[from]
    BY ONLY <2>1, <1>0, <1>2, SumUpdate
  <2> QED  BY <1>0, <1>2, <2>2 DEF IntegersOn
<1>4. stable' \in [Borrowers -> Nat] /\ stable'[to] = sent[to] + tokens
      /\ \A v \in Borrowers \ {to} : sent[v] = stable'[v]
  BY <1>1, <1>2
<1>5. SumFunctionOnSet(stable', Borrowers) = SumFunctionOnSet(stable, Borrowers)
  <2>1. stable'[to] \in Int /\ to \in Borrowers /\ sent[to] \in Nat
    BY <1>2, <1>4
  <2>2. SumFunctionOnSet(stable', Borrowers)
          = SumFunctionOnSet(sent, Borrowers) + stable'[to] - sent[to]
    BY ONLY <2>1, <1>3, <1>4, SumUpdate
  <2> QED  BY <1>0, <1>3, <1>4, <2>1, <2>2
<1>6. /\ SumFunction(stable') = SumFunctionOnSet(stable', Borrowers)
      /\ SumFunction(stable) = SumFunctionOnSet(stable, Borrowers)
  BY <1>0, <1>4 DEF SumFunction, SumFunctionOnSet, FoldFunction
<1>7. SumFunction(stable') = SumFunction(stable)
  BY <1>5, <1>6
<1>8. CdpTypeOK'
  BY <1>1, <1>4 DEF CdpInv, CdpTypeOK
<1>9. CdpBooked'
  BY <1>1, <1>7 DEF CdpInv, CdpBooked
<1> QED  BY <1>1, <1>8, <1>9 DEF CdpInv

(* The loans as they are deployed.                                         *)
LEMMA CdpStart == CdpInit => CdpInv
<1> SUFFICES ASSUME CdpInit PROVE CdpInv
  OBVIOUS
<1> DEFINE C == [v \in Borrowers |-> positions[v].collateral]
           D == [v \in Borrowers |-> positions[v].debt]
<1>0. IsFiniteSet(Borrowers) /\ Collateral \in [Borrowers -> Nat] /\ CdpHorizon \in Nat
  BY CdpAssumption
<1>1. CdpTypeOK /\ \A u \in Borrowers : positions[u].last <= clock
  BY <1>0 DEF CdpInit, CdpTypeOK, Position
<1>2. \A v \in Borrowers : C[v] = 0 /\ D[v] = 0 /\ stable[v] = 0
  BY DEF CdpInit
<1>3. /\ SumFunction(C) = SumFunctionOnSet(C, Borrowers)
      /\ SumFunction(D) = SumFunctionOnSet(D, Borrowers)
      /\ SumFunction(stable) = SumFunctionOnSet(stable, Borrowers)
  BY DEF CdpInit, SumFunction, SumFunctionOnSet, FoldFunction
<1>4. SumFunctionOnSet(C, Borrowers) = 0 /\ SumFunctionOnSet(D, Borrowers) = 0
      /\ SumFunctionOnSet(stable, Borrowers) = 0
  <2> HIDE DEF C, D
  <2> QED  BY <1>0, <1>2, SumZero
<1>5. CdpBooked
  <2>1. SumFunction(C) = 0 /\ SumFunction(D) = 0 /\ SumFunction(stable) = 0
    BY <1>3, <1>4
  <2> QED  BY <2>1 DEF CdpInit, CdpBooked
<1> QED  BY <1>1, <1>5 DEF CdpInv

(* Every step of the loans keeps the invariant.                            *)
LEMMA CdpKeeps == CdpInv /\ [CdpNext]_cdpVars => CdpInv'
<1> SUFFICES ASSUME CdpInv, [CdpNext]_cdpVars PROVE CdpInv'
  OBVIOUS
<1>1. CASE ClockTicks
  <2>1. /\ clock' = clock + 1 /\ clock < CdpHorizon /\ CdpHorizon \in Nat
        /\ UNCHANGED <<positions, stable, vaultTokens, ownTokens, totalCollateral,
                       totalDebt, stableSupply, cdpReserves, badDebt, interestPaid,
                       covered>>
    BY <1>1, ConstantsTyped DEF ClockTicks, CdpConstants
  <2>2. CdpTypeOK'
    BY <2>1 DEF CdpInv, CdpTypeOK
  <2>3. CdpBooked'
    BY <2>1 DEF CdpInv, CdpBooked
  <2>4. \A u \in Borrowers : positions'[u].last <= clock'
    BY <2>1 DEF CdpInv, CdpTypeOK, Position
  <2> QED  BY <2>2, <2>3, <2>4 DEF CdpInv
<1>2. ASSUME NEW u \in Borrowers, NEW other \in Borrowers, NEW tokens \in 1..MaxRequest,
             TransferStable(u, other, tokens)
      PROVE  CdpInv'
  BY <1>2, TransferBooked
<1>3. ASSUME NEW u \in Borrowers, NEW quote \in OraclePrices,
             NEW tokens \in 1..ownTokens[u] + positions[u].collateral,
             \/ DepositCollateral(u, tokens, quote)
             \/ \E volatility \in Volatilities :
                  WithdrawCollateral(u, tokens, quote, volatility)
      PROVE  CdpInv'
  BY <1>3, DepositBooked, WithdrawBooked
<1>4. ASSUME NEW u \in Borrowers, NEW quote \in OraclePrices, NEW tokens \in 1..MaxRequest,
             \/ \E volatility \in Volatilities : MintStable(u, tokens, quote, volatility)
             \/ Repay(u, tokens, quote)
             \/ QuoteLiquidation(u, tokens, quote)
             \/ \E other \in Borrowers : Liquidate(other, u, tokens, quote)
      PROVE  CdpInv'
  BY <1>4, MintBooked, RepayBooked, QuoteBooked, LiquidateBooked
<1>5. ASSUME NEW u \in Borrowers, NEW quote \in OraclePrices, SelfLiquidate(u, quote)
      PROVE  CdpInv'
  BY <1>5, SelfLiquidateBooked
<1>6. CASE UNCHANGED cdpVars
  BY <1>6 DEF cdpVars, CdpInv, CdpTypeOK, CdpBooked
<1> QED  BY <1>1, <1>2, <1>3, <1>4, <1>5, <1>6 DEF CdpNext

\* Whatever the oracle answers and in whatever order positions are funded,
\* repaid, bought or written off: the totals agree with the positions, every
\* debt is somebody's or written off, and no stablecoin is without a debt that
\* was minted or covered by a seizure, interest aside.
THEOREM LoansAreBooked == CdpSpec => [](CdpTypeOK /\ CdpBooked)
<1>1. CdpInv => CdpTypeOK /\ CdpBooked
  BY DEF CdpInv
<1> QED  BY <1>1, CdpStart, CdpKeeps, PTL DEF CdpSpec

-----------------------------------------------------------------------------
(* The ten contracts                                                       *)

(* The invariants of the contracts.                                        *)
BooksInv ==
  /\ TypeOK /\ AuctionsInv /\ PoolInv /\ VaultInv /\ BookInv
  /\ AmmInv /\ GuardInv /\ VotingInv /\ StakingInv /\ CdpInv

(* A step of all of them is, for each, a step of its own or none.           *)
LEMMA EachItsOwn ==
  ASSUME [ContractsNext]_<<contract, vars, auctionVars, poolVars, vaultVars, bookVars,
                           ammVars, guardVars, votingVars, stakingVars, cdpVars>>
  PROVE  /\ [Next]_vars /\ [AuctionsNext]_auctionVars /\ [PoolNext]_poolVars
         /\ [VaultNext]_vaultVars /\ [BookNext]_bookVars /\ [AmmNext]_ammVars
         /\ [GuardNext]_guardVars /\ [VotingNext]_votingVars
         /\ [StakingNext]_stakingVars /\ [CdpNext]_cdpVars
<1>1. CASE ContractsNext
  <2>1. /\ contract = "escrow" \/ UNCHANGED vars
        /\ contract = "auctions" \/ UNCHANGED auctionVars
        /\ contract = "pool" \/ UNCHANGED poolVars
        /\ contract = "vault" \/ UNCHANGED vaultVars
        /\ contract = "book" \/ UNCHANGED bookVars
        /\ contract = "ranges" \/ UNCHANGED ammVars
        /\ contract = "guard" \/ UNCHANGED guardVars
        /\ contract = "governance" \/ UNCHANGED votingVars
        /\ contract = "staking" \/ UNCHANGED stakingVars
        /\ contract = "cdp" \/ UNCHANGED cdpVars
    BY <1>1, Zenon DEF ContractsNext, Stays
  <2>2. \/ contract = "escrow" /\ Next
        \/ contract = "auctions" /\ AuctionsNext
        \/ contract = "pool" /\ PoolNext
        \/ contract = "vault" /\ VaultNext
        \/ contract = "book" /\ BookNext
        \/ contract = "ranges" /\ AmmNext
        \/ contract = "guard" /\ GuardNext
        \/ contract = "governance" /\ VotingNext
        \/ contract = "staking" /\ StakingNext
        \/ contract = "cdp" /\ CdpNext
    BY <1>1, Zenon DEF ContractsNext
  <2> QED  BY <2>1, <2>2
<1>2. CASE UNCHANGED <<contract, vars, auctionVars, poolVars, vaultVars, bookVars,
                       ammVars, guardVars, votingVars, stakingVars, cdpVars>>
  BY <1>2
<1> QED  BY <1>1, <1>2

(* Whatever their callers do and in whatever order, each of the ten         *)
(* contracts books what it holds: every transfer it makes is one it can     *)
(* pay, and its totals agree with its accounts.  (The pause switch is that   *)
(* of a host contract whose deployer names no admin twice.)                *)
THEOREM ContractsAreBooked ==
  ASSUME Embedded, \A list \in Founders : IsInjective(list)
  PROVE  ContractsSpec => []Booked
<1> DEFINE all == <<contract, vars, auctionVars, poolVars, vaultVars, bookVars,
                    ammVars, guardVars, votingVars, stakingVars, cdpVars>>
<1>1. ContractsInit => BooksInv
  <2> SUFFICES ASSUME ContractsInit PROVE BooksInv
    OBVIOUS
  <2>1. /\ Init /\ AuctionsInit /\ PoolInit /\ VaultInit /\ BookInit /\ AmmInit
        /\ GuardInit /\ VotingInit /\ StakingInit /\ CdpInit
    BY DEF ContractsInit
  <2>2. TypeOK /\ AuctionsInv /\ PoolInv /\ VaultInv /\ BookInv
    BY <2>1, TypeInit, AuctionsInvariant, PoolStart, VaultStart, BookStart
  <2>3. AmmInv /\ GuardInv /\ VotingInv /\ StakingInv /\ CdpInv
    BY <2>1, AmmStart, GuardStart, VotingStart, StakingStart, CdpStart
  <2> QED  BY <2>2, <2>3 DEF BooksInv
<1>2. BooksInv /\ [ContractsNext]_all => BooksInv'
  <2> SUFFICES ASSUME BooksInv, [ContractsNext]_all PROVE BooksInv'
    OBVIOUS
  <2>1. /\ [Next]_vars /\ [AuctionsNext]_auctionVars /\ [PoolNext]_poolVars
        /\ [VaultNext]_vaultVars /\ [BookNext]_bookVars /\ [AmmNext]_ammVars
        /\ [GuardNext]_guardVars /\ [VotingNext]_votingVars
        /\ [StakingNext]_stakingVars /\ [CdpNext]_cdpVars
    BY EachItsOwn
  <2>2. /\ TypeOK /\ AuctionsInv /\ PoolInv /\ VaultInv /\ BookInv
        /\ AmmInv /\ GuardInv /\ VotingInv /\ StakingInv /\ CdpInv
    BY DEF BooksInv
  <2>3. TypeOK' /\ AuctionsInv' /\ PoolInv' /\ VaultInv' /\ BookInv'
    BY <2>1, <2>2, TypeStep, AuctionsInvariant, PoolKeeps, VaultStep, BookKeeps
  <2>4. AmmInv' /\ GuardInv' /\ VotingInv' /\ StakingInv' /\ CdpInv'
    BY <2>1, <2>2, AmmStep, GuardStep, VotingStep, StakingKeeps, CdpKeeps
  <2> QED  BY <2>3, <2>4 DEF BooksInv
<1>3. BooksInv => Booked
  <2> SUFFICES ASSUME BooksInv PROVE Booked
    OBVIOUS
  <2>1. TypeOK /\ AuctionsTypeOK /\ VaultTypeOK /\ BookTypeOK /\ AmmTypeOK
    BY AuctionsTyped DEF BooksInv, VaultInv, BookInv, AmmInv
  <2>2. /\ PoolTypeOK /\ PoolBacked /\ GuardTypeOK /\ VotingTypeOK
        /\ StakingTypeOK /\ StakesBacked /\ CdpTypeOK /\ CdpBooked
    BY DEF BooksInv, PoolInv, GuardInv, VotingInv, StakingInv, CdpInv
  <2> QED  BY <2>1, <2>2 DEF Booked
<1> QED  BY <1>1, <1>2, <1>3, PTL DEF ContractsSpec
=============================================================================
