----------------------------- MODULE FoldLemmas -----------------------------
(***************************************************************************)
(* Lemmas about the operators the contracts are built from: sums over      *)
(* finite sets (SumFunctionOnSet of the community modules), division that  *)
(* rounds down, and induction over the naturals without a predicate as a   *)
(* parameter: a set of naturals that has no least counterexample is all of *)
(* them.                                                                   *)
(***************************************************************************)
EXTENDS Integers, FiniteSetsExt, FiniteSetTheorems, TLAPS

(* A set of naturals that is not empty has a least member.                 *)
LEMMA LeastNatural ==
  ASSUME NEW T \in SUBSET Nat, T # {}
  PROVE  \E m \in T : \A n \in T : m <= n
<1>1. \E m \in T : \A n \in T : ~ (<<n, m>> \in OpToRel(<, Nat))
  BY NatLessThanWellFounded, WFMin, Zenon
<1>2. OpToRel(<, Nat) = {ss \in Nat \X Nat : ss[1] < ss[2]}
  BY DEF OpToRel
<1>3. PICK m \in T : \A n \in T : ~ (<<n, m>> \in {ss \in Nat \X Nat : ss[1] < ss[2]})
  BY <1>1, <1>2, Zenon
<1>4. ASSUME NEW n \in T PROVE m <= n
  <2>1. <<n, m>> \in Nat \X Nat /\ ~ (n < m)
    BY <1>3
  <2> QED  BY <2>1
<1> QED  BY <1>4

(* Induction over the naturals, first-order: a set with 0 and, of each     *)
(* member, the next one is all of them (else there is a least one          *)
(* outside).                                                               *)
LEMMA NaturalsByInduction ==
  ASSUME NEW T \in SUBSET Nat, 0 \in T, \A n \in T : n + 1 \in T
  PROVE  T = Nat
<1> SUFFICES ASSUME Nat \ T # {} PROVE FALSE
  OBVIOUS
<1>1. PICK m \in Nat \ T : \A n \in Nat \ T : m <= n
  BY LeastNatural
<1>2. m - 1 \in Nat /\ m - 1 \notin Nat \ T
  BY <1>1
<1> QED  BY <1>1, <1>2

(* Strong form over finite sets *)
LEMMA FiniteSetsByInduction ==
  ASSUME NEW S, IsFiniteSet(S), NEW T \in SUBSET SUBSET S,
         {} \in T,
         \A s \in SUBSET S : s # {} /\ (\A x \in s : s \ {x} \in T) => s \in T
  PROVE  T = SUBSET S
<1> DEFINE bad == {Cardinality(s) : s \in (SUBSET S) \ T}
<1>1. \A s \in SUBSET S : IsFiniteSet(s) /\ Cardinality(s) \in Nat
  BY FS_Subset, FS_CardinalityType
<1> SUFFICES ASSUME bad # {} PROVE FALSE
  OBVIOUS
<1>2. PICK m \in bad : \A n \in bad : m <= n
  <2>1. bad \in SUBSET Nat
    BY <1>1
  <2> HIDE DEF bad
  <2> QED  BY <2>1, LeastNatural
<1>3. PICK s \in (SUBSET S) \ T : m = Cardinality(s)
  OBVIOUS
<1>4. PICK x \in s : s \ {x} \notin T
  BY <1>3
<1>5. Cardinality(s \ {x}) = m - 1
  BY <1>1, <1>3, FS_RemoveElement
<1>6. Cardinality(s \ {x}) \in bad
  BY <1>3, <1>4
<1>7. m \in Nat /\ m <= m - 1
  BY <1>1, <1>2, <1>3, <1>5, <1>6
<1> QED  BY <1>7

-----------------------------------------------------------------------------
Chosen(s) == CHOOSE x \in s : TRUE

\* One step of the sum of f over s, where g gives the sums of smaller sets.
SumOf(f, g, s) == IF s = {} THEN 0 ELSE f[Chosen(s)] + g[s \ {Chosen(s)}]

\* g gives the sums of f over all sets in SS
SumsOn(f, g, SS) == g = [s \in SS |-> SumOf(f, g, s)]

(* The fold takes a member of the set.                                     *)
LEMMA ChosenIn == \A s : s # {} => Chosen(s) \in s
  BY DEF Chosen

(* The community modules' sum over a set is a recursive function.          *)
LEMMA SumUnfolds ==
  ASSUME NEW f, NEW S
  PROVE  SumFunctionOnSet(f, S) = (CHOOSE g : SumsOn(f, g, SUBSET S))[S]
BY DEF SumFunctionOnSet, FoldFunctionOnSet, MapThenFoldSet, Chosen, SumsOn, SumOf

(* Two such functions agree wherever both are defined.                     *)
LEMMA SumsUnique ==
  ASSUME NEW f, NEW g, NEW h, NEW S, NEW R, R \subseteq S, IsFiniteSet(S),
         SumsOn(f, g, SUBSET S), SumsOn(f, h, SUBSET R)
  PROVE  \A s \in SUBSET R : g[s] = h[s]
<1> DEFINE T == {s \in SUBSET R : g[s] = h[s]}
<1>1. IsFiniteSet(R)
  BY FS_Subset
<1>2. \A s \in SUBSET R : g[s] = SumOf(f, g, s) /\ h[s] = SumOf(f, h, s)
  BY DEF SumsOn
<1>3. {} \in T
  BY <1>2 DEF SumOf
<1>4. ASSUME NEW s \in SUBSET R, s # {}, \A x \in s : s \ {x} \in T PROVE s \in T
  BY <1>2, <1>4, ChosenIn DEF SumOf
<1>5. T = SUBSET R
  <2> HIDE DEF T
  <2>1. T \in SUBSET SUBSET R
    BY DEF T
  <2> QED  BY <1>1, <1>3, <1>4, <2>1, FiniteSetsByInduction
<1> QED  BY <1>5

(* Such a function exists over a finite set.                               *)
LEMMA SumsExist ==
  ASSUME NEW f, NEW S, IsFiniteSet(S)
  PROVE  \E g : SumsOn(f, g, SUBSET S)
<1> DEFINE Upto(n) == {s \in SUBSET S : Cardinality(s) <= n}
           T == {n \in Nat : \E g : SumsOn(f, g, Upto(n))}
<1>1. \A s \in SUBSET S : IsFiniteSet(s) /\ Cardinality(s) \in Nat
  BY FS_Subset, FS_CardinalityType
<1>2. 0 \in T
  <2> DEFINE g == [s \in Upto(0) |-> 0]
  <2>1. \A s \in Upto(0) : s = {}
    BY <1>1, FS_EmptySet
  <2>2. SumsOn(f, g, Upto(0))
    BY <2>1 DEF SumsOn, SumOf
  <2> QED  BY <2>2
<1>3. ASSUME NEW n \in T PROVE n + 1 \in T
  <2>1. PICK g : SumsOn(f, g, Upto(n))
    OBVIOUS
  <2> DEFINE h == [s \in Upto(n + 1) |-> SumOf(f, g, s)]
  <2>2. \A s \in Upto(n) : s \in Upto(n + 1) /\ g[s] = SumOf(f, g, s)
    BY <2>1, <1>1 DEF SumsOn
  <2>3. ASSUME NEW s \in Upto(n + 1), s # {}
        PROVE  s \ {Chosen(s)} \in Upto(n)
    <3>1. Cardinality(s \ {Chosen(s)}) = Cardinality(s) - 1
      BY <1>1, <2>3, ChosenIn, FS_RemoveElement
    <3> QED  BY <3>1, <1>1
  <2>4. ASSUME NEW s \in Upto(n + 1) PROVE SumOf(f, g, s) = SumOf(f, h, s)
    BY <2>2, <2>3 DEF SumOf
  <2>5. SumsOn(f, h, Upto(n + 1))
    BY <2>4 DEF SumsOn
  <2>6. \E k : SumsOn(f, k, Upto(n + 1))
    <3> HIDE DEF h
    <3> QED  BY <2>5
  <2>7. n + 1 \in Nat
    OBVIOUS
  <2> HIDE DEF Upto
  <2> QED  BY <2>6, <2>7
<1>4. T = Nat
  <2> HIDE DEF T
  <2>1. T \in SUBSET Nat
    BY DEF T
  <2> QED  BY <1>2, <1>3, <2>1, NaturalsByInduction
<1>5. PICK g : SumsOn(f, g, Upto(Cardinality(S)))
  BY <1>1, <1>4
<1>6. Upto(Cardinality(S)) = SUBSET S
  BY <1>1, FS_Subset
<1> QED  BY <1>5, <1>6

(* The sums over all the subsets of a finite set are one such function.    *)
LEMMA SumDefined ==
  ASSUME NEW f, NEW S, IsFiniteSet(S)
  PROVE  \E g : /\ SumsOn(f, g, SUBSET S)
                /\ \A R \in SUBSET S : SumFunctionOnSet(f, R) = g[R]
<1>1. PICK g : SumsOn(f, g, SUBSET S)
  BY SumsExist
<1>2. ASSUME NEW R \in SUBSET S PROVE SumFunctionOnSet(f, R) = g[R]
  <2>1. \E k : SumsOn(f, k, SUBSET R)
    BY FS_Subset, SumsExist
  <2>2. PICK h : h = CHOOSE k : SumsOn(f, k, SUBSET R)
    OBVIOUS
  <2>3. SumsOn(f, h, SUBSET R)
    BY <2>1, <2>2
  <2>4. \A s \in SUBSET R : g[s] = h[s]
    <3>1. SumsOn(f, g, SUBSET S)
      BY <1>1
    <3>2. IsFiniteSet(S) /\ R \subseteq S
      OBVIOUS
    <3> QED  BY <3>1, <3>2, <2>3, SumsUnique
  <2> QED  BY <2>2, <2>4, SumUnfolds
<1> QED  BY <1>1, <1>2

(* The sum over a set is its chosen member's value and the rest's sum.     *)
LEMMA SumRecurs ==
  ASSUME NEW f, NEW S, IsFiniteSet(S)
  PROVE  \A R \in SUBSET S : 
           SumFunctionOnSet(f, R) =
             IF R = {} THEN 0 ELSE f[Chosen(R)] + SumFunctionOnSet(f, R \ {Chosen(R)})
<1>1. PICK g : /\ SumsOn(f, g, SUBSET S)
               /\ \A R \in SUBSET S : SumFunctionOnSet(f, R) = g[R]
  BY SumDefined
<1> QED  BY <1>1 DEF SumsOn, SumOf

-----------------------------------------------------------------------------
\* Every value of f over S is an integer.
IntegersOn(f, S) == IsFiniteSet(S) /\ \A x \in S : f[x] \in Int

(* Nothing sums to 0.                                                      *)
LEMMA SumEmpty == ASSUME NEW f PROVE SumFunctionOnSet(f, {}) = 0
BY SumRecurs, FS_EmptySet

(* Integers sum to an integer.                                             *)
LEMMA SumTyped ==
  ASSUME NEW f, NEW S, IntegersOn(f, S)
  PROVE  SumFunctionOnSet(f, S) \in Int
<1> DEFINE T == {s \in SUBSET S : SumFunctionOnSet(f, s) \in Int}
<1>1. {} \in T
  BY SumEmpty
<1>2. ASSUME NEW s \in SUBSET S, s # {}, \A x \in s : s \ {x} \in T PROVE s \in T
  <2>1. Chosen(s) \in s
    BY <1>2, ChosenIn
  <2>2. f[Chosen(s)] \in Int /\ SumFunctionOnSet(f, s \ {Chosen(s)}) \in Int
    BY <1>2, <2>1 DEF IntegersOn
  <2> QED  BY <1>2, <2>2, SumRecurs DEF IntegersOn
<1>3. T = SUBSET S
  <2> HIDE DEF T
  <2>1. T \in SUBSET SUBSET S
    BY DEF T
  <2> QED  BY <1>1, <1>2, <2>1, FiniteSetsByInduction DEF IntegersOn
<1> QED  BY <1>3

\* Any element may be taken out first.
LEMMA SumStep ==
  ASSUME NEW f, NEW S, IntegersOn(f, S), NEW x \in S
  PROVE  SumFunctionOnSet(f, S) = f[x] + SumFunctionOnSet(f, S \ {x})
<1> DEFINE Sum(s) == SumFunctionOnSet(f, s)
           T == {s \in SUBSET S : \A y \in s : Sum(s) = f[y] + Sum(s \ {y})}
<1>0. \A s \in SUBSET S : IntegersOn(f, s) /\ Sum(s) \in Int
  BY SumTyped, FS_Subset DEF IntegersOn
<1>1. \A s \in SUBSET S : s # {} => Sum(s) = f[Chosen(s)] + Sum(s \ {Chosen(s)})
  BY SumRecurs DEF IntegersOn
<1>2. {} \in T
  OBVIOUS
<1> HIDE DEF Sum
<1>3. ASSUME NEW s \in SUBSET S, s # {}, \A y \in s : s \ {y} \in T PROVE s \in T
  <2> SUFFICES ASSUME NEW y \in s, y # Chosen(s) PROVE Sum(s) = f[y] + Sum(s \ {y})
    BY <1>1
  <2> DEFINE c == Chosen(s)  r == (s \ {c}) \ {y}
  <2>1. c \in s
    BY ChosenIn
  <2>2. Sum(s) = f[c] + Sum(s \ {c})
    BY <1>1
  <2>3. Sum(s \ {c}) = f[y] + Sum(r)
    BY <1>3, <2>1
  <2>4. r = (s \ {y}) \ {c} /\ c \in s \ {y}
    BY <2>1
  <2>5. Sum(s \ {y}) = f[c] + Sum(r)
    BY <1>3, <2>4
  <2>6. f[c] \in Int /\ f[y] \in Int /\ Sum(r) \in Int
    BY <1>0, <2>1 DEF IntegersOn
  <2> HIDE DEF c, r
  <2> QED  BY <2>2, <2>3, <2>5, <2>6
<1>4. T = SUBSET S
  <2> HIDE DEF T
  <2>1. T \in SUBSET SUBSET S
    BY DEF T
  <2> QED  BY <1>2, <1>3, <2>1, FiniteSetsByInduction DEF IntegersOn
<1> QED  BY <1>4 DEF Sum
\* The sums of two functions that agree on the set.
LEMMA SumAgree ==
  ASSUME NEW f, NEW g, NEW S, IntegersOn(f, S), \A x \in S : f[x] = g[x]
  PROVE  SumFunctionOnSet(f, S) = SumFunctionOnSet(g, S)
<1> DEFINE T == {s \in SUBSET S : SumFunctionOnSet(f, s) = SumFunctionOnSet(g, s)}
<1>1. {} \in T
  BY SumEmpty
<1>2. ASSUME NEW s \in SUBSET S, s # {}, \A x \in s : s \ {x} \in T PROVE s \in T
  <2>1. Chosen(s) \in s
    BY <1>2, ChosenIn
  <2>2. SumFunctionOnSet(f, s \ {Chosen(s)}) = SumFunctionOnSet(g, s \ {Chosen(s)})
    BY <1>2, <2>1
  <2>3. /\ SumFunctionOnSet(f, s) = f[Chosen(s)] + SumFunctionOnSet(f, s \ {Chosen(s)})
        /\ SumFunctionOnSet(g, s) = g[Chosen(s)] + SumFunctionOnSet(g, s \ {Chosen(s)})
    BY <1>2, SumRecurs DEF IntegersOn
  <2>4. f[Chosen(s)] = g[Chosen(s)]
    BY <2>1
  <2> QED  BY <2>2, <2>3, <2>4
<1>3. T = SUBSET S
  <2> HIDE DEF T
  <2>1. T \in SUBSET SUBSET S
    BY DEF T
  <2> QED  BY <1>1, <1>2, <2>1, FiniteSetsByInduction DEF IntegersOn
<1> QED  BY <1>3

\* Two functions that differ at one place.
LEMMA SumUpdate ==
  ASSUME NEW f, NEW g, NEW S, NEW x \in S, IntegersOn(f, S), g[x] \in Int,
         \A y \in S \ {x} : f[y] = g[y]
  PROVE  SumFunctionOnSet(g, S) = SumFunctionOnSet(f, S) + g[x] - f[x]
<1>1. IntegersOn(g, S) /\ IntegersOn(f, S \ {x}) /\ f[x] \in Int
  BY FS_RemoveElement DEF IntegersOn
<1>2. SumFunctionOnSet(f, S \ {x}) = SumFunctionOnSet(g, S \ {x})
  BY <1>1, SumAgree
<1>3. SumFunctionOnSet(f, S \ {x}) \in Int
  BY <1>1, SumTyped
<1>4. SumFunctionOnSet(f, S) = f[x] + SumFunctionOnSet(f, S \ {x})
  BY SumStep
<1>5. SumFunctionOnSet(g, S) = g[x] + SumFunctionOnSet(g, S \ {x})
  BY <1>1, SumStep
<1> QED  BY <1>1, <1>2, <1>3, <1>4, <1>5

(* The sum is linear.                                                      *)
LEMMA SumLinear ==
  ASSUME NEW f, NEW g, NEW h, NEW c \in Int, NEW S, IntegersOn(f, S), IntegersOn(g, S),
         \A x \in S : h[x] = f[x] + c * g[x]
  PROVE  SumFunctionOnSet(h, S) = SumFunctionOnSet(f, S) + c * SumFunctionOnSet(g, S)
<1> DEFINE Sf(s) == SumFunctionOnSet(f, s)  Sg(s) == SumFunctionOnSet(g, s)
           Sh(s) == SumFunctionOnSet(h, s)
           T == {s \in SUBSET S : Sh(s) = Sf(s) + c * Sg(s)}
<1>0. \A s \in SUBSET S : IntegersOn(f, s) /\ IntegersOn(g, s) /\ Sf(s) \in Int /\ Sg(s) \in Int
  BY SumTyped, FS_Subset DEF IntegersOn
<1>1. {} \in T
  BY SumEmpty
<1>2. ASSUME NEW s \in SUBSET S, s # {}, \A x \in s : s \ {x} \in T PROVE s \in T
  <2> DEFINE x == Chosen(s)  r == s \ {x}
  <2>1. x \in s
    BY <1>2, ChosenIn
  <2>2. Sh(s) = h[x] + Sh(r) /\ Sf(s) = f[x] + Sf(r) /\ Sg(s) = g[x] + Sg(r)
    BY <1>2, SumRecurs DEF IntegersOn
  <2>3. Sh(r) = Sf(r) + c * Sg(r)
    BY <1>2, <2>1
  <2>4. Sf(r) \in Int /\ Sg(r) \in Int
    BY <1>0
  <2>5. f[x] \in Int /\ g[x] \in Int /\ h[x] = f[x] + c * g[x]
    BY <2>1 DEF IntegersOn
  <2> HIDE DEF x, r, Sf, Sg, Sh
  <2>6. c * (g[x] + Sg(r)) = c * g[x] + c * Sg(r)
    BY <2>4, <2>5
  <2> QED  BY <2>2, <2>3, <2>4, <2>5, <2>6
<1>3. T = SUBSET S
  <2> HIDE DEF T
  <2>1. T \in SUBSET SUBSET S
    BY DEF T
  <2> QED  BY <1>1, <1>2, <2>1, FiniteSetsByInduction DEF IntegersOn
<1> QED  BY <1>3

(* A sum of greater values is not less.                                    *)
LEMMA SumMonotone ==
  ASSUME NEW f, NEW g, NEW S, IntegersOn(f, S), IntegersOn(g, S), \A x \in S : f[x] <= g[x]
  PROVE  SumFunctionOnSet(f, S) <= SumFunctionOnSet(g, S)
<1> DEFINE Sf(s) == SumFunctionOnSet(f, s)  Sg(s) == SumFunctionOnSet(g, s)
           T == {s \in SUBSET S : Sf(s) <= Sg(s)}
<1>0. \A s \in SUBSET S : IntegersOn(f, s) /\ IntegersOn(g, s) /\ Sf(s) \in Int /\ Sg(s) \in Int
  BY SumTyped, FS_Subset DEF IntegersOn
<1>1. {} \in T
  BY SumEmpty
<1>2. ASSUME NEW s \in SUBSET S, s # {}, \A x \in s : s \ {x} \in T PROVE s \in T
  <2> DEFINE x == Chosen(s)  r == s \ {x}
  <2>1. x \in s
    BY <1>2, ChosenIn
  <2>2. Sf(s) = f[x] + Sf(r) /\ Sg(s) = g[x] + Sg(r)
    BY <1>2, SumRecurs DEF IntegersOn
  <2>3. Sf(r) <= Sg(r)
    BY <1>2, <2>1
  <2>4. Sf(r) \in Int /\ Sg(r) \in Int
    BY <1>0
  <2>5. f[x] \in Int /\ g[x] \in Int /\ f[x] <= g[x]
    BY <2>1 DEF IntegersOn
  <2> HIDE DEF x, r, Sf, Sg
  <2> QED  BY <2>2, <2>3, <2>4, <2>5
<1>3. T = SUBSET S
  <2> HIDE DEF T
  <2>1. T \in SUBSET SUBSET S
    BY DEF T
  <2> QED  BY <1>1, <1>2, <2>1, FiniteSetsByInduction DEF IntegersOn
<1> QED  BY <1>3

(* Zeroes sum to 0.                                                        *)
LEMMA SumZero ==
  ASSUME NEW f, NEW S, IsFiniteSet(S), \A x \in S : f[x] = 0
  PROVE  SumFunctionOnSet(f, S) = 0
<1>1. IntegersOn(f, S)
  BY DEF IntegersOn
<1>2. SumFunctionOnSet(f, S) = SumFunctionOnSet(f, S) + 1 * SumFunctionOnSet(f, S)
  BY <1>1, SumLinear
<1> QED  BY <1>1, <1>2, SumTyped

(* Naturals sum to a natural.                                              *)
LEMMA SumNatural ==
  ASSUME NEW f, NEW S, IsFiniteSet(S), \A x \in S : f[x] \in Nat
  PROVE  SumFunctionOnSet(f, S) \in Nat
<1> DEFINE z == [x \in S |-> 0]
<1>1. IntegersOn(f, S) /\ IntegersOn(z, S)
  BY DEF IntegersOn
<1>2. SumFunctionOnSet(z, S) = 0
  BY SumZero
<1>3. SumFunctionOnSet(z, S) <= SumFunctionOnSet(f, S)
  BY <1>1, SumMonotone
<1> QED  BY <1>1, <1>2, <1>3, SumTyped

\* No value is larger than the sum.
LEMMA SumCovers ==
  ASSUME NEW f, NEW S, IsFiniteSet(S), \A x \in S : f[x] \in Nat, NEW y \in S
  PROVE  f[y] <= SumFunctionOnSet(f, S)
<1>1. IntegersOn(f, S) /\ IsFiniteSet(S \ {y})
  BY FS_RemoveElement DEF IntegersOn
<1>2. SumFunctionOnSet(f, S \ {y}) \in Nat
  BY <1>1, SumNatural
<1>3. SumFunctionOnSet(f, S) = f[y] + SumFunctionOnSet(f, S \ {y})
  BY <1>1, SumStep
<1> QED  BY <1>2, <1>3

\* A sum over part of a set is that of a function that is 0 elsewhere.
LEMMA SumRestricted ==
  ASSUME NEW f, NEW g, NEW S, NEW R, R \subseteq S, IntegersOn(f, S),
         \A x \in S : g[x] = IF x \in R THEN f[x] ELSE 0
  PROVE  SumFunctionOnSet(g, S) = SumFunctionOnSet(f, R)
<1> DEFINE T == {s \in SUBSET S : SumFunctionOnSet(g, s) = SumFunctionOnSet(f, s \cap R)}
<1>0. \A s \in SUBSET S : IntegersOn(f, s) /\ IntegersOn(g, s)
                          /\ SumFunctionOnSet(f, s) \in Int
  BY SumTyped, FS_Subset DEF IntegersOn
<1>1. {} \in T
  BY SumEmpty
<1>2. ASSUME NEW s \in SUBSET S, s # {}, \A x \in s : s \ {x} \in T PROVE s \in T
  <2> DEFINE x == Chosen(s)  r == s \ {x}
  <2>1. x \in s
    BY <1>2, ChosenIn
  <2>2. SumFunctionOnSet(g, s) = g[x] + SumFunctionOnSet(g, r)
    BY <1>0, <2>1, SumStep
  <2>3. SumFunctionOnSet(g, r) = SumFunctionOnSet(f, r \cap R)
    BY <1>2, <2>1
  <2>4. CASE x \in R
    <3>1. x \in s \cap R /\ (s \cap R) \ {x} = r \cap R
      BY <2>1, <2>4
    <3>2. SumFunctionOnSet(f, s \cap R) = f[x] + SumFunctionOnSet(f, r \cap R)
      BY <1>0, <3>1, SumStep
    <3>3. g[x] = f[x]
      BY <2>1, <2>4
    <3>4. SumFunctionOnSet(g, s) = SumFunctionOnSet(f, s \cap R)
      <4> HIDE DEF x, r
      <4> QED  BY <2>2, <2>3, <3>2, <3>3
    <3> QED  BY <3>4
  <2>5. CASE x \notin R
    <3>1. s \cap R = r \cap R
      BY <2>5
    <3>2. SumFunctionOnSet(f, r \cap R) \in Int
      BY <1>0
    <3>3. g[x] = 0
      BY <2>1, <2>5
    <3>4. SumFunctionOnSet(g, s) = SumFunctionOnSet(f, r \cap R)
      <4> HIDE DEF x, r
      <4> QED  BY <2>2, <2>3, <3>2, <3>3
    <3>5. SumFunctionOnSet(g, s) = SumFunctionOnSet(f, s \cap R)
      BY <3>1, <3>4, Zenon
    <3> QED  BY <3>5
  <2> QED  BY <2>4, <2>5
<1>3. T = SUBSET S
  <2> HIDE DEF T
  <2>1. T \in SUBSET SUBSET S
    BY DEF T
  <2> QED  BY <1>1, <1>2, <2>1, FiniteSetsByInduction DEF IntegersOn
<1>4. S \cap R = R
  OBVIOUS
<1> QED  BY <1>3, <1>4
-----------------------------------------------------------------------------
(* The quotient of a division that rounds down, and what is left.          *)
LEMMA DivFloor ==
  ASSUME NEW a \in Int, NEW d \in Nat \ {0}
  PROVE  /\ a \div d \in Int
         /\ d * (a \div d) <= a /\ a < d * (a \div d) + d
OBVIOUS

(* The quotient is the greatest that fits.                                 *)
LEMMA DivGreatest ==
  ASSUME NEW a \in Int, NEW d \in Nat \ {0}, NEW q \in Int
  PROVE  /\ d * q <= a <=> q <= a \div d
<1> DEFINE p == a \div d
<1>1. p \in Int /\ d * p <= a /\ a < d * (p + 1)
  BY DivFloor
<1> HIDE DEF p
<1>2. CASE q <= p
  <2>1. d * q <= d * p
    BY <1>1, <1>2
  <2> QED BY <1>1, <1>2, <2>1 DEF p
<1>3. CASE q >= p + 1
  <2>1. d * q >= d * (p + 1)
    BY <1>1, <1>3
  <2>2. ~(d * q <= a) /\ ~(q <= p)
    BY <1>1, <1>3, <2>1
  <2> QED BY <2>2 DEF p
<1>4. q <= p \/ q >= p + 1
  BY <1>1
<1> QED BY <1>2, <1>3, <1>4

(* A greater dividend has no smaller quotient.                             *)
LEMMA DivMonotone ==
  ASSUME NEW a \in Int, NEW b \in Int, NEW d \in Nat \ {0}, a <= b
  PROVE  a \div d <= b \div d
BY DivFloor, DivGreatest

(* A multiple is divided exactly and compared by its quotient.             *)
LEMMA DivMultiple ==
  ASSUME NEW a \in Int, NEW t \in Int, NEW d \in Nat \ {0}, t % d = 0
  PROVE  /\ d * (t \div d) = t
         /\ t \div d <= a \div d <=> t <= a
<1>1. d * (t \div d) = t
  OBVIOUS
<1> QED BY <1>1, DivFloor, DivGreatest

(* Naturals divide to a natural.                                           *)
LEMMA DivNatural ==
  ASSUME NEW a \in Nat, NEW d \in Nat \ {0}
  PROVE  a \div d \in Nat
BY DivFloor, DivGreatest, d * 0 <= a

\* The largest and the smallest number of a finite set.
LEMMA FiniteExtremes ==
  ASSUME NEW S \in SUBSET Int, IsFiniteSet(S), S # {}
  PROVE  /\ Max(S) \in S /\ \A y \in S : y <= Max(S)
         /\ Min(S) \in S /\ \A y \in S : Min(S) <= y
<1> DEFINE T == {s \in SUBSET S : s # {} => /\ \E m \in s : \A y \in s : y <= m
                                            /\ \E m \in s : \A y \in s : m <= y}
<1>1. {} \in T
  OBVIOUS
<1>2. ASSUME NEW s \in SUBSET S, s # {}, \A x \in s : s \ {x} \in T PROVE s \in T
  <2>1. PICK x \in s : TRUE
    BY <1>2
  <2>2. CASE s \ {x} = {}
    BY <2>1, <2>2
  <2>3. CASE s \ {x} # {}
    <3>1. PICK m \in s \ {x} : \A y \in s \ {x} : y <= m
      BY <1>2, <2>1, <2>3
    <3>2. PICK l \in s \ {x} : \A y \in s \ {x} : l <= y
      BY <1>2, <2>1, <2>3
    <3>3. \E k \in s : \A y \in s : y <= k
      <4>1. CASE x <= m
        BY <3>1, <4>1
      <4>2. CASE m <= x
        BY <3>1, <4>2
      <4> QED  BY <4>1, <4>2
    <3>4. \E k \in s : \A y \in s : k <= y
      <4>1. CASE x <= l
        BY <3>2, <4>1
      <4>2. CASE l <= x
        BY <3>2, <4>2
      <4> QED  BY <4>1, <4>2
    <3> QED  BY <3>3, <3>4
  <2> QED  BY <2>2, <2>3
<1>3. T = SUBSET S
  <2> HIDE DEF T
  <2>1. T \in SUBSET SUBSET S
    BY DEF T
  <2> QED  BY <1>1, <1>2, <2>1, FiniteSetsByInduction
<1>4. (\E m \in S : \A y \in S : y <= m) /\ (\E m \in S : \A y \in S : m <= y)
  BY <1>3
<1> QED  BY <1>4 DEF Max, Min

-----------------------------------------------------------------------------
\* Products and quotients

(* A product of greater factors is not less.                               *)
LEMMA ProductGrows ==
  ASSUME NEW a \in Nat, NEW b \in Nat, NEW c \in Nat, NEW d \in Nat, a <= b, c <= d
  PROVE  a * c <= b * d
<1>1. a * c <= a * d
  OBVIOUS
<1>2. a * d <= b * d
  OBVIOUS
<1> QED  BY <1>1, <1>2

(* A positive factor can be cancelled.                                     *)
LEMMA Cancels ==
  ASSUME NEW a \in Int, NEW b \in Int, NEW c \in Nat \ {0}, a * c <= b * c
  PROVE  a <= b
<1> SUFFICES ASSUME b + 1 <= a PROVE FALSE
  OBVIOUS
<1>1. (b + 1) * c <= a * c
  OBVIOUS
<1>2. (b + 1) * c = b * c + c
  OBVIOUS
<1> QED  BY <1>1, <1>2

\* A sum of equal terms.
LEMMA SumConstant ==
  ASSUME NEW c \in Int, NEW S, IsFiniteSet(S), NEW f, \A x \in S : f[x] = c
  PROVE  SumFunctionOnSet(f, S) = c * Cardinality(S)
<1> DEFINE T == {s \in SUBSET S : SumFunctionOnSet(f, s) = c * Cardinality(s)}
<1>1. {} \in T
  BY SumEmpty, FS_EmptySet
<1>2. ASSUME NEW s \in SUBSET S, s # {}, \A x \in s : s \ {x} \in T PROVE s \in T
  <2>1. PICK x \in s : TRUE
    BY <1>2
  <2>2. IsFiniteSet(s) /\ IntegersOn(f, s)
    BY FS_Subset DEF IntegersOn
  <2>3. SumFunctionOnSet(f, s) = f[x] + SumFunctionOnSet(f, s \ {x})
    BY <2>2, SumStep
  <2>4. Cardinality(s) \in Nat /\ Cardinality(s \ {x}) = Cardinality(s) - 1
    BY <2>2, FS_CardinalityType, FS_RemoveElement
  <2>5. SumFunctionOnSet(f, s \ {x}) = c * Cardinality(s \ {x})
    BY <1>2
  <2>6. f[x] = c
    OBVIOUS
  <2> DEFINE n == Cardinality(s)
  <2> HIDE DEF n
  <2>7. c + c * (n - 1) = c * n
    BY <2>4 DEF n
  <2> QED  BY <2>3, <2>4, <2>5, <2>6, <2>7 DEF n
<1>3. T = SUBSET S
  <2> HIDE DEF T
  <2>1. T \in SUBSET SUBSET S
    BY DEF T
  <2> QED  BY <1>1, <1>2, <2>1, FiniteSetsByInduction
<1> QED  BY <1>3

\* A number has an integer square root.
LEMMA RootExists ==
  ASSUME NEW x \in Nat
  PROVE  \E r \in 0..x : r * r <= x /\ x < (r + 1) * (r + 1)
<1> DEFINE T == {r \in 0..x : r * r <= x}
<1>1. T \in SUBSET Int /\ IsFiniteSet(T) /\ 0 \in T
  <2>1. IsFiniteSet(0..x)
    BY FS_Interval
  <2> QED  BY <2>1, FS_Subset
<1> DEFINE m == Max(T)
<1>2. m \in T /\ \A y \in T : y <= m
  <2> HIDE DEF T
  <2> QED  BY <1>1, FiniteExtremes
<1> HIDE DEF m
<1>3. m \in Nat /\ m \in 0..x /\ m * m <= x
  BY <1>2
<1>4. x < (m + 1) * (m + 1)
  <2> SUFFICES ASSUME (m + 1) * (m + 1) <= x PROVE FALSE
    BY <1>3
  <2>1. m + 1 <= (m + 1) * (m + 1)
    BY <1>3
  <2>2. m + 1 \in T
    BY <1>3, <2>1
  <2> QED  BY <1>2, <1>3, <2>2
<1> QED  BY <1>3, <1>4
=============================================================================
