----------------------------- MODULE HybridBook -----------------------------
(***************************************************************************)
(* contracts/hybrid_amm_lob: a pool of two tokens with a book of limit      *)
(* orders in front of it.  A swap names what it wants out, takes it from    *)
(* the orders first and from the pool then.                                 *)
(*                                                                          *)
(* A call is one action.  Callers can pay what they are asked for and their *)
(* bound on the input never binds: both only decide whether a call fails,   *)
(* and a call that fails changes nothing.  What a taker pays for an order   *)
(* goes to its maker and never through the contract.                        *)
(***************************************************************************)
EXTENDS Integers, Functions, SequencesExt

CONSTANTS
  Scale,       \* PRICE_SCALE
  Points,      \* BPS_DENOMINATOR
  LpCharge,    \* lp_fee_bps, of the input to the pool
  OrderPrices, \* of B for one A, times Scale
  Depths,      \* settings of max_match_depth
  Tolerances,  \* settings of max_price_deviation_bps
  MaxOrders,   \* bound: orders placed
  MaxHeld      \* bound: what the contract holds of each token

ASSUME BookAssumption ==
  /\ Scale \in Nat \ {0} /\ Points \in Nat \ {0} /\ LpCharge \in 0..Points - 1
  /\ OrderPrices \subseteq Nat \ {0} /\ Depths \subseteq Nat \ {0}
  /\ Tolerances \subseteq 1..Points
  /\ MaxOrders \in Nat /\ MaxHeld \in Nat

Tokens == {"A", "B"}
OtherToken(t) == IF t = "A" THEN "B" ELSE "A"

VARIABLES
  depth,     \* orders matched during this ledger
  limits,    \* Guards
  reserve,   \* reserve_a and reserve_b
  lpShares,  \* total_shares; whose they are is left out
  book,      \* the orders that offer each token: asks offer A, bids offer B
  nextOrder, \* next_order_id
  owned       \* what the contract owns of each token

bookVars == <<depth, limits, reserve, lpShares, book, nextOrder, owned>>

Order == [id : Nat, price : OrderPrices, amount : Nat]

BookTypeOK ==
  /\ depth \in Nat
  /\ limits \in [depth : Depths, tolerance : Tolerances]
  /\ reserve \in [Tokens -> Nat] /\ lpShares \in Nat
  /\ book \in [Tokens -> Seq(Order)]
  /\ nextOrder \in 1..MaxOrders + 1
  /\ owned \in [Tokens -> Nat]

BookInit ==
  /\ depth = 0
  /\ limits \in [depth : Depths, tolerance : Tolerances]
  /\ reserve = [t \in Tokens |-> 0] /\ lpShares = 0
  /\ book = [t \in Tokens |-> <<>>] /\ nextOrder = 1
  /\ owned = [t \in Tokens |-> 0]

-----------------------------------------------------------------------------
Smaller(x, y) == IF x < y THEN x ELSE y
Distance(x, y) == IF x < y THEN y - x ELSE x - y

\* The price that the reserves stand for; 0 when they stand for none.
SpotPrice(r) == IF r["A"] > 0 /\ r["B"] > 0 THEN (r["B"] * Scale) \div r["A"] ELSE 0

DeviationBps(price, reference) == (Distance(price, reference) * Points) \div reference

\* What an order holds in escrow: of the token it offers, for all that is left
\* of it.  The amount of any order is one of A.
Escrow(t, o) == IF t = "A" THEN o.amount ELSE (o.amount * o.price) \div Scale

\* How much of an order's amount is used up by taking out of its escrow.
UsedBy(t, o, out) == IF t = "A" THEN out ELSE (out * Scale) \div o.price

\* Who is served before whom: the better price for the taker.
Better(t, price, than) == IF t = "A" THEN price < than ELSE price > than

(* Mutant: the newest of equal prices first.                              *)
InsertBeforeEqual(t, orders, o) ==
  LET before == SelectSeq(orders, LAMBDA p : Better(t, p.price, o.price))
      after == SelectSeq(orders, LAMBDA p : ~Better(t, p.price, o.price))
  IN  before \o <<o>> \o after

\* insert_ask, insert_bid: in front of the first order that is worse.
InsertOrder(t, orders, o) ==
  LET worse == {i \in 1..Len(orders) : Better(t, o.price, orders[i].price)}
      at == CHOOSE i \in worse \cup {Len(orders) + 1} : \A j \in worse : i <= j
  IN  InsertAt(orders, at, o)

-----------------------------------------------------------------------------
DepositPair(a, b) ==
  LET root == CHOOSE r \in 0..a * b : r * r <= a * b /\ a * b < (r + 1) * (r + 1)
      minted == IF lpShares = 0 THEN root
                ELSE Smaller((a * lpShares) \div reserve["A"],
                             (b * lpShares) \div reserve["B"])
      brought == [t \in Tokens |-> IF t = "A" THEN a ELSE b]
  IN  /\ lpShares > 0 => reserve["A"] > 0 /\ reserve["B"] > 0
      /\ \A t \in Tokens : owned[t] + brought[t] <= MaxHeld
      /\ owned' = [t \in Tokens |-> owned[t] + brought[t]]
      /\ reserve' = [t \in Tokens |-> reserve[t] + brought[t]]
      /\ lpShares' = lpShares + minted
      /\ UNCHANGED <<depth, limits, book, nextOrder>>

\* Some holder's shares, or part of them.
WithdrawPair(burnt) ==
  LET out == [t \in Tokens |-> (burnt * reserve[t]) \div lpShares]
  IN  /\ burnt \in 1..lpShares
      /\ \A t \in Tokens : out[t] <= owned[t]
      /\ owned' = [t \in Tokens |-> owned[t] - out[t]]
      /\ reserve' = [t \in Tokens |-> reserve[t] - out[t]]
      /\ lpShares' = lpShares - burnt
      /\ UNCHANGED <<depth, limits, book, nextOrder>>

SetGuards(g) ==
  /\ limits' = g
  /\ UNCHANGED <<depth, reserve, lpShares, book, nextOrder, owned>>

PlaceOrder(t, price, amount) ==
  LET o == [id |-> nextOrder, price |-> price, amount |-> amount]
  IN  /\ nextOrder <= MaxOrders
      /\ owned[t] + Escrow(t, o) <= MaxHeld
      /\ owned' = [owned EXCEPT ![t] = @ + Escrow(t, o)]
      /\ book' = [book EXCEPT ![t] = InsertOrder(t, @, o)]
      /\ nextOrder' = nextOrder + 1
      /\ UNCHANGED <<depth, limits, reserve, lpShares>>

(* Mutant: the refund is the amount, of whatever the order offers.         *)
CancelByAmount(t, i) ==
  LET refund == book[t][i].amount
  IN  /\ refund <= owned[t]
      /\ owned' = [owned EXCEPT ![t] = @ - refund]
      /\ book' = [book EXCEPT ![t] = RemoveAt(@, i)]
      /\ UNCHANGED <<depth, limits, reserve, lpShares, nextOrder>>

\* By its maker; the order is found by its id.
CancelOrder(t, i) ==
  LET refund == Escrow(t, book[t][i])
  IN  /\ refund <= owned[t]
      /\ owned' = [owned EXCEPT ![t] = @ - refund]
      /\ book' = [book EXCEPT ![t] = RemoveAt(@, i)]
      /\ UNCHANGED <<depth, limits, reserve, lpShares, nextOrder>>

-----------------------------------------------------------------------------
\* An order priced too far from the pool, to the taker's disadvantage.
OutOfBand(t, price, reference) ==
  /\ reference > 0
  /\ Better(t, reference, price)
  /\ DeviationBps(price, reference) > limits.tolerance

\* One order o that offers t on a course through them: what is left to fill, the
\* orders matched, the orders that stay.  The course is over at the first order
\* out of the band and when the ledger's depth is spent.
Meet(s, t, o) ==
  LET fill == Smaller(s.left, Escrow(t, o))
      left == [o EXCEPT !.amount = @ - UsedBy(t, o, fill)]
  IN  IF s.over \/ s.left = 0 \/ s.count >= limits.depth - depth
           \/ OutOfBand(t, o.price, SpotPrice(reserve))
      THEN [s EXCEPT !.over = TRUE, !.orders = Append(@, o)]
      ELSE [over |-> FALSE, left |-> s.left - fill, count |-> s.count + 1,
            orders |-> IF left.amount = 0 THEN s.orders ELSE Append(s.orders, left)]

\* The course, the best order first.
Matched(t, out) ==
  LET met[i \in 0..Len(book[t])] ==
        IF i = 0 THEN [over |-> FALSE, left |-> out, count |-> 0, orders |-> <<>>]
        ELSE Meet(met[i - 1], t, book[t][i])
  IN  met[Len(book[t])]

\* What the pool asks for the rest, always more than the exact price.
PoolInput(t, out) ==
  LET in == reserve[OtherToken(t)]
  IN  (in * out * Points) \div ((reserve[t] - out) * (Points - LpCharge)) + 1

\* swap for out of t.  A swap that would move the pool's price too far fails.
SwapFor(t, out) ==
  LET m == Matched(t, out)
      u == OtherToken(t)
      in == IF m.left > 0 THEN PoolInput(t, m.left) ELSE 0
      after == [reserve EXCEPT ![t] = @ - m.left, ![u] = @ + in]
      reference == SpotPrice(reserve)
  IN  /\ m.left > 0 =>
           /\ m.left < reserve[t]
           /\ reference > 0 =>
                /\ SpotPrice(after) > 0
                /\ DeviationBps(SpotPrice(after), reference) <= limits.tolerance
      /\ out <= owned[t] /\ owned[u] + in <= MaxHeld
      /\ book' = [book EXCEPT ![t] = m.orders]
      /\ depth' = depth + m.count
      /\ reserve' = after
      /\ owned' = [owned EXCEPT ![t] = @ - out, ![u] = @ + in]
      /\ UNCHANGED <<limits, lpShares, nextOrder>>

\* The count of an earlier ledger reads as zero.
DepthRenewed ==
  /\ depth' = 0
  /\ UNCHANGED <<limits, reserve, lpShares, book, nextOrder, owned>>

BookNext ==
  \/ DepthRenewed
  \/ \E g \in [depth : Depths, tolerance : Tolerances] : SetGuards(g)
  \/ \E a \in 1..MaxHeld :
       \/ \E b \in 1..MaxHeld : DepositPair(a, b)
       \/ WithdrawPair(a)
       \/ \E t \in Tokens :
            \/ \E price \in OrderPrices : PlaceOrder(t, price, a)
            \/ SwapFor(t, a)
  \/ \E t \in Tokens : \E i \in 1..Len(book[t]) : CancelOrder(t, i)

BookSpec == BookInit /\ [][BookNext]_bookVars

-----------------------------------------------------------------------------
\* Properties

\* No two orders are the same: their ids differ.
InEscrow(t) == SumFunction([o \in ToSet(book[t]) |-> Escrow(t, o)])

\* What the contract owns is the pool's reserves and the escrow of what is left
\* of the orders, after any partial fills and refunds; of two orders the one
\* that a taker meets first is better for the taker, or as good and older; an
\* order that is used up is not in the book.  Prices divide the scale here: of
\* others see PoolUntouched.
BookSound ==
  \A t \in Tokens :
    /\ owned[t] = reserve[t] + InEscrow(t)
    /\ \A i, j \in 1..Len(book[t]) : i < j =>
         \/ Better(t, book[t][i].price, book[t][j].price)
         \/ book[t][i].price = book[t][j].price /\ book[t][i].id < book[t][j].id
    /\ \A i \in 1..Len(book[t]) : book[t][i].amount > 0

\* The orders are paid out of their escrow alone, so the pool has its reserves:
\* a fill releases what the order's maker has put in (lib.rs:739).
PoolUntouched == \A t \in Tokens : owned[t] >= reserve[t]
=============================================================================
