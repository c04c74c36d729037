--------------------------- MODULE ConcentratedAmm ---------------------------
(***************************************************************************)
(* contracts/concentrated_amm: liquidity is provided between two ticks and   *)
(* counts while the pool's tick is between them; the fees of a swap belong  *)
(* to what counted when they were paid.  To share them in constant time     *)
(* each tick keeps how much had been earned on its far side.                *)
(*                                                                          *)
(* The arithmetic of prices decides only how far a swap goes and what is    *)
(* paid for liquidity, and is left open: a swap may end, or cross the next  *)
(* tick, wherever the code asks.  Fees are those in token A, which are paid *)
(* as the tick falls; those in B are alike.  A call is one atomic step in   *)
(* the code; here a swap is one step per turn of its loop, and no other     *)
(* call may come between them.                                              *)
(***************************************************************************)
EXTENDS Integers, FiniteSetsExt, Functions

CONSTANTS
  Providers,  \* who mints
  Spans,      \* the ranges <<lower, upper>> they use
  Spacing,    \* tick_spacing
  WordSize,   \* ticks per word of the bitmap: 64
  StartTick,  \* initial_tick
  Unit,       \* Q64, of the growth per unit of liquidity
  Portions,   \* liquidity minted or burnt at once
  Earnings,   \* fees of one turn of a swap's loop
  MaxGross,   \* bound: liquidity of all positions
  MaxPaid     \* bound: fees paid in all

Ends == {span[1] : span \in Spans} \cup {span[2] : span \in Spans}
PositionKeys == Providers \X Spans

\* PriceRange a swap may end at.
PriceRange == 2 * Min(Ends) - 1 .. 2 * Max(Ends) + 1

ASSUME AmmAssumption ==
  /\ Spacing \in Nat \ {0} /\ WordSize \in Nat \ {0} /\ Unit \in Nat \ {0}
  /\ StartTick \in Int /\ IsFiniteSet(Providers) /\ IsFiniteSet(Spans)
  /\ \A span \in Spans : span \in Int \X Int /\ span[1] < span[2]
  /\ \A t \in Ends : t % Spacing = 0
  /\ Portions \subseteq Nat /\ Earnings \subseteq Nat

VARIABLES
  tick,      \* CurrentTick
  price,     \* CurrentSqrtPrice: 2 * t is that of tick t, 2 * t + 1 one above it
  active,    \* Liquidity
  growth,    \* FeeGrowthGlobal0
  tickInfo,  \* Tick(t): liquidity_gross, liquidity_net, fee_growth_outside_0
  bitmap,    \* the ticks whose bit is set
  position,  \* Position: liquidity, fee_growth_inside_0_last, tokens_owed_0
  swapping,  \* the direction of the swap in progress
  paid,      \* history: fees paid in
  collected  \* history: fees paid out

ammVars == <<tick, price, active, growth, tickInfo, bitmap, position, swapping, paid,
             collected>>

NoInfo == [gross |-> 0, net |-> 0, outside |-> 0]
NoPosition == [liquidity |-> 0, last |-> 0, owed |-> 0]

AmmTypeOK ==
  /\ tick \in Int /\ price \in Int /\ active \in Nat /\ growth \in Nat
  /\ tickInfo \in [Ends -> [gross : Nat, net : Int, outside : Int]]
  /\ bitmap \subseteq Ends
  /\ position \in [PositionKeys -> [liquidity : Nat, last : Int, owed : Nat]]
  /\ swapping \in {"no", "falls", "rises"}
  /\ paid \in Nat /\ collected \in Nat

AmmInit ==
  /\ tick = StartTick /\ price = 2 * StartTick /\ active = 0 /\ growth = 0
  /\ tickInfo = [t \in Ends |-> NoInfo] /\ bitmap = {}
  /\ position = [k \in PositionKeys |-> NoPosition]
  /\ swapping = "no" /\ paid = 0 /\ collected = 0

-----------------------------------------------------------------------------
\* get_fee_growth_inside: what has been earned between the ends of a range, up
\* to a constant that is the range's own.
Inside(info, span) ==
  LET below == IF tick >= span[1] THEN info[span[1]].outside
                                  ELSE growth - info[span[1]].outside
      above == IF tick < span[2] THEN info[span[2]].outside
                                 ELSE growth - info[span[2]].outside
  IN  growth - below - above

\* What a position has earned since it was last looked at.
Earned(p, inside) == (p.liquidity * (inside - p.last)) \div Unit

(* Mutant: a tick that is used again keeps what it had.                    *)
TickUpdatedStale(info, t, delta, isUpper) ==
  LET net == info.net + (IF isUpper THEN -delta ELSE delta)
      gross == info.gross + delta
  IN  IF gross = 0 THEN NoInfo
      ELSE [gross |-> gross, net |-> net, outside |-> info.outside]

\* update_tick.  A tick that nobody used has, by convention, seen all of the
\* growth below it.  One that nobody uses any more is removed.
TickUpdated(info, t, delta, isUpper) ==
  LET net == info.net + (IF isUpper THEN -delta ELSE delta)
      gross == info.gross + delta
      outside == IF info.gross = 0 /\ t <= tick THEN growth ELSE info.outside
  IN  IF gross = 0 THEN NoInfo
      ELSE [gross |-> gross, net |-> net, outside |-> outside]

EndsUpdated(span, delta) ==
  [tickInfo EXCEPT ![span[1]] = TickUpdated(@, span[1], delta, FALSE),
                   ![span[2]] = TickUpdated(@, span[2], delta, TRUE)]

\* The bits of the ends that came into use or went out of it are flipped.
Flipped(info, span) ==
  LET flips == {t \in {span[1], span[2]} : (info[t].gross = 0) # (tickInfo[t].gross = 0)}
  IN  (bitmap \ flips) \cup (flips \ bitmap)

InSpan(t, span) == span[1] <= t /\ t < span[2]

\* What some of the positions provide.
Provided(K) == SumFunctionOnSet([k \in PositionKeys |-> position[k].liquidity], K)

-----------------------------------------------------------------------------
Mint(k, amount) ==
  LET span == k[2]
      info == EndsUpdated(span, amount)
      inside == Inside(info, span)
      p == IF position[k] = NoPosition THEN [NoPosition EXCEPT !.last = inside]
           ELSE position[k]
  IN  /\ swapping = "no"
      /\ amount > 0
      /\ Provided(PositionKeys) + amount <= MaxGross
      /\ tickInfo' = info
      /\ bitmap' = Flipped(info, span)
      /\ position' = [position EXCEPT ![k] =
           [liquidity |-> p.liquidity + amount, last |-> inside,
            owed |-> p.owed + Earned(p, inside)]]
      /\ active' = IF InSpan(tick, span) THEN active + amount ELSE active
      /\ UNCHANGED <<tick, price, growth, swapping, paid, collected>>

\* What has been earned stays owed when the liquidity is gone.
BurnLiquidity(k, amount) ==
  LET span == k[2]
      p == position[k]
      inside == Inside(tickInfo, span)
      info == EndsUpdated(span, -amount)
      left == [liquidity |-> p.liquidity - amount, last |-> inside,
               owed |-> p.owed + Earned(p, inside)]
  IN  /\ swapping = "no"
      /\ p # NoPosition /\ amount <= p.liquidity
      /\ position' = [position EXCEPT ![k] =
           IF left.liquidity = 0 /\ left.owed = 0 THEN NoPosition ELSE left]
      /\ tickInfo' = info
      /\ bitmap' = Flipped(info, span)
      /\ active' = IF InSpan(tick, span) THEN active - amount ELSE active
      /\ UNCHANGED <<tick, price, growth, swapping, paid, collected>>

CollectFees(k) ==
  LET p == position[k]
      inside == Inside(tickInfo, k[2])
  IN  /\ swapping = "no"
      /\ p # NoPosition
      /\ position' = [position EXCEPT ![k] =
           IF p.liquidity = 0 THEN NoPosition
           ELSE [p EXCEPT !.last = inside, !.owed = 0]]
      /\ collected' = collected + p.owed + Earned(p, inside)
      /\ UNCHANGED <<tick, price, active, growth, tickInfo, bitmap, swapping, paid>>

-----------------------------------------------------------------------------
\* next_initialized_tick_within_one_word: the next tick in use in the swap's
\* direction, among those whose bit is in the same word; none if there is none.
NextInUse ==
  LET here == tick \div Spacing
      word(c) == c \div WordSize
      near == IF swapping = "falls"
              THEN {t \in bitmap : t \div Spacing <= here
                                   /\ word(t \div Spacing) = word(here)}
              ELSE {t \in bitmap : t \div Spacing > here
                                   /\ word(t \div Spacing) = word(here + 1)}
  IN  IF near = {} THEN {}
      ELSE {IF swapping = "falls" THEN Max(near) ELSE Min(near)}

SwapStart(direction) ==
  /\ swapping = "no"
  /\ swapping' = direction
  /\ UNCHANGED <<tick, price, active, growth, tickInfo, bitmap, position, paid, collected>>

\* One turn's fee, shared by the liquidity that counts.
FeePaid(fee) ==
  /\ paid + fee <= MaxPaid
  /\ paid' = paid + fee
  /\ growth' = IF swapping = "falls" THEN growth + (fee * Unit) \div active ELSE growth

(* Mutant: the tick that was crossed stays the pool's, whichever way.      *)
CrossOnto(t, fee) ==
  LET net == IF swapping = "falls" THEN -tickInfo[t].net ELSE tickInfo[t].net
  IN  /\ swapping # "no"
      /\ t \in NextInUse
      /\ IF active = 0 THEN fee = 0 /\ UNCHANGED <<growth, paid>>
         ELSE (swapping = "rises" => fee = 0) /\ FeePaid(fee)
      /\ tickInfo' = [tickInfo EXCEPT ![t].outside = growth' - @]
      /\ active' = Max({0, active + net})
      /\ tick' = t
      /\ price' = 2 * (IF active = 0 THEN tick' ELSE t)
      /\ UNCHANGED <<bitmap, position, swapping, collected>>

(* Mutant: the far side of a tick is not exchanged as it is crossed.       *)
CrossUnturned(t, fee) ==
  LET net == IF swapping = "falls" THEN -tickInfo[t].net ELSE tickInfo[t].net
  IN  /\ swapping # "no"
      /\ t \in NextInUse
      /\ IF active = 0 THEN fee = 0 /\ UNCHANGED <<growth, paid>>
         ELSE (swapping = "rises" => fee = 0) /\ FeePaid(fee)
      /\ active' = Max({0, active + net})
      /\ tick' = IF swapping = "falls" THEN t - 1 ELSE t
      /\ price' = 2 * (IF active = 0 THEN tick' ELSE t)
      /\ UNCHANGED <<tickInfo, bitmap, position, swapping, collected>>

\* A turn of swap's loop that reaches the next tick in use: what ends there
\* stops counting, what begins there starts, and far and near side of the tick
\* are exchanged.  Where nothing counts the tick is reached for nothing.
Cross(t, fee) ==
  LET net == IF swapping = "falls" THEN -tickInfo[t].net ELSE tickInfo[t].net
  IN  /\ swapping # "no"
      /\ t \in NextInUse
      /\ IF active = 0 THEN fee = 0 /\ UNCHANGED <<growth, paid>>
         ELSE (swapping = "rises" => fee = 0) /\ FeePaid(fee)
      /\ tickInfo' = [tickInfo EXCEPT ![t].outside = growth' - @]
      /\ active' = Max({0, active + net})
      /\ tick' = IF swapping = "falls" THEN t - 1 ELSE t
      /\ price' = 2 * (IF active = 0 THEN tick' ELSE t)
      /\ UNCHANGED <<bitmap, position, swapping, collected>>

\* Where the price may be when the input has been used up: on its way to the
\* next tick in use, and beyond any other.
PriceReached ==
  LET ahead == {2 * t : t \in NextInUse}
  IN  IF active = 0 THEN {price}
      ELSE IF swapping = "falls"
      THEN {p \in PriceRange : p <= price /\ \A t \in ahead : t <= price => t <= p}
      ELSE {p \in PriceRange : p >= price /\ \A t \in ahead : t >= price => t >= p}

\* The last turn: the input is used up before the next tick in use, or there is
\* neither liquidity nor such a tick, or nothing is left after the last one.
\* The price moves and the tick does not.
SwapEnds(fee) ==
  /\ swapping # "no"
  /\ swapping' = "no"
  /\ IF active = 0 \/ swapping = "rises"
     THEN fee = 0 /\ UNCHANGED <<growth, paid>>
     ELSE FeePaid(fee)
  /\ price' \in PriceReached
  /\ UNCHANGED <<tick, active, tickInfo, bitmap, position, collected>>

AmmNext ==
  \/ \E k \in PositionKeys : CollectFees(k)
  \/ \E k \in PositionKeys, amount \in Portions : Mint(k, amount) \/ BurnLiquidity(k, amount)
  \/ \E direction \in {"falls", "rises"} : SwapStart(direction)
  \/ \E fee \in Earnings : SwapEnds(fee) \/ \E t \in Ends : Cross(t, fee)

AmmSpec == AmmInit /\ [][AmmNext]_ammVars

-----------------------------------------------------------------------------
\* Properties

\* What counts is the liquidity of the positions whose range holds the pool's
\* tick, each tick knows what begins and ends there, and the bitmap finds the
\* ticks that any position uses.
RangesSound ==
  LET from(t) == {k \in PositionKeys : k[2][1] = t}
      upTo(t) == {k \in PositionKeys : k[2][2] = t}
  IN  /\ active = Provided({k \in PositionKeys : InSpan(tick, k[2])})
      /\ \A t \in Ends :
           /\ tickInfo[t].net = Provided(from(t)) - Provided(upTo(t))
           /\ tickInfo[t].gross = Provided(from(t)) + Provided(upTo(t))
           /\ t \in bitmap <=> tickInfo[t].gross > 0

\* The positions can never collect more fees than the swaps have paid, and none
\* has earned less than nothing, which the code's unsigned subtraction would
\* turn into a huge sum.
FeesCovered ==
  LET due == [k \in PositionKeys |-> Earned(position[k], Inside(tickInfo, k[2]))]
      claim == [k \in PositionKeys |-> position[k].owed + due[k]]
  IN  /\ \A k \in PositionKeys : due[k] >= 0
      /\ collected + SumFunctionOnSet(claim, PositionKeys) <= paid

\* Where nothing counts there is nothing: "no liquidity at current price", as the
\* swap's loop says of it before it moves on (lib.rs:547).
NothingWhereNothingCounts ==
  active = 0 => \A k \in PositionKeys :
                  2 * k[2][1] < price /\ price < 2 * k[2][2] => position[k].liquidity = 0
=============================================================================
