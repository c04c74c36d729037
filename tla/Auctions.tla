------------------------------ MODULE Auctions ------------------------------
(***************************************************************************)
(* contracts/auction_factory and the two kinds of auctions it deploys,      *)
(* english_auction and dutch_auction, together with the NFTs and the        *)
(* payment token they move.  Every call runs alone and leaves no trace when *)
(* it fails, so a call is one action; a transfer the sender cannot make     *)
(* fails the call.                                                          *)
(*                                                                          *)
(* The salt of a deployment is the seller, the token and the kind, so these *)
(* three are the address of an auction.                                     *)
(***************************************************************************)
EXTENDS Integers, FiniteSetsExt, Functions

CONSTANTS
  Persons,        \* who sells and bids
  Lots,           \* NFTs
  Coins,          \* payment tokens each person starts with
  Fees,           \* what the admins may set the deployment fee to
  Starts,         \* starting prices of English auctions
  Prices,         \* their reserves, and prices Dutch auctions start from
  Durations,      \* its lengths in ledgers
  SnipeWindow,    \* ANTI_SNIPE_WINDOW_LEDGERS
  SnipeExtension, \* ANTI_SNIPE_EXTENSION_LEDGERS
  Horizon,        \* bound: last ledger
  Nobody          \* no bidder, no auction

\* Without bids end_auction finds a reserve of 0 reached and then no bidder, so
\* the run's sellers ask for something.
ASSUME AuctionsAssumption ==
  /\ IsFiniteSet(Persons) /\ IsFiniteSet(Lots)
  /\ Coins \in Nat /\ Horizon \in Nat
  /\ SnipeWindow \in Nat /\ SnipeExtension \in Nat
  /\ Fees \cup Starts \cup Prices \cup Durations \subseteq Nat \ {0}
  /\ Nobody \notin Persons

VARIABLES
  block,  \* ledger sequence
  fee,    \* DeploymentFee; 0 before it is configured
  sales,  \* the deployed contracts' storage, by address
  owner,  \* of each lot: a person or an auction
  purse,  \* payment tokens of each person
  escrow, \* payment tokens of each auction
  due     \* history: what each person would own had only sales and fees
          \* moved money

auctionVars == <<block, fee, sales, owner, purse, escrow, due>>

English == {"english"} \X Persons \X Lots
Dutch == {"dutch"} \X Persons \X Lots
Addresses == English \cup Dutch
SellerOf(a) == a[2]
LotOf(a) == a[3]

\* Accounts and contracts have addresses of their own.
ASSUME AddressAssumption == Persons \cap Addresses = {}

EnglishSale == [starting : Starts, reserve : Prices, end : Nat, bid : Nat,
                bidder : Persons \cup {Nobody}]
DutchSale == [from : Prices, floor : Nat, begin : Nat, end : Nat, sold : BOOLEAN]

ASSUME SaleAssumption == Nobody \notin EnglishSale \cup DutchSale

Deployed == {a \in Addresses : sales[a] # Nobody}

AuctionsTypeOK ==
  /\ block \in 0..Horizon /\ fee \in Nat
  /\ sales \in [Addresses -> EnglishSale \cup DutchSale \cup {Nobody}]
  /\ \A a \in Deployed : sales[a] \in IF a \in English THEN EnglishSale
                                                       ELSE DutchSale
  /\ owner \in [Lots -> Persons \cup Addresses]
  /\ purse \in [Persons -> Nat] /\ escrow \in [Addresses -> Nat]
  /\ due \in [Persons -> Int]

AuctionsInit ==
  /\ block = 0 /\ fee = 0
  /\ sales = [a \in Addresses |-> Nobody]
  /\ owner \in [Lots -> Persons]
  /\ purse = [p \in Persons |-> Coins]
  /\ escrow = [a \in Addresses |-> 0]
  /\ due = purse

\* A payment of amount from one person's purse, put on what it is owed.
Add(balances, p, amount) == [balances EXCEPT ![p] = @ + amount]

-----------------------------------------------------------------------------
\* The factory

\* The admins' guard has checked the approvals.
ConfigureFee(amount) ==
  /\ fee' = amount
  /\ UNCHANGED <<block, sales, owner, purse, escrow, due>>

\* collect_deployment_fee, then a contract at an address that is still free.
Deploy(a, sale) ==
  /\ fee > 0 /\ purse[SellerOf(a)] >= fee
  /\ sales[a] = Nobody
  /\ sales' = [sales EXCEPT ![a] = sale]
  /\ purse' = Add(purse, SellerOf(a), -fee)
  /\ due' = Add(due, SellerOf(a), -fee)
  /\ UNCHANGED <<block, fee, escrow>>

\* initialize takes the lot from the seller.
CreateEnglish(a, starting, reserve, duration) ==
  /\ owner[LotOf(a)] = SellerOf(a)
  /\ Deploy(a, [starting |-> starting, reserve |-> reserve,
                end |-> block + duration, bid |-> 0, bidder |-> Nobody])
  /\ owner' = [owner EXCEPT ![LotOf(a)] = a]

\* initialize takes nothing; the seller hands the lot over by a transfer.
CreateDutch(a, from, floor, duration) ==
  /\ floor <= from
  /\ Deploy(a, [from |-> from, floor |-> floor, begin |-> block,
                end |-> block + duration, sold |-> FALSE])
  /\ UNCHANGED owner

HandOver(a) ==
  /\ sales[a] # Nobody /\ ~ sales[a].sold
  /\ owner[LotOf(a)] = SellerOf(a)
  /\ owner' = [owner EXCEPT ![LotOf(a)] = a]
  /\ UNCHANGED <<block, fee, sales, purse, escrow, due>>

-----------------------------------------------------------------------------
\* English auction

\* A late bid moves the end; the seconds may run ahead of the ledgers, so a
\* bid may count as late by the one clock only.
Extended(end, hurried) ==
  IF end - block <= SnipeWindow \/ hurried THEN end + SnipeExtension ELSE end

(* Mutant: the highest bid so far stays in escrow.                        *)
BidUnrefunded(a, p, amount, hurried) ==
  LET s == sales[a]
  IN  /\ s # Nobody /\ block < s.end
      /\ amount >= s.starting /\ amount > s.bid
      /\ purse[p] >= amount
      /\ purse' = Add(purse, p, -amount)
      /\ escrow' = [escrow EXCEPT ![a] = @ + amount]
      /\ sales' = [sales EXCEPT ![a] = [s EXCEPT
                     !.bid = amount, !.bidder = p,
                     !.end = Extended(s.end, hurried)]]
      /\ UNCHANGED <<block, fee, owner, due>>

\* The whole bid is pulled before the one it beats is refunded, also when both
\* are the same person's.
Bid(a, p, amount, hurried) ==
  LET s == sales[a]
      pulled == Add(purse, p, -amount)
  IN  /\ s # Nobody /\ block < s.end
      /\ amount >= s.starting /\ amount > s.bid
      /\ purse[p] >= amount
      /\ purse' = IF s.bid > 0 THEN Add(pulled, s.bidder, s.bid) ELSE pulled
      /\ escrow' = [escrow EXCEPT ![a] = @ + amount - s.bid]
      /\ sales' = [sales EXCEPT ![a] = [s EXCEPT
                     !.bid = amount, !.bidder = p,
                     !.end = Extended(s.end, hurried)]]
      /\ UNCHANGED <<block, fee, owner, due>>

\* Nothing marks the auction as over: that it no longer owns the lot is all
\* that keeps a second call out.
EndAuction(a) ==
  LET s == sales[a]
      seller == SellerOf(a)
      won == s.bid >= s.reserve
  IN  /\ s # Nobody /\ block >= s.end
      /\ owner[LotOf(a)] = a
      /\ owner' = [owner EXCEPT ![LotOf(a)] = IF won THEN s.bidder ELSE seller]
      /\ escrow[a] >= s.bid
      /\ escrow' = [escrow EXCEPT ![a] = @ - s.bid]
      /\ purse' = CASE won -> Add(purse, seller, s.bid)
                    [] ~ won /\ s.bid > 0 -> Add(purse, s.bidder, s.bid)
                    [] OTHER -> purse
      /\ due' = IF won THEN Add(Add(due, seller, s.bid), s.bidder, -s.bid)
                       ELSE due
      /\ UNCHANGED <<block, fee, sales>>

-----------------------------------------------------------------------------
\* Dutch auction

CurrentPrice(s) ==
  IF block >= s.end THEN s.floor
  ELSE s.from - ((s.from - s.floor) * (block - s.begin)) \div (s.end - s.begin)

\* The end does not close the sale: from then on the lot costs the floor.
Buy(a, p) ==
  LET s == sales[a]
      price == CurrentPrice(s)
  IN  /\ s # Nobody /\ ~ s.sold
      /\ owner[LotOf(a)] = a
      /\ purse[p] >= price
      /\ owner' = [owner EXCEPT ![LotOf(a)] = p]
      /\ purse' = Add(Add(purse, p, -price), SellerOf(a), price)
      /\ due' = Add(Add(due, p, -price), SellerOf(a), price)
      /\ sales' = [sales EXCEPT ![a] = [s EXCEPT !.sold = TRUE]]
      /\ UNCHANGED <<block, fee, escrow>>

Reclaim(a) ==
  LET s == sales[a]
  IN  /\ s # Nobody /\ ~ s.sold /\ block >= s.end
      /\ owner[LotOf(a)] = a
      /\ owner' = [owner EXCEPT ![LotOf(a)] = SellerOf(a)]
      /\ sales' = [sales EXCEPT ![a] = [s EXCEPT !.sold = TRUE]]
      /\ UNCHANGED <<block, fee, purse, escrow, due>>

LedgerCloses ==
  /\ block < Horizon
  /\ block' = block + 1
  /\ UNCHANGED <<fee, sales, owner, purse, escrow, due>>

AuctionsNext ==
  \/ LedgerCloses
  \/ \E amount \in Fees : ConfigureFee(amount)
  \/ \E a \in English :
       \/ \E starting \in Starts, reserve \in Prices, duration \in Durations :
            CreateEnglish(a, starting, reserve, duration)
       \/ \E p \in Persons, amount \in 1..Coins * Cardinality(Persons),
             hurried \in BOOLEAN : Bid(a, p, amount, hurried)
       \/ EndAuction(a)
  \/ \E a \in Dutch :
       \/ \E from \in Prices, floor \in Prices \cup {0}, duration \in Durations :
            CreateDutch(a, from, floor, duration)
       \/ HandOver(a) \/ Reclaim(a)
       \/ \E p \in Persons : Buy(a, p)

AuctionsSpec == AuctionsInit /\ [][AuctionsNext]_auctionVars

-----------------------------------------------------------------------------
\* Properties

\* An English auction holds its highest bid as long as it holds the lot, and
\* nothing afterwards: each bid that is beaten has left, and the last one
\* leaves with the lot, although nothing says that the auction has ended.
BidInEscrow ==
  \A a \in Addresses :
    escrow[a] = IF a \in English /\ owner[LotOf(a)] = a THEN sales[a].bid ELSE 0

\* The bids of p that are the highest of an auction that still runs.
Standing(p) ==
  [a \in English |-> IF /\ sales[a] # Nobody /\ sales[a].bidder = p
                        /\ owner[LotOf(a)] = a
                     THEN sales[a].bid ELSE 0]

\* What a person has, in the purse and as the highest bid of running auctions,
\* is what sales and fees have left it: losing bidders are whole again.
BiddersWhole ==
  \A p \in Persons : purse[p] + SumFunction(Standing(p)) = due[p]

\* So the money follows the bids and the sales, in any order of calls on any
\* number of auctions.
AuctionsSettled == BidInEscrow /\ BiddersWhole
=============================================================================
