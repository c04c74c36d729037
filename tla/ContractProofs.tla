--------------------------- MODULE ContractProofs ---------------------------
(***************************************************************************)
(* What five of the contracts promise in any order of calls, for any persons,*)
(* amounts and terms: the escrow, the vault, the votes, the auctions and the*)
(* switch that pauses the others.                                           *)
(***************************************************************************)
EXTENDS TimelockEscrow, FlashLoanVault, Governance, Auctions, EmergencyGuard,
        FoldLemmas

-----------------------------------------------------------------------------
(* The escrow                                                              *)

(* Nothing is owed, held or voted at the start.                            *)
LEMMA TypeInit == ASSUME Init PROVE TypeOK
<1>1. MoneyType
  <2>1. /\ amount = 0 /\ paidIn = 0
        /\ balance = [p \in Party |-> IF p = "depositor" THEN Wealth ELSE 0]
    BY Zenon DEF Init
  <2>2. Wealth \in Nat BY Zenon, EscrowAssumption
  <2>3. \A p \in Party : balance[p] \in Nat BY ONLY <2>1, <2>2
  <2>4. balance \in [Party -> Nat] BY ONLY <2>1, <2>3
  <2> QED BY ONLY <2>1, <2>4 DEF MoneyType
<1>2. ListType BY DEF Init, ListType
<1>3. TermsType BY EscrowAssumption DEF Init, TermsType, Whole
<1>4. ScalarType
  <2>1. /\ stage = "none" /\ epoch = 0 /\ ledger = 0 /\ stray = 0
        /\ agreed = FALSE /\ backers = {}
    BY DEF Init
  <2>2. MaxEpoch \in Nat /\ U32Max \in Nat /\ MaxStray \in Nat
    BY Zenon, EscrowAssumption
  <2>3. epoch \in 0..MaxEpoch /\ ledger \in 0..U32Max /\ stray \in 0..MaxStray
    BY ONLY <2>1, <2>2
  <2>4. stage \in {"none", "active", "released", "cancelled"}
    BY ONLY <2>1
  <2>5. agreed \in BOOLEAN /\ backers \subseteq Address
    BY ONLY Zenon, <2>1
  <2> QED BY ONLY <2>3, <2>4, <2>5 DEF ScalarType
<1> QED BY <1>1, <1>2, <1>3, <1>4 DEF TypeOK

(* Rounded down, the fee is at most the amount it is taken from.           *)
LEMMA FeeInRange == ASSUME TypeOK PROVE Fee \in 0..amount
<1> DEFINE x == amount
           r == terms.rate
           w == Whole
<1>1. x \in Nat /\ r \in 0..w BY DEF TypeOK, MoneyType, TermsType
<1>2. w \in Nat \ {0} BY DEF Whole
<1> HIDE DEF x, r, w
<1> DEFINE y == x * r
           rest == x * (w - r)
<1>3. y \in Nat /\ rest \in Nat BY <1>1, <1>2
<1>4. x * w = y + rest BY <1>1, <1>2
<1>5. Fee = y \div w BY DEF Fee, Cut, x, r, w
<1> HIDE DEF y, rest
<1>6. y <= x * w BY <1>1, <1>2, <1>3, <1>4
<1>7. y \div w \in 0..x BY <1>1, <1>2, <1>3, <1>6
<1> QED BY <1>5, <1>7 DEF x

(* Each part of the type survives each entry point.                        *)
LEMMA MoneyTypeStep == ASSUME TypeOK, [Next]_vars PROVE MoneyType'
<1>0. balance \in [Party -> Nat] /\ amount \in Nat /\ paidIn \in Nat
  BY DEF TypeOK, MoneyType
<1>1. ASSUME NEW gs \in Lists, NEW lock \in Locks, NEW rate \in Rates,
             Initialize(gs, lock, rate)
      PROVE  MoneyType'
  <2>1. amount' = 0 /\ balance' = balance /\ paidIn' = paidIn
    BY <1>1 DEF Initialize
  <2> QED BY <1>0, <2>1 DEF MoneyType
<1>2. ASSUME NEW n \in Amounts, Deposit(n) PROVE MoneyType'
  <2>1. /\ n \in Nat /\ balance["depositor"] >= n
        /\ amount' = n /\ paidIn' = n
        /\ balance' = [balance EXCEPT !["depositor"] = @ - n, !["escrow"] = @ + n]
    BY <1>2, EscrowAssumption DEF Deposit, CanPay
  <2> QED BY ONLY <1>0, <2>1 DEF MoneyType, Party
<1>3. ASSUME NEW n \in Amounts, SendStray(n) PROVE MoneyType'
  <2>1. /\ n \in Nat /\ balance' = [balance EXCEPT !["escrow"] = @ + n]
        /\ amount' = amount /\ paidIn' = paidIn
    BY <1>3 DEF SendStray
  <2> QED BY ONLY <1>0, <2>1 DEF MoneyType, Party
<1>4. ASSUME NEW g \in Address, Approve(g) PROVE MoneyType'
  BY <1>0, <1>4 DEF Approve, MoneyType
<1>5. CASE Release
  <2>1. balance["escrow"] >= amount BY <1>5 DEF Release, CanPay
  <2>2. /\ amount' = 0 /\ paidIn' = paidIn
        /\ balance' = [balance EXCEPT !["escrow"] = @ - amount,
                                      !["beneficiary"] = @ + amount]
    BY Zenon, <1>5 DEF Release
  <2> QED BY ONLY <1>0, <2>1, <2>2 DEF MoneyType, Party
<1>6. CASE Cancel \/ MutualCancel
  <2>1. Refund BY <1>6 DEF Cancel, MutualCancel
  <2> DEFINE charge == Fee
  <2>2. balance["escrow"] >= amount BY <2>1 DEF Refund, CanPay
  <2>3. /\ amount' = 0 /\ paidIn' = paidIn
        /\ balance' = [balance EXCEPT !["escrow"] = @ - charge - (amount - charge),
                                      !["vault"] = @ + charge,
                                      !["depositor"] = @ + (amount - charge)]
    BY Zenon, <2>1 DEF Refund
  <2>4. charge \in 0..amount BY FeeInRange
  <2> HIDE DEF charge
  <2> QED BY ONLY <1>0, <2>2, <2>3, <2>4 DEF MoneyType, Party
<1>7. ASSUME NEW gs \in Lists, NEW signers \in [1..Quorum -> Address],
             RotateGuardians(gs, signers)
      PROVE  MoneyType'
  <2>1. amount' = amount /\ balance' = balance /\ paidIn' = paidIn
    BY <1>7 DEF RotateGuardians
  <2> QED BY <1>0, <2>1 DEF MoneyType
<1>8. CASE CloseLedger BY <1>0, <1>8 DEF CloseLedger, MoneyType
<1>9. CASE UNCHANGED vars BY <1>0, <1>9 DEF vars, MoneyType
<1> QED
  BY <1>1, <1>2, <1>3, <1>4, <1>5, <1>6, <1>7, <1>8, <1>9 DEF Next

(* No step leaves a list that is not one of addresses, or an approval of   *)
(* nobody in it.                                                           *)
LEMMA ListTypeStep == ASSUME TypeOK, [Next]_vars PROVE ListType'
<1>0. guardians \in Seq(Address) /\ approvals \subseteq DOMAIN guardians
  BY DEF TypeOK, ListType
<1>1. ASSUME NEW gs \in Lists, NEW lock \in Locks, NEW rate \in Rates,
             Initialize(gs, lock, rate)
      PROVE  ListType'
  <2>1. gs \in Seq(Address) BY EscrowAssumption
  <2>2. guardians' = gs /\ approvals' = {} BY <1>1 DEF Initialize
  <2> QED BY <2>1, <2>2 DEF ListType
<1>2. ASSUME NEW gs \in Lists, NEW signers \in [1..Quorum -> Address],
             RotateGuardians(gs, signers)
      PROVE  ListType'
  <2>1. gs \in Seq(Address) BY EscrowAssumption
  <2>2. guardians' = gs /\ approvals' = {} BY <1>2 DEF RotateGuardians
  <2> QED BY <2>1, <2>2 DEF ListType
<1>3. ASSUME NEW g \in Address, Approve(g) PROVE ListType'
  <2>1. PICK i \in DOMAIN guardians : approvals' = approvals \cup {i}
    BY <1>3 DEF Approve
  <2>2. guardians' = guardians BY <1>3 DEF Approve
  <2> QED BY <1>0, <2>1, <2>2 DEF ListType
<1>4. ASSUME NEW n \in Amounts, Deposit(n) \/ SendStray(n) PROVE ListType'
  <2>1. UNCHANGED <<guardians, approvals>> BY <1>4 DEF Deposit, SendStray
  <2> QED BY <1>0, <2>1 DEF ListType
<1>5. CASE Release \/ Cancel \/ MutualCancel
  <2>1. UNCHANGED <<guardians, approvals>>
    BY <1>5 DEF Release, Cancel, MutualCancel, Refund
  <2> QED BY <1>0, <2>1 DEF ListType
<1>6. CASE CloseLedger \/ UNCHANGED vars
  <2>1. UNCHANGED <<guardians, approvals>> BY <1>6 DEF CloseLedger, vars
  <2> QED BY <1>0, <2>1 DEF ListType
<1> QED BY <1>1, <1>2, <1>3, <1>4, <1>5, <1>6 DEF Next

(* No step leaves terms that the escrow cannot have.                       *)
LEMMA TermsTypeStep == ASSUME TypeOK, [Next]_vars PROVE TermsType'
<1>0. terms \in [unlock : 0..U32Max, rate : 0..Whole]
  BY DEF TypeOK, TermsType
<1>1. ASSUME NEW gs \in Lists, NEW lock \in Locks, NEW rate \in Rates,
             Initialize(gs, lock, rate)
      PROVE  TermsType'
  <2> DEFINE end == Sooner(ledger + lock, U32Max)
  <2>1. ledger \in 0..U32Max BY DEF TypeOK, ScalarType
  <2>2. end \in 0..U32Max BY <2>1, EscrowAssumption DEF Sooner
  <2>3. rate \in 0..Whole
    <3>1. rate \in Nat BY EscrowAssumption
    <3>2. rate <= Whole BY <1>1 DEF Initialize
    <3>3. Whole \in Nat BY DEF Whole
    <3> QED BY ONLY <3>1, <3>2, <3>3
  <2>4. terms' = [unlock |-> end, rate |-> rate]
    BY <1>1 DEF Initialize
  <2> HIDE DEF end
  <2> QED BY ONLY <2>2, <2>3, <2>4 DEF TermsType
<1>2. CASE terms' = terms BY <1>0, <1>2 DEF TermsType
<1>3. ASSUME NEW n \in Amounts, Deposit(n) \/ SendStray(n) PROVE terms' = terms
  BY <1>3 DEF Deposit, SendStray
<1>4. ASSUME NEW g \in Address, Approve(g) PROVE terms' = terms
  BY <1>4 DEF Approve
<1>5. ASSUME Release \/ Cancel \/ MutualCancel PROVE terms' = terms
  BY <1>5 DEF Release, Cancel, MutualCancel, Refund
<1>6. ASSUME NEW gs \in Lists, NEW signers \in [1..Quorum -> Address],
             RotateGuardians(gs, signers)
      PROVE  terms' = terms
  BY Zenon, <1>6 DEF RotateGuardians
<1>7. ASSUME CloseLedger \/ UNCHANGED vars PROVE terms' = terms
  BY <1>7 DEF CloseLedger, vars
<1> QED BY <1>1, <1>2, <1>3, <1>4, <1>5, <1>6, <1>7 DEF Next

(* No step takes the stage, the clock or the nonces out of their types.    *)
LEMMA ScalarTypeStep == ASSUME TypeOK, [Next]_vars PROVE ScalarType'
<1>0. ScalarType BY DEF TypeOK
<1>1. ASSUME NEW gs \in Lists, NEW lock \in Locks, NEW rate \in Rates,
             Initialize(gs, lock, rate)
      PROVE  ScalarType'
  <2>1. /\ stage' = "active" /\ epoch' = 0
        /\ UNCHANGED <<ledger, stray, agreed, backers>>
    BY <1>1 DEF Initialize
  <2> QED BY <1>0, <2>1, EscrowAssumption DEF ScalarType
<1>2. ASSUME NEW n \in Amounts, Deposit(n) PROVE ScalarType'
  <2>1. UNCHANGED <<stage, epoch, ledger, stray, agreed, backers>>
    BY <1>2 DEF Deposit
  <2> QED BY <1>0, <2>1 DEF ScalarType
<1>3. ASSUME NEW n \in Amounts, SendStray(n) PROVE ScalarType'
  <2>1. /\ n \in Nat /\ stray + n <= MaxStray /\ stray' = stray + n
        /\ UNCHANGED <<stage, epoch, ledger, agreed, backers>>
    BY <1>3 DEF SendStray
  <2> QED BY <1>0, <2>1, EscrowAssumption DEF ScalarType
<1>4. ASSUME NEW g \in Address, Approve(g) PROVE ScalarType'
  <2>1. UNCHANGED <<stage, epoch, ledger, stray, agreed, backers>>
    BY <1>4 DEF Approve
  <2> QED BY <1>0, <2>1 DEF ScalarType
<1>5. CASE Release \/ Cancel \/ MutualCancel
  <2>1. /\ stage' \in {"released", "cancelled"} /\ agreed' \in {agreed, TRUE}
        /\ UNCHANGED <<epoch, ledger, stray, backers>>
    BY <1>5 DEF Release, Cancel, MutualCancel, Refund
  <2> QED BY <1>0, <2>1 DEF ScalarType
<1>6. ASSUME NEW gs \in Lists, NEW signers \in [1..Quorum -> Address],
             RotateGuardians(gs, signers)
      PROVE  ScalarType'
  <2>1. /\ epoch < MaxEpoch /\ epoch' = epoch + 1
        /\ UNCHANGED <<stage, ledger, stray, agreed>>
    BY <1>6 DEF RotateGuardians
  <2>2. backers' \subseteq Address
    BY <1>6 DEF RotateGuardians
  <2> QED BY <1>0, <2>1, <2>2, EscrowAssumption DEF ScalarType
<1>7. CASE CloseLedger
  <2>1. /\ ledger < U32Max /\ ledger' = ledger + 1
        /\ UNCHANGED <<stage, epoch, stray, agreed, backers>>
    BY <1>7 DEF CloseLedger
  <2> QED BY <1>0, <2>1, EscrowAssumption DEF ScalarType
<1>8. CASE UNCHANGED vars BY <1>0, <1>8 DEF ScalarType, vars
<1> QED BY <1>1, <1>2, <1>3, <1>4, <1>5, <1>6, <1>7, <1>8 DEF Next

(* No step takes a variable of the escrow out of its type.                 *)
LEMMA TypeStep == ASSUME TypeOK, [Next]_vars PROVE TypeOK'
BY MoneyTypeStep, ListTypeStep, TermsTypeStep, ScalarTypeStep DEF TypeOK

(* The state of the contract and of the balances keeps its type.           *)
THEOREM EscrowTyping == Spec => []TypeOK
<1> QED BY TypeInit, TypeStep, PTL DEF Spec

-----------------------------------------------------------------------------
(* Nothing is owed before there is a contract: with that, MoneyFollows is   *)
(* inductive.                                                              *)
MoneyInv == TypeOK /\ MoneyFollows /\ (stage = "none" => amount = 0)

(* At the start nothing was deposited.                                     *)
LEMMA MoneyInit == ASSUME Init PROVE MoneyInv
<1>1. TypeOK BY TypeInit
<1>2. /\ amount = 0 /\ paidIn = 0 /\ stray = 0 /\ stage = "none"
      /\ balance = [p \in Party |-> IF p = "depositor" THEN Wealth ELSE 0]
  BY Zenon DEF Init
<1>3. /\ balance["escrow"] = 0 /\ balance["depositor"] = Wealth
      /\ balance["beneficiary"] = 0 /\ balance["vault"] = 0
  BY ONLY <1>2 DEF Party
<1>4. MoneyFollows
  BY ONLY <1>2, <1>3, EscrowAssumption DEF MoneyFollows
<1> QED BY <1>1, <1>2, <1>4 DEF MoneyInv

(* The fee of a cancellation, of what was deposited.                       *)
Due == Cut(paidIn, terms.rate)

(* MoneyFollows says what each party has at each stage.                    *)
LEMMA Shares ==
  ASSUME MoneyInv
  PROVE  /\ balance \in [Party -> Nat] /\ amount \in Nat /\ paidIn \in Nat
         /\ stray \in Nat
         /\ balance["escrow"] = amount + stray
         /\ stage \in {"none", "active"} =>
               /\ amount = paidIn /\ balance["beneficiary"] = 0
               /\ balance["vault"] = 0 /\ balance["depositor"] = Wealth - paidIn
         /\ stage = "none" => amount = 0
<1>1. balance \in [Party -> Nat] /\ amount \in Nat /\ paidIn \in Nat
  BY DEF MoneyInv, TypeOK, MoneyType
<1>2. stray \in Nat BY DEF MoneyInv, TypeOK, ScalarType
<1>3. MoneyFollows /\ (stage = "none" => amount = 0) BY DEF MoneyInv
<1> QED BY ONLY <1>1, <1>2, <1>3 DEF MoneyFollows

(* The same, as what has to be shown of a step.                            *)
LEMMA SharesNext ==
  ASSUME balance'["escrow"] = amount' + stray',
         \/ /\ stage' = "active"
            /\ amount' = paidIn' /\ balance'["beneficiary"] = 0
            /\ balance'["vault"] = 0 /\ balance'["depositor"] = Wealth - paidIn'
         \/ /\ stage' = "released"
            /\ amount' = 0 /\ balance'["beneficiary"] = paidIn'
            /\ balance'["vault"] = 0 /\ balance'["depositor"] = Wealth - paidIn'
         \/ /\ stage' = "cancelled"
            /\ amount' = 0 /\ balance'["beneficiary"] = 0
            /\ balance'["vault"] = Due' /\ balance'["depositor"] = Wealth - Due'
  PROVE  MoneyFollows'
BY DEF MoneyFollows, Due

(* A step that moves no tokens and changes no stage keeps the shares.      *)
LEMMA SharesStay ==
  ASSUME MoneyInv,
         UNCHANGED <<balance, amount, paidIn, stray, stage, terms>>
  PROVE  MoneyFollows' /\ (stage = "none" => amount = 0)'
BY DEF MoneyInv, MoneyFollows, Active

(* No step loses or makes tokens of the escrow.                            *)
LEMMA MoneyStep == ASSUME MoneyInv, [Next]_vars PROVE MoneyInv'
<1>0. TypeOK' BY TypeStep DEF MoneyInv
<1> DEFINE Inv == MoneyFollows /\ (stage = "none" => amount = 0)
<1>1. ASSUME NEW gs \in Lists, NEW lock \in Locks, NEW rate \in Rates,
             Initialize(gs, lock, rate)
      PROVE  Inv'
  <2>1. stage = "none" /\ stage' = "active" /\ amount' = 0
    BY <1>1 DEF Initialize
  <2>2. balance' = balance /\ paidIn' = paidIn /\ stray' = stray
    BY <1>1 DEF Initialize
  <2>3. MoneyFollows' BY ONLY <2>1, <2>2, Shares, SharesNext, MoneyInv
  <2> QED BY ONLY <2>1, <2>3
<1>2. ASSUME NEW n \in Amounts, Deposit(n) PROVE Inv'
  <2>1. stage = "active" /\ stage' = "active" /\ amount <= 0 /\ n >= 0
    BY <1>2 DEF Deposit, Active, CanPay
  <2>2. amount' = n /\ paidIn' = n /\ stray' = stray
    BY Zenon, <1>2 DEF Deposit
  <2>3. balance' = [balance EXCEPT !["depositor"] = @ - n, !["escrow"] = @ + n]
    BY Zenon, <1>2 DEF Deposit
  <2>4. n \in Int BY EscrowAssumption
  <2>5. balance \in [Party -> Nat] BY Shares
  <2>6. /\ balance'["escrow"] = balance["escrow"] + n
        /\ balance'["depositor"] = balance["depositor"] - n
        /\ balance'["vault"] = balance["vault"]
        /\ balance'["beneficiary"] = balance["beneficiary"]
    BY ONLY <2>3, <2>5 DEF Party
  <2>7. /\ amount = 0 /\ paidIn = 0 /\ stray \in Nat
        /\ balance["escrow"] = stray /\ balance["depositor"] = Wealth
        /\ balance["vault"] = 0 /\ balance["beneficiary"] = 0
    BY ONLY <2>1, Shares, MoneyInv, EscrowAssumption
  <2>8. MoneyFollows'
    BY ONLY <2>1, <2>2, <2>4, <2>6, <2>7, EscrowAssumption, SharesNext
  <2> QED BY ONLY <2>1, <2>8
<1>3. ASSUME NEW n \in Amounts, SendStray(n) PROVE Inv'
  <2>1. n \in Nat /\ stray' = stray + n
    BY Zenon, <1>3 DEF SendStray
  <2>2. UNCHANGED <<amount, paidIn, stage, terms>>
    BY Zenon, <1>3 DEF SendStray
  <2>3. balance' = [balance EXCEPT !["escrow"] = @ + n]
    BY Zenon, <1>3 DEF SendStray
  <2>4. /\ balance'["escrow"] = balance["escrow"] + n
        /\ balance'["depositor"] = balance["depositor"]
        /\ balance'["vault"] = balance["vault"]
        /\ balance'["beneficiary"] = balance["beneficiary"]
    BY ONLY <2>3, Shares, MoneyInv DEF Party
  <2>5. Inv /\ amount \in Nat /\ stray \in Nat /\ balance["escrow"] = amount + stray
    BY Shares DEF MoneyInv
  <2> QED BY ONLY <2>1, <2>2, <2>4, <2>5 DEF MoneyFollows
<1>4. ASSUME NEW g \in Address, Approve(g) PROVE Inv'
  <2>1. UNCHANGED <<balance, amount, paidIn, stray, stage, terms>>
    BY Zenon, <1>4 DEF Approve
  <2> QED BY <2>1, SharesStay
<1>5. ASSUME Release PROVE Inv'
  <2>1. stage = "active" /\ stage' = "released" /\ amount' = 0
    BY Zenon, <1>5 DEF Release, Active
  <2>2. paidIn' = paidIn /\ stray' = stray
    BY Zenon, <1>5 DEF Release
  <2>3. balance' = [balance EXCEPT !["escrow"] = @ - amount,
                                  !["beneficiary"] = @ + amount]
    BY Zenon, <1>5 DEF Release
  <2>4. /\ balance'["escrow"] = balance["escrow"] - amount
        /\ balance'["depositor"] = balance["depositor"]
        /\ balance'["vault"] = balance["vault"]
        /\ balance'["beneficiary"] = balance["beneficiary"] + amount
    BY ONLY <2>3, Shares, MoneyInv DEF Party
  <2>5. /\ amount = paidIn /\ amount \in Nat /\ stray \in Nat
        /\ balance["escrow"] = amount + stray
        /\ balance["depositor"] = Wealth - paidIn
        /\ balance["vault"] = 0 /\ balance["beneficiary"] = 0
    BY ONLY <2>1, Shares, MoneyInv
  <2>6. MoneyFollows' BY ONLY <2>1, <2>2, <2>4, <2>5, SharesNext
  <2> QED BY ONLY <2>1, <2>6
<1>6. ASSUME Cancel \/ MutualCancel PROVE Inv'
  <2>1. stage = "active" /\ Refund
    BY <1>6 DEF Cancel, MutualCancel, Active
  <2>2. stage' = "cancelled" /\ amount' = 0 /\ UNCHANGED <<paidIn, stray, terms>>
    BY Zenon, <2>1 DEF Refund
  <2>3. /\ amount = paidIn /\ amount \in Nat /\ stray \in Nat
        /\ balance \in [Party -> Nat]
        /\ balance["escrow"] = amount + stray
        /\ balance["depositor"] = Wealth - paidIn
        /\ balance["vault"] = 0 /\ balance["beneficiary"] = 0
    BY ONLY <2>1, Shares, MoneyInv
  <2> DEFINE charge == Fee
  <2>4. charge \in 0..amount BY FeeInRange DEF MoneyInv
  <2>5. charge = Due' BY ONLY <2>2, <2>3 DEF Fee, Due
  <2>6. balance' = [balance EXCEPT !["escrow"] = @ - charge - (amount - charge),
                                  !["vault"] = @ + charge,
                                  !["depositor"] = @ + (amount - charge)]
    BY Zenon, <2>1 DEF Refund
  <2> HIDE DEF charge
  <2>7. /\ balance'["escrow"] = balance["escrow"] - charge - (amount - charge)
        /\ balance'["vault"] = balance["vault"] + charge
        /\ balance'["depositor"] = balance["depositor"] + (amount - charge)
        /\ balance'["beneficiary"] = balance["beneficiary"]
    BY ONLY <2>3, <2>6 DEF Party
  <2>8. /\ balance'["escrow"] = amount' + stray'
        /\ balance'["vault"] = charge /\ balance'["beneficiary"] = 0
        /\ balance'["depositor"] = Wealth - charge
    BY ONLY <2>2, <2>3, <2>4, <2>7, EscrowAssumption
  <2>9. MoneyFollows' BY ONLY <2>2, <2>5, <2>8, SharesNext
  <2> QED BY ONLY <2>2, <2>9
<1>7. ASSUME NEW gs \in Lists, NEW signers \in [1..Quorum -> Address],
             RotateGuardians(gs, signers)
      PROVE  Inv'
  <2>1. UNCHANGED <<balance, amount, paidIn, stray, stage, terms>>
    BY Zenon, <1>7 DEF RotateGuardians
  <2> QED BY <2>1, SharesStay
<1>8. ASSUME CloseLedger \/ UNCHANGED vars PROVE Inv'
  <2>1. UNCHANGED <<balance, amount, paidIn, stray, stage, terms>>
    BY Zenon, <1>8 DEF CloseLedger, vars
  <2> QED BY <2>1, SharesStay
<1> HIDE DEF Inv
<1>9. Inv'
  BY <1>1, <1>2, <1>3, <1>4, <1>5, <1>6, <1>7, <1>8 DEF Next
<1> QED BY <1>0, <1>9 DEF MoneyInv, Inv

(* No order of calls pays twice, pays both sides or keeps a part.          *)
THEOREM MoneyIsFollowed == Spec => []MoneyFollows
<1>1. MoneyInv => MoneyFollows BY DEF MoneyInv
<1> QED BY <1>1, MoneyInit, MoneyStep, PTL DEF Spec

-----------------------------------------------------------------------------
(* Positions and persons correspond one to one in a list without repeats.  *)
LEMMA Counting ==
  ASSUME NEW n \in Nat, NEW f \in [1..n -> Address], NEW S \in SUBSET (1..n),
         \A k, l \in 1..n : k < l => f[k] # f[l]
  PROVE  /\ IsFiniteSet(S)
         /\ Cardinality({f[k] : k \in S}) = Cardinality(S)
<1> DEFINE T == {f[k] : k \in S}
           g == [k \in S |-> f[k]]
<1>1. IsFiniteSet(S)
  <2>1. 1 \in Int /\ n \in Int OBVIOUS
  <2>2. IsFiniteSet(1..n) BY <2>1, FS_Interval
  <2> QED BY <2>2, FS_Subset
<1>2. \A k, l \in 1..n : f[k] = f[l] => k = l
  <2> TAKE k, l \in 1..n
  <2> QED BY k < l \/ l < k \/ k = l
<1>3. g \in [S -> T] /\ IsInjective(g)
  BY <1>2 DEF IsInjective
<1>4. \A t \in T : \E k \in S : g[k] = t
  OBVIOUS
<1>5. g \in Bijection(S, T)
  BY <1>3, <1>4 DEF Bijection, Injection, Surjection
<1>6. ExistsBijection(S, T)
  BY <1>5 DEF ExistsBijection
<1> QED BY <1>1, <1>6, FS_Bijection

(* The guardians in office are Size different persons.                     *)
OfficeInv ==
  /\ MoneyInv
  /\ stage = "none" => approvals = {}
  /\ stage # "none" => Valid(guardians)

(* No step leaves a list that is not one of five different guardians.      *)
LEMMA OfficeStep == ASSUME OfficeInv, [Next]_vars PROVE OfficeInv'
<1>1. MoneyInv' BY MoneyStep DEF OfficeInv
<1> USE DEF OfficeInv, Valid, Active, Refund
<1>2. (stage = "none" => approvals = {})' /\ (stage # "none" => Valid(guardians))'
  <2>1. ASSUME NEW gs \in Lists, NEW lock \in Locks, NEW rate \in Rates,
               Initialize(gs, lock, rate)
        PROVE  approvals' = {} /\ Valid(guardians)'
    BY <2>1 DEF Initialize
  <2>2. ASSUME NEW gs \in Lists, NEW signers \in [1..Quorum -> Address],
               RotateGuardians(gs, signers)
        PROVE  approvals' = {} /\ Valid(guardians)'
    BY <2>2 DEF RotateGuardians
  <2>3. CASE \/ \E n \in Amounts : Deposit(n) \/ SendStray(n)
             \/ CloseLedger \/ UNCHANGED vars
    BY <2>3 DEF Deposit, SendStray, CloseLedger, vars
  <2>4. CASE \E g \in Address : Approve(g)
    BY <2>4 DEF Approve
  <2>5. CASE Release \/ Cancel \/ MutualCancel
    BY <2>5 DEF Release, Cancel, MutualCancel
  <2> QED BY <2>1, <2>2, <2>3, <2>4, <2>5 DEF Next
<1> QED BY <1>1, <1>2

(* A list of Size different persons is Size persons.                       *)
LEMMA OfficeCount ==
  ASSUME NEW gs \in Seq(Address), Valid(gs)
  PROVE  /\ {gs[i] : i \in DOMAIN gs} \subseteq Address
         /\ Cardinality({gs[i] : i \in DOMAIN gs}) = Size
<1>1. Size \in Nat /\ gs \in [1..Size -> Address] /\ DOMAIN gs = 1..Size
  BY EscrowAssumption DEF Valid
<1>2. Cardinality({gs[i] : i \in 1..Size}) = Cardinality(1..Size)
  <2> DEFINE S == 1..Size
  <2>1. S \in SUBSET (1..Size) OBVIOUS
  <2>2. \A k, l \in 1..Size : k < l => gs[k] # gs[l]
    BY <1>1 DEF Valid
  <2> HIDE DEF S
  <2>3. Cardinality({gs[i] : i \in S}) = Cardinality(S)
    BY <1>1, <2>1, <2>2, Counting
  <2> QED BY <2>3 DEF S
<1>3. Cardinality(1..Size) = Size
  BY <1>1, FS_Interval
<1> QED BY <1>1, <1>2, <1>3

(* As many persons voted as bits are set.                                  *)
LEMMA VoteCount ==
  ASSUME OfficeInv, stage # "none"
  PROVE  /\ IsFiniteSet(approvals)
         /\ Cardinality(Votes) = Cardinality(approvals)
<1>1. /\ Size \in Nat /\ guardians \in [1..Size -> Address]
      /\ DOMAIN guardians = 1..Size /\ approvals \in SUBSET (1..Size)
      /\ \A k, l \in 1..Size : k < l => guardians[k] # guardians[l]
  <2>1. guardians \in Seq(Address) /\ approvals \subseteq DOMAIN guardians
    BY DEF OfficeInv, MoneyInv, TypeOK, ListType
  <2>2. Valid(guardians) BY DEF OfficeInv
  <2>3. Size \in Nat BY EscrowAssumption
  <2> QED BY ONLY <2>1, <2>2, <2>3 DEF Valid
<1> DEFINE f == guardians
           S == approvals
<1> HIDE DEF f, S
<1>2. IsFiniteSet(S) /\ Cardinality({f[k] : k \in S}) = Cardinality(S)
  BY <1>1, Counting DEF f, S
<1> QED BY <1>2 DEF Votes, f, S

(* As many persons signed a rotation as must.                              *)
LEMMA SignersAreQuorum ==
  ASSUME NEW gs \in Lists, NEW signers \in [1..Quorum -> Address],
         RotateGuardians(gs, signers)
  PROVE  backers' \in Quorums
<1> DEFINE S == 1..Quorum
           B == {signers[k] : k \in S}
<1>1. /\ Quorum \in Nat /\ S \in SUBSET (1..Quorum)
      /\ \A k, l \in 1..Quorum : k < l => signers[k] # signers[l]
  BY EscrowAssumption DEF RotateGuardians, Signed
<1>2. backers' = B
  BY DEF RotateGuardians
<1>3. B \in SUBSET Address
  OBVIOUS
<1>4. Cardinality(S) = Quorum
  BY <1>1, FS_Interval
<1> HIDE DEF S
<1>5. Cardinality(B) = Cardinality(S)
  BY <1>1, Counting
<1> HIDE DEF B
<1>6. Cardinality(B) >= Quorum
  BY <1>1, <1>4, <1>5
<1> QED BY <1>2, <1>3, <1>6 DEF Quorums

-----------------------------------------------------------------------------
(* The steps of the contract are steps of the promise, or stutter.         *)
LEMMA PromiseInit == ASSUME Init PROVE Promise!Init
BY DEF Init, Promise!Init, Outcome, Office, Votes, Late

(* Every step of the escrow is one of GuardedDeposit, or none.             *)
LEMMA PromiseStep ==
  ASSUME OfficeInv, OfficeInv', [Next]_vars
  PROVE  [Promise!Next]_(Promise!vars)
<1> USE DEF Promise!vars, Outcome, Late, Active, Funded, Expired
<1>0. /\ TypeOK /\ TypeOK' /\ amount \in Nat /\ amount' \in Nat
      /\ ledger \in Nat /\ ledger' \in Nat /\ terms.unlock \in Nat
      /\ terms'.unlock \in Nat
  <2>1. TypeOK /\ TypeOK' BY DEF OfficeInv, MoneyInv
  <2>2. U32Max \in Nat BY EscrowAssumption
  <2>3. amount \in Nat /\ amount' \in Nat BY ONLY <2>1 DEF TypeOK, MoneyType
  <2>4. ledger \in Nat /\ ledger' \in Nat
    BY ONLY <2>1, <2>2 DEF TypeOK, ScalarType
  <2>5. terms.unlock \in Nat /\ terms'.unlock \in Nat
    BY ONLY <2>1, <2>2 DEF TypeOK, TermsType
  <2> QED BY ONLY <2>1, <2>3, <2>4, <2>5
<1>1. ASSUME NEW gs \in Lists, NEW lock \in Locks, NEW rate \in Rates,
             Initialize(gs, lock, rate)
      PROVE  Promise!Found
  <2>1. Office' \in Offices
    <3>1. gs \in Seq(Address) /\ Valid(gs) /\ guardians' = gs
      BY <1>1, EscrowAssumption DEF Initialize
    <3>2. /\ {gs[i] : i \in DOMAIN gs} \subseteq Address
          /\ Cardinality({gs[i] : i \in DOMAIN gs}) = Size
      BY <3>1, OfficeCount
    <3>3. Office' = {gs[i] : i \in DOMAIN gs} BY <3>1 DEF Office
    <3> QED BY <3>2, <3>3 DEF Offices
  <2>2. Votes = {} /\ Votes' = {} /\ amount = 0
    BY <1>1 DEF Votes, Initialize, OfficeInv, MoneyInv
  <2> QED BY <1>1, <2>1, <2>2 DEF Initialize, Promise!Found
<1>2. ASSUME NEW n \in Amounts, Deposit(n)
      PROVE  Promise!Fund \/ UNCHANGED Promise!vars
  <2>1. n \in Nat /\ amount = 0 /\ Office' = Office /\ Votes' = Votes
    BY <1>0, <1>2 DEF Deposit, CanPay, Office, Votes
  <2> QED BY <1>2, <2>1 DEF Deposit, Promise!Fund
<1>3. ASSUME NEW n \in Amounts, SendStray(n) PROVE UNCHANGED Promise!vars
  BY <1>3 DEF SendStray, Office, Votes
<1>4. ASSUME NEW g \in Address, Approve(g) PROVE Promise!Vote(g)
  <2>1. PICK i \in DOMAIN guardians :
          /\ guardians[i] = g /\ i \notin approvals
          /\ approvals' = approvals \cup {i}
    BY <1>4 DEF Approve, IndexOf
  <2>2. /\ stage = "active" /\ amount > 0
        /\ UNCHANGED <<stage, amount, terms, guardians, ledger, agreed, backers>>
    BY <1>0, <1>4 DEF Approve
  <2>3. g \in Office BY <2>1 DEF Office
  <2>4. g \notin Votes
    <3>1. \A j \in approvals : j \in DOMAIN guardians
      BY <1>0 DEF TypeOK, ListType
    <3>2. \A j \in approvals : guardians[j] # guardians[i]
      <4> TAKE j \in approvals
      <4>1. /\ i \in Nat /\ j \in Nat /\ i # j
            /\ i \in DOMAIN guardians /\ j \in DOMAIN guardians
            /\ \A k, l \in DOMAIN guardians : k < l => guardians[k] # guardians[l]
        BY <1>0, <2>1, <2>2, <3>1 DEF OfficeInv, Valid, TypeOK, ListType
      <4> QED BY <4>1, i < j \/ j < i
    <3> QED BY <2>1, <3>2 DEF Votes
  <2>5. Votes' = Votes \cup {g} BY <2>1, <2>2 DEF Votes
  <2>6. Office' = Office BY <2>2 DEF Office
  <2> QED BY <2>2, <2>3, <2>4, <2>5, <2>6 DEF Promise!Vote
<1>5. ASSUME Release PROVE Promise!Pay
  <2>1. Votes \in Quorums
    <3>1. Cardinality(Votes) >= Quorum
      BY <1>5, VoteCount DEF Release, HasQuorum
    <3>2. Votes \subseteq Address BY <1>0 DEF Votes, TypeOK, ListType
    <3> QED BY <3>1, <3>2 DEF Quorums
  <2>2. Office' = Office /\ Votes' = Votes
    BY <1>5 DEF Release, Office, Votes
  <2>3. /\ Outcome = "open" /\ Outcome' = "paid"
        /\ Late /\ Late' /\ amount > 0 /\ amount' = 0 /\ UNCHANGED backers
    BY <1>0, <1>5 DEF Release
  <2> HIDE DEF Outcome, Late
  <2> QED BY <2>1, <2>2, <2>3 DEF Promise!Pay, Promise!Leave
<1>6. ASSUME Cancel PROVE Promise!Withdraw \/ Promise!Agree
  <2>1. Office' = Office /\ Votes' = Votes
    BY <1>6 DEF Cancel, Refund, Office, Votes
  <2>2. ~Late \/ Votes = {}
    <3>1. IsFiniteSet(approvals) BY <1>6, VoteCount DEF Cancel
    <3>2. Cardinality(approvals) \in Nat BY <3>1, FS_CardinalityType
    <3>3. Cardinality(approvals) = 0 => approvals = {} BY <3>1, FS_EmptySet
    <3> QED BY <1>6, <3>2, <3>3 DEF Cancel, Votes
  <2> QED
    BY <1>0, <1>6, <2>1, <2>2
    DEF Cancel, Refund, Promise!Withdraw, Promise!Agree, Promise!Leave
<1>7. ASSUME MutualCancel PROVE Promise!Agree
  <2>1. Office' = Office /\ Votes' = Votes
    BY <1>7 DEF MutualCancel, Refund, Office, Votes
  <2> QED BY <1>0, <1>7, <2>1
          DEF MutualCancel, Refund, Promise!Agree, Promise!Leave
<1>8. ASSUME NEW gs \in Lists, NEW signers \in [1..Quorum -> Address],
             RotateGuardians(gs, signers)
      PROVE  Promise!Elect
  <2>1. Office' \in Offices
    <3>1. gs \in Seq(Address) /\ Valid(gs) /\ guardians' = gs
      BY <1>8, EscrowAssumption DEF RotateGuardians
    <3>2. /\ {gs[i] : i \in DOMAIN gs} \subseteq Address
          /\ Cardinality({gs[i] : i \in DOMAIN gs}) = Size
      BY <3>1, OfficeCount
    <3>3. Office' = {gs[i] : i \in DOMAIN gs} BY <3>1 DEF Office
    <3> QED BY <3>2, <3>3 DEF Offices
  <2>2. backers' \subseteq Office
    BY <1>8 DEF RotateGuardians, Signed, IndexOf, Office
  <2>3. backers' \in Quorums
    BY <1>8, SignersAreQuorum
  <2>4. Votes' = {} BY <1>8 DEF RotateGuardians, Votes
  <2>5. Outcome = "open" /\ UNCHANGED <<amount, Outcome, Late>>
    BY <1>8 DEF RotateGuardians
  <2> HIDE DEF Outcome, Late
  <2> QED BY <2>1, <2>2, <2>3, <2>4, <2>5 DEF Promise!Elect
<1>9. ASSUME CloseLedger PROVE Promise!Expire \/ UNCHANGED Promise!vars
  <2>1. Office' = Office /\ Votes' = Votes
    BY <1>9 DEF CloseLedger, Office, Votes
  <2> QED BY <1>0, <1>9, <2>1 DEF CloseLedger, Promise!Expire
<1>10. ASSUME UNCHANGED vars PROVE UNCHANGED Promise!vars
  BY <1>10 DEF vars, Office, Votes
<1> HIDE DEF Promise!vars
<1> QED
  BY <1>1, <1>2, <1>3, <1>4, <1>5, <1>6, <1>7, <1>8, <1>9, <1>10
  DEF Next, Promise!Next

(* The contract keeps its promise, whatever the calls and their order.     *)
THEOREM PromiseKept == Spec => KeepsPromise
<1>1. Init => OfficeInv
  BY MoneyInit DEF OfficeInv, Init
<1>2. OfficeInv /\ [Next]_vars => OfficeInv'
  BY OfficeStep
<1> QED
  BY <1>1, <1>2, PromiseInit, PromiseStep, PTL
  DEF Spec, KeepsPromise, Promise!Spec

-----------------------------------------------------------------------------
(* The vault                                                               *)

(* A fee is a number of tokens.                                            *)
LEMMA FeeTyped ==
  ASSUME NEW n \in Nat, loanRate \in LoanRates
  PROVE  LoanFee(n) \in Nat
<1>1. loanRate \in Nat /\ WholeRate \in Nat /\ WholeRate > 0
  BY VaultAssumption
<1>2. n * loanRate \in Nat
  BY <1>1
<1>3. ASSUME NEW m \in Nat
      PROVE  (m + WholeRate - 1) \div WholeRate \in Nat
  BY <1>1, <1>3
<1> QED
  BY <1>2, <1>3 DEF LoanFee

(* The state a loan goes back to was unlocked and backed, and of what it    *)
(* holds a callback can change neither what is deposited nor the rate.     *)
Restorable ==
  /\ before[1] \in Nat /\ before[1] >= before[2]
  /\ before[2] = deposited /\ before[3] = loanRate
  /\ before[4] \in BOOLEAN /\ before[5] = FALSE
  /\ before[6] \in Nat /\ before[7] \in Nat /\ before[8] \in 0..MaxGift

VaultInv ==
  /\ VaultTypeOK
  /\ locked <=> loan # 0
  /\ loan # 0 => Restorable
  /\ VaultBacked

(* At the start nothing is lent.                                           *)
LEMMA VaultStart == VaultInit => VaultInv
<1> SUFFICES ASSUME VaultInit PROVE VaultInv
  OBVIOUS
<1>1. Funds \in Nat /\ 0 \in 0..MaxGift /\ 0 \in LoanRates
  BY VaultAssumption
<1>2. VaultTypeOK
  BY <1>1 DEF VaultInit, VaultTypeOK
<1> QED
  BY <1>2 DEF VaultInit, VaultInv, VaultBacked

(* A loan remembers a state the vault can go back to.                      *)
LEMMA LoanStarts ==
  ASSUME VaultInv, NEW tokens \in Nat \ {0}, FlashLoan(tokens)
  PROVE  VaultInv'
<1>1. /\ before' = vaultState /\ locked' = TRUE /\ loan' = tokens
      /\ held' = held - tokens /\ cash' = cash + tokens
      /\ UNCHANGED <<deposited, loanRate, stopped, savings, gift>>
      /\ ~ locked /\ tokens <= held
  BY DEF FlashLoan
<1>2. /\ before'[1] = held /\ before'[2] = deposited /\ before'[3] = loanRate
      /\ before'[4] = stopped /\ before'[5] = locked /\ before'[6] = savings
      /\ before'[7] = cash /\ before'[8] = gift /\ before' # << >>
  BY <1>1 DEF vaultState
<1>3. VaultTypeOK /\ held >= deposited
  BY <1>1 DEF VaultInv, VaultBacked
<1>4. Restorable'
  BY <1>1, <1>2, <1>3 DEF Restorable, VaultTypeOK
<1>5. VaultTypeOK'
  BY <1>1, <1>2, <1>3 DEF VaultTypeOK
<1> QED
  BY <1>1, <1>4, <1>5 DEF VaultInv, VaultBacked, VaultTypeOK

(* No call on the vault, during a loan or not, breaks its invariant.       *)
LEMMA VaultStep == VaultInv /\ [VaultNext]_vaultVars => VaultInv'
<1> SUFFICES ASSUME VaultInv, [VaultNext]_vaultVars PROVE VaultInv'
  OBVIOUS
<1>i. VaultTypeOK
  BY DEF VaultInv
<1>a. \A tokens \in 1..2 * Funds : tokens \in Nat \ {0}
  BY VaultAssumption
<1>1. ASSUME NEW tokens \in Nat \ {0}, VaultDeposit(tokens) PROVE VaultInv'
  BY <1>1, <1>i DEF VaultDeposit, VaultInv, VaultTypeOK, VaultBacked
<1>2. ASSUME NEW tokens \in Nat \ {0}, VaultWithdraw(tokens) PROVE VaultInv'
  BY <1>2, <1>i DEF VaultWithdraw, VaultInv, VaultTypeOK, VaultBacked
<1>3. ASSUME NEW rate \in LoanRates, SetLoanRate(rate) PROVE VaultInv'
  BY <1>3, <1>i DEF SetLoanRate, VaultInv, VaultTypeOK, VaultBacked
<1>4. ASSUME NEW stop \in BOOLEAN, StopBorrowing(stop) PROVE VaultInv'
  BY <1>4, <1>i
     DEF StopBorrowing, VaultInv, VaultTypeOK, VaultBacked, Restorable
<1>5. ASSUME NEW tokens \in Nat \ {0}, Send(tokens) PROVE VaultInv'
  BY <1>5, <1>i, VaultAssumption
     DEF Send, VaultInv, VaultTypeOK, VaultBacked, Restorable
<1>6. CASE Repaid
  <2> DEFINE price == LoanFee(loan)
  <2>1. price \in Nat
    BY <1>i, FeeTyped DEF VaultTypeOK
  <2>2. loan # 0 /\ held >= before[1] + price /\ deposited' = deposited + price
    BY <1>6 DEF Repaid
  <2>3. Restorable
    BY <2>2 DEF VaultInv
  <2> HIDE DEF price
  <2>4. held >= deposited + price /\ deposited + price \in Nat
    BY <2>1, <2>2, <2>3, <1>i DEF Restorable, VaultTypeOK
  <2> QED
    BY <1>6, <1>i, <2>2, <2>4 DEF Repaid, VaultInv, VaultTypeOK, VaultBacked
<1>7. CASE RolledBack
  <2>1. Restorable
    BY <1>7 DEF RolledBack, VaultInv
  <2> QED
    BY <1>7, <1>i, <2>1
       DEF RolledBack, Restorable, VaultInv, VaultTypeOK, VaultBacked
<1>8. CASE UNCHANGED vaultVars
  BY <1>8, <1>i DEF vaultVars, vaultState, VaultInv, VaultTypeOK, VaultBacked,
                    Restorable
<1> QED
  BY <1>a, <1>1, <1>2, <1>3, <1>4, <1>5, <1>6, <1>7, <1>8, LoanStarts
     DEF VaultNext

(* Whenever no loan is out, the vault holds what it says was deposited,     *)
(* whatever the borrower and the admin called during the callbacks before   *)
(* (flash_loan_vault, flash_loan and the calls it locks).                  *)
THEOREM VaultStaysBacked == VaultSpec => []VaultBacked
<1>1. VaultInv => VaultBacked
  BY DEF VaultInv
<1> QED
  BY <1>1, VaultStart, VaultStep, PTL DEF VaultSpec

-----------------------------------------------------------------------------
(* The voters' identities                                                  *)

IdentityInv ==
  /\ commitment \in [Voters -> Identities \cup {Zero}]
  /\ identityOwner \in [Identities -> Voters \cup {Zero}]
  /\ IdentityIsOnes

(* A registration never gives an identity to a second voter.               *)
LEMMA RegistrationKeeps ==
  ASSUME IdentityInv, NEW v \in Voters, NEW id \in Identities \cup {Zero},
         NEW units, RegisterVoter(v, units, id)
  PROVE  IdentityInv'
<1>1. /\ commitment' = [commitment EXCEPT ![v] = id]
      /\ id # Zero => identityOwner[id] \in {v, Zero}
      /\ identityOwner' = [i \in Identities |->
           IF i = id THEN v
           ELSE IF i = commitment[v] THEN Zero ELSE identityOwner[i]]
  BY DEF RegisterVoter
<1>2. Zero \notin Identities /\ Zero \notin Voters
  BY GovernanceAssumption
<1>3. /\ commitment' \in [Voters -> Identities \cup {Zero}]
      /\ identityOwner' \in [Identities -> Voters \cup {Zero}]
  BY <1>1 DEF IdentityInv
<1>4. ASSUME NEW i \in Identities, NEW w \in Voters
      PROVE  identityOwner'[i] = w <=> commitment'[w] = i
  BY <1>1, <1>2 DEF IdentityInv, IdentityIsOnes
<1> QED
  BY <1>3, <1>4 DEF IdentityInv, IdentityIsOnes

(* However often voters are registered again, an identity belongs to the    *)
(* one voter whose profile names it (governance, register_voter).          *)
THEOREM OneVoterPerIdentity == VotingSpec => []IdentityIsOnes
<1>1. VotingInit => IdentityInv
  BY GovernanceAssumption DEF VotingInit, IdentityInv, IdentityIsOnes
<1>2. IdentityInv /\ [VotingNext]_votingVars => IdentityInv'
  <2> SUFFICES ASSUME IdentityInv, [VotingNext]_votingVars
               PROVE  IdentityInv'
    OBVIOUS
  <2>1. CASE UNCHANGED <<commitment, identityOwner>>
    BY <2>1 DEF IdentityInv, IdentityIsOnes
  <2>2. CASE \E v \in Voters, units \in Units, id \in Identities \cup {Zero} :
               RegisterVoter(v, units, id)
    BY <2>2, RegistrationKeeps
  <2>3. CASE \E p \in DOMAIN proposals :
              \/ CloseProposal(p)
              \/ \E approvers \in BoundedSeq(Executors, MaxApprovers) :
                   ExecuteProposal(p, approvers)
              \/ \E v \in Voters, support \in BOOLEAN, credits \in 1..Max(Units) :
                   CastVote(p, v, support, credits)
    <3> DEFINE Same == UNCHANGED <<commitment, identityOwner>>
    <3>1. \A p : CloseProposal(p) => Same
      BY DEF CloseProposal, Close
    <3>2. \A p, approvers : ExecuteProposal(p, approvers) => Same
      BY DEF ExecuteProposal, Close
    <3>3. \A p, v, support, credits : CastVote(p, v, support, credits) => Same
      BY DEF CastVote
    <3>4. Same
      BY ONLY <2>3, <3>1, <3>2, <3>3
    <3> QED
      BY <2>1, <3>4
  <2>4. CASE LedgerPasses \/ (\E window \in Windows : CreateProposal(window))
    BY <2>1, <2>4 DEF LedgerPasses, CreateProposal
  <2> QED
    BY <2>1, <2>2, <2>3, <2>4 DEF VotingNext, votingVars
<1>3. IdentityInv => IdentityIsOnes
  BY DEF IdentityInv
<1> QED
  BY <1>1, <1>2, <1>3, PTL DEF VotingSpec

-----------------------------------------------------------------------------
(* The auctions                                                            *)

(* The address of an auction names its seller and its lot, and is          *)
(* nobody's.                                                               *)
LEMMA Addressed ==
  /\ \A a \in Addresses : SellerOf(a) \in Persons /\ LotOf(a) \in Lots
  /\ English \subseteq Addresses /\ Dutch \subseteq Addresses
  /\ \A a \in English : a \notin Dutch
  /\ \A p \in Persons, a \in Addresses : p # a
<1>1. \A a \in Addresses : SellerOf(a) \in Persons /\ LotOf(a) \in Lots
  BY DEF Addresses, English, Dutch, SellerOf, LotOf
<1>2. \A a \in English : a \notin Dutch
  BY DEF English, Dutch
<1> QED
  BY <1>1, <1>2, AddressAssumption DEF Addresses

AuctionTyping ==
  /\ block \in Nat
  /\ sales \in [Addresses -> EnglishSale \cup DutchSale \cup {Nobody}]
  /\ owner \in [Lots -> Persons \cup Addresses]
  /\ escrow \in [Addresses -> Nat]
  /\ \A a \in Dutch : sales[a] \in DutchSale \cup {Nobody}

(* What an English auction has stored: a bid is somebody's, and once the    *)
(* lot has left, its time is over and no further bid is taken.             *)
SaleInv(a) ==
  sales[a] # Nobody =>
    /\ sales[a] \in EnglishSale
    /\ sales[a].bid > 0 => sales[a].bidder \in Persons
    /\ owner[LotOf(a)] # a => block >= sales[a].end

AuctionInv ==
  /\ AuctionTyping
  /\ \A a \in English : SaleInv(a)
  /\ BidInEscrow

(* At the start no auction holds anything.                                 *)
LEMMA AuctionStart == AuctionsInit => AuctionInv
<1> SUFFICES ASSUME AuctionsInit PROVE AuctionInv
  OBVIOUS
<1>1. AuctionTyping
  BY Addressed DEF AuctionsInit, AuctionTyping
<1>2. \A a \in Addresses : owner[LotOf(a)] # a
  BY Addressed DEF AuctionsInit
<1>3. BidInEscrow
  BY <1>2 DEF AuctionsInit, BidInEscrow
<1> QED
  BY <1>1, <1>3, Addressed DEF AuctionsInit, AuctionInv, SaleInv

(* The lot goes into an auction that has just been deployed.               *)
LEMMA EnglishOpens ==
  ASSUME AuctionInv, NEW a \in English, NEW starting \in Starts,
         NEW reserve \in Prices, NEW duration \in Durations,
         CreateEnglish(a, starting, reserve, duration)
  PROVE  AuctionInv'
<1>1. PICK sale : sale = [starting |-> starting, reserve |-> reserve,
                          end |-> block + duration, bid |-> 0,
                          bidder |-> Nobody]
  OBVIOUS
<1>2. /\ owner[LotOf(a)] = SellerOf(a) /\ sales[a] = Nobody
      /\ sales' = [sales EXCEPT ![a] = sale]
      /\ owner' = [owner EXCEPT ![LotOf(a)] = a]
      /\ UNCHANGED <<block, escrow>>
  BY <1>1 DEF CreateEnglish, Deploy
<1>3. sale \in EnglishSale /\ sale.bid = 0
  BY <1>1, AuctionsAssumption DEF EnglishSale, AuctionInv, AuctionTyping
<1>4. AuctionTyping'
  BY <1>2, <1>3, Addressed DEF AuctionInv, AuctionTyping
<1>5. \A b \in Addresses : owner'[LotOf(b)] = b <=> b = a \/ owner[LotOf(b)] = b
  BY <1>2, Addressed DEF AuctionInv, AuctionTyping
<1>6. ASSUME NEW b \in English PROVE SaleInv(b)'
  BY <1>2, <1>3, <1>5, Addressed DEF AuctionInv, AuctionTyping, SaleInv
<1>7. BidInEscrow'
  <2> SUFFICES ASSUME NEW b \in Addresses
               PROVE  escrow'[b] = IF b \in English /\ owner'[LotOf(b)] = b
                                   THEN sales'[b].bid ELSE 0
    BY DEF BidInEscrow
  <2>1. escrow[a] = 0
    BY <1>2, Addressed DEF AuctionInv, BidInEscrow
  <2> QED
    BY <1>2, <1>3, <1>5, <2>1 DEF AuctionInv, AuctionTyping, BidInEscrow
<1> QED
  BY <1>4, <1>6, <1>7 DEF AuctionInv

(* A bid is taken only while the lot is there.                             *)
LEMMA BidTaken ==
  ASSUME AuctionInv, NEW a \in English, NEW p \in Persons,
         NEW tokens \in Nat \ {0}, NEW hurried \in BOOLEAN,
         Bid(a, p, tokens, hurried)
  PROVE  AuctionInv'
<1>1. PICK sale : sale = [sales[a] EXCEPT
                            !.bid = tokens, !.bidder = p,
                            !.end = Extended(sales[a].end, hurried)]
  OBVIOUS
<1>2. /\ sales[a] # Nobody /\ block < sales[a].end
      /\ escrow' = [escrow EXCEPT ![a] = @ + tokens - sales[a].bid]
      /\ sales' = [sales EXCEPT ![a] = sale]
      /\ UNCHANGED <<block, owner>>
  BY <1>1 DEF Bid
<1>3. sales[a] \in EnglishSale /\ block \in Nat
  BY <1>2 DEF AuctionInv, AuctionTyping, SaleInv
<1>4. sales[a].end \in Nat /\ sales[a].bid \in Nat
  BY <1>3 DEF EnglishSale
<1>5. owner[LotOf(a)] = a
  BY <1>2, <1>3, <1>4 DEF AuctionInv, SaleInv
<1>6. Extended(sales[a].end, hurried) \in Nat
  BY <1>4, AuctionsAssumption DEF Extended
<1>7. sale \in EnglishSale /\ sale.bid = tokens /\ sale.bidder = p
  BY <1>1, <1>3, <1>6 DEF EnglishSale
<1>8. escrow[a] = sales[a].bid
  BY <1>5, Addressed DEF AuctionInv, BidInEscrow
<1>9. escrow' = [escrow EXCEPT ![a] = tokens]
  <2>1. escrow[a] + tokens - sales[a].bid = tokens
    BY <1>4, <1>8
  <2> QED
    BY <1>2, <2>1
<1>10. AuctionTyping'
  BY <1>2, <1>7, <1>9, Addressed DEF AuctionInv, AuctionTyping
<1>11. ASSUME NEW b \in English PROVE SaleInv(b)'
  BY <1>2, <1>5, <1>7, Addressed DEF AuctionInv, AuctionTyping, SaleInv
<1>12. BidInEscrow'
  BY <1>2, <1>5, <1>7, <1>9, Addressed
     DEF AuctionInv, AuctionTyping, BidInEscrow
<1> QED
  BY <1>10, <1>11, <1>12 DEF AuctionInv

(* The lot and the highest bid leave together.                             *)
LEMMA AuctionEnds ==
  ASSUME AuctionInv, NEW a \in English, EndAuction(a)
  PROVE  AuctionInv'
<1> DEFINE winner == IF sales[a].bid >= sales[a].reserve
                     THEN sales[a].bidder ELSE SellerOf(a)
<1>1. /\ sales[a] # Nobody /\ block >= sales[a].end
      /\ owner[LotOf(a)] = a
      /\ owner' = [owner EXCEPT ![LotOf(a)] = winner]
      /\ escrow' = [escrow EXCEPT ![a] = @ - sales[a].bid]
      /\ UNCHANGED <<block, sales>>
  BY DEF EndAuction
<1>2. /\ sales[a] \in EnglishSale
      /\ sales[a].bid > 0 => sales[a].bidder \in Persons
  BY <1>1 DEF AuctionInv, SaleInv
<1>3. /\ sales[a].bid \in Nat
      /\ sales[a].reserve \in Nat /\ sales[a].reserve > 0
  BY <1>2, AuctionsAssumption DEF EnglishSale
<1>4. winner \in Persons
  BY <1>2, <1>3, Addressed
<1> HIDE DEF winner
<1>5. escrow[a] = sales[a].bid
  BY <1>1, Addressed DEF AuctionInv, BidInEscrow
<1>6. escrow' = [escrow EXCEPT ![a] = 0]
  <2>1. escrow[a] - sales[a].bid = 0
    BY <1>3, <1>5
  <2> QED
    BY <1>1, <2>1
<1>7. \A b \in Addresses : owner'[LotOf(b)] = b <=> b # a /\ owner[LotOf(b)] = b
  BY <1>1, <1>4, Addressed DEF AuctionInv, AuctionTyping
<1>8. AuctionTyping'
  BY <1>1, <1>4, <1>6, Addressed DEF AuctionInv, AuctionTyping
<1>9. ASSUME NEW b \in English PROVE SaleInv(b)'
  BY <1>1, <1>7, Addressed DEF AuctionInv, SaleInv
<1>10. BidInEscrow'
  BY <1>1, <1>6, <1>7, Addressed DEF AuctionInv, AuctionTyping, BidInEscrow
<1> QED
  BY <1>8, <1>9, <1>10 DEF AuctionInv

(* A Dutch auction touches its own sale, and a lot no English one has.     *)
LEMMA DutchAside ==
  ASSUME AuctionInv, NEW a \in Dutch, NEW sale \in DutchSale,
         NEW x \in Persons \cup {a},
         sales' = [sales EXCEPT ![a] = sale] \/ sales' = sales,
         \/ /\ owner[LotOf(a)] \in Persons \cup {a}
            /\ owner' = [owner EXCEPT ![LotOf(a)] = x]
         \/ owner' = owner,
         UNCHANGED <<block, escrow>>
  PROVE  AuctionInv'
<1>1. \A b \in English : b # a /\ sales'[b] = sales[b]
  BY Addressed DEF AuctionInv, AuctionTyping
<1>2. \A b \in English : owner'[LotOf(b)] = b <=> owner[LotOf(b)] = b
  BY <1>1, Addressed DEF AuctionInv, AuctionTyping
<1>3. AuctionTyping'
  BY Addressed DEF AuctionInv, AuctionTyping
<1>4. ASSUME NEW b \in English PROVE SaleInv(b)'
  BY <1>1, <1>2 DEF AuctionInv, SaleInv
<1>5. BidInEscrow'
  BY <1>1, <1>2, Addressed DEF AuctionInv, BidInEscrow
<1> QED
  BY <1>3, <1>4, <1>5 DEF AuctionInv

(* The calls on Dutch auctions keep what is known of the auctions.         *)
LEMMA DutchStep ==
  ASSUME AuctionInv, NEW a \in Dutch,
         \/ \E from \in Prices, floor \in Prices \cup {0}, duration \in Durations :
              CreateDutch(a, from, floor, duration)
         \/ HandOver(a) \/ Reclaim(a)
         \/ \E p \in Persons : Buy(a, p)
  PROVE  AuctionInv'
<1>1. ASSUME NEW from \in Prices, NEW floor \in Prices \cup {0},
             NEW duration \in Durations, CreateDutch(a, from, floor, duration)
      PROVE  AuctionInv'
  <2>1. PICK sale : sale = [from |-> from, floor |-> floor, begin |-> block,
                            end |-> block + duration, sold |-> FALSE]
    OBVIOUS
  <2>2. sale \in DutchSale
    BY <2>1, AuctionsAssumption DEF DutchSale, AuctionInv, AuctionTyping
  <2>3. /\ sales' = [sales EXCEPT ![a] = sale]
        /\ owner' = owner /\ UNCHANGED <<block, escrow>>
    BY <1>1, <2>1 DEF CreateDutch, Deploy
  <2> QED
    BY <2>2, <2>3, DutchAside
<1>2. CASE HandOver(a)
  <2>1. sales[a] \in DutchSale /\ SellerOf(a) \in Persons
    BY <1>2, Addressed DEF HandOver, AuctionInv, AuctionTyping
  <2> QED
    BY <1>2, <2>1, DutchAside DEF HandOver
<1>3. ASSUME NEW p \in Persons,
             sales[a] # Nobody /\ owner[LotOf(a)] = a,
             owner' = [owner EXCEPT ![LotOf(a)] = p],
             sales' = [sales EXCEPT ![a] = [sales[a] EXCEPT !.sold = TRUE]],
             UNCHANGED <<block, escrow>>
      PROVE  AuctionInv'
  <2>1. [sales[a] EXCEPT !.sold = TRUE] \in DutchSale
    BY <1>3 DEF DutchSale, AuctionInv, AuctionTyping
  <2> QED
    BY <1>3, <2>1, DutchAside
<1>4. CASE Reclaim(a)
  BY <1>3, <1>4, Addressed DEF Reclaim
<1>5. ASSUME NEW p \in Persons, Buy(a, p) PROVE AuctionInv'
  BY <1>3, <1>5 DEF Buy
<1> QED
  BY <1>1, <1>2, <1>4, <1>5

(* The calls on auctions keep what is known of them.                       *)
LEMMA AuctionStep == AuctionInv /\ [AuctionsNext]_auctionVars => AuctionInv'
<1> SUFFICES ASSUME AuctionInv, [AuctionsNext]_auctionVars PROVE AuctionInv'
  OBVIOUS
<1>1. ASSUME UNCHANGED <<sales, owner, escrow>>, block' \in {block, block + 1}
      PROVE  AuctionInv'
  BY <1>1 DEF AuctionInv, AuctionTyping, SaleInv, BidInEscrow, EnglishSale
<1>2. CASE LedgerCloses
  BY <1>1, <1>2 DEF LedgerCloses
<1>3. ASSUME NEW tokens \in Fees, ConfigureFee(tokens) PROVE AuctionInv'
  BY <1>1, <1>3 DEF ConfigureFee
<1>4. CASE UNCHANGED auctionVars
  BY <1>1, <1>4 DEF auctionVars
<1>5. \A tokens \in 1..Coins * Cardinality(Persons) : tokens \in Nat \ {0}
  BY FS_CardinalityType, AuctionsAssumption
<1>6. ASSUME NEW a \in English,
             \/ \E starting \in Starts, reserve \in Prices, duration \in Durations :
                  CreateEnglish(a, starting, reserve, duration)
             \/ \E p \in Persons, tokens \in 1..Coins * Cardinality(Persons),
                   hurried \in BOOLEAN : Bid(a, p, tokens, hurried)
             \/ EndAuction(a)
      PROVE  AuctionInv'
  BY <1>5, <1>6, EnglishOpens, BidTaken, AuctionEnds
<1> QED
  BY <1>2, <1>3, <1>4, <1>6, DutchStep DEF AuctionsNext

(* An English auction holds its highest bid as long as it holds the lot and *)
(* nothing afterwards, in any order of bids, of a second call of            *)
(* end_auction and of other auctions of the same lot (english_auction, bid *)
(* and end_auction).                                                       *)
THEOREM EscrowIsTheBid == AuctionsSpec => []BidInEscrow
<1>1. AuctionInv => BidInEscrow
  BY DEF AuctionInv
<1> QED
  BY <1>1, AuctionStart, AuctionStep, PTL DEF AuctionsSpec

-----------------------------------------------------------------------------
(* The guard                                                               *)

(* Once there is a threshold, only a call that enough admins have signed    *)
(* may change the list of admins.                                          *)
LEMMA OnlyQuorumChanges ==
  ASSUME GuardNext, threshold # 0, admins' # admins
  PROVE  \E approvers : CheckMultiSig(approvers)
<1> DEFINE Quorate == \E approvers : CheckMultiSig(approvers)
<1>1. \A list, t : ~InitializeGuard(list, t)
  BY DEF InitializeGuard
<1>2. \A admin, mask, on : ~SetPause(admin, mask, on)
  BY DEF SetPause
<1>3. \A approvers : ~EmergencyPause(approvers) /\ ~Resume(approvers)
  BY DEF EmergencyPause, Resume
<1>4. \A approvers, x : AddAdmin(approvers, x) \/ RemoveAdmin(approvers, x) => Quorate
  BY DEF AddAdmin, RemoveAdmin
<1>5. \A approvers, x, y : RotateAdmin(approvers, x, y) => Quorate
  BY DEF RotateAdmin
<1> HIDE DEF Quorate
<1>6. Quorate
  BY <1>1, <1>2, <1>3, <1>4, <1>5 DEF GuardNext
<1> QED
  BY <1>6 DEF Quorate

(* Who the admins are is decided by as many different admins as must sign, *)
(* for any lists of founders and of signers and for both ways of replacing *)
(* an admin (emergency_guard, check_multi_sig).                            *)
THEOREM AdminsDecide == GuardSpec => DecidedByQuorum
<1>1. ASSUME GuardNext
      PROVE  threshold # 0 /\ admins' # admins =>
               Cardinality(signed') >= threshold /\ signed' \subseteq Admins
  BY <1>1, OnlyQuorumChanges DEF CheckMultiSig
<1>2. [GuardNext]_guardVars =>
        [threshold # 0 /\ admins' # admins =>
           Cardinality(signed') >= threshold /\ signed' \subseteq Admins]_guardVars
  BY <1>1
<1> QED
  BY <1>2, PTL DEF GuardSpec, DecidedByQuorum

(* The bidders' money                                                      *)

(* One account of several is changed.                                      *)
LEMMA Added ==
  ASSUME NEW balances \in [Persons -> Int], NEW p \in Persons, NEW tokens \in Int
  PROVE  /\ Add(balances, p, tokens) \in [Persons -> Int]
         /\ \A q \in Persons :
              Add(balances, p, tokens)[q] = balances[q] + (IF q = p THEN tokens ELSE 0)
<1> DEFINE moved == Add(balances, p, tokens)
<1>1. moved = [balances EXCEPT ![p] = balances[p] + tokens]
  BY DEF Add
<1>2. \A q \in Persons : moved[q] = IF q = p THEN balances[q] + tokens ELSE balances[q]
  BY <1>1
<1> HIDE DEF moved
<1>3. moved \in [Persons -> Int]
  BY <1>1
<1>4. ASSUME NEW q \in Persons
      PROVE  moved[q] = balances[q] + (IF q = p THEN tokens ELSE 0)
  <2>1. balances[q] \in Int
    OBVIOUS
  <2> QED  BY <1>2, <2>1
<1> QED  BY <1>3, <1>4 DEF moved

(* There are finitely many English auctions.                               *)
LEMMA FiniteAuctions == IsFiniteSet(English)
<1>1. IsFiniteSet(Persons \X Lots) /\ IsFiniteSet({"english"})
  BY AuctionsAssumption, FS_Product, FS_Singleton
<1> DEFINE f == [x \in Persons \X Lots |-> <<"english", x[1], x[2]>>]
<1>2. f \in Surjection(Persons \X Lots, English)
  <2>1. \A x \in Persons \X Lots : f[x] \in English
    BY DEF English
  <2>2. ASSUME NEW a \in English
        PROVE  \E x \in Persons \X Lots : f[x] = a
    <3>1. <<a[2], a[3]>> \in Persons \X Lots /\ a = <<"english", a[2], a[3]>>
      BY DEF English
    <3> QED  BY <3>1
  <2> QED  BY <2>1, <2>2 DEF Surjection
<1> QED
  <2> HIDE DEF f
  <2> QED  BY <1>1, <1>2, FS_Surjection

(* What p has put into auctions that still run.                            *)
Pledged(p) == SumFunction(Standing(p))

DutchSound(s) ==
  /\ s.floor <= s.from /\ s.begin \in Nat /\ s.begin <= block /\ s.begin < s.end

SettledInv ==
  /\ block \in 0..Horizon /\ fee \in Nat
  /\ purse \in [Persons -> Nat] /\ due \in [Persons -> Int]
  /\ \A a \in Dutch : sales[a] # Nobody => DutchSound(sales[a])
  /\ BiddersWhole

(* What a person has standing in the auctions changes by what changes in   *)
(* one of them.                                                            *)
LEMMA PledgeMoves ==
  ASSUME AuctionInv, AuctionInv', NEW p \in Persons, NEW a \in Addresses,
         \A b \in English \ {a} :
           /\ sales'[b] = sales[b]
           /\ owner'[LotOf(b)] = b <=> owner[LotOf(b)] = b
  PROVE  /\ Pledged(p) \in Int
         /\ a \notin English => Pledged(p)' = Pledged(p)
         /\ a \in English =>
              Pledged(p)' = Pledged(p) + Standing(p)'[a] - Standing(p)[a]
<1> DEFINE f == Standing(p)  g == Standing(p)'
<1>1. \A b \in English : /\ sales[b] # Nobody => sales[b].bid \in Int
                         /\ sales'[b] # Nobody => sales'[b].bid \in Int
  BY DEF AuctionInv, SaleInv, EnglishSale
<1>2. \A b \in English : f[b] \in Int /\ g[b] \in Int
  BY <1>1 DEF Standing
<1>3. \A b \in English \ {a} : f[b] = g[b]
  BY DEF Standing
<1>4. Pledged(p) = SumFunctionOnSet(f, English) /\ Pledged(p)' = SumFunctionOnSet(g, English)
  BY DEF Pledged, Standing, SumFunction
<1>5. IntegersOn(f, English)
  BY <1>2, FiniteAuctions DEF IntegersOn
<1> HIDE DEF f, g
<1>6. a \notin English => SumFunctionOnSet(f, English) = SumFunctionOnSet(g, English)
  BY <1>3, <1>5, SumAgree
<1>7. ASSUME a \in English
      PROVE  SumFunctionOnSet(g, English) = SumFunctionOnSet(f, English) + g[a] - f[a]
  <2>1. g[a] \in Int /\ \A b \in English \ {a} : f[b] = g[b]
    BY <1>2, <1>3, <1>7
  <2> QED  BY <1>5, <1>7, <2>1, SumUpdate, SMT
<1>8. SumFunctionOnSet(f, English) \in Int
  BY <1>5, SumTyped
<1> QED  BY <1>4, <1>6, <1>7, <1>8 DEF f, g

(* The bids and the purse of each person are what that person is due.      *)
LEMMA AmountsWhole ==
  BiddersWhole <=> \A p \in Persons : purse[p] + Pledged(p) = due[p]
BY DEF BiddersWhole, Pledged

(* At the start everybody has what they are due.                           *)
LEMMA SettledStart == AuctionsInit => SettledInv
<1> SUFFICES ASSUME AuctionsInit PROVE SettledInv
  OBVIOUS
<1>1. \A p : Pledged(p) = 0
  <2> SUFFICES ASSUME NEW p PROVE Pledged(p) = 0
    OBVIOUS
  <2> DEFINE f == Standing(p)
  <2>1. \A b \in English : f[b] = 0
    BY Addressed DEF AuctionsInit, Standing
  <2>2. Pledged(p) = SumFunctionOnSet(f, English)
    BY DEF Pledged, Standing, SumFunction
  <2> HIDE DEF f
  <2> QED  BY <2>1, <2>2, FiniteAuctions, SumZero
<1>2. purse \in [Persons -> Nat] /\ due = purse
  BY AuctionsAssumption DEF AuctionsInit
<1>3. BiddersWhole
  BY <1>1, <1>2, AmountsWhole
<1>4. \A a \in Dutch : sales[a] = Nobody
  BY Addressed DEF AuctionsInit
<1> QED  BY <1>2, <1>3, <1>4, AuctionsAssumption DEF AuctionsInit, SettledInv

(* A deployment costs the seller what it costs the history.                *)
LEMMA DeploymentPaid ==
  ASSUME AuctionInv, AuctionInv', SettledInv, NEW a \in Addresses, NEW sale, Deploy(a, sale),
         \/ owner' = owner
         \/ owner[LotOf(a)] = SellerOf(a) /\ owner' = [owner EXCEPT ![LotOf(a)] = a],
         a \in English => sale.bid = 0,
         a \in Dutch => DutchSound(sale)
  PROVE  SettledInv'
<1>1. /\ fee > 0 /\ purse[SellerOf(a)] >= fee /\ sales[a] = Nobody
      /\ sales' = [sales EXCEPT ![a] = sale]
      /\ purse' = Add(purse, SellerOf(a), -fee) /\ due' = Add(due, SellerOf(a), -fee)
      /\ UNCHANGED <<block, fee>>
  BY DEF Deploy
<1>2. /\ purse \in [Persons -> Nat] /\ due \in [Persons -> Int] /\ fee \in Nat
      /\ purse \in [Persons -> Int] /\ -fee \in Int /\ SellerOf(a) \in Persons
  BY Addressed DEF SettledInv
<1> DEFINE s == SellerOf(a)  cost == -fee
<1>3. /\ purse' \in [Persons -> Int] /\ due' \in [Persons -> Int]
      /\ \A q \in Persons : /\ purse'[q] = purse[q] + (IF q = s THEN cost ELSE 0)
                             /\ due'[q] = due[q] + (IF q = s THEN cost ELSE 0)
  <2>1. s \in Persons /\ cost \in Int
    BY <1>2
  <2>2. purse' = Add(purse, s, cost) /\ due' = Add(due, s, cost)
    BY <1>1
  <2> HIDE DEF s, cost
  <2>3. ASSUME NEW balances \in [Persons -> Int]
        PROVE  /\ Add(balances, s, cost) \in [Persons -> Int]
               /\ \A q \in Persons :
                    Add(balances, s, cost)[q] = balances[q] + (IF q = s THEN cost ELSE 0)
    BY <2>1, Added
  <2> QED  BY <1>2, <2>2, <2>3
<1>5. purse' \in [Persons -> Nat]
  <2>1. \A q \in Persons : purse'[q] \in Nat
    BY <1>1, <1>2, <1>3
  <2> QED  BY <1>3, <2>1
<1>6. \A q \in Persons : Pledged(q)' = Pledged(q) /\ Pledged(q) \in Int
  <2> SUFFICES ASSUME NEW q \in Persons PROVE Pledged(q)' = Pledged(q) /\ Pledged(q) \in Int
    OBVIOUS
  <2>1. \A b \in English \ {a} :
           /\ sales'[b] = sales[b]
           /\ owner'[LotOf(b)] = b <=> owner[LotOf(b)] = b
    BY <1>1, Addressed DEF AuctionInv, AuctionTyping
  <2>2. a \in English => Standing(q)[a] = 0 /\ Standing(q)'[a] = 0
    BY <1>1 DEF Standing, AuctionInv, AuctionTyping
  <2> QED  BY <2>1, <2>2, PledgeMoves
<1>7. BiddersWhole'
  <2>1. \A q \in Persons : purse'[q] + Pledged(q)' = due'[q]
    BY <1>2, <1>3, <1>6, AmountsWhole DEF SettledInv
  <2> QED  BY <2>1 DEF BiddersWhole, Pledged
<1>8. \A b \in Dutch : (sales[b] # Nobody => DutchSound(sales[b]))'
  BY <1>1, Addressed DEF SettledInv, DutchSound, AuctionInv, AuctionTyping
<1> QED  BY <1>1, <1>2, <1>3, <1>5, <1>7, <1>8 DEF SettledInv

(* Opening an English auction moves no money.                              *)
LEMMA EnglishPaid ==
  ASSUME AuctionInv, AuctionInv', SettledInv, NEW a \in English, NEW starting \in Starts,
         NEW reserve \in Prices, NEW duration \in Durations,
         CreateEnglish(a, starting, reserve, duration)
  PROVE  SettledInv'
<1> DEFINE sale == [starting |-> starting, reserve |-> reserve,
                    end |-> block + duration, bid |-> 0, bidder |-> Nobody]
<1>1. /\ owner[LotOf(a)] = SellerOf(a) /\ Deploy(a, sale)
      /\ owner' = [owner EXCEPT ![LotOf(a)] = a]
  BY DEF CreateEnglish
<1>2. sale.bid = 0
  OBVIOUS
<1> HIDE DEF sale
<1> QED  BY <1>1, <1>2, Addressed, DeploymentPaid

(* Opening a Dutch auction moves no money.                                 *)
LEMMA DutchPaid ==
  ASSUME AuctionInv, AuctionInv', SettledInv, NEW a \in Dutch, NEW from \in Prices,
         NEW floor \in Prices \cup {0}, NEW duration \in Durations,
         CreateDutch(a, from, floor, duration)
  PROVE  SettledInv'
<1> DEFINE sale == [from |-> from, floor |-> floor, begin |-> block,
                    end |-> block + duration, sold |-> FALSE]
<1>1. floor <= from /\ Deploy(a, sale) /\ owner' = owner
  BY DEF CreateDutch
<1>2. DutchSound(sale)
  <2>1. duration \in Nat \ {0} /\ block \in Nat
    BY AuctionsAssumption DEF AuctionInv, AuctionTyping
  <2> QED  BY <1>1, <2>1 DEF DutchSound
<1>3. a \notin English /\ a \in Addresses
  BY Addressed
<1> HIDE DEF sale
<1> QED  BY <1>1, <1>2, <1>3, DeploymentPaid

(* What the bidder adds to the purse of the one it beats leaves the pledges.*)
LEMMA BidPaid ==
  ASSUME AuctionInv, AuctionInv', SettledInv, NEW a \in English, NEW p \in Persons,
         NEW tokens \in Nat \ {0}, NEW hurried \in BOOLEAN,
         Bid(a, p, tokens, hurried)
  PROVE  SettledInv'
<1> DEFINE s == sales[a]  old == s.bid  cost == -tokens
           pulled == Add(purse, p, cost)
<1>1. /\ s # Nobody /\ block < s.end /\ purse[p] >= tokens
      /\ purse' = IF old > 0 THEN Add(pulled, s.bidder, old) ELSE pulled
      /\ sales' = [sales EXCEPT ![a] = [s EXCEPT !.bid = tokens, !.bidder = p,
                                          !.end = Extended(s.end, hurried)]]
      /\ UNCHANGED <<block, fee, owner, due>>
  BY DEF Bid
<1>2. /\ s \in EnglishSale
      /\ old > 0 => s.bidder \in Persons
      /\ owner[LotOf(a)] = a
  <2>1. SaleInv(a) /\ block \in Nat
    BY DEF AuctionInv, AuctionTyping
  <2>2. s.end \in Nat /\ s \in EnglishSale
    BY <1>1, <2>1 DEF SaleInv, EnglishSale
  <2> QED  BY <1>1, <2>1, <2>2 DEF SaleInv
<1>3. old \in Nat /\ cost \in Int /\ old \in Int
  BY <1>2 DEF EnglishSale
<1>4. purse \in [Persons -> Int] /\ purse \in [Persons -> Nat] /\ due \in [Persons -> Int]
  BY DEF SettledInv
<1>5. \A q \in Persons :
        /\ Standing(q)[a] = IF s.bidder = q THEN old ELSE 0
        /\ Standing(q)'[a] = IF q = p THEN tokens ELSE 0
  <2> DEFINE sale == [s EXCEPT !.bid = tokens, !.bidder = p,
                               !.end = Extended(s.end, hurried)]
  <2>0. Extended(s.end, hurried) \in Nat
    BY <1>2, AuctionsAssumption DEF Extended, EnglishSale, AuctionInv, AuctionTyping
  <2>1. sale \in EnglishSale /\ sale.bid = tokens /\ sale.bidder = p
    BY <1>2, <2>0 DEF EnglishSale
  <2>2. sales' = [sales EXCEPT ![a] = sale] /\ a \in DOMAIN sales
    BY <1>1, Addressed DEF AuctionInv, AuctionTyping
  <2> HIDE DEF sale
  <2>3. sales'[a] = sale /\ sales'[a] # Nobody /\ owner'[LotOf(a)] = a
    <3>1. sale # Nobody
      BY <2>1, SaleAssumption
    <3> QED  BY <1>1, <1>2, <2>2, <3>1
  <2> QED  BY <1>1, <1>2, <2>1, <2>3 DEF Standing
<1>6. \A b \in English \ {a} :
           /\ sales'[b] = sales[b]
           /\ owner'[LotOf(b)] = b <=> owner[LotOf(b)] = b
  BY <1>1, Addressed DEF AuctionInv, AuctionTyping
<1>7. \A q \in Persons :
        /\ Pledged(q) \in Int
        /\ Pledged(q)' = Pledged(q) + Standing(q)'[a] - Standing(q)[a]
  <2>1. a \in Addresses
    BY Addressed
  <2> QED  BY <1>6, <2>1, PledgeMoves
<1>8. ~ (sales[a] = Nobody) /\ \A b \in Dutch : sales'[b] = sales[b]
  BY <1>1, Addressed DEF AuctionInv, AuctionTyping
<1> HIDE DEF s, cost, old
<1>9. /\ pulled \in [Persons -> Int]
      /\ \A q \in Persons : pulled[q] = purse[q] + (IF q = p THEN cost ELSE 0)
  <2>1. ASSUME NEW balances \in [Persons -> Int]
        PROVE  /\ Add(balances, p, cost) \in [Persons -> Int]
               /\ \A q \in Persons :
                    Add(balances, p, cost)[q] = balances[q] + (IF q = p THEN cost ELSE 0)
    BY <1>3, Added
  <2> QED  BY <1>4, <2>1
<1> HIDE DEF pulled
<1>10. /\ purse' \in [Persons -> Int]
       /\ \A q \in Persons : purse'[q] = pulled[q] + (IF q = s.bidder THEN old ELSE 0)
  <2>1. CASE old > 0
    <3> DEFINE w == s.bidder
    <3>1. w \in Persons /\ purse' = Add(pulled, w, old)
      BY <1>1, <1>2, <2>1
    <3>0. old \in Int
      BY <1>3
    <3> HIDE DEF w
    <3>2. /\ purse' \in [Persons -> Int]
          /\ \A q \in Persons : purse'[q] = pulled[q] + (IF q = w THEN old ELSE 0)
      <4>1. ASSUME NEW balances \in [Persons -> Int]
            PROVE  /\ Add(balances, w, old) \in [Persons -> Int]
                   /\ \A q \in Persons :
                        Add(balances, w, old)[q] = balances[q] + (IF q = w THEN old ELSE 0)
        BY <3>0, <3>1, Added
      <4> QED  BY <1>9, <3>1, <4>1
    <3> QED  BY <3>2 DEF w
  <2>2. CASE old = 0
    BY <1>1, <1>9, <2>2
  <2> QED  BY <1>3, <2>1, <2>2
<1>11. \A q \in Persons : purse'[q] >= 0
  <2> SUFFICES ASSUME NEW q \in Persons PROVE purse'[q] >= 0
    OBVIOUS
  <2>1. purse[q] \in Nat /\ pulled[q] >= 0 /\ pulled[q] \in Int
    BY <1>1, <1>4, <1>9 DEF cost
  <2> QED  BY <1>3, <1>10, <2>1
<1>12. purse' \in [Persons -> Nat]
  BY <1>10, <1>11
<1>13. \A q \in Persons : purse'[q] + Pledged(q)' = due'[q]
  <2> SUFFICES ASSUME NEW q \in Persons PROVE purse'[q] + Pledged(q)' = due'[q]
    OBVIOUS
  <2>1. purse'[q] = purse[q] + (IF q = p THEN -tokens ELSE 0) + (IF q = s.bidder THEN old ELSE 0)
    BY <1>9, <1>10 DEF cost
  <2>2. Pledged(q)' = Pledged(q) + (IF q = p THEN tokens ELSE 0)
                                 - (IF s.bidder = q THEN old ELSE 0)
    BY <1>5, <1>7
  <2>3. purse[q] + Pledged(q) = due[q] /\ due'[q] = due[q]
    BY <1>1, AmountsWhole DEF SettledInv
  <2> QED  BY <1>3, <1>4, <1>7, <2>1, <2>2, <2>3
<1>14. BiddersWhole'
  BY <1>13 DEF BiddersWhole, Pledged
<1> QED  BY <1>1, <1>8, <1>12, <1>14 DEF SettledInv, DutchSound

(* The lot's buyer is out of pocket for the bid, which the history knows;   *)
(* a losing bidder is not.                                                 *)
LEMMA EndPaid ==
  ASSUME AuctionInv, AuctionInv', SettledInv, NEW a \in English, EndAuction(a)
  PROVE  SettledInv'
<1> DEFINE s == sales[a]  old == s.bid  won == old >= s.reserve
           seller == SellerOf(a)  cost == -old
<1>1. /\ s # Nobody /\ owner[LotOf(a)] = a
      /\ owner' = [owner EXCEPT ![LotOf(a)] = IF won THEN s.bidder ELSE seller]
      /\ purse' = CASE won -> Add(purse, seller, old)
                    [] ~ won /\ old > 0 -> Add(purse, s.bidder, old)
                    [] OTHER -> purse
      /\ due' = IF won THEN Add(Add(due, seller, old), s.bidder, cost) ELSE due
      /\ UNCHANGED <<block, fee, sales>>
  BY DEF EndAuction
<1>2. /\ s \in EnglishSale
      /\ old > 0 => s.bidder \in Persons
  BY <1>1 DEF AuctionInv, SaleInv
<1>3. old \in Nat /\ cost \in Int /\ old \in Int /\ seller \in Persons /\ (won => old > 0)
  BY <1>2, Addressed, AuctionsAssumption DEF EnglishSale
<1>4. purse \in [Persons -> Int] /\ purse \in [Persons -> Nat] /\ due \in [Persons -> Int]
  BY DEF SettledInv
<1>5. (IF won THEN s.bidder ELSE seller) # a /\ a \in Addresses /\ LotOf(a) \in Lots
  BY <1>2, <1>3, Addressed
<1>6. owner'[LotOf(a)] # a
  BY <1>1, <1>5 DEF AuctionInv, AuctionTyping
<1>7. \A q \in Persons :
        /\ Standing(q)[a] = IF s.bidder = q THEN old ELSE 0
        /\ Standing(q)'[a] = 0
  BY <1>1, <1>6 DEF Standing
<1>8. \A b \in English \ {a} :
           /\ sales'[b] = sales[b]
           /\ owner'[LotOf(b)] = b <=> owner[LotOf(b)] = b
  <2> SUFFICES ASSUME NEW b \in English \ {a}
               PROVE  owner'[LotOf(b)] = b <=> owner[LotOf(b)] = b
    BY <1>1
  <2>1. (IF won THEN s.bidder ELSE seller) # b
    BY <1>2, <1>3, Addressed
  <2> QED  BY <1>1, <2>1, Addressed DEF AuctionInv, AuctionTyping
<1>9. \A q \in Persons :
        /\ Pledged(q) \in Int
        /\ Pledged(q)' = Pledged(q) + Standing(q)'[a] - Standing(q)[a]
  BY <1>5, <1>8, PledgeMoves
<1>10. \A b \in Dutch : sales'[b] = sales[b]
  BY <1>1
<1> DEFINE bidder == s.bidder
<1>11. old > 0 => bidder \in Persons
  BY <1>2
<1>12. purse' = CASE won -> Add(purse, seller, old)
                  [] ~ won /\ old > 0 -> Add(purse, bidder, old)
                  [] OTHER -> purse
  BY <1>1
<1>13. due' = IF won THEN Add(Add(due, seller, old), bidder, cost) ELSE due
  BY <1>1
<1>14. \A q \in Persons : Pledged(q)' = Pledged(q) - (IF q = bidder THEN old ELSE 0)
  <2> HIDE DEF s, old
  <2> QED  BY <1>3, <1>7, <1>9
<1>15. \A q \in Persons : purse[q] + Pledged(q) = due[q]
  BY AmountsWhole DEF SettledInv
<1> HIDE DEF s, old, won, seller, bidder
<1>16. ASSUME NEW balances \in [Persons -> Int], NEW w \in Persons, NEW n \in {old, cost}
       PROVE  /\ Add(balances, w, n) \in [Persons -> Int]
              /\ \A q \in Persons :
                   Add(balances, w, n)[q] = balances[q] + (IF q = w THEN n ELSE 0)
  <2>1. n \in Int
    BY <1>3
  <2> HIDE DEF cost
  <2> QED  BY <2>1, Added
<1>17. /\ purse' \in [Persons -> Nat] /\ due' \in [Persons -> Int]
       /\ \A q \in Persons : purse'[q] + Pledged(q)' = due'[q]
  <2>1. CASE won
    <3> DEFINE paid == Add(due, seller, old)
    <3>1. bidder \in Persons /\ old > 0
      BY <1>3, <1>11, <2>1
    <3>2. /\ purse' \in [Persons -> Int]
          /\ \A q \in Persons : purse'[q] = purse[q] + (IF q = seller THEN old ELSE 0)
      BY <1>3, <1>4, <1>12, <1>16, <2>1
    <3>3. /\ paid \in [Persons -> Int]
          /\ \A q \in Persons : paid[q] = due[q] + (IF q = seller THEN old ELSE 0)
      BY <1>3, <1>4, <1>16
    <3>4. due' = Add(paid, bidder, cost)
      BY <1>13, <2>1
    <3> HIDE DEF paid, cost
    <3>5. /\ due' \in [Persons -> Int]
          /\ \A q \in Persons : due'[q] = paid[q] + (IF q = bidder THEN cost ELSE 0)
      BY <3>1, <3>3, <3>4, <1>16
    <3>6. \A q \in Persons : purse'[q] >= 0
      BY <1>3, <1>4, <3>2
    <3>7. \A q \in Persons : purse'[q] + Pledged(q)' = due'[q]
      <4> SUFFICES ASSUME NEW q \in Persons PROVE purse'[q] + Pledged(q)' = due'[q]
        OBVIOUS
      <4>1. purse[q] \in Int /\ due[q] \in Int /\ Pledged(q) \in Int
        BY <1>4, <1>9
      <4> QED  BY <1>3, <1>14, <1>15, <3>2, <3>3, <3>5, <4>1 DEF cost
    <3>8. purse' \in [Persons -> Nat]
      BY <3>2, <3>6
    <3> QED  BY <3>5, <3>7, <3>8
  <2>2. CASE ~ won /\ old > 0
    <3>1. bidder \in Persons /\ old > 0
      BY <1>11, <2>2
    <3>2. /\ purse' \in [Persons -> Int]
          /\ \A q \in Persons : purse'[q] = purse[q] + (IF q = bidder THEN old ELSE 0)
      <4>1. purse' = Add(purse, bidder, old)
        BY <1>12, <2>2
      <4> QED  BY <1>4, <1>16, <3>1, <4>1
    <3>3. due' = due
      BY <1>13, <2>2
    <3>4. \A q \in Persons : purse'[q] >= 0
      BY <1>3, <1>4, <3>2
    <3>5. \A q \in Persons : purse'[q] + Pledged(q)' = due'[q]
      <4> SUFFICES ASSUME NEW q \in Persons PROVE purse'[q] + Pledged(q)' = due'[q]
        OBVIOUS
      <4>1. purse[q] \in Int /\ due[q] \in Int /\ Pledged(q) \in Int
        BY <1>4, <1>9
      <4> QED  BY <1>3, <1>14, <1>15, <3>2, <3>3, <4>1
    <3>6. purse' \in [Persons -> Nat]
      BY <3>2, <3>4
    <3> QED  BY <1>4, <3>3, <3>5, <3>6
  <2>3. CASE ~ won /\ ~ (old > 0)
    <3>1. purse' = purse /\ due' = due /\ old = 0
      BY <1>3, <1>12, <1>13, <2>3
    <3> QED  BY <1>4, <1>9, <1>14, <1>15, <3>1
  <2> QED  BY <2>1, <2>2, <2>3
<1>18. BiddersWhole'
  BY <1>17 DEF BiddersWhole, Pledged
<1> QED  BY <1>1, <1>10, <1>17, <1>18 DEF SettledInv, DutchSound

(* A Dutch auction changes no pledge, and money moves as the history says.  *)
LEMMA DutchAsideMoney ==
  ASSUME AuctionInv, AuctionInv', SettledInv, NEW a \in Dutch,
         NEW x \in Persons \cup {a}, owner[LotOf(a)] \in Persons \cup {a},
         owner' = [owner EXCEPT ![LotOf(a)] = x],
         \A b \in Addresses \ {a} : sales'[b] = sales[b],
         (sales[a] # Nobody => DutchSound(sales[a]))',
         UNCHANGED <<block, fee>>,
         purse' \in [Persons -> Nat], due' \in [Persons -> Int],
         \A q \in Persons : purse'[q] - purse[q] = due'[q] - due[q]
  PROVE  SettledInv'
<1>1. a \in Addresses /\ a \notin English
  BY Addressed
<1>2. \A b \in English \ {a} :
           /\ sales'[b] = sales[b]
           /\ owner'[LotOf(b)] = b <=> owner[LotOf(b)] = b
  BY Addressed DEF AuctionInv, AuctionTyping
<1>3. \A q \in Persons : Pledged(q)' = Pledged(q) /\ Pledged(q) \in Int
  BY <1>1, <1>2, PledgeMoves
<1>4. BiddersWhole'
  <2>1. ASSUME NEW q \in Persons PROVE purse'[q] + Pledged(q)' = due'[q]
    <3>1. purse[q] + Pledged(q) = due[q]
      BY AmountsWhole DEF SettledInv
    <3>2. purse[q] \in Int /\ due[q] \in Int /\ purse'[q] \in Int /\ due'[q] \in Int
      BY DEF SettledInv
    <3> QED  BY <1>3, <3>1, <3>2
  <2> QED  BY <2>1 DEF BiddersWhole, Pledged
<1>5. \A b \in Dutch : (sales[b] # Nobody => DutchSound(sales[b]))'
  BY <1>1, Addressed DEF SettledInv, DutchSound
<1> QED  BY <1>4, <1>5 DEF SettledInv

(* From the start to the end of an auction the price goes down to the      *)
(* floor.                                                                  *)
LEMMA PriceTyped ==
  ASSUME block \in Nat, NEW s \in DutchSale, DutchSound(s)
  PROVE  CurrentPrice(s) \in Nat
<1>1. /\ s.from \in Nat /\ s.floor \in Nat /\ s.end \in Nat /\ s.begin \in Nat
      /\ s.floor <= s.from /\ s.begin <= block /\ s.begin < s.end
  BY AuctionsAssumption DEF DutchSale, DutchSound
<1>2. CASE block >= s.end
  BY <1>1, <1>2 DEF CurrentPrice
<1>3. CASE block < s.end
  <2> DEFINE fall == s.from - s.floor  past == block - s.begin  span == s.end - s.begin
             cut == (fall * past) \div span
  <2>1. fall \in Nat /\ past \in Nat /\ span \in Nat \ {0} /\ past <= span
    BY <1>1, <1>3
  <2> HIDE DEF fall, past, span
  <2>2. fall * past \in Int /\ fall * past <= span * fall
    <3>1. fall * (span - past) \in Nat /\ fall * past \in Nat
      BY <2>1
    <3> QED  BY <2>1, <3>1
  <2>3. cut < fall + 1
    <3>1. ~ (span * (fall + 1) <= fall * past)
      BY <2>1, <2>2
    <3>2. cut \in Int
      BY <2>1, <2>2, DivFloor
    <3>3. ~ (fall + 1 <= cut)
      BY <2>1, <2>2, <3>1, DivGreatest
    <3> QED  BY <2>1, <3>2, <3>3
  <2>4. cut \in Int
    BY <2>1, <2>2, DivFloor
  <2>5. CurrentPrice(s) = s.from - cut
    BY <1>1, <1>3 DEF CurrentPrice, fall, past, span
  <2> HIDE DEF cut
  <2> QED  BY <1>1, <2>1, <2>3, <2>4, <2>5 DEF fall
<1> QED  BY <1>1, <1>2, <1>3

(* Dutch auctions pay the seller what the buyer paid.                      *)
LEMMA DutchMoney ==
  ASSUME AuctionInv, AuctionInv', SettledInv, NEW a \in Dutch,
         \/ HandOver(a) \/ Reclaim(a)
         \/ \E p \in Persons : Buy(a, p)
  PROVE  SettledInv'
<1>0. /\ a \in Addresses /\ SellerOf(a) \in Persons /\ sales[a] # Nobody
      /\ sales[a] \in DutchSale /\ DutchSound(sales[a])
      /\ purse \in [Persons -> Nat] /\ due \in [Persons -> Int] /\ block \in Nat
  <2>1. sales[a] # Nobody
    BY DEF HandOver, Reclaim, Buy
  <2> QED  BY <2>1, Addressed, AuctionsAssumption DEF SettledInv, AuctionInv, AuctionTyping
<1>1. CASE HandOver(a)
  <2>1. /\ owner[LotOf(a)] \in Persons /\ owner' = [owner EXCEPT ![LotOf(a)] = a]
        /\ sales' = sales /\ purse' = purse /\ due' = due /\ UNCHANGED <<block, fee>>
    BY <1>0, <1>1 DEF HandOver
  <2>2. (sales[a] # Nobody => DutchSound(sales[a]))'
    BY <1>0, <2>1 DEF DutchSound
  <2>3. \A q \in Persons : purse'[q] - purse[q] = due'[q] - due[q]
    BY <1>0, <2>1
  <2> QED  BY <1>0, <2>1, <2>2, <2>3, DutchAsideMoney
<1> DEFINE sale == [sales[a] EXCEPT !.sold = TRUE]
<1>2. ASSUME sales' = [sales EXCEPT ![a] = sale], block' = block
      PROVE  /\ \A b \in Addresses \ {a} : sales'[b] = sales[b]
             /\ (sales[a] # Nobody => DutchSound(sales[a]))'
  <2>1. /\ sale.floor = sales[a].floor /\ sale.from = sales[a].from
        /\ sale.begin = sales[a].begin /\ sale.end = sales[a].end
    BY <1>0 DEF DutchSale
  <2> HIDE DEF sale
  <2>2. sales'[a] = sale /\ \A b \in Addresses \ {a} : sales'[b] = sales[b]
    BY <1>0, <1>2 DEF AuctionInv, AuctionTyping
  <2> QED  BY <1>0, <1>2, <2>1, <2>2 DEF DutchSound
<1>3. CASE Reclaim(a)
  <2>1. /\ owner[LotOf(a)] = a /\ owner' = [owner EXCEPT ![LotOf(a)] = SellerOf(a)]
        /\ sales' = [sales EXCEPT ![a] = sale]
        /\ purse' = purse /\ due' = due /\ UNCHANGED <<block, fee>>
    BY <1>3 DEF Reclaim
  <2>2. \A q \in Persons : purse'[q] - purse[q] = due'[q] - due[q]
    BY <1>0, <2>1
  <2> HIDE DEF sale
  <2> QED  BY <1>0, <1>2, <2>1, <2>2, DutchAsideMoney
<1>4. ASSUME NEW p \in Persons, Buy(a, p) PROVE SettledInv'
  <2> DEFINE price == CurrentPrice(sales[a])  cost == -price  seller == SellerOf(a)
  <2>1. /\ owner[LotOf(a)] = a /\ owner' = [owner EXCEPT ![LotOf(a)] = p]
        /\ sales' = [sales EXCEPT ![a] = sale] /\ UNCHANGED <<block, fee>>
        /\ purse[p] >= price
        /\ purse' = Add(Add(purse, p, cost), seller, price)
        /\ due' = Add(Add(due, p, cost), seller, price)
    BY <1>4 DEF Buy
  <2>2. price \in Nat /\ cost \in Int /\ seller \in Persons
    BY <1>0, PriceTyped
  <2> HIDE DEF sale, price, cost, seller
  <2>3. ASSUME NEW balances \in [Persons -> Int], NEW w \in Persons, NEW n \in {price, cost}
       PROVE  /\ Add(balances, w, n) \in [Persons -> Int]
              /\ \A q \in Persons :
                   Add(balances, w, n)[q] = balances[q] + (IF q = w THEN n ELSE 0)
    <3>1. n \in Int
      BY <2>2
    <3> QED  BY <3>1, Added
  <2>4. ASSUME NEW balances \in [Persons -> Int]
        PROVE  LET moved == Add(Add(balances, p, cost), seller, price)
               IN  /\ moved \in [Persons -> Int]
                   /\ \A q \in Persons :
                        moved[q] = balances[q] + (IF q = p THEN cost ELSE 0)
                                               + (IF q = seller THEN price ELSE 0)
    <3> DEFINE paid == Add(balances, p, cost)
    <3>1. /\ paid \in [Persons -> Int]
          /\ \A q \in Persons : paid[q] = balances[q] + (IF q = p THEN cost ELSE 0)
      BY <2>3
    <3> HIDE DEF paid
    <3>2. /\ Add(paid, seller, price) \in [Persons -> Int]
          /\ \A q \in Persons :
               Add(paid, seller, price)[q] = paid[q] + (IF q = seller THEN price ELSE 0)
      BY <2>2, <2>3, <3>1
    <3>3. \A q \in Persons :
               Add(paid, seller, price)[q] = balances[q] + (IF q = p THEN cost ELSE 0)
                                               + (IF q = seller THEN price ELSE 0)
      BY <3>1, <3>2
    <3> QED  BY <3>2, <3>3 DEF paid
  <2>5. purse \in [Persons -> Int]
    BY <1>0
  <2>6. /\ purse' \in [Persons -> Int] /\ due' \in [Persons -> Int]
        /\ \A q \in Persons :
             /\ purse'[q] = purse[q] + (IF q = p THEN cost ELSE 0)
                                     + (IF q = seller THEN price ELSE 0)
             /\ due'[q] = due[q] + (IF q = p THEN cost ELSE 0)
                                 + (IF q = seller THEN price ELSE 0)
    BY <1>0, <2>1, <2>4, <2>5
  <2>7. ASSUME NEW q \in Persons
        PROVE  purse'[q] >= 0 /\ purse'[q] - purse[q] = due'[q] - due[q]
    <3>1. purse[q] \in Nat /\ due[q] \in Int
      BY <1>0
    <3> QED  BY <2>1, <2>2, <2>6, <3>1 DEF cost
  <2>8. purse' \in [Persons -> Nat]
    BY <2>6, <2>7
  <2> QED  BY <1>0, <1>2, <2>1, <2>6, <2>7, <2>8, DutchAsideMoney
<1> QED  BY <1>1, <1>3, <1>4

(* No call on the auctions leaves anybody with other than their due.       *)
LEMMA SettledStep ==
  AuctionInv /\ AuctionInv' /\ SettledInv /\ [AuctionsNext]_auctionVars => SettledInv'
<1> SUFFICES ASSUME AuctionInv, AuctionInv', SettledInv, [AuctionsNext]_auctionVars
             PROVE  SettledInv'
  OBVIOUS
<1>1. ASSUME UNCHANGED <<sales, owner, purse, due>>, fee' \in Nat,
             block' \in 0..Horizon, block <= block'
      PROVE  SettledInv'
  BY <1>1 DEF SettledInv, BiddersWhole, Standing, DutchSound, AuctionInv, AuctionTyping
<1>2. CASE LedgerCloses
  BY <1>1, <1>2, AuctionsAssumption DEF LedgerCloses, SettledInv
<1>3. ASSUME NEW tokens \in Fees, ConfigureFee(tokens) PROVE SettledInv'
  BY <1>1, <1>3, AuctionsAssumption DEF ConfigureFee, SettledInv
<1>4. CASE UNCHANGED auctionVars
  BY <1>1, <1>4 DEF auctionVars, SettledInv
<1>5. \A tokens \in 1..Coins * Cardinality(Persons) : tokens \in Nat \ {0}
  BY FS_CardinalityType, AuctionsAssumption
<1>6. ASSUME NEW a \in English,
             \/ \E starting \in Starts, reserve \in Prices, duration \in Durations :
                  CreateEnglish(a, starting, reserve, duration)
             \/ \E p \in Persons, tokens \in 1..Coins * Cardinality(Persons),
                   hurried \in BOOLEAN : Bid(a, p, tokens, hurried)
             \/ EndAuction(a)
      PROVE  SettledInv'
  BY <1>5, <1>6, EnglishPaid, BidPaid, EndPaid
<1> QED
  BY <1>2, <1>3, <1>4, <1>6, DutchPaid, DutchMoney DEF AuctionsNext

(* The whole invariant of the auctions.                                    *)
AuctionsInv == AuctionInv /\ SettledInv

(* The auctions keep both invariants.                                      *)
LEMMA AuctionsInvariant ==
  /\ AuctionsInit => AuctionsInv
  /\ AuctionsInv /\ [AuctionsNext]_auctionVars => AuctionsInv'
BY AuctionStart, AuctionStep, SettledStart, SettledStep DEF AuctionsInv

(* The invariants include the types.                                       *)
LEMMA AuctionsTyped == AuctionsInv => AuctionsTypeOK
<1> SUFFICES ASSUME AuctionsInv PROVE AuctionsTypeOK
  OBVIOUS
<1>1. AuctionTyping /\ SettledInv /\ \A a \in English : SaleInv(a)
  BY DEF AuctionsInv, AuctionInv
<1>2. \A a \in Deployed : sales[a] \in IF a \in English THEN EnglishSale ELSE DutchSale
  BY <1>1, Addressed DEF Deployed, Addresses, AuctionTyping, SaleInv
<1> QED
  BY <1>1, <1>2 DEF AuctionTyping, SettledInv, AuctionsTypeOK

(* In any order of calls on any number of auctions, the money follows the   *)
(* bids and the sales: an English auction holds its highest bid while it    *)
(* holds the lot, and what everyone has, with the bids that stand, is what  *)
(* fees and sales left them (english_auction, bid and end_auction;          *)
(* dutch_auction, buy; auction_factory).                                   *)
THEOREM MoneyFollowsBids == AuctionsSpec => [](AuctionsTypeOK /\ AuctionsSettled)
<1>1. AuctionsInv => AuctionsTypeOK /\ AuctionsSettled
  BY AuctionsTyped DEF AuctionsInv, AuctionInv, SettledInv, AuctionsSettled
<1> QED
  BY <1>1, AuctionsInvariant, PTL DEF AuctionsSpec

(* Votes                                                                   *)

(* What one round makes of an estimate, given what the lower ones settle at.*)
Round(c, f, y) == IF Estimate(c, y) < y THEN f[Estimate(c, y)] ELSE y
RoundsTo(c, f, n) == f = [y \in 1..n |-> Round(c, f, y)]

(* Newton's estimate of a root is positive.                                *)
LEMMA EstimateTyped ==
  ASSUME NEW c \in Nat \ {0}, NEW y \in Nat \ {0}
  PROVE  Estimate(c, y) \in Nat \ {0}
<1> DEFINE q == c \div y
<1>1. q \in Nat /\ (y = 1 => q >= 1)
  <2>1. q \in Nat
    BY DivNatural
  <2>2. y = 1 => q >= 1
    BY DivGreatest
  <2> QED  BY <2>1, <2>2
<1>2. Estimate(c, y) = (q + y) \div 2
  BY DEF Estimate
<1> HIDE DEF q
<1> QED  BY <1>1, <1>2

(* Two recursions to the same depth agree where both are defined.          *)
LEMMA RoundsAgree ==
  ASSUME NEW c \in Nat \ {0}, NEW m \in Nat, NEW n \in Nat, m <= n,
         NEW f, RoundsTo(c, f, m), NEW g, RoundsTo(c, g, n)
  PROVE  \A y \in 1..m : f[y] = g[y]
<1> DEFINE T == {y \in 1..m : f[y] # g[y]}
<1> SUFFICES ASSUME T # {} PROVE FALSE
  OBVIOUS
<1>1. T \in SUBSET Nat
  OBVIOUS
<1>2. PICK y \in T : \A z \in T : y <= z
  <2> HIDE DEF T
  <2> QED  BY <1>1, LeastNatural
<1>3. y \in 1..m /\ y \in 1..n /\ y \in Nat \ {0} /\ f[y] # g[y]
  OBVIOUS
<1>4. f[y] = Round(c, f, y) /\ g[y] = Round(c, g, y)
  BY <1>3 DEF RoundsTo
<1> DEFINE z == Estimate(c, y)
<1>5. z \in Nat \ {0}
  BY <1>3, EstimateTyped
<1>6. z < y => f[z] = g[z]
  <2> HIDE DEF z
  <2> QED  BY <1>2, <1>3, <1>5
<1> QED  BY <1>3, <1>4, <1>6 DEF Round

(* The recursion to any depth exists.                                      *)
LEMMA RoundsExist ==
  ASSUME NEW c \in Nat \ {0}
  PROVE  \A n \in Nat : \E f : RoundsTo(c, f, n)
<1> DEFINE T == {n \in Nat : \E f : RoundsTo(c, f, n)}
<1>1. 0 \in T
  <2>1. RoundsTo(c, [y \in {} |-> y], 0)
    BY DEF RoundsTo
  <2> QED  BY <2>1
<1>2. ASSUME NEW n \in T PROVE n + 1 \in T
  <2>1. n \in Nat
    OBVIOUS
  <2>2. PICK f : RoundsTo(c, f, n)
    OBVIOUS
  <2> DEFINE last == Round(c, f, n + 1)
             g == [y \in 1..n + 1 |-> IF y = n + 1 THEN last ELSE f[y]]
  <2>3. \A y \in 1..n : g[y] = f[y]
    BY <2>1
  <2>4. ASSUME NEW y \in 1..n + 1 PROVE Round(c, g, y) = Round(c, f, y)
    <3>1. y \in Nat \ {0} /\ y <= n + 1
      BY <2>1
    <3> DEFINE z == Estimate(c, y)
    <3>2. z \in Nat \ {0}
      BY <3>1, EstimateTyped
    <3> HIDE DEF z
    <3>3. z < y => z \in 1..n
      BY <2>1, <3>1, <3>2
    <3> HIDE DEF g
    <3> QED  BY <2>3, <3>3 DEF Round, z
  <2>5. \A y \in 1..n + 1 : g[y] = Round(c, g, y)
    <3> SUFFICES ASSUME NEW y \in 1..n + 1 PROVE g[y] = Round(c, f, y)
      BY <2>4
    <3>1. CASE y = n + 1
      BY <2>1, <3>1
    <3>2. CASE y # n + 1
      <4>1. y \in 1..n
        BY <2>1, <3>2
      <4>2. f[y] = Round(c, f, y)
        BY <2>2, <4>1 DEF RoundsTo
      <4> QED  BY <2>3, <4>1, <4>2
    <3> QED  BY <3>1, <3>2
  <2>6. g = [y \in 1..n + 1 |-> g[y]]
    OBVIOUS
  <2> HIDE DEF g
  <2>7. RoundsTo(c, g, n + 1)
    BY <2>5, <2>6 DEF RoundsTo
  <2> QED  BY <2>1, <2>7
<1> QED
  <2>1. T \in SUBSET Nat
    OBVIOUS
  <2> HIDE DEF T
  <2>2. T = Nat
    BY <1>1, <1>2, <2>1, NaturalsByInduction
  <2> QED  BY <2>2 DEF T

Settles(c, f) == f = [y \in Nat \ {0} |-> Round(c, f, y)]

(* The recursive function that VotesFor is built from exists.              *)
LEMMA SettledExists ==
  ASSUME NEW c \in Nat \ {0}
  PROVE  \E f : Settles(c, f)
<1> DEFINE upTo == [n \in Nat |-> CHOOSE f : RoundsTo(c, f, n)]
           f == [y \in Nat \ {0} |-> upTo[y][y]]
<1>1. \A n \in Nat : RoundsTo(c, upTo[n], n)
  BY RoundsExist
<1> HIDE DEF upTo
<1>2. ASSUME NEW y \in Nat \ {0} PROVE f[y] = Round(c, f, y)
  <2> DEFINE z == Estimate(c, y)
  <2>1. f[y] = Round(c, upTo[y], y)
    <3>1. RoundsTo(c, upTo[y], y) /\ y \in 1..y
      BY <1>1
    <3> QED  BY <3>1 DEF RoundsTo
  <2>2. z \in Nat \ {0}
    BY EstimateTyped
  <2>3. z < y => upTo[y][z] = f[z]
    <3> HIDE DEF z
    <3>1. SUFFICES ASSUME z < y PROVE upTo[y][z] = upTo[z][z]
      BY <2>2
    <3>2. RoundsTo(c, upTo[z], z) /\ RoundsTo(c, upTo[y], y) /\ z \in 1..z /\ z <= y
          /\ z \in Nat /\ y \in Nat
      BY <1>1, <2>2, <3>1
    <3>3. \A x \in 1..z : upTo[z][x] = upTo[y][x]
      BY ONLY <3>2, RoundsAgree, c \in Nat \ {0}
    <3> QED  BY <3>2, <3>3
  <2> HIDE DEF f
  <2> QED  BY <2>1, <2>3 DEF Round
<1>3. f = [y \in Nat \ {0} |-> f[y]]
  OBVIOUS
<1> HIDE DEF f
<1> QED  BY <1>2, <1>3 DEF Settles

(* An estimate is never below the root.                                    *)
LEMMA EstimateAbove ==
  ASSUME NEW c \in Nat \ {0}, NEW y \in Nat \ {0}
  PROVE  c < (Estimate(c, y) + 1) * (Estimate(c, y) + 1)
<1> DEFINE q == c \div y  m == Estimate(c, y)
<1>1. q \in Nat /\ c < y * q + y
  BY DivNatural, DivFloor
<1>2. m \in Nat /\ 2 * m + 1 >= q + y
  <2>1. m = (q + y) \div 2
    BY DEF Estimate
  <2> HIDE DEF q
  <2> QED  BY <1>1, <2>1
<1> HIDE DEF q, m
<1> DEFINE s == q + y + 1  d == q + 1 - y  e == 2 * (m + 1)
<1>3. s \in Nat /\ d \in Int /\ e \in Nat /\ s <= e
  BY <1>1, <1>2
<1>4. d * d >= 0
  <2> HIDE DEF d
  <2> QED  BY <1>3
<1>5. s * s = 4 * (y * q + y) + d * d
  BY <1>1
<1>6. s * s <= e * e
  <2> HIDE DEF s, e
  <2>1. s * s <= e * s /\ e * s <= e * e
    BY <1>3
  <2> QED  BY <1>3, <2>1
<1>7. e * e = 4 * ((m + 1) * (m + 1))
  BY <1>2
<1>8. y * q + y \in Int /\ (m + 1) * (m + 1) \in Int
  BY <1>1, <1>2
<1>9. 4 * ((m + 1) * (m + 1)) >= 4 * (y * q + y)
  <2> DEFINE sq == s * s  eq == e * e  dq == d * d  yq == y * q + y  mq == (m + 1) * (m + 1)
  <2>1. sq \in Int /\ eq \in Int /\ dq \in Int /\ yq \in Int /\ mq \in Int
    BY <1>3, <1>8
  <2>2. dq >= 0 /\ sq = 4 * yq + dq /\ sq <= eq /\ eq = 4 * mq
    BY <1>4, <1>5, <1>6, <1>7
  <2> HIDE DEF sq, eq, dq, yq, mq
  <2> QED  BY <2>1, <2>2 DEF yq, mq
<1>10. c < (m + 1) * (m + 1)
  <2> DEFINE yq == y * q + y  mq == (m + 1) * (m + 1)
  <2>1. yq \in Int /\ mq \in Int /\ 4 * mq >= 4 * yq /\ c < yq
    BY <1>1, <1>8, <1>9
  <2> HIDE DEF yq, mq
  <2> QED  BY <2>1 DEF mq
<1> QED  BY <1>10 DEF m

(* Where the estimates stop is not above it either.                        *)
LEMMA EstimateStops ==
  ASSUME NEW c \in Nat \ {0}, NEW y \in Nat \ {0}, ~ (Estimate(c, y) < y)
  PROVE  y * y <= c
<1> DEFINE q == c \div y
<1>1. q \in Nat /\ y * q <= c
  BY DivNatural, DivFloor
<1>2. Estimate(c, y) = (q + y) \div 2
  BY DEF Estimate
<1>3. y <= q
  <2> HIDE DEF q
  <2> QED  BY <1>1, <1>2
<1> HIDE DEF q
<1>4. y * y <= y * q
  <2>1. y * (q - y) \in Nat
    BY <1>1, <1>3
  <2> QED  BY <1>1, <2>1
<1>5. y * y \in Int /\ y * q \in Int
  BY <1>1
<1> QED  BY <1>1, <1>4, <1>5

IsRoot(r, n) == r \in Nat /\ r * r <= n /\ n < (r + 1) * (r + 1)

(* Where the estimates stop falling they are at the root, rounded down.    *)
LEMMA SettlesAtRoot ==
  ASSUME NEW c \in Nat \ {0}, NEW f, Settles(c, f)
  PROVE  IsRoot(f[c], c)
<1> DEFINE T == {y \in Nat \ {0} : c < (y + 1) * (y + 1) /\ ~ IsRoot(f[y], c)}
<1>1. T = {}
  <2> SUFFICES ASSUME T # {} PROVE FALSE
    OBVIOUS
  <2>1. T \in SUBSET Nat
    OBVIOUS
  <2>2. PICK y \in T : \A z \in T : y <= z
    <3> HIDE DEF T
    <3> QED  BY <2>1, LeastNatural
  <2>3. y \in Nat \ {0} /\ c < (y + 1) * (y + 1) /\ ~ IsRoot(f[y], c)
    OBVIOUS
  <2> DEFINE z == Estimate(c, y)
  <2>4. f[y] = Round(c, f, y)
    BY <2>3 DEF Settles
  <2>5. z \in Nat \ {0} /\ c < (z + 1) * (z + 1)
    BY <2>3, EstimateTyped, EstimateAbove
  <2>6. CASE z < y
    <3>1. z \in T
      <4>1. f[y] = f[z]
        BY <2>4, <2>6 DEF Round
      <4> QED  BY <2>3, <2>5, <4>1
    <3> QED  BY <2>2, <2>3, <2>5, <2>6, <3>1
  <2>7. CASE ~ (z < y)
    <3>1. f[y] = y
      BY <2>4, <2>7 DEF Round
    <3>2. y * y <= c
      BY <2>3, <2>7, EstimateStops
    <3> QED  BY <2>3, <3>1, <3>2 DEF IsRoot
  <2> QED  BY <2>6, <2>7
<1>2. c < (c + 1) * (c + 1)
  <2>1. (c + 1) * (c + 1) = c * c + 2 * c + 1 /\ c * c \in Nat
    OBVIOUS
  <2> QED  BY <2>1
<1> QED  BY <1>1, <1>2

(* The votes for some credits are their square root (governance, sqrt).     *)
LEMMA VotesAreRoot == ASSUME NEW n \in Nat PROVE IsRoot(VotesFor(n), n)
<1>1. CASE n = 0
  BY <1>1 DEF VotesFor, IsRoot
<1>2. CASE n # 0
  <2>1. VotesFor(n) = (CHOOSE f : Settles(n, f))[n]
    BY <1>2 DEF VotesFor, Settles, Round
  <2>2. Settles(n, CHOOSE f : Settles(n, f))
    BY <1>2, SettledExists
  <2> QED  BY <1>2, <2>1, <2>2, SettlesAtRoot
<1> QED  BY <1>1, <1>2

(* The rounded root is unique.                                             *)
LEMMA RootIsOne ==
  ASSUME NEW n \in Nat, NEW r, IsRoot(r, n), NEW s, IsRoot(s, n)
  PROVE  r = s
<1>1. r \in Nat /\ s \in Nat /\ r * r <= n /\ s * s <= n
      /\ n < (r + 1) * (r + 1) /\ n < (s + 1) * (s + 1)
  BY DEF IsRoot
<1>2. ASSUME NEW a \in Nat, NEW b \in Nat, a < b PROVE (a + 1) * (a + 1) <= b * b
  <2>1. (a + 1) * (b - (a + 1)) \in Nat /\ b * (b - (a + 1)) \in Nat
    BY <1>2
  <2>2. (a + 1) * (a + 1) <= (a + 1) * b /\ (a + 1) * b <= b * b
    BY <2>1
  <2> QED  BY <2>2
<1>3. ~ (r < s)
  <2> SUFFICES ASSUME r < s PROVE FALSE
    OBVIOUS
  <2>1. (r + 1) * (r + 1) <= s * s
    BY <1>1, <1>2
  <2> QED  BY <1>1, <2>1
<1>4. ~ (s < r)
  <2> SUFFICES ASSUME s < r PROVE FALSE
    OBVIOUS
  <2>1. (s + 1) * (s + 1) <= r * r
    BY <1>1, <1>2
  <2> QED  BY <1>1, <2>1
<1> QED  BY <1>1, <1>3, <1>4

(* The square root of Governance is the root the votes are counted by.     *)
LEMMA RootIsVotes == ASSUME NEW n \in Nat PROVE SquareRoot(n) = VotesFor(n) /\ SquareRoot(n) \in Nat
<1> DEFINE r == VotesFor(n)
<1>1. IsRoot(r, n)
  BY VotesAreRoot
<1> HIDE DEF r
<1>2. r \in 0..n
  <2>1. r \in Nat /\ r * r <= n
    BY <1>1 DEF IsRoot
  <2>2. r <= r * r
    <3>1. CASE r = 0
      BY <3>1
    <3>2. CASE r # 0
      <4>1. r * (r - 1) \in Nat
        BY <2>1, <3>2
      <4> QED  BY <2>1, <4>1
    <3> QED  BY <3>1, <3>2
  <2> QED  BY <2>1, <2>2
<1>3. SquareRoot(n) \in 0..n /\ SquareRoot(n) * SquareRoot(n) <= n /\ n < (SquareRoot(n) + 1) * (SquareRoot(n) + 1)
  BY <1>1, <1>2 DEF SquareRoot, IsRoot
<1>4. IsRoot(SquareRoot(n), n)
  BY <1>3 DEF IsRoot
<1> QED  BY <1>1, <1>4, RootIsOne DEF r, IsRoot

(* The votes on a proposal.                                                *)
SideRoots(prop, side) ==
  [v \in Voters |-> IF prop.receipts[v].support = side
                    THEN SquareRoot(prop.receipts[v].spent) ELSE 0]

Fair(prop) ==
  /\ prop.for = Tally(prop, TRUE) /\ prop.against = Tally(prop, FALSE)
  /\ \A v \in Voters : prop.receipts[v].spent <= prop.snapshot[v]

VotingInv ==
  /\ VotingTypeOK
  /\ \A p \in DOMAIN proposals : Fair(proposals[p])

(* The tally sums the roots of one side's receipts.                        *)
LEMMA RootsTyped ==
  ASSUME NEW prop \in Proposal, NEW side
  PROVE  /\ Tally(prop, side) = SumFunctionOnSet(SideRoots(prop, side), Voters)
         /\ IntegersOn(SideRoots(prop, side), Voters)
         /\ Tally(prop, side) \in Nat
<1> DEFINE f == SideRoots(prop, side)
<1>1. Tally(prop, side) = SumFunctionOnSet(f, Voters)
  BY DEF Tally, SideRoots, SumFunction
<1>2. \A v \in Voters : f[v] \in Nat
  BY RootIsVotes DEF SideRoots, Proposal, Receipt
<1>3. IsFiniteSet(Voters)
  BY GovernanceAssumption
<1> HIDE DEF f
<1>4. SumFunctionOnSet(f, Voters) \in Nat
  BY <1>2, <1>3, SumNatural
<1> QED  BY <1>1, <1>2, <1>3, <1>4 DEF f, IntegersOn

(* A new receipt changes its voter's part of the tally.                    *)
LEMMA TallyMoves ==
  ASSUME NEW prop \in Proposal, NEW next \in Proposal, NEW v \in Voters,
         \A w \in Voters \ {v} : next.receipts[w] = prop.receipts[w],
         NEW side
  PROVE  Tally(next, side) = Tally(prop, side) + SideRoots(next, side)[v]
                                               - SideRoots(prop, side)[v]
<1> DEFINE f == SideRoots(prop, side)  g == SideRoots(next, side)
<1>1. \A w \in Voters \ {v} : f[w] = g[w]
  BY DEF SideRoots
<1>2. /\ Tally(prop, side) = SumFunctionOnSet(f, Voters) /\ IntegersOn(f, Voters)
      /\ Tally(next, side) = SumFunctionOnSet(g, Voters) /\ IntegersOn(g, Voters)
  BY RootsTyped
<1> HIDE DEF f, g
<1>3. g[v] \in Int
  BY <1>2 DEF IntegersOn
<1> QED  BY <1>1, <1>2, <1>3, SumUpdate DEF f, g

(* A proposal nobody voted on is fair.                                     *)
LEMMA NewIsFair ==
  ASSUME NEW prop \in Proposal, prop.for = 0, prop.against = 0,
         \A v \in Voters : prop.receipts[v].spent = 0
  PROVE  Fair(prop)
<1>1. SquareRoot(0) = 0
  BY RootIsVotes DEF VotesFor
<1>2. ASSUME NEW side PROVE Tally(prop, side) = 0
  <2> DEFINE f == SideRoots(prop, side)
  <2>1. \A v \in Voters : f[v] = 0
    BY <1>1 DEF SideRoots
  <2>2. Tally(prop, side) = SumFunctionOnSet(f, Voters)
    BY RootsTyped
  <2> HIDE DEF f
  <2> QED  BY <2>1, <2>2, GovernanceAssumption, SumZero
<1>3. \A v \in Voters : prop.snapshot[v] \in Nat
  BY DEF Proposal
<1>4. Tally(prop, TRUE) = 0 /\ Tally(prop, FALSE) = 0
  BY <1>2
<1>5. \A v \in Voters : prop.receipts[v].spent <= prop.snapshot[v]
  BY <1>3
<1> QED  BY <1>4, <1>5 DEF Fair

(* A vote: what the voter spent in all is on one side.                     *)
LEMMA VoteIsFair ==
  ASSUME NEW prop \in Proposal, Fair(prop), NEW v \in Voters, NEW support \in BOOLEAN,
         NEW credits \in Nat \ {0}, NEW next,
         prop.receipts[v].spent > 0 => prop.receipts[v].support = support,
         prop.receipts[v].spent + credits <= prop.snapshot[v],
         LET spent == prop.receipts[v].spent
             side == IF support THEN prop.for ELSE prop.against
             gain == VotesFor(spent + credits) - VotesFor(spent)
         IN  /\ gain > 0
             /\ next = [prop EXCEPT !.for = IF support THEN side + gain ELSE @,
                                    !.against = IF support THEN @ ELSE side + gain,
                                    !.receipts[v] = [support |-> support,
                                                     spent |-> spent + credits]]
  PROVE  next \in Proposal /\ Fair(next)
<1> DEFINE spent == prop.receipts[v].spent
           gain == VotesFor(spent + credits) - VotesFor(spent)
           votes == IF support THEN prop.for + gain ELSE prop.for
           noes == IF support THEN prop.against ELSE prop.against + gain
           receipt == [support |-> support, spent |-> spent + credits]
           receipts == [prop.receipts EXCEPT ![v] = receipt]
<1>0. /\ prop.for \in Nat /\ prop.against \in Nat
      /\ prop.receipts \in [Voters -> Receipt] /\ prop.snapshot \in [Voters -> Nat]
      /\ prop.endsAt \in Nat /\ prop.open \in BOOLEAN
  BY DEF Proposal
<1>1. spent \in Nat /\ spent + credits \in Nat
  BY <1>0 DEF Receipt
<1>2. /\ VotesFor(spent) \in Nat /\ VotesFor(spent + credits) \in Nat
      /\ SquareRoot(spent) = VotesFor(spent) /\ SquareRoot(spent + credits) = VotesFor(spent + credits)
  <2> HIDE DEF spent
  <2> QED  BY <1>1, RootIsVotes
<1>3. gain > 0 /\ gain \in Nat
  BY <1>2
<1>4. receipts \in [Voters -> Receipt] /\ receipts[v] = receipt
      /\ \A w \in Voters \ {v} : receipts[w] = prop.receipts[w]
  BY <1>0, <1>1 DEF Receipt
<1>5. next = [prop EXCEPT !.for = votes, !.against = noes, !.receipts = receipts]
  BY <1>0 DEF Proposal
<1>6. votes \in Nat /\ noes \in Nat
  <2> HIDE DEF gain
  <2> QED  BY <1>0, <1>3
<1> HIDE DEF votes, noes, receipts
<1>7. /\ next \in Proposal /\ next.for = votes /\ next.against = noes
      /\ next.receipts = receipts /\ next.snapshot = prop.snapshot
  BY <1>4, <1>5, <1>6 DEF Proposal
<1>8. ASSUME NEW side \in BOOLEAN
      PROVE  Tally(next, side) = Tally(prop, side) + (IF side = support THEN gain ELSE 0)
  <2>1. Tally(next, side) = Tally(prop, side) + SideRoots(next, side)[v]
                                              - SideRoots(prop, side)[v]
    <3>1. \A w \in Voters \ {v} : next.receipts[w] = prop.receipts[w]
      BY <1>4, <1>7
    <3>2. next \in Proposal
      BY <1>7
    <3> QED  BY ONLY prop \in Proposal, v \in Voters, <3>1, <3>2, TallyMoves
  <2>2. SideRoots(next, side)[v] = IF support = side THEN VotesFor(spent + credits) ELSE 0
    <3>1. next.receipts[v].support = support /\ next.receipts[v].spent = spent + credits
      BY <1>4, <1>7
    <3> QED  BY <1>2, <3>1 DEF SideRoots
  <2>3. SideRoots(prop, side)[v] = IF support = side THEN VotesFor(spent) ELSE 0
    <3>1. SideRoots(prop, side)[v] =
            IF prop.receipts[v].support = side THEN VotesFor(spent) ELSE 0
      BY <1>2 DEF SideRoots
    <3>2. CASE spent = 0
      <4>1. VotesFor(spent) = 0
        BY <3>2 DEF VotesFor
      <4> QED  BY <3>1, <4>1
    <3>3. CASE spent > 0
      BY <3>1, <3>3
    <3> QED  BY <1>1, <3>2, <3>3
  <2>4. Tally(prop, side) \in Int
    BY RootsTyped
  <2> DEFINE more == VotesFor(spent + credits)  less == VotesFor(spent)
  <2>5. more \in Nat /\ less \in Nat /\ gain = more - less
    BY <1>2
  <2>6. Tally(next, side) = Tally(prop, side) + (IF support = side THEN more ELSE 0)
                                              - (IF support = side THEN less ELSE 0)
    BY <2>1, <2>2, <2>3
  <2> HIDE DEF more, less, gain
  <2> QED  BY <2>4, <2>5, <2>6
<1>9. next.for = Tally(next, TRUE) /\ next.against = Tally(next, FALSE)
  <2>1. prop.for = Tally(prop, TRUE) /\ prop.against = Tally(prop, FALSE)
    BY DEF Fair
  <2>2. /\ Tally(next, TRUE) = prop.for + (IF support THEN gain ELSE 0)
        /\ Tally(next, FALSE) = prop.against + (IF support THEN 0 ELSE gain)
    BY <1>8, <2>1
  <2>3. votes = Tally(next, TRUE) /\ noes = Tally(next, FALSE)
    <3> HIDE DEF gain
    <3>0. prop.for \in Int /\ prop.against \in Int /\ gain \in Int
      BY <1>0, <1>3
    <3>1. CASE support
      <4>1. votes = prop.for + gain /\ noes = prop.against
        BY <3>1 DEF votes, noes
      <4>2. Tally(next, TRUE) = prop.for + gain /\ Tally(next, FALSE) = prop.against + 0
        BY <2>2, <3>1
      <4>3. prop.against + 0 = prop.against
        BY <3>0
      <4> QED  BY <4>1, <4>2, <4>3, Zenon
    <3>2. CASE ~ support
      <4>1. votes = prop.for /\ noes = prop.against + gain
        BY <3>2 DEF votes, noes
      <4>2. Tally(next, TRUE) = prop.for + 0 /\ Tally(next, FALSE) = prop.against + gain
        BY <2>2, <3>2
      <4>3. prop.for + 0 = prop.for
        BY <3>0
      <4> QED  BY <4>1, <4>2, <4>3, Zenon
    <3> QED  BY <3>1, <3>2
  <2> QED  BY <1>7, <2>3
<1>10. \A w \in Voters : next.receipts[w].spent <= next.snapshot[w]
  BY <1>4, <1>7 DEF Fair
<1> QED  BY <1>7, <1>9, <1>10 DEF Fair

(* At the start there is no proposal.                                      *)
LEMMA VotingStart == VotingInit => VotingInv
BY GovernanceAssumption DEF VotingInit, VotingInv, VotingTypeOK

(* A proposal is replaced by another one that is fair too.                 *)
LEMMA ProposalReplaced ==
  ASSUME VotingInv, NEW p \in DOMAIN proposals, NEW next \in Proposal, Fair(next),
         proposals' = [proposals EXCEPT ![p] = next],
         UNCHANGED <<sequence, voterUnits, commitment, identityOwner>>
  PROVE  VotingInv'
<1>1. proposals \in Seq(Proposal)
  BY DEF VotingInv, VotingTypeOK
<1>2. proposals' \in Seq(Proposal) /\ DOMAIN proposals' = DOMAIN proposals
  BY <1>1
<1>3. \A q \in DOMAIN proposals : proposals'[q] = IF q = p THEN next ELSE proposals[q]
  BY <1>1
<1>4. \A q \in DOMAIN proposals' : Fair(proposals'[q])
  BY <1>2, <1>3 DEF VotingInv
<1> QED  BY <1>2, <1>4 DEF VotingInv, VotingTypeOK, Fair, Tally

(* No call on the governance contract makes a tally unfair.                *)
LEMMA VotingStep == VotingInv /\ [VotingNext]_votingVars => VotingInv'
<1> SUFFICES ASSUME VotingInv, [VotingNext]_votingVars PROVE VotingInv'
  OBVIOUS
<1>0. /\ VotingTypeOK /\ proposals \in Seq(Proposal)
      /\ \A p \in DOMAIN proposals : proposals[p] \in Proposal /\ Fair(proposals[p])
  BY DEF VotingInv, VotingTypeOK
<1>1. CASE UNCHANGED votingVars
  BY <1>1 DEF votingVars, VotingInv, VotingTypeOK, Fair, Tally
<1>2. CASE LedgerPasses
  BY <1>0, <1>2, GovernanceAssumption DEF LedgerPasses, VotingInv, VotingTypeOK, Fair, Tally
<1>3. ASSUME NEW v \in Voters, NEW units \in Units, NEW id \in Identities \cup {Zero},
             RegisterVoter(v, units, id)
      PROVE  VotingInv'
  <2>1. /\ voterUnits' = [voterUnits EXCEPT ![v] = units]
        /\ commitment' = [commitment EXCEPT ![v] = id]
        /\ UNCHANGED <<sequence, proposals>>
    BY <1>3 DEF RegisterVoter
  <2>2. identityOwner' \in [Identities -> Voters \cup {Zero}]
    <3>1. identityOwner' = [i \in Identities |->
             CASE i = id -> v
               [] i # id /\ i = commitment[v] -> Zero
               [] OTHER -> identityOwner[i]]
      BY <1>3 DEF RegisterVoter
    <3> QED  BY <1>0, <3>1 DEF VotingTypeOK
  <2> QED  BY <1>0, <2>1, <2>2 DEF VotingInv, VotingTypeOK, Fair, Tally
<1>4. ASSUME NEW window \in Windows, CreateProposal(window) PROVE VotingInv'
  <2> DEFINE prop == [endsAt |-> sequence + window, snapshot |-> voterUnits, open |-> TRUE,
                      for |-> 0, against |-> 0,
                      receipts |-> [v \in Voters |-> [support |-> FALSE, spent |-> 0]]]
  <2>1. prop \in Proposal
    <3>1. sequence + window \in Nat
      BY <1>0, GovernanceAssumption DEF VotingTypeOK
    <3>2. voterUnits \in [Voters -> Nat]
      <4>1. {0} \cup Units \subseteq Nat /\ voterUnits \in [Voters -> {0} \cup Units]
        BY <1>0, GovernanceAssumption DEF VotingTypeOK
      <4> QED  BY <4>1
    <3> QED  BY <3>1, <3>2 DEF Proposal, Receipt
  <2>2. Fair(prop)
    <3>1. prop.for = 0 /\ prop.against = 0 /\ \A v \in Voters : prop.receipts[v].spent = 0
      OBVIOUS
    <3> HIDE DEF prop
    <3> QED  BY <2>1, <3>1, NewIsFair
  <2>3. /\ proposals' = Append(proposals, prop)
        /\ UNCHANGED <<sequence, voterUnits, commitment, identityOwner>>
    BY <1>4 DEF CreateProposal
  <2> HIDE DEF prop
  <2>4. proposals' \in Seq(Proposal)
    BY <1>0, <2>1, <2>3
  <2>5. \A p \in DOMAIN proposals' : Fair(proposals'[p])
    BY <1>0, <2>2, <2>3
  <2> QED  BY <1>0, <2>3, <2>4, <2>5 DEF VotingInv, VotingTypeOK, Fair, Tally
<1>5. ASSUME NEW p \in DOMAIN proposals, Close(p) PROVE VotingInv'
  <2> DEFINE next == [proposals[p] EXCEPT !.open = FALSE]
  <2>1. /\ next \in Proposal /\ next.for = proposals[p].for
        /\ next.against = proposals[p].against /\ next.receipts = proposals[p].receipts
        /\ next.snapshot = proposals[p].snapshot
    BY <1>0 DEF Proposal
  <2>2. /\ proposals' = [proposals EXCEPT ![p] = next]
        /\ UNCHANGED <<sequence, voterUnits, commitment, identityOwner>>
    BY <1>5 DEF Close
  <2> HIDE DEF next
  <2>3. Fair(next)
    BY <1>0, <2>1 DEF Fair, Tally
  <2> QED  BY <2>1, <2>2, <2>3, ProposalReplaced
<1>6. ASSUME NEW p \in DOMAIN proposals, NEW v \in Voters, NEW support \in BOOLEAN,
             NEW credits \in Nat \ {0}, CastVote(p, v, support, credits)
      PROVE  VotingInv'
  <2> DEFINE prop == proposals[p]
             spent == prop.receipts[v].spent
             side == IF support THEN prop.for ELSE prop.against
             gain == VotesFor(spent + credits) - VotesFor(spent)
             next == [prop EXCEPT !.for = IF support THEN side + gain ELSE @,
                                  !.against = IF support THEN @ ELSE side + gain,
                                  !.receipts[v] = [support |-> support,
                                                   spent |-> spent + credits]]
  <2>1. /\ spent > 0 => prop.receipts[v].support = support
        /\ spent + credits <= prop.snapshot[v]
        /\ gain > 0
        /\ proposals' = [proposals EXCEPT ![p] = next]
        /\ UNCHANGED <<sequence, voterUnits, commitment, identityOwner>>
    BY <1>6 DEF CastVote
  <2>2. prop \in Proposal /\ Fair(prop)
    BY <1>0
  <2>3. next \in Proposal /\ Fair(next)
    <3> HIDE DEF prop
    <3> QED  BY <2>1, <2>2, VoteIsFair
  <2> HIDE DEF next
  <2> QED  BY <2>1, <2>3, ProposalReplaced
<1>7. \A credits \in 1..Max(Units) : credits \in Nat \ {0}
  <2>1. Max(Units) \in Nat
    <3>1. Units \in SUBSET Int /\ Units \in SUBSET Nat /\ IsFiniteSet(Units) /\ Units # {}
      BY GovernanceAssumption
    <3> QED  BY <3>1, FiniteExtremes
  <2> QED  BY <2>1
<1> QED
  BY <1>1, <1>2, <1>3, <1>4, <1>5, <1>6, <1>7
     DEF VotingNext, CloseProposal, ExecuteProposal

(* In any order of registrations, votes and executions, the votes of each   *)
(* side are the integer square roots of what its voters spent in all: in    *)
(* many small votes nobody gets more than in one, nor spends more than was  *)
(* theirs when the proposal was made (governance, cast_vote).               *)
THEOREM VotesCountOnce == VotingSpec => [](VotingTypeOK /\ FairTally)
<1>1. VotingInv => VotingTypeOK /\ FairTally
  BY DEF VotingInv, FairTally, Fair
<1> QED
  BY <1>1, VotingStart, VotingStep, PTL DEF VotingSpec

(* The list of admins                                                      *)

KeptStep(list, gone, f, i) ==
  IF i = 0 THEN << >>
  ELSE IF list[i] \in gone THEN f[i - 1] ELSE Append(f[i - 1], list[i])
Keeps(list, gone, f, n) == f = [i \in 0..n |-> KeptStep(list, gone, f, i)]

(* The recursion that builds a list again exists for any length.           *)
LEMMA KeepsExists ==
  ASSUME NEW list, NEW gone
  PROVE  \A n \in Nat : \E f : Keeps(list, gone, f, n)
<1> DEFINE T == {n \in Nat : \E f : Keeps(list, gone, f, n)}
<1>1. 0 \in T
  <2> DEFINE f == [i \in 0..0 |-> << >>]
  <2>1. Keeps(list, gone, f, 0)
    BY DEF Keeps, KeptStep
  <2> QED  BY <2>1
<1>2. ASSUME NEW n \in T PROVE n + 1 \in T
  <2>1. n \in Nat
    OBVIOUS
  <2>2. PICK f : Keeps(list, gone, f, n)
    OBVIOUS
  <2> DEFINE last == KeptStep(list, gone, f, n + 1)
             g == [i \in 0..n + 1 |-> IF i = n + 1 THEN last ELSE f[i]]
  <2>3. \A i \in 0..n : g[i] = f[i]
    BY <2>1
  <2>4. ASSUME NEW i \in 0..n + 1 PROVE KeptStep(list, gone, g, i) = KeptStep(list, gone, f, i)
    <3>1. i # 0 => i - 1 \in 0..n
      BY <2>1
    <3> HIDE DEF g
    <3> QED  BY <2>3, <3>1 DEF KeptStep
  <2>5. ASSUME NEW i \in 0..n + 1 PROVE g[i] = KeptStep(list, gone, g, i)
    <3>1. CASE i = n + 1
      BY <2>1, <2>4, <3>1
    <3>2. CASE i # n + 1
      <4>1. i \in 0..n
        BY <2>1, <3>2
      <4>2. f[i] = KeptStep(list, gone, f, i)
        BY <2>2, <4>1 DEF Keeps
      <4> QED  BY <2>3, <2>4, <4>1, <4>2
    <3> QED  BY <3>1, <3>2
  <2>6. g = [i \in 0..n + 1 |-> g[i]]
    OBVIOUS
  <2> HIDE DEF g
  <2>7. Keeps(list, gone, g, n + 1)
    BY <2>5, <2>6 DEF Keeps
  <2> QED  BY <2>1, <2>7
<1> QED
  <2>1. T \in SUBSET Nat
    OBVIOUS
  <2> HIDE DEF T
  <2>2. T = Nat
    BY <1>1, <1>2, <2>1, NaturalsByInduction
  <2> QED  BY <2>2 DEF T

(* What is left of a list that names nobody twice: the others, once each.   *)
LEMMA WithoutLeaves ==
  ASSUME NEW S, NEW list \in Seq(S), IsInjective(list), NEW gone
  PROVE  /\ Without(list, gone) \in Seq(S)
         /\ IsInjective(Without(list, gone))
         /\ ToSet(Without(list, gone)) = ToSet(list) \ gone
<1> DEFINE f == CHOOSE f : Keeps(list, gone, f, Len(list))
           seen(n) == {list[j] : j \in 1..n}
           Good(n) == /\ f[n] \in Seq(S)
                      /\ \A i, j \in DOMAIN f[n] : f[n][i] = f[n][j] => i = j
                      /\ {f[n][i] : i \in DOMAIN f[n]} = seen(n) \ gone
           T == {n \in Nat : n <= Len(list) => Good(n)}
<1>1. Without(list, gone) = f[Len(list)]
  BY DEF Without, Keeps, KeptStep
<1>2. Keeps(list, gone, f, Len(list))
  BY KeepsExists
<1> HIDE DEF f
<1>3. \A i \in 0..Len(list) : f[i] = KeptStep(list, gone, f, i)
  BY <1>2 DEF Keeps
<1>4. 0 \in T
  <2>1. f[0] = << >>
    BY <1>3 DEF KeptStep
  <2>2. f[0] \in Seq(S) /\ DOMAIN f[0] = {} /\ seen(0) = {}
    BY <2>1
  <2>3. {f[0][i] : i \in DOMAIN f[0]} = {}
    BY <2>2
  <2> QED  BY <2>2, <2>3
<1>5. ASSUME NEW n \in T PROVE n + 1 \in T
  <2>1. n \in Nat /\ (n <= Len(list) => Good(n))
    OBVIOUS
  <2> SUFFICES ASSUME n + 1 <= Len(list) PROVE Good(n + 1)
    BY <2>1
  <2>2. n + 1 \in 1..Len(list) /\ n + 1 \in 0..Len(list) /\ n + 1 # 0 /\ (n + 1) - 1 = n
    BY <2>1
  <2> DEFINE x == list[n + 1]  old == f[n]
  <2>3. /\ old \in Seq(S)
        /\ \A i, j \in DOMAIN old : old[i] = old[j] => i = j
        /\ {old[i] : i \in DOMAIN old} = seen(n) \ gone
    <3>1. n <= Len(list)
      BY <2>1, <2>2
    <3>2. Good(n)
      BY <2>1, <3>1
    <3> QED  BY <3>2
  <2>4. f[n + 1] = IF x \in gone THEN old ELSE Append(old, x)
    BY <1>3, <2>2 DEF KeptStep
  <2>5. seen(n + 1) = seen(n) \cup {x}
    <3>1. 1..(n + 1) = 1..n \cup {n + 1}
      BY <2>1
    <3> QED  BY <3>1
  <2>6. x \in S /\ x \notin seen(n)
    <3>1. \A j \in 1..n : j \in DOMAIN list /\ j # n + 1
      BY <2>1, <2>2
    <3> QED  BY <2>2, <3>1 DEF IsInjective
  <2> HIDE DEF x, old, seen
  <2>7. CASE x \in gone
    BY <2>3, <2>4, <2>5, <2>7
  <2>8. CASE x \notin gone
    <3> DEFINE new == Append(old, x)
    <3>1. x \notin {old[i] : i \in DOMAIN old}
      BY <2>3, <2>6
    <3>2. /\ new \in Seq(S) /\ DOMAIN new = DOMAIN old \cup {Len(old) + 1}
          /\ new[Len(old) + 1] = x /\ \A i \in DOMAIN old : new[i] = old[i] /\ i # Len(old) + 1
      BY <2>3, <2>6
    <3> HIDE DEF new
    <3>3. \A i, j \in DOMAIN new : new[i] = new[j] => i = j
      BY <2>3, <3>1, <3>2
    <3>4. {new[i] : i \in DOMAIN new} = seen(n + 1) \ gone
      BY <2>3, <2>5, <2>8, <3>2
    <3> QED  BY <2>4, <2>8, <3>2, <3>3, <3>4 DEF new
  <2> QED  BY <2>7, <2>8
<1>6. T = Nat
  <2>1. T \in SUBSET Nat
    OBVIOUS
  <2> HIDE DEF T
  <2> QED  BY <1>4, <1>5, <2>1, NaturalsByInduction
<1>7. Good(Len(list)) /\ seen(Len(list)) = ToSet(list)
  <2>1. Len(list) \in Nat /\ Len(list) <= Len(list) /\ DOMAIN list = 1..Len(list)
    OBVIOUS
  <2>2. \A n \in Nat : n <= Len(list) => Good(n)
    BY <1>6
  <2>3. Good(Len(list))
    <3> HIDE DEF Good
    <3> QED  BY <2>1, <2>2
  <2>4. seen(Len(list)) = ToSet(list)
    BY <2>1 DEF ToSet
  <2> QED  BY <2>3, <2>4
<1> QED  BY <1>1, <1>7 DEF IsInjective, ToSet

(* A list that names nobody twice has as many members as places.            *)
LEMMA DistinctCount ==
  ASSUME NEW S, NEW list \in Seq(S), IsInjective(list)
  PROVE  IsFiniteSet(ToSet(list)) /\ Cardinality(ToSet(list)) = Len(list)
<1> DEFINE n == Len(list)
<1>1. /\ list \in Surjection(1..n, ToSet(list))
      /\ list \in Injection(1..n, ToSet(list))
  BY DEF Surjection, Injection, IsInjective, ToSet
<1>2. IsFiniteSet(1..n) /\ Cardinality(1..n) = n /\ n \in Nat
  <2>1. n \in Nat
    OBVIOUS
  <2> HIDE DEF n
  <2> QED  BY <2>1, FS_Interval
<1> QED  BY <1>1, <1>2, FS_Surjection

(* One more name at the end.                                               *)
LEMMA DistinctAppend ==
  ASSUME NEW S, NEW list \in Seq(S), IsInjective(list), NEW x \in S, x \notin ToSet(list)
  PROVE  /\ Append(list, x) \in Seq(S) /\ IsInjective(Append(list, x))
         /\ Len(Append(list, x)) = Len(list) + 1
<1> DEFINE new == Append(list, x)
<1>1. /\ new \in Seq(S) /\ DOMAIN new = DOMAIN list \cup {Len(list) + 1}
      /\ new[Len(list) + 1] = x /\ \A i \in DOMAIN list : new[i] = list[i]
      /\ Len(new) = Len(list) + 1
  OBVIOUS
<1> HIDE DEF new
<1>2. IsInjective(new)
  BY <1>1 DEF IsInjective, ToSet
<1> QED  BY <1>1, <1>2 DEF new

GuardInv == GuardTypeOK /\ NoTwins

(* At the start there are no admins.                                       *)
LEMMA GuardStart == GuardInit => GuardInv
BY GuardAssumption DEF GuardInit, GuardInv, GuardTypeOK, NoTwins, IsInjective

(* No call on the guard of a host contract lists an admin twice or leaves  *)
(* fewer admins than must sign.                                            *)
LEMMA GuardStep ==
  ASSUME Embedded, \A list \in Founders : IsInjective(list)
  PROVE  GuardInv /\ [GuardNext]_guardVars => GuardInv'
<1> SUFFICES ASSUME GuardInv, [GuardNext]_guardVars PROVE GuardInv'
  OBVIOUS
<1>0. /\ paused \subseteq Ops /\ admins \in Seq(People) /\ Len(admins) <= MaxAdmins
      /\ threshold \in 0..Len(admins) /\ signed \subseteq People /\ IsInjective(admins)
      /\ MaxAdmins \in Nat /\ ToSet(admins) \subseteq People
  BY GuardAssumption DEF GuardInv, GuardTypeOK, NoTwins, ToSet
<1>1. CASE UNCHANGED guardVars
  BY <1>1 DEF guardVars, GuardInv, GuardTypeOK, NoTwins
<1>2. ASSUME NEW list \in Founders, NEW t \in 0..MaxAdmins, InitializeGuard(list, t)
      PROVE  GuardInv'
  BY <1>0, <1>2, GuardAssumption DEF InitializeGuard, GuardInv, GuardTypeOK, NoTwins
<1>3. ASSUME NEW admin \in People, NEW mask \in SUBSET Ops, NEW on \in BOOLEAN,
             SetPause(admin, mask, on)
      PROVE  GuardInv'
  BY <1>0, <1>3 DEF SetPause, GuardInv, GuardTypeOK, NoTwins
<1>4. ASSUME NEW approvers, CheckMultiSig(approvers)
      PROVE  signed' \subseteq People
  BY <1>0, <1>4 DEF CheckMultiSig, Admins
<1>5. ASSUME NEW approvers, EmergencyPause(approvers) \/ Resume(approvers)
      PROVE  GuardInv'
  BY <1>0, <1>4, <1>5 DEF EmergencyPause, Resume, GuardInv, GuardTypeOK, NoTwins
<1>6. ASSUME NEW approvers, CheckMultiSig(approvers), UNCHANGED <<paused, threshold>>,
             admins' \in Seq(People), IsInjective(admins'), Len(admins') <= MaxAdmins,
             threshold <= Len(admins')
      PROVE  GuardInv'
  <2>1. threshold' \in 0..Len(admins')
    BY <1>0, <1>6
  <2> QED  BY <1>0, <1>4, <1>6, <2>1 DEF GuardInv, GuardTypeOK, NoTwins
<1>7. ASSUME NEW approvers, NEW x \in People, AddAdmin(approvers, x) PROVE GuardInv'
  <2>1. /\ CheckMultiSig(approvers) /\ UNCHANGED <<paused, threshold>>
        /\ Len(admins) < MaxAdmins
        /\ admins' = IF x \in ToSet(admins) THEN admins ELSE Append(admins, x)
    BY <1>7 DEF AddAdmin, Admins
  <2>2. CASE x \in ToSet(admins)
    BY <1>0, <1>6, <2>1, <2>2
  <2>3. CASE x \notin ToSet(admins)
    <3>1. /\ admins' \in Seq(People) /\ IsInjective(admins')
          /\ Len(admins') = Len(admins) + 1
      BY <1>0, <2>1, <2>3, DistinctAppend
    <3>2. Len(admins') <= MaxAdmins /\ threshold <= Len(admins')
      BY <1>0, <2>1, <3>1
    <3> QED  BY <1>6, <2>1, <3>1, <3>2
  <2> QED  BY <2>2, <2>3
<1>8. ASSUME NEW approvers, NEW x \in People, RemoveAdmin(approvers, x) PROVE GuardInv'
  <2>1. /\ CheckMultiSig(approvers) /\ UNCHANGED <<paused, threshold>>
        /\ Len(admins) > threshold /\ x \in ToSet(admins)
        /\ admins' = Without(admins, {x})
    BY <1>8 DEF RemoveAdmin, Admins
  <2>2. /\ admins' \in Seq(People) /\ IsInjective(admins')
        /\ ToSet(admins') = ToSet(admins) \ {x}
    BY <1>0, <2>1, WithoutLeaves
  <2>3. Len(admins') = Len(admins) - 1
    <3>1. IsFiniteSet(ToSet(admins)) /\ Cardinality(ToSet(admins)) = Len(admins)
      BY <1>0, DistinctCount
    <3>2. Cardinality(ToSet(admins')) = Len(admins')
      BY <2>2, DistinctCount
    <3>3. Cardinality(ToSet(admins) \ {x}) = Len(admins) - 1
      BY <2>1, <3>1, FS_RemoveElement
    <3> QED  BY <2>2, <3>2, <3>3
  <2>4. Len(admins') <= MaxAdmins /\ threshold <= Len(admins')
    BY <1>0, <2>1, <2>3
  <2> QED  BY <1>6, <2>1, <2>2, <2>4
<1>9. ASSUME NEW approvers, NEW x \in People, NEW y \in People, RotateAdmin(approvers, x, y)
      PROVE  GuardInv'
  <2> DEFINE rest == Without(admins, {x, y})
  <2>1. /\ CheckMultiSig(approvers) /\ UNCHANGED <<paused, threshold>>
        /\ admins' = Append(rest, y)
        /\ threshold <= Len(admins') /\ Len(admins') <= MaxAdmins
    BY <1>9 DEF RotateAdmin, Swapped
  <2>2. rest \in Seq(People) /\ IsInjective(rest) /\ y \notin ToSet(rest)
    BY <1>0, WithoutLeaves
  <2> HIDE DEF rest
  <2>3. admins' \in Seq(People) /\ IsInjective(admins')
    BY <2>1, <2>2, DistinctAppend
  <2> QED  BY <1>6, <2>1, <2>3
<1> QED
  BY <1>1, <1>2, <1>3, <1>5, <1>7, <1>8, <1>9 DEF GuardNext

(* Where the guard is part of a host contract whose deployer names nobody   *)
(* twice, no order of additions, removals and rotations lists an admin      *)
(* twice or leaves fewer admins than must sign (emergency_guard,            *)
(* DefaultEmergencyGuard; of the contract of its own the last part is       *)
(* false, as its rotation lists the new admin twice).                       *)
THEOREM QuorumStaysPossible ==
  ASSUME Embedded, \A list \in Founders : IsInjective(list)
  PROVE  GuardSpec => [](GuardTypeOK /\ NoTwins /\ QuorumPossible)
<1>1. GuardInv => GuardTypeOK /\ NoTwins /\ QuorumPossible
  <2> SUFFICES ASSUME GuardInv PROVE QuorumPossible
    BY DEF GuardInv
  <2>1. admins \in Seq(People) /\ IsInjective(admins) /\ threshold \in 0..Len(admins)
    BY DEF GuardInv, GuardTypeOK, NoTwins
  <2>2. Cardinality(ToSet(admins)) = Len(admins)
    BY <2>1, DistinctCount
  <2> QED  BY <2>1, <2>2 DEF QuorumPossible, Admins
<1>2. GuardInv /\ [GuardNext]_guardVars => GuardInv'
  BY GuardStep
<1> QED
  BY <1>1, <1>2, GuardStart, PTL DEF GuardSpec
=============================================================================
