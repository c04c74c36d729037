--------------------------- MODULE FlashLoanVault ---------------------------
(***************************************************************************)
(* contracts/flash_loan_vault: a vault that lends its tokens for as long as *)
(* a callback into the borrower runs.  What the borrower calls from there,  *)
(* the vault itself included, happens between the two halves of flash_loan; *)
(* if the second half fails, all of it is undone.  One borrower, whose      *)
(* callback the admin may have signed too.  `borrow' is left out: its text  *)
(* breaks off before it returns.                                            *)
(***************************************************************************)
EXTENDS Integers

CONSTANTS
  Funds,     \* tokens the admin and the borrower each start with
  WholeRate, \* the whole of a rate: 10_000
  LoanRates, \* rates set_fee may be called with
  MaxGift    \* bound: tokens sent to the vault by nobody's call of it

ASSUME VaultAssumption ==
  /\ Funds \in Nat /\ MaxGift \in Nat
  /\ WholeRate \in Nat \ {0} /\ LoanRates \subseteq 0..WholeRate
  /\ 0 \in LoanRates

VARIABLES
  held,       \* the vault's balance at the token
  deposited,  \* TotalDeposited
  loanRate,   \* FeeBps
  stopped,    \* BorrowPaused
  locked,     \* ReentrancyLock
  savings,    \* the admin's tokens
  cash,       \* the borrower's tokens
  loan,       \* amount of the loan whose callback runs; 0 for none
  before,     \* what a failure of the loan goes back to
  gift        \* history: tokens sent to the vault with no call of it

vaultState == <<held, deposited, loanRate, stopped, locked, savings, cash, gift>>
vaultVars == <<vaultState, loan, before>>

VaultTypeOK ==
  /\ held \in Nat /\ deposited \in Nat /\ savings \in Nat /\ cash \in Nat
  /\ loanRate \in LoanRates /\ stopped \in BOOLEAN /\ locked \in BOOLEAN
  /\ loan \in Nat /\ gift \in 0..MaxGift
  /\ loan # 0 <=> before # << >>

VaultInit ==
  /\ held = 0 /\ deposited = 0 /\ loanRate = 0
  /\ stopped = FALSE /\ locked = FALSE
  /\ savings = Funds /\ cash = Funds
  /\ loan = 0 /\ before = << >> /\ gift = 0

\* Rounded up.
LoanFee(amount) == (amount * loanRate + WholeRate - 1) \div WholeRate

-----------------------------------------------------------------------------
(* Mutant: deposits are taken during a callback too.                      *)
DepositAnytime(amount) ==
  /\ amount <= savings
  /\ savings' = savings - amount /\ held' = held + amount
  /\ deposited' = deposited + amount
  /\ UNCHANGED <<loanRate, stopped, locked, cash, loan, before, gift>>

VaultDeposit(amount) ==
  /\ ~ locked
  /\ amount <= savings
  /\ savings' = savings - amount /\ held' = held + amount
  /\ deposited' = deposited + amount
  /\ UNCHANGED <<loanRate, stopped, locked, cash, loan, before, gift>>

VaultWithdraw(amount) ==
  /\ ~ locked
  /\ amount <= deposited /\ amount <= held
  /\ savings' = savings + amount /\ held' = held - amount
  /\ deposited' = deposited - amount
  /\ UNCHANGED <<loanRate, stopped, locked, cash, loan, before, gift>>

SetLoanRate(rate) ==
  /\ ~ locked
  /\ loanRate' = rate
  /\ UNCHANGED <<held, deposited, stopped, locked, savings, cash, loan, before,
                 gift>>

\* pause_borrow and resume_borrow, which do not look at the lock.  The guard is
\* never initialized, so set_paused and emergency_pause always fail.
StopBorrowing(stop) ==
  /\ stopped' = stop
  /\ UNCHANGED <<held, deposited, loanRate, locked, savings, cash, loan, before,
                 gift>>

\* The half of flash_loan up to the callback.
FlashLoan(amount) ==
  /\ ~ stopped /\ ~ locked
  /\ amount <= held
  /\ before' = vaultState
  /\ locked' = TRUE /\ loan' = amount
  /\ held' = held - amount /\ cash' = cash + amount
  /\ UNCHANGED <<deposited, loanRate, stopped, savings, gift>>

\* The half after a callback that returned: the balance is compared with what
\* it was, not with what the borrower sent.
Repaid ==
  LET pre == before[1]
  IN  /\ loan # 0
      /\ held >= pre + LoanFee(loan)
      /\ deposited' = deposited + LoanFee(loan)
      /\ locked' = FALSE /\ loan' = 0 /\ before' = << >>
      /\ UNCHANGED <<held, loanRate, stopped, savings, cash, gift>>

\* The callback failed or the balance is short.
RolledBack ==
  /\ loan # 0
  /\ held' = before[1] /\ deposited' = before[2] /\ loanRate' = before[3]
  /\ stopped' = before[4] /\ locked' = before[5]
  /\ savings' = before[6] /\ cash' = before[7] /\ gift' = before[8]
  /\ loan' = 0 /\ before' = << >>

\* A transfer at the token, in a callback or out of it.
Send(amount) ==
  /\ amount <= cash
  /\ loan # 0 \/ gift + amount <= MaxGift
  /\ cash' = cash - amount /\ held' = held + amount
  /\ gift' = IF loan # 0 THEN gift ELSE gift + amount
  /\ UNCHANGED <<deposited, loanRate, stopped, locked, savings, loan, before>>

VaultNext ==
  \/ \E amount \in 1..2 * Funds :
       \/ VaultDeposit(amount) \/ VaultWithdraw(amount)
       \/ FlashLoan(amount) \/ Send(amount)
  \/ \E rate \in LoanRates : SetLoanRate(rate)
  \/ \E stop \in BOOLEAN : StopBorrowing(stop)
  \/ Repaid \/ RolledBack

VaultSpec == VaultInit /\ [][VaultNext]_vaultVars

-----------------------------------------------------------------------------
\* Properties

\* Between calls the vault can pay out what it says was deposited, fees
\* included, whatever a borrower called back: nothing that repays a loan also
\* counts as something else.
VaultBacked == ~ locked => held >= deposited
=============================================================================
