------------------------------ MODULE WalletOps ------------------------------
(***************************************************************************)
(* The arithmetic of the virtual-coin wallet (wallet.service.ts): what one *)
(* ledger movement does to the two sub-balances of a wallet row.  Pure     *)
(* operators, shared by every specification that moves coins.              *)
(***************************************************************************)
EXTENDS Naturals, Integers

CONSTANT
    MaxCoins     \* largest value of a BIGINT coin column / safe integer

ASSUME MaxCoinsAssumption == MaxCoins \in Nat \ {0}

Coins == 0 .. MaxCoins

\* A row of "wallets": depositBalance and winningBalance, each a BIGINT with
\* a CHECK (balance >= 0).  A write outside this set makes the statement fail.
Wallet == [deposit : Coins, winning : Coins]

\* assertValidAmount: a positive safe integer.
ValidAmounts == 1 .. MaxCoins

TotalOf(w) == w.deposit + w.winning

\* calculateNextBalances, CREDIT branch: winnings go to winningBalance, every
\* other credit (bonus, adjustment, refund) to depositBalance.
CreditWinning(w, amount) == [w EXCEPT !.winning = @ + amount]
CreditDeposit(w, amount) == [w EXCEPT !.deposit = @ + amount]

\* calculateNextBalances, DEBIT branch: the deposit balance is spent first and
\* only the remainder is taken from the winnings.
DepositDebit(w, amount) == IF amount <= w.deposit THEN amount ELSE w.deposit

Debit(w, amount) ==
    [deposit |-> w.deposit - DepositDebit(w, amount),
     winning |-> w.winning - (amount - DepositDebit(w, amount))]

\* insufficientFunds is a negative next winning balance.
InsufficientFunds(w, amount) == Debit(w, amount).winning < 0
=============================================================================
