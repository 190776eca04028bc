---------------------------- MODULE RealMoneyProofs ----------------------------
(***************************************************************************)
(* RealMoney for any users, bets, withdrawals, processes and failures: the *)
(* paise in a wallet are explained by the records, open bets stay within   *)
(* the exposure limits, a bet is decided once, and as its round's result   *)
(* says.                                                                   *)
(***************************************************************************)
EXTENDS RealMoney, SumTheorems

USE RealMoneyAssumption, NoneAssumption

-----------------------------------------------------------------------------
(* Sums of stakes and of amounts, for any tables b and w *)

Stk(b, S) == SumFunction([k \in S |-> b[k].stake])
Amt(w, S) == SumFunction([k \in S |-> w[k].amount])

LEMMA StkFold == \A b, S : Stk(b, S) = SumFunctionOnSet([k \in S |-> b[k].stake], S)
  BY DEF Stk, SumFunction
LEMMA AmtFold == \A w, S : Amt(w, S) = SumFunctionOnSet([k \in S |-> w[k].amount], S)
  BY DEF Amt, SumFunction

LEMMA StkEmpty == \A b : Stk(b, {}) = 0
  BY StkFold, SumEmpty
LEMMA AmtEmpty == \A w : Amt(w, {}) = 0
  BY AmtFold, SumEmpty

LEMMA StkSame ==
    ASSUME NEW b, NEW c, NEW S, \A k \in S : b[k].stake = c[k].stake
    PROVE  Stk(b, S) = Stk(c, S)
  BY DEF Stk
LEMMA AmtSame ==
    ASSUME NEW b, NEW c, NEW S, \A k \in S : b[k].amount = c[k].amount
    PROVE  Amt(b, S) = Amt(c, S)
  BY DEF Amt

LEMMA StkType ==
    ASSUME NEW b, NEW S, IsFiniteSet(S), \A k \in S : b[k].stake \in Nat
    PROVE  Stk(b, S) \in Nat
  BY StkFold, SumNat
LEMMA AmtType ==
    ASSUME NEW b, NEW S, IsFiniteSet(S), \A k \in S : b[k].amount \in Nat
    PROVE  Amt(b, S) \in Nat
  BY AmtFold, SumNat

LEMMA StkParts ==
    ASSUME NEW b, NEW S, IsFiniteSet(S), \A k \in S : b[k].stake \in Nat, NEW T \in SUBSET S
    PROVE  Stk(b, S) = Stk(b, T) + Stk(b, S \ T)
<1> DEFINE f == [k \in S |-> b[k].stake]
<1>1. IntOn(f, S)
  BY DEF IntOn
<1>2. SumFunctionOnSet(f, S) = SumFunctionOnSet(f, T) + SumFunctionOnSet(f, S \ T)
  BY <1>1, SumParts
<1>3. \A U \in SUBSET S : SumFunctionOnSet(f, U) = Stk(b, U)
  <2> SUFFICES ASSUME NEW U \in SUBSET S PROVE SumFunctionOnSet(f, U) = Stk(b, U)
    OBVIOUS
  <2> DEFINE g == [k \in U |-> b[k].stake]
  <2>1. IsFiniteSet(U) /\ \A x \in U : f[x] = g[x]
    BY FS_Subset
  <2>2. SumFunctionOnSet(f, U) = SumFunctionOnSet(g, U)
    BY <2>1, SumSame
  <2> QED
    BY <2>2, StkFold
<1> QED
  BY <1>2, <1>3
LEMMA AmtParts ==
    ASSUME NEW b, NEW S, IsFiniteSet(S), \A k \in S : b[k].amount \in Nat, NEW T \in SUBSET S
    PROVE  Amt(b, S) = Amt(b, T) + Amt(b, S \ T)
<1> DEFINE f == [k \in S |-> b[k].amount]
<1>1. IntOn(f, S)
  BY DEF IntOn
<1>2. SumFunctionOnSet(f, S) = SumFunctionOnSet(f, T) + SumFunctionOnSet(f, S \ T)
  BY <1>1, SumParts
<1>3. \A U \in SUBSET S : SumFunctionOnSet(f, U) = Amt(b, U)
  <2> SUFFICES ASSUME NEW U \in SUBSET S PROVE SumFunctionOnSet(f, U) = Amt(b, U)
    OBVIOUS
  <2> DEFINE g == [k \in U |-> b[k].amount]
  <2>1. IsFiniteSet(U) /\ \A x \in U : f[x] = g[x]
    BY FS_Subset
  <2>2. SumFunctionOnSet(f, U) = SumFunctionOnSet(g, U)
    BY <2>1, SumSame
  <2> QED
    BY <2>2, AmtFold
<1> QED
  BY <1>2, <1>3

LEMMA StkOne == ASSUME NEW b, NEW k, b[k].stake \in Nat PROVE Stk(b, {k}) = b[k].stake
<1> DEFINE f == [x \in {k} |-> b[x].stake]
<1>1. IntOn(f, {} \cup {k}) /\ IsFiniteSet({}) /\ {} \cup {k} = {k} /\ k \notin {}
  BY FS_EmptySet DEF IntOn
<1>2. SumFunctionOnSet(f, {} \cup {k}) = f[k] + SumFunctionOnSet(f, {})
  BY <1>1, SumAdd
<1>3. SumFunctionOnSet(f, {k}) = b[k].stake
  BY <1>1, <1>2, SumEmpty
<1> QED
  BY <1>3, StkFold
LEMMA AmtOne == ASSUME NEW b, NEW k, b[k].amount \in Nat PROVE Amt(b, {k}) = b[k].amount
<1> DEFINE f == [x \in {k} |-> b[x].amount]
<1>1. IntOn(f, {} \cup {k}) /\ IsFiniteSet({}) /\ {} \cup {k} = {k} /\ k \notin {}
  BY FS_EmptySet DEF IntOn
<1>2. SumFunctionOnSet(f, {} \cup {k}) = f[k] + SumFunctionOnSet(f, {})
  BY <1>1, SumAdd
<1>3. SumFunctionOnSet(f, {k}) = b[k].amount
  BY <1>1, <1>2, SumEmpty
<1> QED
  BY <1>3, AmtFold

LEMMA StkAtMost ==
    ASSUME NEW b, NEW S, IsFiniteSet(S), \A k \in S : b[k].stake \in Nat, NEW T \in SUBSET S
    PROVE  Stk(b, T) <= Stk(b, S)
<1>1. IsFiniteSet(T) /\ IsFiniteSet(S \ T)
  BY FS_Subset
<1>2. Stk(b, T) \in Nat /\ Stk(b, S \ T) \in Nat
  BY <1>1, StkType
<1>3. Stk(b, S) = Stk(b, T) + Stk(b, S \ T)
  BY StkParts
<1> QED
  BY <1>2, <1>3

LEMMA StkAdd ==
    ASSUME NEW b, NEW S, IsFiniteSet(S), NEW k, k \notin S,
           \A x \in S \cup {k} : b[x].stake \in Nat
    PROVE  Stk(b, S \cup {k}) = Stk(b, S) + b[k].stake
<1>1. IsFiniteSet(S \cup {k}) /\ {k} \in SUBSET (S \cup {k}) /\ (S \cup {k}) \ {k} = S
  BY FS_AddElement
<1>2. Stk(b, S \cup {k}) = Stk(b, {k}) + Stk(b, S)
  BY <1>1, StkParts
<1>3. Stk(b, {k}) = b[k].stake /\ b[k].stake \in Nat
  BY StkOne
<1>4. Stk(b, S) \in Nat
  BY StkType
<1> QED
  BY <1>2, <1>3, <1>4

-----------------------------------------------------------------------------
(* What a user's bets and withdrawals lock and cost, term by term *)

InBets(b) == {k \in BetKeys : b[k] # None}
InAsks(w) == {k \in WithdrawalKeys : w[k] # None}

BetLocked(b, u) ==
    [k \in InBets(b) |-> IF b[k].user = u /\ b[k].status = "PENDING" THEN b[k].stake ELSE 0]
BetAvailable(b, u) ==
    [k \in InBets(b) |->
       IF b[k].user # u \/ b[k].status = "REFUNDED" THEN 0
       ELSE IF b[k].status = "WON" THEN b[k].stake ELSE -b[k].stake]
AskLocked(w, u) ==
    [k \in InAsks(w) |->
       IF w[k].user = u /\ w[k].status \in {"REQUESTED", "APPROVED"} THEN w[k].amount ELSE 0]
AskAvailable(w, u) ==
    [k \in InAsks(w) |->
       IF w[k].user = u /\ w[k].status # "REJECTED" THEN -w[k].amount ELSE 0]

Tables(b, w) ==
    /\ b \in [BetKeys -> Bet \cup {None}] /\ w \in [WithdrawalKeys -> Withdrawal \cup {None}]
    /\ IsFiniteSet(InBets(b)) /\ IsFiniteSet(InAsks(w))

DepositsOf(l, u) == {e \in l : e.kind = "deposit" /\ e.user = u}

LockedBy(b, w, u) ==
    SumFunctionOnSet(BetLocked(b, u), InBets(b)) + SumFunctionOnSet(AskLocked(w, u), InAsks(w))
EarnedBy(b, w, u) ==
    SumFunctionOnSet(BetAvailable(b, u), InBets(b)) + SumFunctionOnSet(AskAvailable(w, u), InAsks(w))

\* The account of user u is in order, whose wallet row is v.
Books(v, l, b, w, u) ==
    /\ v.locked = LockedBy(b, w, u)
    /\ v.available = Cardinality(DepositsOf(l, u)) * DepositPaise + EarnedBy(b, w, u)

LEMMA BetFields ==
    ASSUME NEW b, NEW w, Tables(b, w)
    PROVE  /\ \A k \in InBets(b) : b[k] \in Bet /\ b[k].stake \in Nat /\ b[k].stake \in Int /\ -b[k].stake \in Int
           /\ \A k \in InAsks(w) : w[k] \in Withdrawal /\ w[k].amount \in Nat /\ w[k].amount \in Int /\ -w[k].amount \in Int
<1>1. \A k \in InBets(b) : b[k] \in Bet
  BY DEF Tables, InBets
<1>2. \A k \in InAsks(w) : w[k] \in Withdrawal
  BY DEF Tables, InAsks
<1>3. \A x \in Bet : x.stake \in Nat
  BY DEF Bet
<1>4. \A x \in Withdrawal : x.amount \in Nat
  BY DEF Withdrawal
<1> QED
  BY <1>1, <1>2, <1>3, <1>4

LEMMA TermsAreInts ==
    ASSUME NEW b, NEW w, Tables(b, w), NEW u
    PROVE  /\ IntOn(BetLocked(b, u), InBets(b)) /\ IntOn(BetAvailable(b, u), InBets(b))
           /\ IntOn(AskLocked(w, u), InAsks(w)) /\ IntOn(AskAvailable(w, u), InAsks(w))
  BY BetFields DEF IntOn, BetLocked, BetAvailable, AskLocked, AskAvailable

LEMMA BooksAreInts ==
    ASSUME NEW b, NEW w, Tables(b, w), NEW u
    PROVE  /\ SumFunctionOnSet(BetLocked(b, u), InBets(b)) \in Int
           /\ SumFunctionOnSet(BetAvailable(b, u), InBets(b)) \in Int
           /\ SumFunctionOnSet(AskLocked(w, u), InAsks(w)) \in Int
           /\ SumFunctionOnSet(AskAvailable(w, u), InAsks(w)) \in Int
           /\ LockedBy(b, w, u) \in Int /\ EarnedBy(b, w, u) \in Int
<1>1. IsFiniteSet(InBets(b)) /\ IsFiniteSet(InAsks(w))
  BY DEF Tables
<1>2. SumFunctionOnSet(BetLocked(b, u), InBets(b)) \in Int
  BY <1>1, TermsAreInts, SumType
<1>3. SumFunctionOnSet(BetAvailable(b, u), InBets(b)) \in Int
  BY <1>1, TermsAreInts, SumType
<1>4. SumFunctionOnSet(AskLocked(w, u), InAsks(w)) \in Int
  BY <1>1, TermsAreInts, SumType
<1>5. SumFunctionOnSet(AskAvailable(w, u), InAsks(w)) \in Int
  BY <1>1, TermsAreInts, SumType
<1> QED
  BY <1>2, <1>3, <1>4, <1>5 DEF LockedBy, EarnedBy

\* The bets and withdrawals of u in certain states, summed as the property has them.
BetsIn(b, u, st) == {k \in InBets(b) : b[k].user = u /\ b[k].status \in st}
AsksIn(w, u, st) == {k \in InAsks(w) : w[k].user = u /\ w[k].status \in st}

LEMMA TermsAreSums ==
    ASSUME NEW b, NEW w, Tables(b, w), NEW u
    PROVE  /\ SumFunctionOnSet(BetLocked(b, u), InBets(b)) = Stk(b, BetsIn(b, u, {"PENDING"}))
           /\ SumFunctionOnSet(BetAvailable(b, u), InBets(b))
                 = Multiplier * Stk(b, BetsIn(b, u, {"WON"})) - Stk(b, BetsIn(b, u, {"PENDING", "WON", "LOST"}))
           /\ SumFunctionOnSet(AskLocked(w, u), InAsks(w)) = Amt(w, AsksIn(w, u, {"REQUESTED", "APPROVED"}))
           /\ SumFunctionOnSet(AskAvailable(w, u), InAsks(w))
                 = -Amt(w, AsksIn(w, u, {"REQUESTED", "APPROVED", "PAID"}))
<1> DEFINE S == InBets(b)
           T == InAsks(w)
           P == BetsIn(b, u, {"PENDING"})
           W == BetsIn(b, u, {"WON"})
           A == BetsIn(b, u, {"PENDING", "WON", "LOST"})
           L == AsksIn(w, u, {"REQUESTED", "APPROVED"})
           D == AsksIn(w, u, {"REQUESTED", "APPROVED", "PAID"})
           On(X) == [k \in S |-> IF k \in X THEN b[k].stake ELSE 0]
           Of(X) == [k \in T |-> IF k \in X THEN w[k].amount ELSE 0]
<1>1. IsFiniteSet(S) /\ IsFiniteSet(T)
  BY DEF Tables
<1>2. /\ P \in SUBSET S /\ W \in SUBSET S /\ A \in SUBSET S /\ L \in SUBSET T /\ D \in SUBSET T
  BY DEF BetsIn, AsksIn
<1>3. \A X \in SUBSET S : SumFunctionOnSet(On(X), S) = Stk(b, X) /\ IntOn(On(X), S) /\ Stk(b, X) \in Int
  <2> SUFFICES ASSUME NEW X \in SUBSET S
               PROVE SumFunctionOnSet(On(X), S) = Stk(b, X) /\ IntOn(On(X), S) /\ Stk(b, X) \in Int
    OBVIOUS
  <2> DEFINE g == [k \in X |-> b[k].stake]
             f == On(X)
  <2>1. (\A k \in S : f[k] \in Int) /\ (\A k \in X : f[k] = g[k]) /\ (\A k \in S \ X : f[k] = 0)
    BY BetFields
  <2>2. IntOn(f, S)
    BY <2>1 DEF IntOn
  <2> HIDE DEF f, g, S
  <2>3. SumFunctionOnSet(f, S) = SumFunctionOnSet(g, X)
    BY <1>1, <2>1, SumPick
  <2>4. SumFunctionOnSet(f, S) \in Int
    BY <1>1, <2>2, SumType
  <2>5. SumFunctionOnSet(f, S) = Stk(b, X)
    BY <2>3, StkFold DEF g
  <2> QED
    BY <2>2, <2>4, <2>5 DEF f
<1>4. \A X \in SUBSET T : SumFunctionOnSet(Of(X), T) = Amt(w, X) /\ IntOn(Of(X), T) /\ Amt(w, X) \in Int
  <2> SUFFICES ASSUME NEW X \in SUBSET T
               PROVE SumFunctionOnSet(Of(X), T) = Amt(w, X) /\ IntOn(Of(X), T) /\ Amt(w, X) \in Int
    OBVIOUS
  <2> DEFINE g == [k \in X |-> w[k].amount]
             f == Of(X)
  <2>1. (\A k \in T : f[k] \in Int) /\ (\A k \in X : f[k] = g[k]) /\ (\A k \in T \ X : f[k] = 0)
    BY BetFields
  <2>2. IntOn(f, T)
    BY <2>1 DEF IntOn
  <2> HIDE DEF f, g, T
  <2>3. SumFunctionOnSet(f, T) = SumFunctionOnSet(g, X)
    BY <1>1, <2>1, SumPick
  <2>4. SumFunctionOnSet(f, T) \in Int
    BY <1>1, <2>2, SumType
  <2>5. SumFunctionOnSet(f, T) = Amt(w, X)
    BY <2>3, AmtFold DEF g
  <2> QED
    BY <2>2, <2>4, <2>5 DEF f
<1>5. SumFunctionOnSet(BetLocked(b, u), S) = Stk(b, P)
  <2>1. BetLocked(b, u) = On(P)
    BY DEF BetLocked, BetsIn
  <2> QED
    BY <2>1, <1>2, <1>3
<1>6. SumFunctionOnSet(BetAvailable(b, u), S) = 2 * Stk(b, W) - Stk(b, A)
  <2> DEFINE minus == [k \in S |-> (-1) * On(A)[k] + 0]
             zero  == [k \in S |-> 0]
  <2>1. \A k \in S : minus[k] = (-1) * On(A)[k] + zero[k]
    OBVIOUS
  <2>2. IntOn(zero, S) /\ IntOn(minus, S)
    BY BetFields DEF IntOn
  <2>3. \A k \in S : BetAvailable(b, u)[k] = 2 * On(W)[k] + minus[k]
    <3> SUFFICES ASSUME NEW k \in S PROVE BetAvailable(b, u)[k] = 2 * On(W)[k] + minus[k]
      OBVIOUS
    <3>1. b[k] \in Bet /\ b[k].stake \in Int
      BY BetFields
    <3>2. b[k].status \in {"PENDING", "WON", "LOST", "REFUNDED"}
      BY <3>1 DEF Bet
    <3> QED
      BY <3>1, <3>2 DEF BetAvailable, BetsIn
  <2>4. SumFunctionOnSet(minus, S) = (-1) * SumFunctionOnSet(On(A), S) + SumFunctionOnSet(zero, S)
    <3>1. IntOn(On(A), S) /\ -1 \in Int
      BY <1>2, <1>3
    <3> HIDE DEF minus, zero, On, S
    <3> QED
      BY <1>1, <2>1, <2>2, <3>1, SumLinear
  <2>5. SumFunctionOnSet(zero, S) = 0
    <3>1. \A k \in S : zero[k] = 0
      OBVIOUS
    <3> HIDE DEF zero, S
    <3> QED
      BY <1>1, <3>1, SumZero
  <2>6. SumFunctionOnSet(BetAvailable(b, u), S) = 2 * SumFunctionOnSet(On(W), S) + SumFunctionOnSet(minus, S)
    <3>1. IntOn(On(W), S) /\ 2 \in Int
      BY <1>2, <1>3
    <3> HIDE DEF minus, zero, On, S
    <3> QED
      BY <1>1, <2>2, <2>3, <3>1, SumLinear
  <2>7. /\ SumFunctionOnSet(On(A), S) = Stk(b, A) /\ Stk(b, A) \in Int
        /\ SumFunctionOnSet(On(W), S) = Stk(b, W) /\ Stk(b, W) \in Int
    BY <1>2, <1>3
  <2> QED
    BY ONLY <2>4, <2>5, <2>6, <2>7
<1>7. SumFunctionOnSet(AskLocked(w, u), T) = Amt(w, L)
  <2>1. AskLocked(w, u) = Of(L)
    BY DEF AskLocked, AsksIn
  <2> QED
    BY <2>1, <1>2, <1>4
<1>8. SumFunctionOnSet(AskAvailable(w, u), T) = -Amt(w, D)
  <2> DEFINE zero  == [k \in T |-> 0]
  <2>1. \A k \in T : AskAvailable(w, u)[k] = (-1) * Of(D)[k] + zero[k]
    <3> SUFFICES ASSUME NEW k \in T PROVE AskAvailable(w, u)[k] = (-1) * Of(D)[k] + zero[k]
      OBVIOUS
    <3>1. w[k] \in Withdrawal /\ w[k].amount \in Int
      BY BetFields
    <3>2. w[k].status \in {"REQUESTED", "APPROVED", "REJECTED", "PAID"}
      BY <3>1 DEF Withdrawal
    <3> QED
      BY <3>1, <3>2 DEF AskAvailable, AsksIn
  <2>2. IntOn(zero, T)
    BY DEF IntOn
  <2>3. SumFunctionOnSet(zero, T) = 0
    <3>1. \A k \in T : zero[k] = 0
      OBVIOUS
    <3> HIDE DEF zero, T
    <3> QED
      BY <1>1, <3>1, SumZero
  <2>4. SumFunctionOnSet(AskAvailable(w, u), T) = (-1) * SumFunctionOnSet(Of(D), T) + SumFunctionOnSet(zero, T)
    <3>1. IntOn(Of(D), T) /\ -1 \in Int
      BY <1>2, <1>4
    <3> HIDE DEF zero, Of, T
    <3> QED
      BY <1>1, <2>1, <2>2, <3>1, SumLinear
  <2>5. SumFunctionOnSet(Of(D), T) = Amt(w, D) /\ Amt(w, D) \in Int
    BY <1>2, <1>4
  <2> QED
    BY ONLY <2>3, <2>4, <2>5
<1> QED
  BY <1>5, <1>6, <1>7, <1>8 DEF Multiplier

\* The property says that every user's account is in order.
LEMMA RecordsAreBooks ==
    Tables(bets, withdrawals) /\ IsFiniteSet(ledger) =>
       (WalletMatchesRecords <=> \A u \in Users : Books(wallet[u], ledger, bets, withdrawals, u))
<1> SUFFICES ASSUME Tables(bets, withdrawals), IsFiniteSet(ledger)
             PROVE  WalletMatchesRecords <=> \A u \in Users : Books(wallet[u], ledger, bets, withdrawals, u)
  OBVIOUS
<1> DEFINE B(u, st) == {k \in Placed : bets[k].user = u /\ bets[k].status \in st}
           W(u, st) == {k \in Asked : withdrawals[k].user = u /\ withdrawals[k].status \in st}
           Locks(u) == StakeSum(B(u, {"PENDING"})) + AmountSum(W(u, {"REQUESTED", "APPROVED"}))
           Base(u) == Cardinality({e \in ledger : e.kind = "deposit" /\ e.user = u}) * DepositPaise
           Earns(u) == Base(u) + Multiplier * StakeSum(B(u, {"WON"}))
                 - StakeSum(B(u, {"PENDING", "WON", "LOST"}))
                 - AmountSum(W(u, {"REQUESTED", "APPROVED", "PAID"}))
<1>1. WalletMatchesRecords
         <=> \A u \in Users : wallet[u].locked = Locks(u) /\ wallet[u].available = Earns(u)
  BY DEF WalletMatchesRecords
<1>2. \A u : Locks(u) = LockedBy(bets, withdrawals, u)
             /\ Earns(u) = Cardinality(DepositsOf(ledger, u)) * DepositPaise + EarnedBy(bets, withdrawals, u)
  <2> SUFFICES ASSUME NEW u
               PROVE /\ Locks(u) = LockedBy(bets, withdrawals, u)
                     /\ Earns(u) = Cardinality(DepositsOf(ledger, u)) * DepositPaise + EarnedBy(bets, withdrawals, u)
    OBVIOUS
  <2>1. \A st : B(u, st) = BetsIn(bets, u, st) /\ W(u, st) = AsksIn(withdrawals, u, st)
    BY DEF BetsIn, AsksIn, InBets, InAsks, Placed, Asked
  <2>2. \A S : StakeSum(S) = Stk(bets, S) /\ AmountSum(S) = Amt(withdrawals, S)
    BY DEF StakeSum, AmountSum, Stk, Amt
  <2>3. Base(u) = Cardinality(DepositsOf(ledger, u)) * DepositPaise
    BY DEF DepositsOf
  <2> DEFINE p == Stk(bets, BetsIn(bets, u, {"PENDING"}))
             x == Stk(bets, BetsIn(bets, u, {"WON"}))
             a == Stk(bets, BetsIn(bets, u, {"PENDING", "WON", "LOST"}))
             l == Amt(withdrawals, AsksIn(withdrawals, u, {"REQUESTED", "APPROVED"}))
             d == Amt(withdrawals, AsksIn(withdrawals, u, {"REQUESTED", "APPROVED", "PAID"}))
  <2>4. p \in Int /\ x \in Int /\ a \in Int /\ l \in Int /\ d \in Int
    <3>1. \A st : IsFiniteSet(BetsIn(bets, u, st)) /\ \A k \in BetsIn(bets, u, st) : bets[k].stake \in Nat
      <4>1. \A st : BetsIn(bets, u, st) \subseteq InBets(bets)
        BY DEF BetsIn
      <4> QED
        BY <4>1, BetFields, FS_Subset DEF Tables
    <3>2. \A st : IsFiniteSet(AsksIn(withdrawals, u, st)) /\ \A k \in AsksIn(withdrawals, u, st) : withdrawals[k].amount \in Nat
      <4>1. \A st : AsksIn(withdrawals, u, st) \subseteq InAsks(withdrawals)
        BY DEF AsksIn
      <4> QED
        BY <4>1, BetFields, FS_Subset DEF Tables
    <3>3. \A st : Stk(bets, BetsIn(bets, u, st)) \in Nat
      BY <3>1, StkType
    <3>4. \A st : Amt(withdrawals, AsksIn(withdrawals, u, st)) \in Nat
      BY <3>2, AmtType
    <3> QED
      BY <3>3, <3>4
  <2>5. Locks(u) = p + l
    BY <2>1, <2>2
  <2>6. Earns(u) = Base(u) + Multiplier * x - a - d
    BY <2>1, <2>2
  <2>7. LockedBy(bets, withdrawals, u) = p + l /\ EarnedBy(bets, withdrawals, u) = (Multiplier * x - a) + (-d)
    BY TermsAreSums DEF LockedBy, EarnedBy
  <2>8. Base(u) \in Int
    <3>1. Cardinality(DepositsOf(ledger, u)) \in Nat
      BY FS_Subset, FS_CardinalityType DEF DepositsOf
    <3> QED
      BY <2>3, <3>1
  <2> QED
    BY <2>3, <2>4, <2>5, <2>6, <2>7, <2>8 DEF Multiplier
<1>3. \A u \in Users : Books(wallet[u], ledger, bets, withdrawals, u)
           <=> (wallet[u].locked = Locks(u) /\ wallet[u].available = Earns(u))
  BY <1>2 DEF Books
<1> HIDE DEF Locks, Earns
<1> QED
  BY <1>1, <1>3

-----------------------------------------------------------------------------
(* How the terms change *)

LEMMA BetAdded ==
    ASSUME NEW b, NEW w, Tables(b, w), NEW k \in BetKeys, b[k] = None,
           NEW x \in Bet, x.status = "PENDING",
           NEW c, c \in [BetKeys -> Bet \cup {None}], c[k] = x, \A y \in BetKeys \ {k} : c[y] = b[y], NEW u
    PROVE  /\ Tables(c, w) /\ InBets(c) = InBets(b) \cup {k} /\ k \notin InBets(b)
           /\ LockedBy(c, w, u) = LockedBy(b, w, u) + (IF x.user = u THEN x.stake ELSE 0)
           /\ EarnedBy(c, w, u) = EarnedBy(b, w, u) - (IF x.user = u THEN x.stake ELSE 0)
<1> DEFINE S == InBets(b)
<1>1. x # None /\ c \in [BetKeys -> Bet \cup {None}] /\ c[k] = x /\ \A y \in BetKeys \ {k} : c[y] = b[y]
  BY DEF Tables
<1>2. InBets(c) = S \cup {k} /\ k \notin S
  BY <1>1 DEF InBets
<1>3. Tables(c, w)
  <2>1. IsFiniteSet(S)
    BY DEF Tables
  <2>2. IsFiniteSet(S \cup {k})
    BY <2>1, FS_AddElement
  <2>3. IsFiniteSet(InBets(c))
    BY <1>2, <2>2
  <2> QED
    BY <1>1, <2>3 DEF Tables
<1> DEFINE f == BetLocked(b, u)
           g == BetLocked(c, u)
           e == BetAvailable(b, u)
           h == BetAvailable(c, u)
           v == IF x.user = u THEN x.stake ELSE 0
<1>4. (\A y \in S : g[y] = f[y] /\ h[y] = e[y]) /\ g[k] = v /\ h[k] = -v
  BY <1>1, <1>2 DEF BetLocked, BetAvailable, InBets
<1>5. IntOn(g, S \cup {k}) /\ IntOn(h, S \cup {k})
  BY <1>2, <1>3, TermsAreInts
<1>6. IsFiniteSet(S)
  BY DEF Tables
<1>7. SumFunctionOnSet(g, InBets(c)) = v + SumFunctionOnSet(f, S)
  <2> HIDE DEF f, g, S, v
  <2>1. SumFunctionOnSet(g, S \cup {k}) = g[k] + SumFunctionOnSet(g, S)
    BY <1>2, <1>5, <1>6, SumAdd
  <2>2. SumFunctionOnSet(g, S) = SumFunctionOnSet(f, S)
    BY <1>4, <1>6, SumSame
  <2> QED
    BY <2>1, <2>2, <1>2, <1>4
<1>8. SumFunctionOnSet(h, InBets(c)) = -v + SumFunctionOnSet(e, S)
  <2> HIDE DEF e, h, S, v
  <2>1. SumFunctionOnSet(h, S \cup {k}) = h[k] + SumFunctionOnSet(h, S)
    BY <1>2, <1>5, <1>6, SumAdd
  <2>2. SumFunctionOnSet(h, S) = SumFunctionOnSet(e, S)
    BY <1>4, <1>6, SumSame
  <2> QED
    BY <2>1, <2>2, <1>2, <1>4
<1>9. v \in Int
  BY DEF Bet
<1> HIDE DEF v
<1>10. LockedBy(c, w, u) = LockedBy(b, w, u) + v /\ EarnedBy(c, w, u) = EarnedBy(b, w, u) - v
  BY <1>7, <1>8, <1>9, BooksAreInts DEF LockedBy, EarnedBy
<1> QED
  BY <1>2, <1>3, <1>10 DEF v

LEMMA AmountIsInt == \A a \in Amounts : a \in Int /\ -a \in Int
<1>1. \A a \in Amounts : a \in Nat
  OBVIOUS
<1> QED
  BY <1>1

LEMMA AskAdded ==
    ASSUME NEW b, NEW w, Tables(b, w), NEW k \in WithdrawalKeys, w[k] = None,
           NEW x \in Withdrawal, x.status = "REQUESTED",
           NEW c, c \in [WithdrawalKeys -> Withdrawal \cup {None}], c[k] = x,
           \A y \in WithdrawalKeys \ {k} : c[y] = w[y], NEW u
    PROVE  /\ Tables(b, c)
           /\ LockedBy(b, c, u) = LockedBy(b, w, u) + (IF x.user = u THEN x.amount ELSE 0)
           /\ EarnedBy(b, c, u) = EarnedBy(b, w, u) - (IF x.user = u THEN x.amount ELSE 0)
<1> DEFINE S == InAsks(w)
<1>1. x # None /\ c \in [WithdrawalKeys -> Withdrawal \cup {None}] /\ c[k] = x /\ \A y \in WithdrawalKeys \ {k} : c[y] = w[y]
  BY DEF Tables
<1>2. InAsks(c) = S \cup {k} /\ k \notin S
  BY <1>1 DEF InAsks
<1>3. Tables(b, c)
  <2>1. IsFiniteSet(S)
    BY DEF Tables
  <2>2. IsFiniteSet(S \cup {k})
    BY <2>1, FS_AddElement
  <2>3. IsFiniteSet(InAsks(c))
    BY <1>2, <2>2
  <2> QED
    BY <1>1, <2>3 DEF Tables
<1> DEFINE f == AskLocked(w, u)
           g == AskLocked(c, u)
           e == AskAvailable(w, u)
           h == AskAvailable(c, u)
           v == IF x.user = u THEN x.amount ELSE 0
<1>4. (\A y \in S : g[y] = f[y] /\ h[y] = e[y]) /\ g[k] = v /\ h[k] = -v
  BY <1>1, <1>2 DEF AskLocked, AskAvailable, InAsks
<1>5. IntOn(g, S \cup {k}) /\ IntOn(h, S \cup {k})
  BY <1>2, <1>3, TermsAreInts
<1>6. IsFiniteSet(S)
  BY DEF Tables
<1>7. SumFunctionOnSet(g, InAsks(c)) = v + SumFunctionOnSet(f, S)
  <2> HIDE DEF f, g, S, v
  <2>1. SumFunctionOnSet(g, S \cup {k}) = g[k] + SumFunctionOnSet(g, S)
    BY <1>2, <1>5, <1>6, SumAdd
  <2>2. SumFunctionOnSet(g, S) = SumFunctionOnSet(f, S)
    BY <1>4, <1>6, SumSame
  <2> QED
    BY <2>1, <2>2, <1>2, <1>4
<1>8. SumFunctionOnSet(h, InAsks(c)) = -v + SumFunctionOnSet(e, S)
  <2> HIDE DEF e, h, S, v
  <2>1. SumFunctionOnSet(h, S \cup {k}) = h[k] + SumFunctionOnSet(h, S)
    BY <1>2, <1>5, <1>6, SumAdd
  <2>2. SumFunctionOnSet(h, S) = SumFunctionOnSet(e, S)
    BY <1>4, <1>6, SumSame
  <2> QED
    BY <2>1, <2>2, <1>2, <1>4
<1>9. v \in Int
  <2>1. x.amount \in Amounts
    BY DEF Withdrawal
  <2>2. x.amount \in Int /\ 0 \in Int
    BY ONLY <2>1, AmountIsInt
  <2> QED
    BY ONLY <2>2
<1> HIDE DEF v
<1>10. LockedBy(b, c, u) = LockedBy(b, w, u) + v /\ EarnedBy(b, c, u) = EarnedBy(b, w, u) - v
  BY <1>7, <1>8, <1>9, BooksAreInts DEF LockedBy, EarnedBy
<1> QED
  BY <1>3, <1>10 DEF v

\* An open withdrawal is approved, rejected or paid.
LEMMA AskDecided ==
    ASSUME NEW b, NEW w, Tables(b, w), NEW k \in InAsks(w), w[k].status \in {"REQUESTED", "APPROVED"},
           NEW c, c \in [WithdrawalKeys -> Withdrawal \cup {None}], c[k] \in Withdrawal,
           c[k].user = w[k].user, c[k].amount = w[k].amount,
           c[k].status \in {"APPROVED", "REJECTED", "PAID"},
           \A y \in WithdrawalKeys \ {k} : c[y] = w[y], NEW u
    PROVE  /\ Tables(b, c)
           /\ LockedBy(b, c, u) = LockedBy(b, w, u)
                 + (IF w[k].user = u /\ c[k].status # "APPROVED" THEN -w[k].amount ELSE 0)
           /\ EarnedBy(b, c, u) = EarnedBy(b, w, u)
                 + (IF w[k].user = u /\ c[k].status = "REJECTED" THEN w[k].amount ELSE 0)
<1> DEFINE S == InAsks(w)
           s == c[k].status
<1>1. w[k] \in Withdrawal /\ w[k].amount \in Int /\ k \in WithdrawalKeys
  BY BetFields DEF InAsks
<1>2. s \in {"APPROVED", "REJECTED", "PAID"}
  OBVIOUS
<1>3. InAsks(c) = S
  BY <1>1 DEF InAsks
<1>4. Tables(b, c)
  BY <1>3 DEF Tables
<1> DEFINE f == AskLocked(w, u)
           g == AskLocked(c, u)
           e == AskAvailable(w, u)
           h == AskAvailable(c, u)
           dl == [y \in {k} |-> IF w[k].user = u /\ s # "APPROVED" THEN -w[k].amount ELSE 0]
           da == [y \in {k} |-> IF w[k].user = u /\ s = "REJECTED" THEN w[k].amount ELSE 0]
<1>5. \A y \in S \ {k} : g[y] = f[y] /\ h[y] = e[y]
  BY <1>3 DEF AskLocked, AskAvailable, InAsks
<1>6. \A y \in {k} : g[y] = f[y] + dl[y] /\ h[y] = e[y] + da[y]
  <2> DEFINE a == w[k].amount
  <2>1. /\ f[k] = IF w[k].user = u THEN a ELSE 0
        /\ e[k] = IF w[k].user = u THEN -a ELSE 0
    BY <1>1 DEF AskLocked, AskAvailable
  <2>2. k \in InAsks(c)
    BY <1>3
  <2>3. /\ g[k] = IF w[k].user = u /\ s = "APPROVED" THEN a ELSE 0
        /\ h[k] = IF w[k].user = u /\ s # "REJECTED" THEN -a ELSE 0
    BY <1>1, <1>2, <2>2 DEF AskLocked, AskAvailable
  <2>4. /\ dl[k] = IF w[k].user = u /\ s # "APPROVED" THEN -a ELSE 0
        /\ da[k] = IF w[k].user = u /\ s = "REJECTED" THEN a ELSE 0
    OBVIOUS
  <2>5. a \in Int
    BY <1>1
  <2> HIDE DEF a, f, g, e, h, dl, da
  <2> QED
    BY ONLY <1>2, <2>1, <2>3, <2>4, <2>5
<1>7. /\ IntOn(f, S) /\ IntOn(e, S) /\ IsFiniteSet(S) /\ {k} \in SUBSET S
      /\ IntOn(dl, {k}) /\ IntOn(da, {k}) /\ dl[k] \in Int /\ da[k] \in Int
  BY <1>1, TermsAreInts DEF IntOn, Tables
<1>8. SumFunctionOnSet(g, S) = SumFunctionOnSet(f, S) + dl[k]
  <2> HIDE DEF f, g, S, dl
  <2>1. \A y \in {k} : g[y] = f[y] + dl[y]
    BY <1>6
  <2>2. \A y \in S \ {k} : g[y] = f[y]
    BY <1>5
  <2>3. SumFunctionOnSet(g, S) = SumFunctionOnSet(f, S) + SumFunctionOnSet(dl, {k})
    BY ONLY <2>1, <2>2, <1>7, SumShift
  <2>4. SumFunctionOnSet(dl, {k}) = dl[k]
    BY <1>7, SumOne
  <2> QED
    BY ONLY <2>3, <2>4
<1>9. SumFunctionOnSet(h, S) = SumFunctionOnSet(e, S) + da[k]
  <2> HIDE DEF e, h, S, da
  <2>1. \A y \in {k} : h[y] = e[y] + da[y]
    BY <1>6
  <2>2. \A y \in S \ {k} : h[y] = e[y]
    BY <1>5
  <2>3. SumFunctionOnSet(h, S) = SumFunctionOnSet(e, S) + SumFunctionOnSet(da, {k})
    BY ONLY <2>1, <2>2, <1>7, SumShift
  <2>4. SumFunctionOnSet(da, {k}) = da[k]
    BY <1>7, SumOne
  <2> QED
    BY ONLY <2>3, <2>4
<1>10. LockedBy(b, c, u) = LockedBy(b, w, u) + dl[k] /\ EarnedBy(b, c, u) = EarnedBy(b, w, u) + da[k]
  <2> HIDE DEF dl, da
  <2> QED
    BY <1>3, <1>7, <1>8, <1>9, BooksAreInts DEF LockedBy, EarnedBy
<1> QED
  BY <1>4, <1>10

\* What a decided bet pays back.
PaidBack(b, status) == IF status = "WON" THEN 2 * b.stake ELSE IF status = "REFUNDED" THEN b.stake ELSE 0

\* The bets of P that are u's, and what deciding the bets of P unlocks.
MineOf(b, P, u) == {k \in P : b[k].user = u}
Unlocks(b, P) == [k \in P |-> -b[k].stake]

\* The pending bets of P in table b are decided, which pays them back and yields table c.
Deciding(b, w, P, c, paid) ==
    /\ Tables(b, w) /\ P \subseteq InBets(b)
    /\ c \in [BetKeys -> Bet \cup {None}] /\ \A k \in BetKeys \ P : c[k] = b[k]
    /\ \A k \in P : /\ b[k].status = "PENDING"
                    /\ c[k] \in Bet /\ c[k].user = b[k].user /\ c[k].stake = b[k].stake
                    /\ c[k].status \in {"WON", "LOST", "REFUNDED"}
                    /\ paid[k] = PaidBack(b[k], c[k].status)

LEMMA BetsDecided ==
    ASSUME NEW b, NEW w, NEW P, NEW c, NEW paid, Deciding(b, w, P, c, paid)
    PROVE  /\ Tables(c, w) /\ InBets(c) = InBets(b)
           /\ \A k \in P : paid[k] \in Nat
           /\ \A u : /\ LockedBy(c, w, u) = LockedBy(b, w, u) + SumFunctionOnSet(Unlocks(b, P), MineOf(b, P, u))
                    /\ EarnedBy(c, w, u) = EarnedBy(b, w, u) + SumFunctionOnSet(paid, MineOf(b, P, u))
<1> USE DEF Deciding
<1> SUFFICES ASSUME NEW u
             PROVE  /\ Tables(c, w) /\ InBets(c) = InBets(b)
                    /\ \A k \in P : paid[k] \in Nat
                    /\ LockedBy(c, w, u) = LockedBy(b, w, u) + SumFunctionOnSet(Unlocks(b, P), MineOf(b, P, u))
                    /\ EarnedBy(c, w, u) = EarnedBy(b, w, u) + SumFunctionOnSet(paid, MineOf(b, P, u))
  OBVIOUS
<1> DEFINE S == InBets(b)
           f == BetLocked(b, u)
           g == BetLocked(c, u)
           e == BetAvailable(b, u)
           h == BetAvailable(c, u)
           dl == Unlocks(b, P)
           U == MineOf(b, P, u)
<1> USE DEF MineOf, Unlocks, PaidBack
<1>1. InBets(c) = S
  <2>1. \A k \in P : c[k] # None /\ b[k] # None /\ k \in BetKeys
    BY DEF InBets
  <2> QED
    BY <2>1 DEF InBets
<1>2. Tables(c, w)
  BY <1>1 DEF Tables
<1>3. \A k \in P : b[k].stake \in Nat /\ paid[k] \in Nat
  <2> SUFFICES ASSUME NEW k \in P PROVE b[k].stake \in Nat /\ paid[k] \in Nat
    OBVIOUS
  <2>1. b[k].stake \in Nat
    BY BetFields
  <2>2. c[k].status \in {"WON", "LOST", "REFUNDED"}
    OBVIOUS
  <2> QED
    BY <2>1, <2>2
<1>4. \A k \in U : g[k] = f[k] + dl[k] /\ h[k] = e[k] + paid[k]
  <2> SUFFICES ASSUME NEW k \in U PROVE g[k] = f[k] + dl[k] /\ h[k] = e[k] + paid[k]
    OBVIOUS
  <2>1. k \in P /\ k \in S /\ k \in InBets(c) /\ b[k].user = u /\ c[k].user = u /\ c[k].stake = b[k].stake
    BY <1>1
  <2>2. b[k].stake \in Nat /\ c[k].status \in {"WON", "LOST", "REFUNDED"} /\ b[k].status = "PENDING"
    BY <1>3, <2>1
  <2>3. f[k] = b[k].stake /\ g[k] = 0 /\ dl[k] = -b[k].stake /\ e[k] = -b[k].stake
    BY <2>1, <2>2 DEF BetLocked, BetAvailable
  <2>4. h[k] = IF c[k].status = "REFUNDED" THEN 0 ELSE IF c[k].status = "WON" THEN b[k].stake ELSE -b[k].stake
    BY <2>1, <2>2 DEF BetAvailable
  <2>5. paid[k] = PaidBack(b[k], c[k].status)
    BY <2>1
  <2> HIDE DEF f, g, e, h, dl
  <2>6. h[k] = e[k] + paid[k]
    BY ONLY <2>2, <2>3, <2>4, <2>5
  <2> QED
    BY ONLY <2>2, <2>3, <2>6
<1>5. \A k \in S \ U : g[k] = f[k] /\ h[k] = e[k]
  <2> SUFFICES ASSUME NEW k \in S \ U PROVE g[k] = f[k] /\ h[k] = e[k]
    OBVIOUS
  <2>1. k \in BetKeys
    BY DEF InBets
  <2>2. CASE k \in P
    <3>1. b[k].user # u /\ c[k].user # u
      BY <2>2
    <3> QED
      BY <3>1, <1>1 DEF BetLocked, BetAvailable
  <2>3. CASE k \notin P
    BY <2>1, <2>3, <1>1 DEF BetLocked, BetAvailable
  <2> QED
    BY <2>2, <2>3
<1>6. /\ IntOn(f, S) /\ IntOn(e, S) /\ IsFiniteSet(S) /\ U \in SUBSET S
      /\ IntOn(dl, U) /\ IntOn(paid, U) /\ IsFiniteSet(U)
  BY <1>3, TermsAreInts, FS_Subset DEF IntOn, Tables
<1>7. SumFunctionOnSet(g, S) = SumFunctionOnSet(f, S) + SumFunctionOnSet(dl, U)
  <2> HIDE DEF f, g, S, dl, U
  <2> QED
    BY <1>4, <1>5, <1>6, SumShift
<1>8. SumFunctionOnSet(h, S) = SumFunctionOnSet(e, S) + SumFunctionOnSet(paid, U)
  <2>1. \A k \in U : h[k] = e[k] + paid[k]
    BY <1>4
  <2>2. \A k \in S \ U : h[k] = e[k]
    BY <1>5
  <2> HIDE DEF e, h, S, U
  <2> QED
    BY ONLY <2>1, <2>2, <1>6, SumShift
<1>9. SumFunctionOnSet(dl, U) \in Int /\ SumFunctionOnSet(paid, U) \in Int
  <2> HIDE DEF dl, U
  <2> QED
    BY <1>6, SumType
<1>10. /\ LockedBy(c, w, u) = LockedBy(b, w, u) + SumFunctionOnSet(dl, U)
       /\ EarnedBy(c, w, u) = EarnedBy(b, w, u) + SumFunctionOnSet(paid, U)
  <2> HIDE DEF dl, U
  <2> QED
    BY <1>1, <1>7, <1>8, <1>9, BooksAreInts DEF LockedBy, EarnedBy
<1> QED
  BY <1>1, <1>2, <1>3, <1>10

-----------------------------------------------------------------------------
(* The invariant in four parts *)

RestOK ==
    /\ round \in [Rounds -> [status : {"ABSENT"} \cup Live \cup Ended, result : Colors \cup {None}]]
    /\ settlement \in [Rounds -> [status : {"NONE", "SUCCESS", "FAILED"}, result : Colors \cup {None}]]
    /\ standing \in [Users -> [verified : BOOLEAN, blocked : SUBSET Operation, excluded : BOOLEAN]]
    /\ decided \subseteq DecisionKeys
    /\ request \in [Requests -> BetRequest \cup WithdrawalRequest \cup {None}]
    /\ pc \in [Procs -> {"idle", "settle", "failed", "complete", "refund"}]
    /\ job \in [Procs -> [round : 0 .. MaxRound, result : Colors \cup {None}]]
    /\ day \in 0 .. MaxDay /\ faults \in 0 .. MaxFaults /\ scenario \in Scenarios

MoneyOK ==
    /\ wallet \in [Users -> [available : Nat, locked : Nat, active : BOOLEAN]]
    /\ \A e \in ledger : e \in Entry
    /\ Tables(bets, withdrawals) /\ IsFiniteSet(ledger)
    /\ \A k \in InBets(bets) : \E e \in ledger : e.kind = "bet-lock" /\ e.ref = k
    /\ \A u \in Users : Books(wallet[u], ledger, bets, withdrawals, u)

ExposureOK == OpenBetsFit /\ ExposureWithinLimits
GameOK == SettlersKnowResult /\ BetFollowsResult

LEMMA Parts == IInv <=> RestOK /\ MoneyOK /\ ExposureOK /\ GameOK
<1>1. Placed = InBets(bets) /\ Asked = InAsks(withdrawals)
  BY DEF Placed, Asked, InBets, InAsks
<1>2. TypeOK /\ RowsAreLogged => Tables(bets, withdrawals) /\ IsFiniteSet(ledger)
  BY <1>1 DEF TypeOK, RowsAreLogged, Tables
<1>3. MoneyOK => Tables(bets, withdrawals) /\ IsFiniteSet(ledger)
  BY DEF MoneyOK
<1>4. TypeOK /\ RowsAreLogged /\ WalletMatchesRecords <=> RestOK /\ MoneyOK
  BY <1>1, <1>2, <1>3, RecordsAreBooks DEF TypeOK, RowsAreLogged, Tables, RestOK, MoneyOK
<1> QED
  BY <1>4 DEF IInv, ExposureOK, GameOK

-----------------------------------------------------------------------------
(* Movements *)

OfUser(E, u) == {e \in E : e.user = u}

LEMMA MoveRows ==
    ASSUME NEW E, Move(E), wallet \in [Users -> [available : Nat, locked : Nat, active : BOOLEAN]],
           \A u \in Users : Available(OfUser(E, u)) \in Int /\ Locked(OfUser(E, u)) \in Int
    PROVE  /\ wallet' \in [Users -> [available : Nat, locked : Nat, active : BOOLEAN]]
           /\ \A u \in Users : /\ wallet'[u].available = wallet[u].available + Available(OfUser(E, u))
                               /\ wallet'[u].locked = wallet[u].locked + Locked(OfUser(E, u))
           /\ ledger' = ledger \cup E
           /\ \A e \in E : ~\E f \in ledger : f.kind = e.kind /\ f.ref = e.ref
<1>1. wallet' = [u \in Users |->
              [wallet[u] EXCEPT !.available = @ + Available(OfUser(E, u)), !.locked = @ + Locked(OfUser(E, u))]]
  BY DEF Move, OfUser
<1>2. \A u \in Users : wallet'[u].available >= 0 /\ wallet'[u].locked >= 0
  BY DEF Move
<1>3. ASSUME NEW u \in Users
      PROVE  /\ wallet'[u] \in [available : Nat, locked : Nat, active : BOOLEAN]
             /\ wallet'[u].available = wallet[u].available + Available(OfUser(E, u))
             /\ wallet'[u].locked = wallet[u].locked + Locked(OfUser(E, u))
  <2>1. wallet'[u] = [wallet[u] EXCEPT !.available = wallet[u].available + Available(OfUser(E, u)),
                                       !.locked = wallet[u].locked + Locked(OfUser(E, u))]
    BY <1>1
  <2>2. wallet[u] \in [available : Nat, locked : Nat, active : BOOLEAN]
    OBVIOUS
  <2>3. /\ wallet'[u].available = wallet[u].available + Available(OfUser(E, u))
        /\ wallet'[u].locked = wallet[u].locked + Locked(OfUser(E, u))
    BY <2>1, <2>2
  <2>4. wallet'[u].available \in Nat /\ wallet'[u].locked \in Nat
    BY <2>2, <2>3, <1>2
  <2> QED
    BY <2>1, <2>2, <2>3, <2>4
<1>4. wallet' \in [Users -> [available : Nat, locked : Nat, active : BOOLEAN]]
  BY <1>1, <1>3
<1>5. ledger' = ledger \cup E /\ \A e \in E : ~\E f \in ledger : f.kind = e.kind /\ f.ref = e.ref
  BY DEF Move
<1> QED
  BY <1>3, <1>4, <1>5

LEMMA RowFields ==
    \A kind, ref, v, a, l :
       LET e == Row(kind, ref, v, a, l)
       IN  e.kind = kind /\ e.ref = ref /\ e.user = v /\ e.available = a /\ e.locked = l
  BY DEF Row

LEMMA RowIsEntry ==
    ASSUME NEW kind \in {"deposit", "bet-lock", "bet-settlement", "bet-refund",
                         "withdrawal-lock", "withdrawal-reject", "withdrawal-paid"},
           NEW ref \in BetKeys \cup WithdrawalKeys \cup Deposits, NEW v \in Users,
           NEW a \in Int, NEW l \in Int
    PROVE  Row(kind, ref, v, a, l) \in Entry
  BY DEF Row, Entry

\* One movement: the row of user v.
LEMMA OneRow ==
    ASSUME NEW kind, NEW ref, NEW v, NEW a \in Int, NEW l \in Int, NEW u
    PROVE  /\ Available(OfUser({Row(kind, ref, v, a, l)}, u)) = IF v = u THEN a ELSE 0
           /\ Locked(OfUser({Row(kind, ref, v, a, l)}, u)) = IF v = u THEN l ELSE 0
<1> DEFINE e == Row(kind, ref, v, a, l)
<1>1. e.user = v /\ e.available = a /\ e.locked = l
  BY RowFields
<1> HIDE DEF e
<1>2. CASE v = u
  <2>1. OfUser({e}, u) = {e}
    BY <1>1, <1>2 DEF OfUser
  <2> DEFINE f == [x \in {e} |-> x.available]
             g == [x \in {e} |-> x.locked]
  <2>2. f[e] = a /\ g[e] = l
    BY <1>1
  <2>3. Available({e}) = SumFunctionOnSet(f, {e}) /\ Locked({e}) = SumFunctionOnSet(g, {e})
    BY DEF Available, Locked, SumFunction
  <2> HIDE DEF f, g
  <2>4. Available({e}) = a /\ Locked({e}) = l
    BY <2>2, <2>3, SumOne
  <2> QED
    BY <2>1, <2>4, <1>2 DEF e
<1>3. CASE v # u
  <2>1. OfUser({e}, u) = {}
    BY <1>1, <1>3 DEF OfUser
  <2>2. Available({}) = 0 /\ Locked({}) = 0
    BY SumEmpty DEF Available, Locked, SumFunction
  <2> QED
    BY <2>1, <2>2, <1>3 DEF e
<1> QED
  BY <1>2, <1>3

RowsOf(kind, P, b, a, l) == {Row(kind, k, b[k].user, a[k], l[k]) : k \in P}

\* One movement for every bet of P.
LEMMA ManyRows ==
    ASSUME NEW P, IsFiniteSet(P), NEW kind, NEW b, NEW a, NEW l, IntOn(a, P), IntOn(l, P),
           NEW E, E = RowsOf(kind, P, b, a, l),
           NEW u
    PROVE  /\ IsFiniteSet(E)
           /\ Available(OfUser(E, u)) = SumFunctionOnSet(a, MineOf(b, P, u))
           /\ Locked(OfUser(E, u)) = SumFunctionOnSet(l, MineOf(b, P, u))
           /\ SumFunctionOnSet(a, MineOf(b, P, u)) \in Int /\ SumFunctionOnSet(l, MineOf(b, P, u)) \in Int
<1> DEFINE m == [k \in P |-> Row(kind, k, b[k].user, a[k], l[k])]
           U == MineOf(b, P, u)
<1>1. /\ \A k \in P : m[k].user = b[k].user /\ m[k].available = a[k] /\ m[k].locked = l[k] /\ m[k].ref = k
      /\ E = {m[k] : k \in P}
  BY RowFields DEF RowsOf
<1> HIDE DEF m
<1>2. OfUser(E, u) = {m[k] : k \in U}
  <2>1. \A e \in OfUser(E, u) : \E k \in U : e = m[k]
    BY <1>1 DEF OfUser, MineOf
  <2>2. \A k \in U : m[k] \in OfUser(E, u)
    BY <1>1 DEF OfUser, MineOf
  <2> QED
    BY <2>1, <2>2
<1>3. IsFiniteSet(U) /\ U \subseteq P
  BY FS_Subset DEF MineOf
<1>4. IsFiniteSet(E)
  <2>1. m \in [P -> E]
    BY <1>1 DEF m
  <2>2. m \in Surjection(P, E)
    BY <2>1, <1>1 DEF Surjection, Range
  <2> QED
    BY <2>2, FS_Surjection DEF ExistsSurjection
<1>5. (\A x, y \in U : m[x] = m[y] => x = y) /\ IntOn(a, U) /\ IntOn(l, U)
  BY <1>1, <1>3 DEF IntOn
<1> DEFINE f == [e \in OfUser(E, u) |-> e.available]
           g == [e \in OfUser(E, u) |-> e.locked]
<1>6. /\ \A x \in U : f[m[x]] = a[x] /\ a[x] \in Int
      /\ \A x \in U : g[m[x]] = l[x] /\ l[x] \in Int
  BY <1>1, <1>2, <1>3, <1>5 DEF IntOn
<1>7. /\ Available(OfUser(E, u)) = SumFunctionOnSet(f, {m[x] : x \in U})
      /\ Locked(OfUser(E, u)) = SumFunctionOnSet(g, {m[x] : x \in U})
  BY <1>2 DEF Available, Locked, SumFunction
<1> HIDE DEF f, g, U
<1>8. SumFunctionOnSet(f, {m[x] : x \in U}) = SumFunctionOnSet(a, U)
  BY <1>3, <1>5, <1>6, SumImage
<1>9. SumFunctionOnSet(g, {m[x] : x \in U}) = SumFunctionOnSet(l, U)
  <2>1. \A x \in U : g[m[x]] = l[x] /\ l[x] \in Int
    BY <1>6
  <2> QED
    BY ONLY <1>3, <1>5, <2>1, SumImage
<1>10. SumFunctionOnSet(a, U) \in Int /\ SumFunctionOnSet(l, U) \in Int
  BY <1>3, <1>5, SumType
<1> QED
  BY <1>4, <1>7, <1>8, <1>9, <1>10 DEF U

\* A movement that is no deposit keeps the accounts in order, if the tables move
\* by as much as its rows.
LEMMA MoneyMoves ==
    ASSUME MoneyOK, NEW E, Move(E), IsFiniteSet(E), \A e \in E : e \in Entry /\ e.kind # "deposit",
           Tables(bets', withdrawals'),
           \A k \in InBets(bets') : k \in InBets(bets) \/ \E e \in E : e.kind = "bet-lock" /\ e.ref = k,
           \A u \in Users :
              /\ Available(OfUser(E, u)) \in Int /\ Locked(OfUser(E, u)) \in Int
              /\ LockedBy(bets', withdrawals', u) = LockedBy(bets, withdrawals, u) + Locked(OfUser(E, u))
              /\ EarnedBy(bets', withdrawals', u) = EarnedBy(bets, withdrawals, u) + Available(OfUser(E, u))
    PROVE  MoneyOK'
<1>1. wallet \in [Users -> [available : Nat, locked : Nat, active : BOOLEAN]] /\ Tables(bets, withdrawals)
  BY DEF MoneyOK
<1>2. /\ wallet' \in [Users -> [available : Nat, locked : Nat, active : BOOLEAN]]
      /\ \A u \in Users : /\ wallet'[u].available = wallet[u].available + Available(OfUser(E, u))
                          /\ wallet'[u].locked = wallet[u].locked + Locked(OfUser(E, u))
      /\ ledger' = ledger \cup E
  BY <1>1, MoveRows
<1>3. IsFiniteSet(ledger') /\ \A e \in ledger' : e \in Entry
  BY <1>2, FS_Union DEF MoneyOK
<1>4. \A k \in InBets(bets') : \E e \in ledger' : e.kind = "bet-lock" /\ e.ref = k
  BY <1>2 DEF MoneyOK
<1>5. ASSUME NEW u \in Users PROVE Books(wallet'[u], ledger', bets', withdrawals', u)
  <2> DEFINE da == Available(OfUser(E, u))
             dl == Locked(OfUser(E, u))
             d == Cardinality(DepositsOf(ledger, u))
  <2>1. DepositsOf(ledger', u) = DepositsOf(ledger, u)
    BY <1>2 DEF DepositsOf
  <2>2. d \in Nat
    BY FS_Subset, FS_CardinalityType DEF DepositsOf, MoneyOK
  <2>3. /\ wallet[u].locked = LockedBy(bets, withdrawals, u)
        /\ wallet[u].available = d * DepositPaise + EarnedBy(bets, withdrawals, u)
    BY DEF MoneyOK, Books
  <2>4. LockedBy(bets, withdrawals, u) \in Int /\ EarnedBy(bets, withdrawals, u) \in Int
    BY <1>1, BooksAreInts
  <2>5. da \in Int /\ dl \in Int /\ d * DepositPaise \in Int
    BY <2>2
  <2>6. /\ wallet'[u].locked = wallet[u].locked + dl
        /\ wallet'[u].available = wallet[u].available + da
        /\ LockedBy(bets', withdrawals', u) = LockedBy(bets, withdrawals, u) + dl
        /\ EarnedBy(bets', withdrawals', u) = EarnedBy(bets, withdrawals, u) + da
    BY <1>2
  <2> HIDE DEF da, dl
  <2>7. wallet'[u].locked = LockedBy(bets', withdrawals', u)
    BY ONLY <2>3, <2>6
  <2>8. wallet'[u].available = d * DepositPaise + EarnedBy(bets', withdrawals', u)
    BY <2>3, <2>4, <2>5, <2>6
  <2> QED
    BY <2>1, <2>7, <2>8 DEF Books
<1> QED
  BY <1>2, <1>3, <1>4, <1>5 DEF MoneyOK

LEMMA MoneyStays == MoneyOK /\ UNCHANGED money => MoneyOK'
  BY DEF MoneyOK, money

LEMMA CommitBetMoney ==
    ASSUME RestOK, MoneyOK, NEW q \in Requests, CommitBet(q)
    PROVE  MoneyOK' /\ bets[request[q].key] = None
<1> DEFINE b == request[q]
           x == [user |-> b.user, round |-> b.round, choice |-> b.choice, stake |-> b.stake,
                 day |-> 0, status |-> "PENDING"]
           e == Row("bet-lock", b.key, b.user, -b.stake, b.stake)
<1>1. b \in BetRequest
  BY DEF CommitBet, OpenBet, RestOK, WithdrawalRequest
<1>2. b.key \in BetKeys /\ b.user \in Users /\ b.stake \in Nat /\ x \in Bet /\ x.status = "PENDING"
  BY <1>1 DEF BetRequest, Bet
<1>3. bets' = [bets EXCEPT ![b.key] = x] /\ Move({e}) /\ withdrawals' = withdrawals
  BY DEF CommitBet
<1>4. Tables(bets, withdrawals)
  BY DEF MoneyOK
<1>5. e \in Entry /\ e.kind = "bet-lock" /\ e.ref = b.key
  <2>1. -b.stake \in Int /\ b.stake \in Int /\ b.key \in BetKeys \cup WithdrawalKeys \cup Deposits
    BY <1>2
  <2>2. e \in Entry
    BY <1>2, <2>1, RowIsEntry
  <2> QED
    BY <2>2, RowFields
<1>6. ASSUME NEW u \in Users
      PROVE  /\ Available(OfUser({e}, u)) = (IF b.user = u THEN -b.stake ELSE 0)
             /\ Locked(OfUser({e}, u)) = (IF b.user = u THEN b.stake ELSE 0)
  BY <1>2, OneRow
<1>7. x.user = b.user /\ x.stake = b.stake
  OBVIOUS
<1> HIDE DEF x, e
<1>u. bets[b.key] = None
  <2>1. \A f \in {e} : ~\E g \in ledger : g.kind = f.kind /\ g.ref = f.ref
    BY <1>3 DEF Move
  <2>2. ~\E g \in ledger : g.kind = "bet-lock" /\ g.ref = b.key
    BY <2>1, <1>5
  <2>3. b.key \notin InBets(bets)
    BY <2>2 DEF MoneyOK
  <2> QED
    BY <1>2, <2>3 DEF InBets
<1>8. ASSUME NEW u \in Users
      PROVE  /\ Tables(bets', withdrawals) /\ InBets(bets') = InBets(bets) \cup {b.key}
             /\ LockedBy(bets', withdrawals, u) = LockedBy(bets, withdrawals, u) + (IF x.user = u THEN x.stake ELSE 0)
             /\ EarnedBy(bets', withdrawals, u) = EarnedBy(bets, withdrawals, u) - (IF x.user = u THEN x.stake ELSE 0)
  <2>1. b.key \in BetKeys /\ x \in Bet /\ x.status = "PENDING"
    BY <1>2
  <2>2. bets' = [bets EXCEPT ![b.key] = x]
    BY <1>3
  <2>3. /\ bets' \in [BetKeys -> Bet \cup {None}] /\ bets'[b.key] = x
        /\ \A y \in BetKeys \ {b.key} : bets'[y] = bets[y]
    BY <2>1, <2>2, <1>4 DEF Tables
  <2> HIDE DEF b
  <2> QED
    BY ONLY <2>1, <2>3, <1>4, <1>u, BetAdded
<1>9. Tables(bets', withdrawals') /\ \A k \in InBets(bets') : k \in InBets(bets) \/ k = b.key
  BY <1>2, <1>3, <1>8
<1>10. ASSUME NEW u \in Users
       PROVE  /\ Available(OfUser({e}, u)) \in Int /\ Locked(OfUser({e}, u)) \in Int
              /\ LockedBy(bets', withdrawals', u) = LockedBy(bets, withdrawals, u) + Locked(OfUser({e}, u))
              /\ EarnedBy(bets', withdrawals', u) = EarnedBy(bets, withdrawals, u) + Available(OfUser({e}, u))
  <2>1. EarnedBy(bets, withdrawals, u) \in Int
    BY <1>4, BooksAreInts
  <2>2. b.stake \in Nat /\ withdrawals' = withdrawals
    BY <1>2, <1>3
  <2>3. EarnedBy(bets', withdrawals, u) = EarnedBy(bets, withdrawals, u) + (IF b.user = u THEN -b.stake ELSE 0)
    BY <2>1, <2>2, <1>7, <1>8
  <2>4. Available(OfUser({e}, u)) = (IF b.user = u THEN -b.stake ELSE 0)
    BY <1>6
  <2>5. Locked(OfUser({e}, u)) = (IF b.user = u THEN b.stake ELSE 0)
    BY <1>6
  <2>6. LockedBy(bets', withdrawals, u) = LockedBy(bets, withdrawals, u) + (IF b.user = u THEN b.stake ELSE 0)
    BY <1>7, <1>8
  <2> HIDE DEF b
  <2> QED
    BY ONLY <2>2, <2>3, <2>4, <2>5, <2>6
<1>11. IsFiniteSet({e})
  BY FS_Singleton
<1> QED
  BY <1>3, <1>5, <1>9, <1>10, <1>11, <1>u, MoneyMoves

LEMMA DepositMoney ==
    ASSUME MoneyOK, NEW d \in Deposits, NEW v \in Users, CreditDeposit(d, v)
    PROVE  MoneyOK'
<1> DEFINE e == Row("deposit", d, v, DepositPaise, 0)
<1>1. Move({e}) /\ UNCHANGED <<bets, withdrawals>>
  BY DEF CreditDeposit
<1>2. e \in Entry /\ e.kind = "deposit" /\ e.ref = d /\ e.user = v
  <2>1. DepositPaise \in Int /\ 0 \in Int /\ d \in BetKeys \cup WithdrawalKeys \cup Deposits
    OBVIOUS
  <2>2. e \in Entry
    BY <2>1, RowIsEntry
  <2> QED
    BY <2>2, RowFields
<1>3. ASSUME NEW u \in Users
      PROVE  /\ Available(OfUser({e}, u)) = (IF v = u THEN DepositPaise ELSE 0)
             /\ Locked(OfUser({e}, u)) = 0
  <2>1. DepositPaise \in Int /\ 0 \in Int
    OBVIOUS
  <2> QED
    BY <2>1, OneRow
<1> HIDE DEF e
<1>4. wallet \in [Users -> [available : Nat, locked : Nat, active : BOOLEAN]] /\ Tables(bets, withdrawals)
  BY DEF MoneyOK
<1>5. \A u \in Users : Available(OfUser({e}, u)) \in Int /\ Locked(OfUser({e}, u)) \in Int
  BY <1>3
<1>6. /\ wallet' \in [Users -> [available : Nat, locked : Nat, active : BOOLEAN]]
      /\ \A u \in Users : /\ wallet'[u].available = wallet[u].available + Available(OfUser({e}, u))
                          /\ wallet'[u].locked = wallet[u].locked + Locked(OfUser({e}, u))
      /\ ledger' = ledger \cup {e}
      /\ \A x \in {e} : ~\E f \in ledger : f.kind = x.kind /\ f.ref = x.ref
  BY <1>1, <1>4, <1>5, MoveRows
<1>7. e \notin ledger
  BY <1>6
<1>8. IsFiniteSet(ledger') /\ \A x \in ledger' : x \in Entry
  BY <1>2, <1>6, FS_AddElement DEF MoneyOK
<1>9. \A k \in InBets(bets') : \E x \in ledger' : x.kind = "bet-lock" /\ x.ref = k
  BY <1>1, <1>6 DEF MoneyOK
<1>10. ASSUME NEW u \in Users PROVE Books(wallet'[u], ledger', bets', withdrawals', u)
  <2> DEFINE D == DepositsOf(ledger, u)
             n == Cardinality(D)
             x == EarnedBy(bets, withdrawals, u)
  <2>1. IsFiniteSet(D) /\ n \in Nat
    BY FS_Subset, FS_CardinalityType DEF DepositsOf, MoneyOK
  <2>2. /\ wallet[u].locked = LockedBy(bets, withdrawals, u)
        /\ wallet[u].available = n * DepositPaise + x
    BY DEF MoneyOK, Books
  <2>3. LockedBy(bets, withdrawals, u) \in Int /\ x \in Int
    BY <1>4, BooksAreInts
  <2>4. wallet'[u].locked = LockedBy(bets', withdrawals', u)
    <3>1. wallet'[u].locked = wallet[u].locked + 0
      BY <1>3, <1>6
    <3>2. LockedBy(bets', withdrawals', u) = LockedBy(bets, withdrawals, u)
      BY <1>1
    <3> QED
      BY <3>1, <3>2, <2>2, <2>3
  <2>5. EarnedBy(bets', withdrawals', u) = x
    BY <1>1
  <2>6. wallet'[u].available = Cardinality(DepositsOf(ledger', u)) * DepositPaise + x
    <3>1. CASE v = u
      <4>1. DepositsOf(ledger', u) = D \cup {e}
        BY <3>1, <1>2, <1>6 DEF DepositsOf
      <4>2. e \notin D
        BY <1>7 DEF DepositsOf
      <4>3. Cardinality(D \cup {e}) = n + 1
        BY <2>1, <4>2, FS_AddElement
      <4>4. wallet'[u].available = (n * DepositPaise + x) + DepositPaise
        BY <1>3, <1>6, <2>2, <3>1
      <4>5. (n + 1) * DepositPaise = n * DepositPaise + DepositPaise /\ n * DepositPaise \in Int
        BY <2>1
      <4> HIDE DEF n, x, D
      <4> QED
        BY <4>1, <4>3, <4>4, <4>5, <2>3
    <3>2. CASE v # u
      <4>1. DepositsOf(ledger', u) = D
        BY <3>2, <1>2, <1>6 DEF DepositsOf
      <4>2. n * DepositPaise \in Int
        BY <2>1
      <4>3. wallet'[u].available = (n * DepositPaise + x) + 0
        BY <1>3, <1>6, <2>2, <3>2
      <4> HIDE DEF x
      <4> QED
        BY <4>1, <4>2, <4>3, <2>3
    <3> QED
      BY <3>1, <3>2
  <2> QED
    BY <2>4, <2>5, <2>6 DEF Books
<1> QED
  BY <1>1, <1>4, <1>6, <1>8, <1>9, <1>10 DEF MoneyOK

\* One movement of a withdrawal, which locks dl and makes da available.
LEMMA AskMoves ==
    ASSUME MoneyOK, NEW kind \in {"withdrawal-lock", "withdrawal-reject", "withdrawal-paid"},
           NEW k \in WithdrawalKeys, NEW v \in Users, NEW da \in Int, NEW dl \in Int,
           Move({Row(kind, k, v, da, dl)}), bets' = bets, Tables(bets, withdrawals'),
           \A u \in Users :
              /\ LockedBy(bets, withdrawals', u) = LockedBy(bets, withdrawals, u) + (IF v = u THEN dl ELSE 0)
              /\ EarnedBy(bets, withdrawals', u) = EarnedBy(bets, withdrawals, u) + (IF v = u THEN da ELSE 0)
    PROVE  MoneyOK'
<1> DEFINE e == Row(kind, k, v, da, dl)
<1>1. e \in Entry /\ e.kind # "deposit"
  <2>1. k \in BetKeys \cup WithdrawalKeys \cup Deposits
    OBVIOUS
  <2>2. e \in Entry
    BY <2>1, RowIsEntry
  <2>3. e.kind = kind
    BY RowFields
  <2> QED
    BY <2>2, <2>3
<1>2. ASSUME NEW u \in Users
      PROVE  /\ Available(OfUser({e}, u)) = (IF v = u THEN da ELSE 0)
             /\ Locked(OfUser({e}, u)) = (IF v = u THEN dl ELSE 0)
  BY OneRow
<1> HIDE DEF e
<1>3. \A u \in Users :
         /\ Available(OfUser({e}, u)) \in Int /\ Locked(OfUser({e}, u)) \in Int
         /\ LockedBy(bets', withdrawals', u) = LockedBy(bets, withdrawals, u) + Locked(OfUser({e}, u))
         /\ EarnedBy(bets', withdrawals', u) = EarnedBy(bets, withdrawals, u) + Available(OfUser({e}, u))
  BY <1>2
<1>4. Tables(bets', withdrawals') /\ InBets(bets') = InBets(bets)
  OBVIOUS
<1>5. IsFiniteSet({e}) /\ Move({e})
  BY FS_Singleton DEF e
<1> QED
  BY <1>1, <1>3, <1>4, <1>5, MoneyMoves

LEMMA LockWithdrawalMoney ==
    ASSUME RestOK, MoneyOK, NEW q \in Requests, LockWithdrawal(q)
    PROVE  MoneyOK'
<1> DEFINE b == request[q]
           x == [user |-> b.user, amount |-> b.amount, day |-> day, status |-> "REQUESTED"]
<1>1. b \in WithdrawalRequest
  BY DEF LockWithdrawal, RestOK, BetRequest
<1>2. b.key \in WithdrawalKeys /\ b.user \in Users /\ b.amount \in Nat /\ x \in Withdrawal
      /\ x.status = "REQUESTED" /\ x.user = b.user /\ x.amount = b.amount
  <2>1. b.key \in WithdrawalKeys /\ b.user \in Users /\ b.amount \in Amounts
    BY <1>1 DEF WithdrawalRequest
  <2> QED
    BY <2>1 DEF Withdrawal, RestOK
<1>3. CASE UNCHANGED <<wallet, ledger, withdrawals>>
  BY <1>3, MoneyStays DEF LockWithdrawal, money
<1>4. CASE /\ withdrawals[b.key] = None
           /\ withdrawals' = [withdrawals EXCEPT ![b.key] = x]
           /\ Move({Row("withdrawal-lock", b.key, b.user, -b.amount, b.amount)})
  <2>1. Tables(bets, withdrawals) /\ bets' = bets
    BY DEF MoneyOK, LockWithdrawal
  <2> HIDE DEF x
  <2>2. /\ withdrawals' \in [WithdrawalKeys -> Withdrawal \cup {None}] /\ withdrawals'[b.key] = x
        /\ \A y \in WithdrawalKeys \ {b.key} : withdrawals'[y] = withdrawals[y]
    BY <1>2, <1>4, <2>1 DEF Tables
  <2>3. -b.amount \in Int /\ b.amount \in Int
    BY <1>2
  <2>4. ASSUME NEW u
        PROVE  /\ Tables(bets, withdrawals')
               /\ LockedBy(bets, withdrawals', u) = LockedBy(bets, withdrawals, u) + (IF x.user = u THEN x.amount ELSE 0)
               /\ EarnedBy(bets, withdrawals', u) = EarnedBy(bets, withdrawals, u) - (IF x.user = u THEN x.amount ELSE 0)
    <3>1. withdrawals[b.key] = None
      BY <1>4
    <3> HIDE DEF b
    <3> QED
      BY ONLY <1>2, <3>1, <2>1, <2>2, AskAdded
  <2>5. ASSUME NEW u \in Users
        PROVE  /\ LockedBy(bets, withdrawals', u) = LockedBy(bets, withdrawals, u) + (IF b.user = u THEN b.amount ELSE 0)
               /\ EarnedBy(bets, withdrawals', u) = EarnedBy(bets, withdrawals, u) + (IF b.user = u THEN -b.amount ELSE 0)
    <3>1. EarnedBy(bets, withdrawals, u) \in Int
      BY <2>1, BooksAreInts
    <3>2. /\ LockedBy(bets, withdrawals', u) = LockedBy(bets, withdrawals, u) + (IF b.user = u THEN b.amount ELSE 0)
          /\ EarnedBy(bets, withdrawals', u) = EarnedBy(bets, withdrawals, u) - (IF b.user = u THEN b.amount ELSE 0)
      BY <1>2, <2>4
    <3> HIDE DEF b
    <3> QED
      BY ONLY <1>2, <3>1, <3>2
  <2>6. Tables(bets, withdrawals')
    BY <2>4
  <2>7. Move({Row("withdrawal-lock", b.key, b.user, -b.amount, b.amount)})
    BY <1>4
  <2> HIDE DEF b
  <2> QED
    BY <1>2, <2>1, <2>3, <2>5, <2>6, <2>7, AskMoves
<1> QED
  BY <1>3, <1>4 DEF LockWithdrawal

LEMMA DecideWithdrawalMoney ==
    ASSUME MoneyOK, NEW k \in WithdrawalKeys, NEW action \in DOMAIN Outcome, NEW d,
           DecideWithdrawal(k, action, d)
    PROVE  MoneyOK'
<1> DEFINE w == withdrawals[k]
           s == Outcome[action]
<1>1. Tables(bets, withdrawals) /\ bets' = bets
  BY DEF MoneyOK, DecideWithdrawal
<1>2. action \in {"APPROVE", "REJECT", "MARK_PAID"}
  BY DEF Outcome
<1>3. k \in InAsks(withdrawals) /\ w \in Withdrawal
  BY <1>1 DEF DecideWithdrawal, InAsks, Tables
<1>4. w.user \in Users /\ w.amount \in Int /\ -w.amount \in Int
  <2>1. w.user \in Users /\ w.amount \in Amounts
    BY <1>3 DEF Withdrawal
  <2> HIDE DEF w
  <2> QED
    BY <2>1, AmountIsInt
<1>5. w.status \in {"REQUESTED", "APPROVED"}
  BY <1>2 DEF DecideWithdrawal, Transition
<1>6. /\ s \in {"APPROVED", "REJECTED", "PAID"}
      /\ s = "APPROVED" <=> action = "APPROVE"
      /\ s = "REJECTED" <=> action = "REJECT"
  BY <1>2 DEF Outcome
<1>7. withdrawals' = [withdrawals EXCEPT ![k].status = s]
  BY DEF DecideWithdrawal
<1>8. /\ withdrawals'[k] \in Withdrawal /\ withdrawals'[k].user = w.user
      /\ withdrawals'[k].amount = w.amount /\ withdrawals'[k].status = s
      /\ \A y \in WithdrawalKeys \ {k} : withdrawals'[y] = withdrawals[y]
      /\ withdrawals' \in [WithdrawalKeys -> Withdrawal \cup {None}]
  <2>1. withdrawals'[k] = [w EXCEPT !.status = s] /\ \A y \in WithdrawalKeys \ {k} : withdrawals'[y] = withdrawals[y]
    BY <1>1, <1>7 DEF Tables
  <2>2. /\ withdrawals'[k] \in Withdrawal /\ withdrawals'[k].user = w.user
        /\ withdrawals'[k].amount = w.amount /\ withdrawals'[k].status = s
    <3>1. s \in {"REQUESTED", "APPROVED", "REJECTED", "PAID"}
      BY <1>6
    <3> HIDE DEF s, w
    <3> QED
      BY <2>1, <1>3, <3>1 DEF Withdrawal
  <2> QED
    BY <1>1, <1>7, <2>1, <2>2 DEF Tables
<1>9. ASSUME NEW u
      PROVE  /\ Tables(bets, withdrawals')
             /\ LockedBy(bets, withdrawals', u) = LockedBy(bets, withdrawals, u)
                   + (IF withdrawals[k].user = u /\ s # "APPROVED" THEN -withdrawals[k].amount ELSE 0)
             /\ EarnedBy(bets, withdrawals', u) = EarnedBy(bets, withdrawals, u)
                   + (IF withdrawals[k].user = u /\ s = "REJECTED" THEN withdrawals[k].amount ELSE 0)
  <2>1. withdrawals[k].status \in {"REQUESTED", "APPROVED"}
    BY <1>5
  <2>2. /\ withdrawals'[k] \in Withdrawal /\ withdrawals'[k].user = withdrawals[k].user
        /\ withdrawals'[k].amount = withdrawals[k].amount /\ withdrawals'[k].status = s
    BY <1>8
  <2>3. withdrawals'[k].status \in {"APPROVED", "REJECTED", "PAID"}
    BY <1>6, <2>2
  <2>4. Tables(bets, withdrawals) /\ k \in InAsks(withdrawals)
    BY <1>1, <1>3
  <2>5. withdrawals' \in [WithdrawalKeys -> Withdrawal \cup {None}]
        /\ \A y \in WithdrawalKeys \ {k} : withdrawals'[y] = withdrawals[y]
    BY <1>8
  <2> HIDE DEF s, w
  <2> QED
    BY ONLY <2>1, <2>2, <2>3, <2>4, <2>5, AskDecided
<1>10. Tables(bets, withdrawals')
  BY <1>9
<1>11. \A u : LockedBy(bets, withdrawals, u) \in Int /\ EarnedBy(bets, withdrawals, u) \in Int
  BY <1>1, BooksAreInts
<1>12. CASE action = "APPROVE"
  <2>1. \A u : /\ LockedBy(bets, withdrawals', u) = LockedBy(bets, withdrawals, u)
               /\ EarnedBy(bets, withdrawals', u) = EarnedBy(bets, withdrawals, u)
    BY <1>6, <1>9, <1>11, <1>12
  <2>2. UNCHANGED <<wallet, ledger, bets>>
    BY <1>1, <1>12 DEF DecideWithdrawal
  <2> QED
    BY <2>1, <2>2, <1>10 DEF MoneyOK, Books
<1>13. CASE action = "REJECT"
  <2>1. Move({Row("withdrawal-reject", k, w.user, w.amount, -w.amount)})
    BY <1>13 DEF DecideWithdrawal
  <2>2. \A u : /\ LockedBy(bets, withdrawals', u) = LockedBy(bets, withdrawals, u) + (IF w.user = u THEN -w.amount ELSE 0)
               /\ EarnedBy(bets, withdrawals', u) = EarnedBy(bets, withdrawals, u) + (IF w.user = u THEN w.amount ELSE 0)
    BY <1>6, <1>9, <1>13
  <2> HIDE DEF w
  <2> QED
    BY <2>1, <2>2, <1>1, <1>4, <1>10, AskMoves
<1>14. CASE action = "MARK_PAID"
  <2>1. Move({Row("withdrawal-paid", k, w.user, 0, -w.amount)})
    BY <1>14 DEF DecideWithdrawal
  <2>2. \A u : /\ LockedBy(bets, withdrawals', u) = LockedBy(bets, withdrawals, u) + (IF w.user = u THEN -w.amount ELSE 0)
               /\ EarnedBy(bets, withdrawals', u) = EarnedBy(bets, withdrawals, u) + (IF w.user = u THEN 0 ELSE 0)
    BY <1>6, <1>9, <1>14
  <2>3. 0 \in Int
    OBVIOUS
  <2> HIDE DEF w
  <2> QED
    BY <2>1, <2>2, <2>3, <1>1, <1>4, <1>10, AskMoves
<1> QED
  BY <1>2, <1>12, <1>13, <1>14

-----------------------------------------------------------------------------
(* Settlement and refund: all pending bets of a round are decided *)

LEMMA PendingBets ==
    ASSUME MoneyOK, NEW r
    PROVE  /\ Pending(r) \subseteq InBets(bets) /\ IsFiniteSet(Pending(r))
           /\ \A k \in Pending(r) : /\ bets[k].status = "PENDING" /\ bets[k].round = r
                                    /\ k \in BetKeys /\ bets[k] \in Bet
                                    /\ bets[k].stake \in Nat /\ bets[k].user \in Users
<1>1. Pending(r) \subseteq InBets(bets)
  BY DEF Pending, Placed, InBets
<1>2. Tables(bets, withdrawals)
  BY DEF MoneyOK
<1>3. IsFiniteSet(Pending(r))
  BY <1>1, <1>2, FS_Subset DEF Tables
<1>4. \A k \in Pending(r) : bets[k] \in Bet /\ bets[k].stake \in Nat /\ k \in BetKeys
  BY <1>1, <1>2, BetFields DEF InBets
<1>5. \A k \in Pending(r) : bets[k].user \in Users
  BY <1>4 DEF Bet
<1> QED
  BY <1>1, <1>3, <1>4, <1>5 DEF Pending

\* Which rows the transaction has changed, and how.
LEMMA MarkedRows ==
    ASSUME RestOK, MoneyOK, NEW r, NEW status, bets' = Marked(Pending(r), status),
           \A k \in Pending(r) : status[k] \in {"WON", "LOST", "REFUNDED"}
    PROVE  /\ bets' \in [BetKeys -> Bet \cup {None}]
           /\ \A k \in BetKeys \ Pending(r) : bets'[k] = bets[k]
           /\ \A k \in Pending(r) :
                 /\ bets'[k] \in Bet /\ bets'[k].status = status[k]
                 /\ bets'[k].user = bets[k].user /\ bets'[k].stake = bets[k].stake
                 /\ bets'[k].round = r /\ bets'[k].choice = bets[k].choice
<1> DEFINE P == Pending(r)
<1>1. bets' = [k \in BetKeys |-> IF k \in P THEN [bets[k] EXCEPT !.status = status[k], !.day = day] ELSE bets[k]]
  BY DEF Marked
<1>2. ASSUME NEW k \in P
      PROVE  /\ bets'[k] \in Bet /\ bets'[k].status = status[k]
             /\ bets'[k].user = bets[k].user /\ bets'[k].stake = bets[k].stake
             /\ bets'[k].round = r /\ bets'[k].choice = bets[k].choice
  <2>1. bets[k] \in Bet /\ k \in BetKeys /\ bets[k].round = r
    BY PendingBets
  <2>2. bets'[k] = [bets[k] EXCEPT !.status = status[k], !.day = day]
    BY <1>1, <2>1
  <2>3. day \in 0 .. MaxDay /\ status[k] \in {"PENDING", "WON", "LOST", "REFUNDED"}
    BY DEF RestOK
  <2> HIDE DEF P
  <2> QED
    BY <2>1, <2>2, <2>3 DEF Bet
<1>3. \A k \in BetKeys : bets[k] \in Bet \cup {None}
  BY DEF MoneyOK, Tables
<1> HIDE DEF P
<1>4. \A k \in BetKeys \ P : bets'[k] = bets[k]
  BY <1>1
<1>5. bets' \in [BetKeys -> Bet \cup {None}]
  BY <1>1, <1>2, <1>3, <1>4
<1> QED
  BY <1>2, <1>4, <1>5 DEF P

\* The pending bets of round r get a status, and movements of one kind pay them back.
DecidesRound(r, status, kind, paid) ==
    /\ bets' = Marked(Pending(r), status) /\ withdrawals' = withdrawals
    /\ kind \in {"bet-settlement", "bet-refund"}
    /\ \A k \in Pending(r) : /\ status[k] \in {"WON", "LOST", "REFUNDED"}
                             /\ paid[k] = PaidBack(bets[k], status[k])
    /\ Move({Row(kind, k, bets[k].user, paid[k], -bets[k].stake) : k \in Pending(r)})

LEMMA DecideMoney ==
    ASSUME RestOK, MoneyOK, NEW r, NEW status, NEW kind, NEW paid, DecidesRound(r, status, kind, paid)
    PROVE  MoneyOK'
<1> USE DEF DecidesRound
<1> DEFINE P == Pending(r)
           b == bets
           c == bets'
           w == withdrawals
           l == Unlocks(b, P)
           E == {Row(kind, k, b[k].user, paid[k], -b[k].stake) : k \in P}
<1>1. Tables(b, w) /\ P \in SUBSET InBets(b) /\ IsFiniteSet(P)
  BY PendingBets DEF MoneyOK
<1>2. \A k \in P : b[k].status = "PENDING" /\ b[k].stake \in Nat /\ b[k].user \in Users /\ k \in BetKeys
  BY PendingBets
<1>3. /\ c \in [BetKeys -> Bet \cup {None}]
      /\ \A k \in BetKeys \ P : c[k] = b[k]
      /\ \A k \in P : /\ c[k] \in Bet /\ c[k].user = b[k].user /\ c[k].stake = b[k].stake
                      /\ c[k].status \in {"WON", "LOST", "REFUNDED"} /\ c[k].status = status[k]
  BY MarkedRows
<1>4. \A k \in P : paid[k] = PaidBack(b[k], c[k].status)
  BY <1>3
<1>5. ASSUME NEW u
      PROVE  /\ Tables(c, w) /\ InBets(c) = InBets(b)
             /\ LockedBy(c, w, u) = LockedBy(b, w, u) + SumFunctionOnSet(l, MineOf(b, P, u))
             /\ EarnedBy(c, w, u) = EarnedBy(b, w, u) + SumFunctionOnSet(paid, MineOf(b, P, u))
             /\ \A k \in P : paid[k] \in Nat
  <2>1. Deciding(b, w, P, c, paid)
    BY <1>1, <1>2, <1>3, <1>4 DEF Deciding
  <2> HIDE DEF P, b, c, w
  <2> QED
    BY ONLY <2>1, BetsDecided
<1>6. IntOn(paid, P) /\ IntOn(l, P)
  <2>1. \A k \in P : paid[k] \in Nat /\ b[k].stake \in Nat
    BY <1>2, <1>5
  <2>2. \A k \in P : paid[k] \in Int /\ -b[k].stake \in Int
    BY <2>1
  <2> HIDE DEF P, b
  <2> QED
    BY ONLY <2>2 DEF IntOn, Unlocks
<1>7. E = RowsOf(kind, P, b, paid, l)
  BY DEF Unlocks, RowsOf
<1>8. ASSUME NEW u
      PROVE  /\ IsFiniteSet(E)
             /\ Available(OfUser(E, u)) = SumFunctionOnSet(paid, MineOf(b, P, u))
             /\ Locked(OfUser(E, u)) = SumFunctionOnSet(l, MineOf(b, P, u))
             /\ SumFunctionOnSet(paid, MineOf(b, P, u)) \in Int /\ SumFunctionOnSet(l, MineOf(b, P, u)) \in Int
  <2> HIDE DEF P, b, E, l
  <2> QED
    BY ONLY <1>1, <1>6, <1>7, ManyRows
<1>9. \A e \in E : e \in Entry /\ e.kind # "deposit"
  <2> SUFFICES ASSUME NEW k \in P
               PROVE  LET e == Row(kind, k, b[k].user, paid[k], -b[k].stake)
                      IN  e \in Entry /\ e.kind # "deposit"
    OBVIOUS
  <2>1. paid[k] \in Int /\ -b[k].stake \in Int /\ b[k].user \in Users
        /\ k \in BetKeys \cup WithdrawalKeys \cup Deposits
    BY <1>2, <1>5
  <2>2. Row(kind, k, b[k].user, paid[k], -b[k].stake) \in Entry
    BY <2>1, RowIsEntry
  <2>3. Row(kind, k, b[k].user, paid[k], -b[k].stake).kind = kind
    BY RowFields
  <2> QED
    BY <2>2, <2>3
<1>10. Move(E)
  OBVIOUS
<1>11. withdrawals' = w /\ Tables(c, withdrawals') /\ InBets(c) = InBets(b)
  BY <1>5
<1>12. \A u \in Users :
          /\ Available(OfUser(E, u)) \in Int /\ Locked(OfUser(E, u)) \in Int
          /\ LockedBy(c, withdrawals', u) = LockedBy(b, w, u) + Locked(OfUser(E, u))
          /\ EarnedBy(c, withdrawals', u) = EarnedBy(b, w, u) + Available(OfUser(E, u))
  BY <1>5, <1>8
<1>13. IsFiniteSet(E)
  BY <1>8
<1> HIDE DEF E
<1> QED
  BY <1>9, <1>10, <1>11, <1>12, <1>13, MoneyMoves

\* What settleRound and refundRound do to the pending bets.
LEMMA SettleRoundMoney ==
    ASSUME RestOK, MoneyOK, NEW p, SettleRound(p)
    PROVE  MoneyOK'
<1> DEFINE r == job[p].round
           c == job[p].result
           P == Pending(r)
           status == [k \in P |-> IF bets[k].choice = c THEN "WON" ELSE "LOST"]
           paid == [k \in P |-> Payout(bets[k], c)]
<1>1. CASE UNCHANGED <<bets, wallet, ledger>>
  BY <1>1, MoneyStays DEF SettleRound, money
<1>2. CASE Decide(r, status, {Row("bet-settlement", k, bets[k].user, Payout(bets[k], c), -bets[k].stake) : k \in P})
  <2>1. bets' = Marked(P, status) /\ withdrawals' = withdrawals
        /\ Move({Row("bet-settlement", k, bets[k].user, Payout(bets[k], c), -bets[k].stake) : k \in P})
    BY <1>2 DEF Decide, SettleRound
  <2>2. {Row("bet-settlement", k, bets[k].user, Payout(bets[k], c), -bets[k].stake) : k \in P}
          = {Row("bet-settlement", k, bets[k].user, paid[k], -bets[k].stake) : k \in P}
    OBVIOUS
  <2>3. \A k \in P : status[k] \in {"WON", "LOST", "REFUNDED"}
    OBVIOUS
  <2>4. \A k \in P : paid[k] = PaidBack(bets[k], status[k])
    <3> SUFFICES ASSUME NEW k \in P
                 PROVE paid[k] = PaidBack(bets[k], status[k])
      OBVIOUS
    <3>1. bets[k].stake \in Nat
      BY PendingBets
    <3>2. paid[k] = IF bets[k].choice = c THEN bets[k].stake * 2 ELSE 0
      BY DEF Payout, Multiplier
    <3>3. status[k] = IF bets[k].choice = c THEN "WON" ELSE "LOST"
      OBVIOUS
    <3> HIDE DEF paid, status
    <3> QED
      BY ONLY <3>1, <3>2, <3>3 DEF PaidBack
  <2>5. DecidesRound(r, status, "bet-settlement", paid)
    BY <2>1, <2>2, <2>3, <2>4 DEF DecidesRound
  <2> HIDE DEF r, status, paid
  <2> QED
    BY <2>5, DecideMoney
<1> QED
  BY <1>1, <1>2 DEF SettleRound

LEMMA RefundRoundMoney ==
    ASSUME RestOK, MoneyOK, NEW p, RefundRound(p)
    PROVE  MoneyOK'
<1> DEFINE r == job[p].round
           P == Pending(r)
           status == [k \in P |-> "REFUNDED"]
           paid == [k \in P |-> bets[k].stake]
<1>1. bets' = Marked(P, status) /\ withdrawals' = withdrawals /\ Move({Refund(k) : k \in P})
  BY DEF Decide, RefundRound
<1>2. {Refund(k) : k \in P} = {Row("bet-refund", k, bets[k].user, paid[k], -bets[k].stake) : k \in P}
  BY DEF Refund
<1>3. \A k \in P : status[k] \in {"WON", "LOST", "REFUNDED"}
  OBVIOUS
<1>4. \A k \in P : paid[k] = PaidBack(bets[k], status[k])
  BY DEF PaidBack
<1>5. DecidesRound(r, status, "bet-refund", paid)
  BY <1>1, <1>2, <1>3, <1>4 DEF DecidesRound
<1> HIDE DEF r, status, paid
<1> QED
  BY <1>5, DecideMoney

-----------------------------------------------------------------------------
(* Exposure *)

PendingIn(b, r)  == {k \in InBets(b) : b[k].round = r /\ b[k].status = "PENDING"}
OfColor(b, r, c) == {k \in PendingIn(b, r) : b[k].choice = c}

\* A stake of x on color c in round r has room beside the open bets of table b.
Fits(b, r, c, x) ==
    /\ Stk(b, PendingIn(b, r)) + x <= MaxRoundExposure
    /\ Stk(b, OfColor(b, r, c)) + x <= MaxColorExposure

ExposureAsSums ==
    /\ \A q \in Requests : OpenBet(q) => Fits(bets, request[q].round, request[q].choice, request[q].stake)
    /\ \A r \in Rounds : /\ Stk(bets, PendingIn(bets, r)) <= MaxRoundExposure
                         /\ \A c \in Colors : Stk(bets, OfColor(bets, r, c)) <= MaxColorExposure

LEMMA ExposureForms == ExposureOK <=> ExposureAsSums
<1>1. \A r : Pending(r) = PendingIn(bets, r)
  BY DEF Pending, PendingIn, Placed, InBets
<1>2. \A r, c : {k \in Pending(r) : bets[k].choice = c} = OfColor(bets, r, c)
  BY <1>1 DEF OfColor
<1>3. \A S : StakeSum(S) = Stk(bets, S)
  BY DEF StakeSum, Stk
<1> QED
  BY <1>1, <1>2, <1>3 DEF ExposureOK, OpenBetsFit, ExposureWithinLimits, Fits, ExposureAsSums
LEMMA ExposureFormsNext == ExposureOK' <=> ExposureAsSums'
  BY ExposureForms, PTL

LEMMA PendingSums ==
    ASSUME NEW b, NEW w, Tables(b, w), NEW r, NEW c
    PROVE  /\ IsFiniteSet(PendingIn(b, r)) /\ IsFiniteSet(OfColor(b, r, c))
           /\ Stk(b, PendingIn(b, r)) \in Nat /\ Stk(b, OfColor(b, r, c)) \in Nat
           /\ \A k \in PendingIn(b, r) : b[k].stake \in Nat
           /\ OfColor(b, r, c) \subseteq PendingIn(b, r)
<1>1. PendingIn(b, r) \subseteq InBets(b) /\ OfColor(b, r, c) \subseteq PendingIn(b, r)
  BY DEF PendingIn, OfColor
<1>2. IsFiniteSet(InBets(b)) /\ \A k \in InBets(b) : b[k].stake \in Nat
  BY BetFields DEF Tables
<1>3. IsFiniteSet(PendingIn(b, r)) /\ IsFiniteSet(OfColor(b, r, c))
  BY <1>1, <1>2, FS_Subset
<1> QED
  BY <1>1, <1>2, <1>3, StkType

\* Fewer open bets, the same stakes: no larger sum.
Shrinks(b, c) ==
    \A r : \A k \in PendingIn(c, r) :
       k \in PendingIn(b, r) /\ c[k].stake = b[k].stake /\ c[k].choice = b[k].choice

LEMMA SumsShrink ==
    ASSUME NEW b, NEW w, Tables(b, w), NEW c, Shrinks(b, c), NEW r, NEW x
    PROVE  /\ Stk(c, PendingIn(c, r)) <= Stk(b, PendingIn(b, r))
           /\ Stk(c, OfColor(c, r, x)) <= Stk(b, OfColor(b, r, x))
<1>1. PendingIn(c, r) \subseteq PendingIn(b, r) /\ \A k \in PendingIn(c, r) : c[k].stake = b[k].stake
  BY DEF Shrinks
<1>2. OfColor(c, r, x) \subseteq OfColor(b, r, x) /\ \A k \in OfColor(c, r, x) : c[k].stake = b[k].stake
  BY DEF Shrinks, OfColor
<1>3. Stk(c, PendingIn(c, r)) = Stk(b, PendingIn(c, r)) /\ Stk(c, OfColor(c, r, x)) = Stk(b, OfColor(c, r, x))
  BY <1>1, <1>2, StkSame
<1>4. /\ IsFiniteSet(PendingIn(b, r)) /\ IsFiniteSet(OfColor(b, r, x))
      /\ \A k \in PendingIn(b, r) : b[k].stake \in Nat
      /\ \A k \in OfColor(b, r, x) : b[k].stake \in Nat
  BY PendingSums
<1>5. Stk(b, PendingIn(c, r)) <= Stk(b, PendingIn(b, r))
  BY <1>1, <1>4, StkAtMost
<1>6. Stk(b, OfColor(c, r, x)) <= Stk(b, OfColor(b, r, x))
  BY <1>2, <1>4, StkAtMost
<1> QED
  BY <1>3, <1>5, <1>6

\* No bet transaction has opened, and the open ones stay what they were or end.
RequestsKept ==
    \A q \in Requests :
       OpenBet(q)' => /\ OpenBet(q) /\ request'[q].round = request[q].round
                      /\ request'[q].choice = request[q].choice /\ request'[q].stake = request[q].stake

LEMMA BetRequests ==
    ASSUME RestOK, NEW q \in Requests, request[q] # None, request[q].op = "BET"
    PROVE  /\ request[q] \in BetRequest /\ request[q].key \in BetKeys /\ request[q].user \in Users
           /\ request[q].round \in Rounds /\ request[q].choice \in Colors
           /\ request[q].stake \in Stakes /\ request[q].stake \in Nat
<1>1. request[q] \in BetRequest
  BY DEF RestOK, WithdrawalRequest
<1> QED
  BY <1>1 DEF BetRequest

LEMMA ExposureKept ==
    ASSUME RestOK, MoneyOK, ExposureOK, MoneyOK', Shrinks(bets, bets'), RequestsKept
    PROVE  ExposureOK'
<1>1. Tables(bets, withdrawals) /\ Tables(bets', withdrawals')
  BY DEF MoneyOK
<1>2. \A r, x : /\ Stk(bets', PendingIn(bets', r)) <= Stk(bets, PendingIn(bets, r))
                /\ Stk(bets', OfColor(bets', r, x)) <= Stk(bets, OfColor(bets, r, x))
  BY <1>1, SumsShrink
<1>3. \A r, x : /\ Stk(bets, PendingIn(bets, r)) \in Nat /\ Stk(bets, OfColor(bets, r, x)) \in Nat
                /\ Stk(bets', PendingIn(bets', r)) \in Nat /\ Stk(bets', OfColor(bets', r, x)) \in Nat
  BY <1>1, PendingSums
<1>4. ASSUME NEW q \in Requests, OpenBet(q)'
      PROVE  Fits(bets', request'[q].round, request'[q].choice, request'[q].stake)
  <2>1. /\ OpenBet(q) /\ request'[q].round = request[q].round
        /\ request'[q].choice = request[q].choice /\ request'[q].stake = request[q].stake
    BY <1>4 DEF RequestsKept
  <2>2. Fits(bets, request[q].round, request[q].choice, request[q].stake) /\ request[q].stake \in Nat
    BY <2>1, ExposureForms, BetRequests DEF OpenBet, ExposureAsSums
  <2> DEFINE r == request[q].round
             x == request[q].choice
             n == request[q].stake
  <2>3. /\ Stk(bets', PendingIn(bets', r)) <= Stk(bets, PendingIn(bets, r))
        /\ Stk(bets', OfColor(bets', r, x)) <= Stk(bets, OfColor(bets, r, x))
    BY <1>2
  <2>4. /\ Stk(bets, PendingIn(bets, r)) \in Nat /\ Stk(bets, OfColor(bets, r, x)) \in Nat
        /\ Stk(bets', PendingIn(bets', r)) \in Nat /\ Stk(bets', OfColor(bets', r, x)) \in Nat
    BY <1>3
  <2>5. Fits(bets, r, x, n) /\ n \in Nat
    BY <2>2
  <2> HIDE DEF r, x, n
  <2>6. Fits(bets', r, x, n)
    BY <2>3, <2>4, <2>5 DEF Fits
  <2> QED
    BY <2>1, <2>6 DEF r, x, n
<1>5. ASSUME NEW r \in Rounds
      PROVE  /\ Stk(bets', PendingIn(bets', r)) <= MaxRoundExposure
             /\ \A x \in Colors : Stk(bets', OfColor(bets', r, x)) <= MaxColorExposure
  <2>1. /\ Stk(bets, PendingIn(bets, r)) <= MaxRoundExposure
        /\ \A x \in Colors : Stk(bets, OfColor(bets, r, x)) <= MaxColorExposure
    BY ExposureForms DEF ExposureAsSums
  <2>2. ASSUME NEW x \in Colors
        PROVE Stk(bets', OfColor(bets', r, x)) <= MaxColorExposure
    <3>1. /\ Stk(bets', OfColor(bets', r, x)) <= Stk(bets, OfColor(bets, r, x))
          /\ Stk(bets', OfColor(bets', r, x)) \in Nat /\ Stk(bets, OfColor(bets, r, x)) \in Nat
      BY <1>2, <1>3
    <3>2. Stk(bets, OfColor(bets, r, x)) <= MaxColorExposure
      BY <2>1
    <3> QED
      BY <3>1, <3>2
  <2>3. /\ Stk(bets', PendingIn(bets', r)) <= Stk(bets, PendingIn(bets, r))
        /\ Stk(bets', PendingIn(bets', r)) \in Nat /\ Stk(bets, PendingIn(bets, r)) \in Nat
    BY <1>2, <1>3
  <2>4. Stk(bets', PendingIn(bets', r)) <= MaxRoundExposure
    BY <2>1, <2>3
  <2> QED
    BY <2>2, <2>4
<1> QED
  BY <1>4, <1>5, ExposureFormsNext DEF ExposureAsSums

LEMMA NoBetChanged == bets' = bets => Shrinks(bets, bets')
  BY DEF Shrinks

LEMMA DecidedShrinks ==
    ASSUME RestOK, MoneyOK, NEW r, NEW status, bets' = Marked(Pending(r), status),
           \A k \in Pending(r) : status[k] \in {"WON", "LOST", "REFUNDED"}
    PROVE  Shrinks(bets, bets')
<1>1. /\ \A k \in BetKeys \ Pending(r) : bets'[k] = bets[k]
      /\ \A k \in Pending(r) : bets'[k].status # "PENDING"
  BY MarkedRows
<1>2. \A x : \A k \in PendingIn(bets', x) : k \in BetKeys /\ k \notin Pending(r) /\ bets'[k].status = "PENDING"
  BY <1>1 DEF PendingIn, InBets
<1>3. \A x : \A k \in PendingIn(bets', x) : bets'[k] = bets[k]
  BY <1>1, <1>2
<1> QED
  BY <1>3 DEF Shrinks, PendingIn, InBets

LEMMA SurvivingKept == ASSUME NEW S, request' = Surviving(S) PROVE RequestsKept
<1>1. \A q \in Requests : request'[q] = request[q] \/ request'[q] = None
  BY DEF Surviving
<1> QED
  BY <1>1 DEF RequestsKept, OpenBet

LEMMA UnchangedKept == request' = request => RequestsKept
  BY DEF RequestsKept, OpenBet

LEMMA ForcedKept ==
    ASSUME RestOK, NEW r, request' = Forced(r)
    PROVE  RequestsKept
<1> SUFFICES ASSUME NEW q \in Requests, OpenBet(q)'
             PROVE  /\ OpenBet(q) /\ request'[q].round = request[q].round
                    /\ request'[q].choice = request[q].choice /\ request'[q].stake = request[q].stake
  BY DEF RequestsKept
<1>1. request'[q] = IF OpenBet(q) /\ request[q].round = r
                    THEN [request[q] EXCEPT !.forced = TRUE] ELSE request[q]
  BY DEF Forced
<1>2. CASE OpenBet(q)
  <2>1. request[q] \in BetRequest
    BY <1>2, BetRequests DEF OpenBet
  <2>2. CASE request'[q] = request[q]
    BY <1>2, <2>2
  <2>3. CASE request'[q] = [request[q] EXCEPT !.forced = TRUE]
    BY <1>2, <2>1, <2>3 DEF BetRequest
  <2> QED
    BY <1>1, <2>2, <2>3
<1>3. CASE ~OpenBet(q)
  BY <1>1, <1>3 DEF OpenBet
<1> QED
  BY <1>2, <1>3

\* A request that is no open bet enters at q, or q ends.
LEMMA OneRequestKept ==
    ASSUME RestOK, NEW q \in Requests, NEW x, request' = [request EXCEPT ![q] = x],
           ~(x # None /\ x.op = "BET" /\ x.stage = "open")
    PROVE  RequestsKept
<1>1. request'[q] = x /\ \A y \in Requests \ {q} : request'[y] = request[y]
  BY DEF RestOK
<1> QED
  BY <1>1 DEF RequestsKept, OpenBet

LEMMA CommitBetExposure ==
    ASSUME RestOK, MoneyOK, ExposureOK, MoneyOK', NEW q \in Requests, CommitBet(q), bets[request[q].key] = None
    PROVE  ExposureOK'
<1> DEFINE b == request[q]
           key == b.key
           x == [user |-> b.user, round |-> b.round, choice |-> b.choice, stake |-> b.stake,
                 day |-> 0, status |-> "PENDING"]
<1>1. /\ OpenBet(q) /\ key \in BetKeys /\ b.round \in Rounds /\ b.choice \in Colors /\ b.stake \in Nat
  BY BetRequests DEF CommitBet, OpenBet
<1>2. bets' = [bets EXCEPT ![key] = x] /\ bets[key] = None
  BY DEF CommitBet
<1>3. /\ bets'[key].round = b.round /\ bets'[key].choice = b.choice /\ bets'[key].stake = b.stake
      /\ bets'[key].status = "PENDING" /\ bets'[key] # None /\ \A k \in BetKeys \ {key} : bets'[k] = bets[k]
  <2>1. bets'[key] = x /\ \A k \in BetKeys \ {key} : bets'[k] = bets[k]
    BY <1>1, <1>2 DEF MoneyOK, Tables
  <2>2. x \in Bet
    BY <1>1, BetRequests DEF OpenBet, Bet
  <2> QED
    BY <2>1, <2>2
<1> HIDE DEF x, key
<1>4. Tables(bets, withdrawals) /\ Tables(bets', withdrawals')
  BY DEF MoneyOK
<1>5. key \notin InBets(bets)
  BY <1>2 DEF InBets
<1>6. \A r : PendingIn(bets', r) = IF r = b.round THEN PendingIn(bets, r) \cup {key} ELSE PendingIn(bets, r)
  BY <1>1, <1>3, <1>5 DEF PendingIn, InBets
<1>7. \A r, c : OfColor(bets', r, c) = IF r = b.round /\ c = b.choice THEN OfColor(bets, r, c) \cup {key} ELSE OfColor(bets, r, c)
  <2>1. \A r : \A k \in PendingIn(bets, r) : bets'[k] = bets[k] /\ k # key
    BY <1>3, <1>5 DEF PendingIn, InBets
  <2> QED
    BY <1>3, <1>6, <2>1 DEF OfColor
<1>8. \A r, c : /\ Stk(bets', PendingIn(bets, r)) = Stk(bets, PendingIn(bets, r))
                /\ Stk(bets', OfColor(bets, r, c)) = Stk(bets, OfColor(bets, r, c))
                /\ key \notin PendingIn(bets, r) /\ key \notin OfColor(bets, r, c)
  <2>1. \A r : \A k \in PendingIn(bets, r) : bets'[k].stake = bets[k].stake /\ k # key
    BY <1>3, <1>5 DEF PendingIn, InBets
  <2>2. \A r, c : \A k \in OfColor(bets, r, c) : bets'[k].stake = bets[k].stake /\ k # key
    BY <2>1 DEF OfColor
  <2> QED
    BY <2>1, <2>2, StkSame
<1>9. \A r, c : /\ IsFiniteSet(PendingIn(bets, r)) /\ IsFiniteSet(OfColor(bets, r, c))
                /\ Stk(bets, PendingIn(bets, r)) \in Nat /\ Stk(bets, OfColor(bets, r, c)) \in Nat
  BY <1>4, PendingSums
<1>10. \A r, c : /\ \A k \in PendingIn(bets', r) : bets'[k].stake \in Nat
                 /\ \A k \in OfColor(bets', r, c) : bets'[k].stake \in Nat
  <2>1. \A r : \A k \in PendingIn(bets', r) : bets'[k].stake \in Nat
    BY <1>4, PendingSums
  <2> QED
    BY <2>1 DEF OfColor
<1>11. \A r, c :
          /\ r = b.round => Stk(bets', PendingIn(bets', r)) = Stk(bets, PendingIn(bets, r)) + b.stake
          /\ r # b.round => Stk(bets', PendingIn(bets', r)) = Stk(bets, PendingIn(bets, r))
          /\ r = b.round /\ c = b.choice => Stk(bets', OfColor(bets', r, c)) = Stk(bets, OfColor(bets, r, c)) + b.stake
          /\ r # b.round \/ c # b.choice => Stk(bets', OfColor(bets', r, c)) = Stk(bets, OfColor(bets, r, c))
  <2> SUFFICES ASSUME NEW r, NEW c
       PROVE /\ r = b.round => Stk(bets', PendingIn(bets', r)) = Stk(bets, PendingIn(bets, r)) + b.stake
             /\ r # b.round => Stk(bets', PendingIn(bets', r)) = Stk(bets, PendingIn(bets, r))
             /\ r = b.round /\ c = b.choice => Stk(bets', OfColor(bets', r, c)) = Stk(bets, OfColor(bets, r, c)) + b.stake
             /\ r # b.round \/ c # b.choice => Stk(bets', OfColor(bets', r, c)) = Stk(bets, OfColor(bets, r, c))
    OBVIOUS
  <2>1. ASSUME r = b.round
        PROVE  Stk(bets', PendingIn(bets', r)) = Stk(bets, PendingIn(bets, r)) + b.stake
    <3>1. PendingIn(bets', r) = PendingIn(bets, r) \cup {key}
      BY <1>6, <2>1
    <3>2. IsFiniteSet(PendingIn(bets, r)) /\ key \notin PendingIn(bets, r)
          /\ \A k \in PendingIn(bets, r) \cup {key} : bets'[k].stake \in Nat
      BY <3>1, <1>8, <1>9, <1>10
    <3>3. Stk(bets', PendingIn(bets, r) \cup {key}) = Stk(bets', PendingIn(bets, r)) + bets'[key].stake
      BY <3>2, StkAdd
    <3> QED
      BY <3>1, <3>3, <1>3, <1>8
  <2>2. ASSUME r = b.round, c = b.choice
        PROVE  Stk(bets', OfColor(bets', r, c)) = Stk(bets, OfColor(bets, r, c)) + b.stake
    <3>1. OfColor(bets', r, c) = OfColor(bets, r, c) \cup {key}
      BY <1>7, <2>2
    <3>2. IsFiniteSet(OfColor(bets, r, c)) /\ key \notin OfColor(bets, r, c)
          /\ \A k \in OfColor(bets, r, c) \cup {key} : bets'[k].stake \in Nat
      BY <3>1, <1>8, <1>9, <1>10
    <3>3. Stk(bets', OfColor(bets, r, c) \cup {key}) = Stk(bets', OfColor(bets, r, c)) + bets'[key].stake
      BY <3>2, StkAdd
    <3> QED
      BY <3>1, <3>3, <1>3, <1>8
  <2>3. r # b.round => Stk(bets', PendingIn(bets', r)) = Stk(bets, PendingIn(bets, r))
    BY <1>6, <1>8
  <2>4. r # b.round \/ c # b.choice => Stk(bets', OfColor(bets', r, c)) = Stk(bets, OfColor(bets, r, c))
    BY <1>7, <1>8
  <2> QED
    BY <2>1, <2>2, <2>3, <2>4
<1>12. ExposureAsSums
  BY ExposureForms
<1>13. ASSUME NEW y \in Requests, OpenBet(y)'
       PROVE  Fits(bets', request'[y].round, request'[y].choice, request'[y].stake)
  <2>1. request' = Surviving({z \in Requests : z \notin Rivals(q) \cup {q} /\ HoldsNone(z, {b.user})})
    BY DEF CommitBet
  <2>2. request'[y] = request[y] /\ y \notin Rivals(q) /\ OpenBet(y)
    BY <1>13, <2>1 DEF Surviving, OpenBet
  <2>3. request[y].round # b.round
    BY <2>2 DEF Rivals
  <2>4. Fits(bets, request[y].round, request[y].choice, request[y].stake)
    BY <1>12, <2>2 DEF ExposureAsSums
  <2> QED
    BY <1>11, <2>2, <2>3, <2>4 DEF Fits
<1>14. ASSUME NEW r \in Rounds
       PROVE  /\ Stk(bets', PendingIn(bets', r)) <= MaxRoundExposure
              /\ \A c \in Colors : Stk(bets', OfColor(bets', r, c)) <= MaxColorExposure
  <2>1. /\ Stk(bets, PendingIn(bets, r)) <= MaxRoundExposure
        /\ \A c \in Colors : Stk(bets, OfColor(bets, r, c)) <= MaxColorExposure
    BY <1>12 DEF ExposureAsSums
  <2>2. Fits(bets, b.round, b.choice, b.stake)
    BY <1>1, <1>12 DEF ExposureAsSums
  <2>3. Stk(bets', PendingIn(bets', r)) <= MaxRoundExposure
    BY <1>11, <2>1, <2>2 DEF Fits
  <2>4. ASSUME NEW c \in Colors PROVE Stk(bets', OfColor(bets', r, c)) <= MaxColorExposure
    BY <1>11, <2>1, <2>2 DEF Fits
  <2> QED
    BY <2>3, <2>4
<1> QED
  BY <1>13, <1>14, ExposureFormsNext DEF ExposureAsSums

LEMMA BeginBetExposure ==
    ASSUME RestOK, MoneyOK, ExposureOK, NEW q \in Requests, BeginBet(q)
    PROVE  ExposureOK'
<1> DEFINE b == request[q]
<1>1. b \in BetRequest /\ UNCHANGED bets
  BY BetRequests DEF BeginBet, money
<1>2. /\ request'[q] = IF CanBet(b) /\ bets[b.key] = None THEN [b EXCEPT !.stage = "open"] ELSE None
      /\ \A y \in Requests \ {q} : request'[y] = request[y]
  BY DEF BeginBet, RestOK
<1>3. ExposureAsSums
  BY ExposureForms
<1>4. ASSUME NEW y \in Requests, OpenBet(y)'
      PROVE  Fits(bets', request'[y].round, request'[y].choice, request'[y].stake)
  <2>1. CASE y # q
    BY <1>1, <1>2, <1>3, <1>4, <2>1 DEF ExposureAsSums, OpenBet
  <2>2. CASE y = q
    <3>1. CanBet(b) /\ request'[q] = [b EXCEPT !.stage = "open"]
      BY <1>2, <1>4, <2>2 DEF OpenBet
    <3>2. request'[q].round = b.round /\ request'[q].choice = b.choice /\ request'[q].stake = b.stake
      BY <1>1, <3>1 DEF BetRequest
    <3>3. /\ Pending(b.round) = PendingIn(bets, b.round)
          /\ {k \in Pending(b.round) : bets[k].choice = b.choice} = OfColor(bets, b.round, b.choice)
      BY DEF Pending, PendingIn, Placed, InBets, OfColor
    <3>4. \A S : StakeSum(S) = Stk(bets, S)
      BY DEF StakeSum, Stk
    <3>5. Fits(bets, b.round, b.choice, b.stake)
      BY <3>1, <3>3, <3>4 DEF CanBet, Fits
    <3> QED
      BY <1>1, <2>2, <3>2, <3>5
  <2> QED
    BY <2>1, <2>2
<1>5. \A r \in Rounds : /\ Stk(bets', PendingIn(bets', r)) <= MaxRoundExposure
                         /\ \A c \in Colors : Stk(bets', OfColor(bets', r, c)) <= MaxColorExposure
  BY <1>1, <1>3 DEF ExposureAsSums
<1> QED
  BY <1>4, <1>5, ExposureFormsNext DEF ExposureAsSums

-----------------------------------------------------------------------------
(* Results *)

\* A result that is known stays; a bet that counts as won or lost did so before,
\* or agrees with the result; who settles a round has its result.
ResultsStay ==
    \A r \in Rounds : round'[r].result = round[r].result \/ round[r].result = None
BetsAgree ==
    \A k \in InBets(bets') :
       LET b == bets'[k]
       IN  b.status \in {"WON", "LOST"} =>
              \/ /\ k \in InBets(bets) /\ b.status = bets[k].status
                 /\ b.round = bets[k].round /\ b.choice = bets[k].choice
              \/ /\ round'[b.round].result # None
                 /\ (b.status = "WON") = (b.choice = round'[b.round].result)
SettlersAgree ==
    \A p \in Procs :
       \/ pc'[p] = pc[p] /\ job'[p] = job[p]
       \/ pc'[p] = "idle"
       \/ pc'[p] = "refund" /\ job'[p].round \in Rounds
       \/ /\ job'[p].round \in Rounds /\ job'[p].result \in Colors
          /\ round'[job'[p].round].result = job'[p].result

LEMMA GameKept ==
    ASSUME MoneyOK, GameOK, MoneyOK', ResultsStay, BetsAgree, SettlersAgree
    PROVE  GameOK'
<1>1. ASSUME NEW k \in InBets(bets'), bets'[k].status \in {"WON", "LOST"}
      PROVE  /\ round'[bets'[k].round].result # None
             /\ (bets'[k].status = "WON") = (bets'[k].choice = round'[bets'[k].round].result)
  <2> DEFINE b == bets'[k]
  <2>1. CASE /\ k \in InBets(bets) /\ b.status = bets[k].status
             /\ b.round = bets[k].round /\ b.choice = bets[k].choice
    <3>1. /\ round[b.round].result # None
          /\ (bets[k].status = "WON") = (bets[k].choice = round[b.round].result)
      BY <1>1, <2>1 DEF GameOK, BetFollowsResult, Placed, InBets
    <3>2. b \in Bet
      BY <1>1 DEF MoneyOK, Tables, InBets
    <3>3. b.round \in Rounds
      BY <3>2 DEF Bet
    <3>4. round'[b.round].result = round[b.round].result
      BY <3>1, <3>3 DEF ResultsStay
    <3> HIDE DEF b
    <3>5. (b.status = "WON") = (b.choice = round'[b.round].result)
      BY <2>1, <3>1, <3>4
    <3> QED
      BY <3>1, <3>4, <3>5 DEF b
  <2>2. CASE /\ round'[b.round].result # None
             /\ (b.status = "WON") = (b.choice = round'[b.round].result)
    BY <2>2
  <2> QED
    BY <1>1, <2>1, <2>2 DEF BetsAgree
<1>2. BetFollowsResult'
  BY <1>1 DEF BetFollowsResult, Placed, InBets
<1>3. ASSUME NEW p \in Procs
      PROVE  /\ pc'[p] # "idle" => job'[p].round \in Rounds
             /\ pc'[p] \in {"settle", "failed", "complete"} =>
                  job'[p].result \in Colors /\ round'[job'[p].round].result = job'[p].result
  <2>1. CASE pc'[p] = pc[p] /\ job'[p] = job[p]
    <3>1. /\ pc[p] # "idle" => job[p].round \in Rounds
          /\ pc[p] \in {"settle", "failed", "complete"} =>
                  job[p].result \in Colors /\ round[job[p].round].result = job[p].result
      BY DEF GameOK, SettlersKnowResult
    <3> QED
      BY <2>1, <3>1 DEF ResultsStay
  <2>2. CASE ~(pc'[p] = pc[p] /\ job'[p] = job[p])
    <3>1. \/ pc'[p] = "idle"
          \/ pc'[p] = "refund" /\ job'[p].round \in Rounds
          \/ /\ job'[p].round \in Rounds /\ job'[p].result \in Colors
             /\ round'[job'[p].round].result = job'[p].result
      BY <2>2 DEF SettlersAgree
    <3> QED
      BY <3>1
  <2> QED
    BY <2>1, <2>2
<1>4. SettlersKnowResult'
  BY <1>3 DEF SettlersKnowResult
<1> QED
  BY <1>2, <1>4 DEF GameOK

\* Cases that many actions share.
LEMMA RoundsStay == round' = round => ResultsStay
  BY DEF ResultsStay
LEMMA SettlersStay == UNCHANGED <<pc, job>> => SettlersAgree
  BY DEF SettlersAgree
LEMMA BetsStay == bets' = bets => BetsAgree
  BY DEF BetsAgree

\* Process p goes on to do `to' for round r.
LEMMA AtSettles ==
    ASSUME RestOK, NEW p \in Procs, NEW to, NEW r, NEW c, At(p, to, r, c),
           \/ to = "idle"
           \/ to = "refund" /\ r \in Rounds
           \/ r \in Rounds /\ c \in Colors /\ round'[r].result = c
    PROVE  SettlersAgree
<1>1. /\ pc'[p] = to /\ job'[p] = [round |-> r, result |-> c]
      /\ \A x \in Procs \ {p} : pc'[x] = pc[x] /\ job'[x] = job[x]
  BY DEF At, RestOK
<1>2. job'[p].round = r /\ job'[p].result = c
  BY <1>1
<1>3. ASSUME NEW x \in Procs \ {p} PROVE pc'[x] = pc[x] /\ job'[x] = job[x]
  BY <1>1
<1>4. \/ pc'[p] = "idle"
      \/ pc'[p] = "refund" /\ job'[p].round \in Rounds
      \/ /\ job'[p].round \in Rounds /\ job'[p].result \in Colors
         /\ round'[job'[p].round].result = job'[p].result
  BY <1>1, <1>2
<1> QED
  BY <1>3, <1>4 DEF SettlersAgree

\* A round gets a status, and result c if it has none or that one.
LEMMA ResultSet ==
    ASSUME RestOK, NEW r \in Rounds, NEW st, NEW c, MayResult(r, c),
           round' = [round EXCEPT ![r] = [status |-> st, result |-> c]]
    PROVE  ResultsStay /\ round'[r].result = c
<1>1. round'[r].result = c /\ \A x \in Rounds \ {r} : round'[x] = round[x]
  BY DEF RestOK
<1> QED
  BY <1>1 DEF ResultsStay, MayResult
LEMMA StatusSet ==
    ASSUME RestOK, NEW r \in Rounds, NEW st, round' = [round EXCEPT ![r].status = st]
    PROVE  ResultsStay
<1>1. round'[r].result = round[r].result /\ \A x \in Rounds \ {r} : round'[x] = round[x]
  BY DEF RestOK
<1> QED
  BY <1>1 DEF ResultsStay

\* The settler at p: a round, a colour, and the round shows it.
LEMMA Settler ==
    ASSUME RestOK, GameOK, NEW p \in Procs
    PROVE  /\ pc[p] # "idle" => job[p].round \in Rounds
           /\ pc[p] \in {"settle", "failed", "complete"} =>
                job[p].result \in Colors /\ round[job[p].round].result = job[p].result
           /\ job[p].round \in 0 .. MaxRound /\ job[p].result \in Colors \cup {None}
  BY DEF GameOK, SettlersKnowResult, RestOK

LEMMA SettleRoundGame ==
    ASSUME RestOK, MoneyOK, GameOK, NEW p \in Procs, SettleRound(p)
    PROVE  BetsAgree
<1> DEFINE r == job[p].round
           c == job[p].result
           P == Pending(r)
           status == [k \in P |-> IF bets[k].choice = c THEN "WON" ELSE "LOST"]
<1>1. r \in Rounds /\ c \in Colors /\ round'[r].result = c
  BY Settler DEF SettleRound
<1>2. CASE bets' = bets
  BY <1>2, BetsStay
<1>3. CASE bets' = Marked(P, status)
  <2>1. \A k \in P : status[k] \in {"WON", "LOST", "REFUNDED"}
    OBVIOUS
  <2>2. /\ \A k \in BetKeys \ P : bets'[k] = bets[k]
        /\ \A k \in P : bets'[k].status = status[k] /\ bets'[k].round = r /\ bets'[k].choice = bets[k].choice
    <3> HIDE DEF status, r
    <3> QED
      BY <1>3, <2>1, MarkedRows
  <2>3. ASSUME NEW k \in InBets(bets'), bets'[k].status \in {"WON", "LOST"}
        PROVE  \/ /\ k \in InBets(bets) /\ bets'[k].status = bets[k].status
                  /\ bets'[k].round = bets[k].round /\ bets'[k].choice = bets[k].choice
               \/ /\ round'[bets'[k].round].result # None
                  /\ (bets'[k].status = "WON") = (bets'[k].choice = round'[bets'[k].round].result)
    <3>1. CASE k \notin P
      <4>1. k \in BetKeys /\ bets'[k] # None
        BY DEF InBets
      <4>2. bets'[k] = bets[k]
        BY <2>2, <3>1, <4>1
      <4> QED
        BY <4>1, <4>2 DEF InBets
    <3>2. CASE k \in P
      <4>1. bets'[k].status = (IF bets'[k].choice = c THEN "WON" ELSE "LOST") /\ bets'[k].round = r
        BY <2>2, <3>2
      <4>2. round'[bets'[k].round].result = c /\ c # None
        BY <1>1, <4>1
      <4> HIDE DEF c, r, P, status
      <4>3. CASE bets'[k].choice = c
        BY <4>1, <4>2, <4>3
      <4>4. CASE bets'[k].choice # c
        BY <4>1, <4>2, <4>4
      <4> QED
        BY <4>3, <4>4
    <3> QED
      BY <3>1, <3>2
  <2> QED
    BY <2>3 DEF BetsAgree
<1> QED
  BY <1>2, <1>3 DEF SettleRound, Decide

LEMMA RefundRoundGame ==
    ASSUME RestOK, MoneyOK, NEW p \in Procs, RefundRound(p)
    PROVE  BetsAgree
<1> DEFINE P == Pending(job[p].round)
           status == [k \in P |-> "REFUNDED"]
<1>1. bets' = Marked(P, status) /\ \A k \in P : status[k] \in {"WON", "LOST", "REFUNDED"}
  BY DEF RefundRound, Decide
<1>2. /\ \A k \in BetKeys \ P : bets'[k] = bets[k]
      /\ \A k \in P : bets'[k].status = status[k]
  <2> HIDE DEF status
  <2> QED
    BY <1>1, MarkedRows
<1>3. \A k \in InBets(bets') : bets'[k].status \in {"WON", "LOST"} => bets'[k] = bets[k] /\ k \in InBets(bets)
  BY <1>2 DEF InBets
<1> QED
  BY <1>3 DEF BetsAgree

LEMMA CommitBetGame ==
    ASSUME RestOK, MoneyOK, NEW q \in Requests, CommitBet(q), MoneyOK'
    PROVE  BetsAgree
<1> DEFINE b == request[q]
           x == [user |-> b.user, round |-> b.round, choice |-> b.choice, stake |-> b.stake,
                 day |-> 0, status |-> "PENDING"]
<1>1. bets' = [bets EXCEPT ![b.key] = x] /\ b.key \in BetKeys
  BY BetRequests DEF CommitBet, OpenBet
<1>2. bets'[b.key].status = "PENDING" /\ \A k \in BetKeys \ {b.key} : bets'[k] = bets[k]
  BY <1>1 DEF MoneyOK, Tables
<1>3. \A k \in InBets(bets') : bets'[k].status \in {"WON", "LOST"} => bets'[k] = bets[k] /\ k \in InBets(bets)
  BY <1>2 DEF InBets
<1> QED
  BY <1>3 DEF BetsAgree

-----------------------------------------------------------------------------
(* Types of the rest *)

RoundType   == round \in [Rounds -> [status : {"ABSENT"} \cup Live \cup Ended, result : Colors \cup {None}]]
ResultType  == settlement \in [Rounds -> [status : {"NONE", "SUCCESS", "FAILED"}, result : Colors \cup {None}]]
DeskType    ==
    /\ standing \in [Users -> [verified : BOOLEAN, blocked : SUBSET Operation, excluded : BOOLEAN]]
    /\ decided \subseteq DecisionKeys /\ day \in 0 .. MaxDay
RequestType == request \in [Requests -> BetRequest \cup WithdrawalRequest \cup {None}]
ProcType ==
    /\ pc \in [Procs -> {"idle", "settle", "failed", "complete", "refund"}]
    /\ job \in [Procs -> [round : 0 .. MaxRound, result : Colors \cup {None}]]
BoundType == faults \in 0 .. MaxFaults /\ scenario \in Scenarios

LEMMA RestParts == RestOK <=> RoundType /\ ResultType /\ DeskType /\ RequestType /\ ProcType /\ BoundType
  BY DEF RestOK, RoundType, ResultType, DeskType, RequestType, ProcType, BoundType
LEMMA RestPartsNext ==
    RestOK' <=> RoundType' /\ ResultType' /\ DeskType' /\ RequestType' /\ ProcType' /\ BoundType'
  BY DEF RestOK, RoundType, ResultType, DeskType, RequestType, ProcType, BoundType

LEMMA TypesStay ==
    /\ RoundType /\ UNCHANGED round => RoundType'
    /\ ResultType /\ UNCHANGED settlement => ResultType'
    /\ DeskType /\ UNCHANGED desk => DeskType'
    /\ RequestType /\ UNCHANGED request => RequestType'
    /\ ProcType /\ UNCHANGED <<pc, job>> => ProcType'
    /\ BoundType /\ UNCHANGED <<faults, scenario>> => BoundType'
  BY DEF RoundType, ResultType, DeskType, RequestType, ProcType, BoundType, desk

LEMMA AtType ==
    ASSUME ProcType, NEW p \in Procs, NEW to \in {"idle", "settle", "failed", "complete", "refund"},
           NEW r \in 0 .. MaxRound, NEW c \in Colors \cup {None}, At(p, to, r, c)
    PROVE  ProcType'
<1>1. [round |-> r, result |-> c] \in [round : 0 .. MaxRound, result : Colors \cup {None}]
  OBVIOUS
<1> QED
  BY <1>1 DEF ProcType, At
LEMMA DoneSettles == ASSUME RestOK, NEW p \in Procs, Done(p) PROVE SettlersAgree
<1>1. /\ pc'[p] = "idle" /\ \A x \in Procs \ {p} : pc'[x] = pc[x] /\ job'[x] = job[x]
  BY DEF Done, At, RestOK
<1> QED
  BY <1>1 DEF SettlersAgree
LEMMA DoneType == ASSUME ProcType, NEW p \in Procs, Done(p) PROVE ProcType'
  BY AtType DEF Done

LEMMA SurvivingType == ASSUME RequestType, NEW S, request' = Surviving(S) PROVE RequestType'
  BY DEF RequestType, Surviving

LEMMA OneRequestType ==
    ASSUME RequestType, NEW q \in Requests, NEW x \in BetRequest \cup WithdrawalRequest \cup {None},
           request' = [request EXCEPT ![q] = x]
    PROVE  RequestType'
  BY DEF RequestType

LEMMA ForcedType ==
    ASSUME RestOK, NEW r, request' = Forced(r) PROVE RequestType'
<1>1. ASSUME NEW q \in Requests
      PROVE  (IF OpenBet(q) /\ request[q].round = r THEN [request[q] EXCEPT !.forced = TRUE] ELSE request[q])
                \in BetRequest \cup WithdrawalRequest \cup {None}
  <2>1. CASE OpenBet(q)
    <3>1. request[q] \in BetRequest
      BY <2>1, BetRequests DEF OpenBet
    <3>2. [request[q] EXCEPT !.forced = TRUE] \in BetRequest
      BY <3>1 DEF BetRequest
    <3> QED
      BY <3>1, <3>2
  <2>2. CASE ~OpenBet(q)
    BY <2>2 DEF RestOK
  <2> QED
    BY <2>1, <2>2
<1> QED
  BY <1>1 DEF RequestType, Forced

LEMMA RoundSetType ==
    ASSUME RoundType, NEW r \in Rounds, NEW st \in {"ABSENT"} \cup Live \cup Ended, NEW c \in Colors \cup {None},
           round' = [round EXCEPT ![r] = [status |-> st, result |-> c]]
    PROVE  RoundType'
<1>1. [status |-> st, result |-> c] \in [status : {"ABSENT"} \cup Live \cup Ended, result : Colors \cup {None}]
  OBVIOUS
<1> HIDE DEF RoundType
<1> QED
  BY <1>1 DEF RoundType
LEMMA StatusSetType ==
    ASSUME RoundType, NEW r \in Rounds, NEW st \in {"ABSENT"} \cup Live \cup Ended,
           round' = [round EXCEPT ![r].status = st]
    PROVE  RoundType'
  BY DEF RoundType

-----------------------------------------------------------------------------
(* The invariant is inductive *)

\* The scenario names users, bets and bounds that exist.
LEMMA ScenarioType ==
    ASSUME BoundType
    PROVE  /\ scenario.users \subseteq Users /\ scenario.askers \subseteq Users /\ scenario.bets \subseteq BetKeys
           /\ scenario.faults \in 0 .. MaxFaults /\ scenario.days \in 0 .. MaxDay
<1>1. scenario \in Scenario
  BY DEF BoundType
<1> QED
  BY <1>1 DEF Scenario

\* An action that moves no money, decides no bet and opens no bet transaction.
LEMMA Quiet ==
    ASSUME RestOK, MoneyOK, ExposureOK, GameOK, RestOK', UNCHANGED money, RequestsKept,
           ResultsStay, SettlersAgree
    PROVE  RestOK' /\ MoneyOK' /\ ExposureOK' /\ GameOK'
<1>1. MoneyOK'
  BY MoneyStays
<1>2. bets' = bets
  BY DEF money
<1>3. ExposureOK'
  BY <1>1, <1>2, NoBetChanged, ExposureKept
<1>4. GameOK'
  BY <1>1, <1>2, BetsStay, GameKept
<1> QED
  BY <1>1, <1>3, <1>4

InvOK == RestOK /\ MoneyOK /\ ExposureOK /\ GameOK

LEMMA PlayerStep ==
    ASSUME InvOK, UNCHANGED scenario, Player
    PROVE  InvOK'
<1> USE DEF InvOK
<1>0. RoundType /\ ResultType /\ DeskType /\ RequestType /\ ProcType /\ BoundType
  BY RestParts
<1>p. PICK q \in Requests :
         \/ \E k \in scenario.bets, u \in scenario.users, r \in Rounds, c \in Colors, s \in Stakes :
               CheckBet(q, k, u, r, c, s)
         \/ BeginBet(q)
         \/ CommitBet(q)
         \/ \E k \in WithdrawalKeys, u \in scenario.askers, a \in Amounts : CheckWithdrawal(q, k, u, a)
         \/ LockWithdrawal(q)
  BY DEF Player
<1>1. ASSUME NEW k \in scenario.bets, NEW u \in scenario.users, NEW r \in Rounds, NEW c \in Colors,
             NEW s \in Stakes, CheckBet(q, k, u, r, c, s)
      PROVE  InvOK'
  <2> DEFINE x == [op |-> "BET", stage |-> "checked", key |-> k, user |-> u, round |-> r,
                   choice |-> c, stake |-> s, forced |-> FALSE]
  <2>1. request' = [request EXCEPT ![q] = x] /\ UNCHANGED <<game, money, desk, faults>>
    BY <1>1 DEF CheckBet
  <2>2. x \in BetRequest /\ x.stage = "checked"
    BY <1>0, ScenarioType DEF BetRequest
  <2>3. UNCHANGED <<round, settlement, pc, job, faults, scenario, desk, money>>
    BY <2>1 DEF game
  <2> HIDE DEF x
  <2>4. RequestType'
    BY <1>0, <2>1, <2>2, OneRequestType
  <2>5. RequestsKept
    BY <2>1, <2>2, OneRequestKept
  <2>6. RestOK'
    BY <1>0, <2>3, <2>4, TypesStay, RestPartsNext
  <2> QED
    BY <2>3, <2>5, <2>6, RoundsStay, SettlersStay, Quiet
<1>2. ASSUME BeginBet(q) PROVE InvOK'
  <2>1. UNCHANGED <<round, settlement, pc, job, faults, scenario, desk, money>>
    BY <1>2 DEF BeginBet, game
  <2>2. request[q] \in BetRequest
    BY <1>2, BetRequests DEF BeginBet
  <2>3. RequestType'
    <3> DEFINE x == IF CanBet(request[q]) /\ bets[request[q].key] = None
                    THEN [request[q] EXCEPT !.stage = "open"] ELSE None
    <3>1. x \in BetRequest \cup WithdrawalRequest \cup {None}
      BY <2>2 DEF BetRequest
    <3>2. request' = [request EXCEPT ![q] = x]
      BY <1>2 DEF BeginBet
    <3> HIDE DEF x
    <3> QED
      BY <1>0, <3>1, <3>2, OneRequestType
  <2>4. RestOK'
    BY <1>0, <2>1, <2>3, TypesStay, RestPartsNext
  <2>5. MoneyOK'
    BY <2>1, MoneyStays
  <2>6. ExposureOK'
    BY <1>2, BeginBetExposure
  <2>7. GameOK'
    BY <2>1, <2>5, RoundsStay, SettlersStay, BetsStay, GameKept DEF money
  <2> QED
    BY <2>4, <2>5, <2>6, <2>7
<1>3. ASSUME CommitBet(q) PROVE InvOK'
  <2>1. UNCHANGED <<round, settlement, pc, job, faults, scenario, desk>>
    BY <1>3 DEF CommitBet, game
  <2>2. RequestType'
    BY <1>0, <1>3, SurvivingType DEF CommitBet
  <2>3. RestOK'
    BY <1>0, <2>1, <2>2, TypesStay, RestPartsNext
  <2>4. MoneyOK' /\ bets[request[q].key] = None
    BY <1>3, CommitBetMoney
  <2>5. ExposureOK'
    BY <1>3, <2>4, CommitBetExposure
  <2>6. BetsAgree
    BY <1>3, <2>4, CommitBetGame
  <2>7. GameOK'
    BY <2>1, <2>4, <2>6, RoundsStay, SettlersStay, GameKept
  <2> QED
    BY <2>3, <2>4, <2>5, <2>7
<1>4. ASSUME NEW k \in WithdrawalKeys, NEW u \in scenario.askers, NEW a \in Amounts, CheckWithdrawal(q, k, u, a)
      PROVE  InvOK'
  <2> DEFINE x == [op |-> "WITHDRAWAL", key |-> k, user |-> u, amount |-> a]
  <2>1. request' = [request EXCEPT ![q] = x] /\ UNCHANGED <<game, money, desk, faults>>
    BY <1>4 DEF CheckWithdrawal
  <2>2. x \in WithdrawalRequest /\ x.op = "WITHDRAWAL"
    BY <1>0, ScenarioType DEF WithdrawalRequest
  <2>3. UNCHANGED <<round, settlement, pc, job, faults, scenario, desk, money>>
    BY <2>1 DEF game
  <2> HIDE DEF x
  <2>4. RequestType'
    BY <1>0, <2>1, <2>2, OneRequestType
  <2>5. RequestsKept
    BY <2>1, <2>2, OneRequestKept
  <2>6. RestOK'
    BY <1>0, <2>3, <2>4, TypesStay, RestPartsNext
  <2> QED
    BY <2>3, <2>5, <2>6, RoundsStay, SettlersStay, Quiet
<1>5. ASSUME LockWithdrawal(q) PROVE InvOK'
  <2>1. UNCHANGED <<round, settlement, pc, job, faults, scenario, desk, bets>>
    BY <1>5 DEF LockWithdrawal, game
  <2>2. RequestType' /\ RequestsKept
    <3>1. CASE request' = Surviving({x \in Requests : x # q /\ HoldsNone(x, {request[q].user})})
      BY <1>0, <3>1, SurvivingType, SurvivingKept
    <3>2. CASE request' = [request EXCEPT ![q] = None]
      BY <1>0, <3>2, OneRequestType, OneRequestKept
    <3> QED
      BY <1>5, <3>1, <3>2 DEF LockWithdrawal
  <2>3. RestOK'
    BY <1>0, <2>1, <2>2, TypesStay, RestPartsNext
  <2>4. MoneyOK'
    BY <1>5, LockWithdrawalMoney
  <2>5. ExposureOK'
    BY <2>1, <2>2, <2>4, NoBetChanged, ExposureKept
  <2>6. GameOK'
    BY <2>1, <2>4, RoundsStay, SettlersStay, BetsStay, GameKept
  <2> QED
    BY <2>3, <2>4, <2>5, <2>6
<1> QED
  BY <1>p, <1>1, <1>2, <1>3, <1>4, <1>5

LEMMA OfficeStep ==
    ASSUME InvOK, UNCHANGED scenario, Office
    PROVE  InvOK'
<1> USE DEF InvOK
<1>0. RoundType /\ ResultType /\ DeskType /\ RequestType /\ ProcType /\ BoundType
  BY RestParts
<1>p. PICK u \in scenario.users :
         \/ \E e \in Deposits : CreditDeposit(e, u)
         \/ \E ok \in BOOLEAN : ReviewKyc(u, ok) \/ SetResponsibleLimits(u, ok) \/ SetWalletFrozen(u, ok)
         \/ \E S \in SUBSET Operation : SetRiskControls(u, S)
  BY DEF Office
<1>u. u \in Users
  BY <1>0, ScenarioType
<1>1. ASSUME NEW e \in Deposits, CreditDeposit(e, u) PROVE InvOK'
  <2>1. UNCHANGED <<round, settlement, pc, job, faults, scenario, desk, bets>>
    BY <1>1 DEF CreditDeposit, game
  <2>2. RequestType' /\ RequestsKept
    BY <1>0, <1>1, SurvivingType, SurvivingKept DEF CreditDeposit
  <2>3. RestOK'
    BY <1>0, <2>1, <2>2, TypesStay, RestPartsNext
  <2>4. MoneyOK'
    BY <1>1, <1>u, DepositMoney
  <2>5. ExposureOK'
    BY <2>1, <2>2, <2>4, NoBetChanged, ExposureKept
  <2>6. GameOK'
    BY <2>1, <2>4, RoundsStay, SettlersStay, BetsStay, GameKept
  <2> QED
    BY <2>3, <2>4, <2>5, <2>6
<1>2. ASSUME NEW ok \in BOOLEAN, ReviewKyc(u, ok) \/ SetResponsibleLimits(u, ok)
      PROVE InvOK'
  <2>1. UNCHANGED <<round, settlement, pc, job, faults, scenario, decided, day, request, money>>
    BY <1>2 DEF ReviewKyc, SetResponsibleLimits, game
  <2>2. DeskType'
    BY <1>0, <1>2, <2>1 DEF ReviewKyc, SetResponsibleLimits, DeskType
  <2>3. RestOK'
    BY <1>0, <2>1, <2>2, TypesStay, RestPartsNext
  <2> QED
    BY <2>1, <2>3, UnchangedKept, RoundsStay, SettlersStay, Quiet
<1>3. ASSUME NEW S \in SUBSET Operation, SetRiskControls(u, S)
      PROVE InvOK'
  <2>1. UNCHANGED <<round, settlement, pc, job, faults, scenario, decided, day, request, money>>
    BY <1>3 DEF SetRiskControls, game
  <2>2. DeskType'
    BY <1>0, <1>3, <2>1 DEF SetRiskControls, DeskType
  <2>3. RestOK'
    BY <1>0, <2>1, <2>2, TypesStay, RestPartsNext
  <2> QED
    BY <2>1, <2>3, UnchangedKept, RoundsStay, SettlersStay, Quiet
<1>4. ASSUME NEW ok \in BOOLEAN, SetWalletFrozen(u, ok) PROVE InvOK'
  <2>1. UNCHANGED <<round, settlement, pc, job, faults, scenario, desk, bets, withdrawals, ledger>>
    BY <1>4 DEF SetWalletFrozen, game
  <2>2. RequestType' /\ RequestsKept
    BY <1>0, <1>4, SurvivingType, SurvivingKept DEF SetWalletFrozen
  <2>3. RestOK'
    BY <1>0, <2>1, <2>2, TypesStay, RestPartsNext
  <2>4. MoneyOK'
    <3>1. wallet \in [Users -> [available : Nat, locked : Nat, active : BOOLEAN]]
      BY DEF MoneyOK
    <3>2. wallet' = [wallet EXCEPT ![u].active = ~ok]
      BY <1>4 DEF SetWalletFrozen
    <3>3. /\ wallet' \in [Users -> [available : Nat, locked : Nat, active : BOOLEAN]]
          /\ \A x \in Users : wallet'[x].available = wallet[x].available /\ wallet'[x].locked = wallet[x].locked
      BY <3>1, <3>2
    <3> QED
      BY <2>1, <3>3 DEF MoneyOK, Books
  <2>5. ExposureOK'
    BY <2>1, <2>2, <2>4, NoBetChanged, ExposureKept
  <2>6. GameOK'
    BY <2>1, <2>4, RoundsStay, SettlersStay, BetsStay, GameKept
  <2> QED
    BY <2>3, <2>4, <2>5, <2>6
<1> QED
  BY <1>p, <1>1, <1>2, <1>3, <1>4

\* The engine and the administrators move a round and begin to settle it.
LEMMA GameStep ==
    ASSUME InvOK, UNCHANGED scenario,
           \/ Engine \/ ForcedEnd \/ Midnight
           \/ \E r \in Rounds : OpenRound(r) \/ LockRound(r)
    PROVE  InvOK'
<1> USE DEF InvOK
<1>0. RoundType /\ ResultType /\ DeskType /\ RequestType /\ ProcType /\ BoundType
  BY RestParts
<1>1. ASSUME NEW r \in Rounds, OpenRound(r) \/ LockRound(r) PROVE InvOK'
  <2>1. UNCHANGED <<settlement, pc, job, money, desk, request, faults, scenario>>
    BY <1>1 DEF OpenRound, LockRound
  <2>2. PICK st \in {"OPEN", "LOCKED"} : round' = [round EXCEPT ![r].status = st]
    BY <1>1 DEF OpenRound, LockRound
  <2>3. RoundType' /\ ResultsStay
    BY <1>0, <2>2, StatusSetType, StatusSet DEF Live
  <2>4. RestOK'
    BY <1>0, <2>1, <2>3, TypesStay, RestPartsNext
  <2> QED
    BY <2>1, <2>3, <2>4, UnchangedKept, SettlersStay, Quiet
<1>2. ASSUME NEW p \in Engines, NEW r \in Rounds, NEW c \in Colors, Resolve(p, r, c) PROVE InvOK'
  <2>1. UNCHANGED <<settlement, money, desk, request, faults, scenario>> /\ p \in Procs
    BY <1>2 DEF Resolve, Procs
  <2>2. round' = [round EXCEPT ![r] = [status |-> "RESOLVING", result |-> c]] /\ MayResult(r, c)
        /\ At(p, "settle", r, c)
    BY <1>2 DEF Resolve
  <2>3. RoundType' /\ ResultsStay /\ round'[r].result = c
    BY <1>0, <2>2, RoundSetType, ResultSet DEF Live
  <2>4. ProcType' /\ SettlersAgree
    <3>1. r \in 0 .. MaxRound /\ "settle" \in {"idle", "settle", "failed", "complete", "refund"}
      BY DEF Rounds
    <3> QED
      BY <1>0, <2>1, <2>2, <2>3, <3>1, AtType, AtSettles
  <2>5. RestOK'
    BY <1>0, <2>1, <2>3, <2>4, TypesStay, RestPartsNext
  <2> QED
    BY <2>1, <2>3, <2>4, <2>5, UnchangedKept, Quiet
<1>3. ASSUME NEW p \in Engines, NEW r \in Rounds, Recover(p, r) PROVE InvOK'
  <2>1. UNCHANGED <<settlement, pc, job, money, desk, request, scenario>>
    BY <1>3 DEF Recover
  <2>2. RoundType' /\ ResultsStay
    BY <1>0, <1>3, StatusSetType, StatusSet DEF Recover, Ended
  <2>3. BoundType'
    <3>1. faults < scenario.faults /\ faults' = faults + 1 /\ scenario' = scenario
      BY <1>3 DEF Recover
    <3> QED
      BY <1>0, <3>1, ScenarioType DEF BoundType
  <2>4. RestOK'
    BY <1>0, <2>1, <2>2, <2>3, TypesStay, RestPartsNext
  <2> QED
    BY <2>1, <2>2, <2>4, UnchangedKept, SettlersStay, Quiet
<1>4. ASSUME NEW p \in Admins, NEW r \in Rounds, NEW c \in Colors, ForceResult(p, r, c) PROVE InvOK'
  <2>1. UNCHANGED <<settlement, money, desk, faults, scenario>> /\ p \in Procs
    BY <1>4 DEF ForceResult, Procs
  <2>2. round' = [round EXCEPT ![r] = [status |-> "RESOLVING", result |-> c]] /\ MayResult(r, c)
        /\ At(p, "settle", r, c) /\ request' = Forced(r)
    BY <1>4 DEF ForceResult
  <2>3. RoundType' /\ ResultsStay /\ round'[r].result = c
    BY <1>0, <2>2, RoundSetType, ResultSet DEF Live
  <2>4. ProcType' /\ SettlersAgree
    <3>1. r \in 0 .. MaxRound /\ "settle" \in {"idle", "settle", "failed", "complete", "refund"}
      BY DEF Rounds
    <3> QED
      BY <1>0, <2>1, <2>2, <2>3, <3>1, AtType, AtSettles
  <2>5. RequestType' /\ RequestsKept
    BY <2>2, ForcedType, ForcedKept
  <2>6. RestOK'
    BY <1>0, <2>1, <2>3, <2>4, <2>5, TypesStay, RestPartsNext
  <2> QED
    BY <2>1, <2>3, <2>4, <2>5, <2>6, Quiet
<1>5. ASSUME NEW p \in Admins, NEW r \in Rounds, ForceStop(p, r) PROVE InvOK'
  <2>1. UNCHANGED <<settlement, money, desk, faults, scenario>> /\ p \in Procs
    BY <1>5 DEF ForceStop, Procs
  <2>2. round' = [round EXCEPT ![r].status = "CANCELLED"] /\ At(p, "refund", r, None) /\ request' = Forced(r)
    BY <1>5 DEF ForceStop
  <2>3. RoundType' /\ ResultsStay
    BY <1>0, <2>2, StatusSetType, StatusSet DEF Ended
  <2>4. ProcType' /\ SettlersAgree
    <3>1. r \in 0 .. MaxRound /\ "refund" \in {"idle", "settle", "failed", "complete", "refund"}
          /\ None \in Colors \cup {None}
      BY DEF Rounds
    <3> QED
      BY <1>0, <2>1, <2>2, <3>1, AtType, AtSettles
  <2>5. RequestType' /\ RequestsKept
    BY <2>2, ForcedType, ForcedKept
  <2>6. RestOK'
    BY <1>0, <2>1, <2>3, <2>4, <2>5, TypesStay, RestPartsNext
  <2> QED
    BY <2>1, <2>3, <2>4, <2>5, <2>6, Quiet
<1>6. ASSUME Midnight PROVE InvOK'
  <2>1. UNCHANGED <<round, settlement, pc, job, money, standing, decided, request, faults, scenario>>
    BY <1>6 DEF Midnight, game
  <2>2. DeskType'
    <3>1. day < scenario.days /\ day' = day + 1
      BY <1>6 DEF Midnight
    <3> QED
      BY <1>0, <2>1, <3>1, ScenarioType DEF DeskType
  <2>3. RestOK'
    BY <1>0, <2>1, <2>2, TypesStay, RestPartsNext
  <2> QED
    BY <2>1, <2>3, UnchangedKept, RoundsStay, SettlersStay, Quiet
<1> QED
  <2>1. Engine => \E p \in Engines, r \in Rounds : (\E c \in Colors : Resolve(p, r, c)) \/ Recover(p, r)
    BY DEF Engine
  <2>2. ForcedEnd => \E p \in Admins, r \in Rounds : (\E c \in Colors : ForceResult(p, r, c)) \/ ForceStop(p, r)
    BY DEF ForcedEnd
  <2>3. CASE Engine
    BY <1>2, <1>3, <2>1, <2>3
  <2>4. CASE ForcedEnd
    BY <1>4, <1>5, <2>2, <2>4
  <2> QED
    BY <1>1, <1>6, <2>3, <2>4

LEMMA DecideWithdrawalStep ==
    ASSUME InvOK, UNCHANGED scenario, NEW k \in WithdrawalKeys, NEW d \in DecisionKeys,
           NEW action \in DOMAIN Outcome, DecideWithdrawal(k, action, d)
    PROVE  InvOK'
<1> USE DEF InvOK
<1>0. RoundType /\ ResultType /\ DeskType /\ RequestType /\ ProcType /\ BoundType
  BY RestParts
<1>1. UNCHANGED <<round, settlement, pc, job, faults, scenario, standing, day, bets>>
  BY DEF DecideWithdrawal, game
<1>2. RequestType' /\ RequestsKept
  BY <1>0, SurvivingType, SurvivingKept DEF DecideWithdrawal
<1>3. DeskType'
  BY <1>0, <1>1 DEF DeskType, DecideWithdrawal
<1>4. RestOK'
  BY <1>0, <1>1, <1>2, <1>3, TypesStay, RestPartsNext
<1>5. MoneyOK'
  BY DecideWithdrawalMoney
<1>6. ExposureOK'
  BY <1>1, <1>2, <1>5, NoBetChanged, ExposureKept
<1>7. GameOK'
  BY <1>1, <1>5, RoundsStay, SettlersStay, BetsStay, GameKept
<1> QED
  BY <1>4, <1>5, <1>6, <1>7

LEMMA SettlingStep ==
    ASSUME InvOK, UNCHANGED scenario, NEW p \in Procs, Settling(p) \/ SettlementAborts(p) \/ Crash(p)
    PROVE  InvOK'
<1> USE DEF InvOK
<1>0. RoundType /\ ResultType /\ DeskType /\ RequestType /\ ProcType /\ BoundType
  BY RestParts
<1> DEFINE r == job[p].round
           c == job[p].result
<1>j. /\ pc[p] # "idle" => r \in Rounds
      /\ pc[p] \in {"settle", "failed", "complete"} => c \in Colors /\ round[r].result = c
      /\ r \in 0 .. MaxRound /\ c \in Colors \cup {None}
  BY Settler
<1>k. {"idle", "settle", "failed", "complete", "refund"} = {"idle", "settle", "failed", "complete", "refund"}
      /\ "idle" \in {"idle", "settle", "failed", "complete", "refund"}
      /\ "failed" \in {"idle", "settle", "failed", "complete", "refund"}
      /\ "complete" \in {"idle", "settle", "failed", "complete", "refund"}
  OBVIOUS
<1> HIDE DEF r, c
<1>1. ASSUME SettleRound(p) PROVE InvOK'
  <2>1. UNCHANGED <<round, withdrawals, desk, faults, scenario>> /\ At(p, "complete", r, c) /\ pc[p] = "settle"
    BY <1>1 DEF SettleRound, r, c
  <2>2. ProcType' /\ SettlersAgree
    BY <1>0, <1>j, <1>k, <2>1, AtType, AtSettles
  <2>3. RequestType' /\ ResultType' /\ RequestsKept /\ Shrinks(bets, bets')
    <3> DEFINE P == Pending(r)
               status == [k \in P |-> IF bets[k].choice = c THEN "WON" ELSE "LOST"]
    <3>1. CASE UNCHANGED <<bets, settlement, request>>
      BY <1>0, <3>1, TypesStay, UnchangedKept, NoBetChanged
    <3>2. CASE /\ bets' = Marked(P, status)
               /\ request' = Surviving({q \in Requests : /\ HoldsNone(q, {bets[k].user : k \in P})
                                                         /\ Harmless(q, r, P)})
               /\ settlement' = [settlement EXCEPT ![r] = [status |-> "SUCCESS", result |-> c]]
      <4>1. \A k \in P : status[k] \in {"WON", "LOST", "REFUNDED"}
        OBVIOUS
      <4>2. RequestType' /\ RequestsKept
        BY <1>0, <3>2, SurvivingType, SurvivingKept
      <4>3. ResultType'
        <5>1. [status |-> "SUCCESS", result |-> c] \in [status : {"NONE", "SUCCESS", "FAILED"}, result : Colors \cup {None}]
          BY <1>j
        <5> QED
          BY <1>0, <3>2, <5>1 DEF ResultType
      <4> HIDE DEF status
      <4>4. Shrinks(bets, bets')
        BY <3>2, <4>1, DecidedShrinks
      <4> QED
        BY <4>2, <4>3, <4>4
    <3> QED
      BY <1>1, <3>1, <3>2 DEF SettleRound, Decide, r, c
  <2>4. RestOK'
    BY <1>0, <2>1, <2>2, <2>3, TypesStay, RestPartsNext
  <2>5. MoneyOK'
    BY <1>1, SettleRoundMoney
  <2>6. ExposureOK'
    BY <2>3, <2>5, ExposureKept
  <2>7. GameOK'
    BY <1>1, <2>1, <2>2, <2>5, SettleRoundGame, RoundsStay, GameKept
  <2> QED
    BY <2>4, <2>5, <2>6, <2>7
<1>2. ASSUME RecordFailure(p) PROVE InvOK'
  <2>1. UNCHANGED <<round, money, desk, request, faults, scenario>> /\ At(p, "complete", r, c) /\ pc[p] = "failed"
    BY <1>2 DEF RecordFailure, r, c
  <2>2. ProcType' /\ SettlersAgree
    BY <1>0, <1>j, <1>k, <2>1, AtType, AtSettles
  <2>3. ResultType'
    <3> DEFINE x == [status |-> "FAILED", result |-> IF settlement[r].status = "NONE" THEN c ELSE settlement[r].result]
    <3>1. settlement' = [settlement EXCEPT ![r] = x] /\ r \in Rounds
      BY <1>2, <1>j, <2>1 DEF RecordFailure, r, c
    <3>2. x \in [status : {"NONE", "SUCCESS", "FAILED"}, result : Colors \cup {None}]
      BY <1>0, <1>j, <3>1 DEF ResultType
    <3> HIDE DEF x
    <3> QED
      BY <1>0, <3>1, <3>2 DEF ResultType
  <2>4. RestOK'
    BY <1>0, <2>1, <2>2, <2>3, TypesStay, RestPartsNext
  <2> QED
    BY <2>1, <2>2, <2>4, UnchangedKept, RoundsStay, Quiet
<1>3. ASSUME Complete(p) PROVE InvOK'
  <2>1. UNCHANGED <<settlement, money, desk, request, faults, scenario>> /\ Done(p) /\ pc[p] = "complete"
    BY <1>3 DEF Complete
  <2>2. ProcType' /\ SettlersAgree
    BY <1>0, <1>j, <1>k, <2>1, DoneType, DoneSettles
  <2>3. RoundType' /\ ResultsStay
    <3>1. CASE round' = round
      BY <1>0, <3>1, TypesStay, RoundsStay
    <3>2. CASE round' = [round EXCEPT ![r] = [status |-> "COMPLETED", result |-> c]]
      <4>1. r \in Rounds /\ MayResult(r, c) /\ "COMPLETED" \in {"ABSENT"} \cup Live \cup Ended
        BY <1>j, <2>1 DEF MayResult, Ended
      <4> QED
        BY <1>0, <1>j, <3>2, <4>1, RoundSetType, ResultSet
    <3> QED
      BY <1>3, <3>1, <3>2 DEF Complete, r, c
  <2>4. RestOK'
    BY <1>0, <2>1, <2>2, <2>3, TypesStay, RestPartsNext
  <2> QED
    BY <2>1, <2>2, <2>3, <2>4, UnchangedKept, Quiet
<1>4. ASSUME RefundRound(p) PROVE InvOK'
  <2>1. UNCHANGED <<round, settlement, withdrawals, desk, faults, scenario>> /\ Done(p)
    BY <1>4 DEF RefundRound
  <2>2. ProcType' /\ SettlersAgree
    BY <1>0, <1>k, <2>1, DoneType, DoneSettles
  <2>3. RequestType' /\ RequestsKept /\ Shrinks(bets, bets')
    <3> DEFINE P == Pending(r)
               status == [k \in P |-> "REFUNDED"]
    <3>1. bets' = Marked(P, status) /\ \A k \in P : status[k] \in {"WON", "LOST", "REFUNDED"}
      BY <1>4 DEF RefundRound, Decide, r
    <3>2. RequestType' /\ RequestsKept
      BY <1>0, <1>4, SurvivingType, SurvivingKept DEF RefundRound, Decide
    <3> HIDE DEF status
    <3> QED
      BY <3>1, <3>2, DecidedShrinks
  <2>4. RestOK'
    BY <1>0, <2>1, <2>2, <2>3, TypesStay, RestPartsNext
  <2>5. MoneyOK'
    BY <1>4, RefundRoundMoney
  <2>6. ExposureOK'
    BY <2>3, <2>5, ExposureKept
  <2>7. GameOK'
    BY <1>4, <2>1, <2>2, <2>5, RefundRoundGame, RoundsStay, GameKept
  <2> QED
    BY <2>4, <2>5, <2>6, <2>7
<1>5. ASSUME SettlementAborts(p) PROVE InvOK'
  <2>1. UNCHANGED <<round, settlement, money, desk, request, scenario>> /\ At(p, "failed", r, c) /\ pc[p] = "settle"
    BY <1>5 DEF SettlementAborts, r, c
  <2>2. ProcType' /\ SettlersAgree
    BY <1>0, <1>j, <1>k, <2>1, AtType, AtSettles
  <2>3. BoundType'
    <3>1. faults' = faults \/ (faults < scenario.faults /\ faults' = faults + 1)
      <4>1. faults' = IF ResultConflict(p) THEN faults ELSE faults + 1
        BY <1>5 DEF SettlementAborts
      <4>2. ResultConflict(p) \/ faults < scenario.faults
        BY <1>5 DEF SettlementAborts
      <4>3. CASE ResultConflict(p)
        <5>1. faults' = faults
          BY ONLY <4>1, <4>3, Zenon
        <5> QED
          BY <5>1
      <4>4. CASE ~ResultConflict(p)
        BY ONLY <4>1, <4>2, <4>4
      <4> QED
        BY <4>3, <4>4
    <3> QED
      BY <1>0, <2>1, <3>1, ScenarioType DEF BoundType
  <2>4. RestOK'
    BY <1>0, <2>1, <2>2, <2>3, TypesStay, RestPartsNext
  <2> QED
    BY <2>1, <2>2, <2>4, UnchangedKept, RoundsStay, Quiet
<1>6. ASSUME Crash(p) PROVE InvOK'
  <2>1. UNCHANGED <<round, settlement, money, desk, request, scenario>> /\ Done(p)
    BY <1>6 DEF Crash
  <2>2. ProcType' /\ SettlersAgree
    BY <1>0, <1>k, <2>1, DoneType, DoneSettles
  <2>3. BoundType'
    <3>1. faults < scenario.faults /\ faults' = faults + 1
      BY <1>6 DEF Crash
    <3> QED
      BY <1>0, <2>1, <3>1, ScenarioType DEF BoundType
  <2>4. RestOK'
    BY <1>0, <2>1, <2>2, <2>3, TypesStay, RestPartsNext
  <2> QED
    BY <2>1, <2>2, <2>4, UnchangedKept, RoundsStay, Quiet
<1> QED
  BY <1>1, <1>2, <1>3, <1>4, <1>5, <1>6 DEF Settling

LEMMA InvStep == InvOK /\ [Next]_vars => InvOK'
<1> SUFFICES ASSUME InvOK, [Next]_vars PROVE InvOK'
  OBVIOUS
<1>1. CASE UNCHANGED vars
  <2>1. UNCHANGED <<round, wallet, ledger, bets, withdrawals, settlement, standing, decided, request, pc, job, day, faults, scenario>>
    BY <1>1 DEF vars, state, game, money, desk
  <2>2. RestOK'
    BY <2>1 DEF InvOK, RestOK
  <2> QED
    BY <2>1, <2>2, UnchangedKept, RoundsStay, SettlersStay, Quiet DEF InvOK, money
<1>2. CASE Next
  <2>1. UNCHANGED scenario
    BY <1>2 DEF Next
  <2> QED
    BY <1>2, <2>1, PlayerStep, OfficeStep, GameStep, DecideWithdrawalStep, SettlingStep DEF Next
<1> QED
  BY <1>1, <1>2

LEMMA InitOK == Init => InvOK
<1> SUFFICES ASSUME Init PROVE InvOK
  OBVIOUS
<1>1. InBets(bets) = {} /\ InAsks(withdrawals) = {} /\ ledger = {}
  BY DEF Init, InBets, InAsks
<1>2. IsFiniteSet({})
  BY FS_EmptySet
<1>3. Tables(bets, withdrawals) /\ IsFiniteSet(ledger)
  BY <1>1, <1>2 DEF Init, Tables
<1>4. RestOK
  <2>1. ProcType /\ RoundType /\ ResultType
    BY DEF Init, ProcType, RoundType, ResultType
  <2>2. DeskType /\ RequestType /\ BoundType
    BY DEF Init, DeskType, RequestType, BoundType
  <2> QED
    BY <2>1, <2>2, RestParts
<1>5. ASSUME NEW u \in Users PROVE Books(wallet[u], ledger, bets, withdrawals, u)
  <2>1. wallet[u].locked = 0 /\ wallet[u].available = 0
    BY DEF Init
  <2>2. LockedBy(bets, withdrawals, u) = 0 /\ EarnedBy(bets, withdrawals, u) = 0
    BY <1>1, SumEmpty DEF LockedBy, EarnedBy
  <2>3. DepositsOf(ledger, u) = {}
    BY <1>1 DEF DepositsOf
  <2>4. Cardinality({}) = 0
    BY FS_EmptySet
  <2> QED
    BY <2>1, <2>2, <2>3, <2>4 DEF Books
<1>6. wallet \in [Users -> [available : Nat, locked : Nat, active : BOOLEAN]]
  BY DEF Init
<1>7. MoneyOK
  BY <1>1, <1>3, <1>5, <1>6 DEF MoneyOK
<1>8. ExposureOK
  <2>1. \A r : PendingIn(bets, r) = {}
    BY <1>1 DEF PendingIn
  <2>2. \A r, c : OfColor(bets, r, c) = {}
    BY <2>1 DEF OfColor
  <2>3. \A q \in Requests : ~OpenBet(q)
    BY DEF OpenBet, Init
  <2>4. ExposureAsSums
    BY <2>1, <2>2, <2>3, StkEmpty DEF ExposureAsSums
  <2> QED
    BY <2>4, ExposureForms
<1>9. GameOK
  BY <1>1 DEF GameOK, SettlersKnowResult, BetFollowsResult, Init, Placed, InBets
<1> QED
  BY <1>4, <1>7, <1>8, <1>9 DEF InvOK

LEMMA InvParts == InvOK <=> IInv
  BY Parts DEF InvOK

LEMMA InvPartsNext == InvOK' <=> IInv'
  BY InvParts, PTL

\* Type correctness, the four properties below and what makes them true, in every
\* reachable state (modules/real-money).
THEOREM RealMoneyInvariant == Spec => []IInv
<1>1. Init => IInv
  BY InitOK, InvParts
<1>2. IInv /\ [Next]_vars => IInv'
  BY InvStep, InvParts, InvPartsNext
<1> QED
  BY <1>1, <1>2, PTL DEF Spec

\* Whatever is staked, settled, refunded, deposited, withdrawn, rejected or paid, in
\* any order and with any failures, the wallet holds what the records explain
\* (moveWallet, real-money.service.ts; settleRound and refundRound).
THEOREM WalletsMatch == Spec => []WalletMatchesRecords
<1>1. IInv => WalletMatchesRecords
  BY DEF IInv
<1> QED
  BY <1>1, RealMoneyInvariant, PTL

\* Every bet checks the limits against a snapshot, and no interleaving of them
\* exceeds the limits (placeBet).
THEOREM ExposureIsLimited == Spec => []ExposureWithinLimits
<1>1. IInv => ExposureWithinLimits
  BY DEF IInv
<1> QED
  BY <1>1, RealMoneyInvariant, PTL

\* A bet is won or lost as the result of its round says (settleRound, forceResult).
THEOREM BetsFollowResults == Spec => []BetFollowsResult
<1>1. IInv => BetFollowsResult
  BY DEF IInv
<1> QED
  BY <1>1, RealMoneyInvariant, PTL

LEMMA DecidedStep ==
    ASSUME InvOK, [Next]_vars
    PROVE  \A k \in Placed : bets[k].status # "PENDING" => bets'[k] = bets[k]
<1> SUFFICES ASSUME NEW k \in Placed, bets[k].status # "PENDING" PROVE bets'[k] = bets[k]
  OBVIOUS
<1> USE DEF InvOK
<1>0. k \in BetKeys /\ bets[k] # None
  BY DEF Placed
<1>1. ASSUME NEW r, NEW status, bets' = Marked(Pending(r), status) PROVE bets'[k] = bets[k]
  <2>1. k \notin Pending(r)
    BY DEF Pending
  <2> QED
    BY <1>0, <1>1, <2>1 DEF Marked
<1>2. CASE bets' = bets
  BY <1>2
<1>3. ASSUME NEW q \in Requests, CommitBet(q) PROVE bets'[k] = bets[k]
  <2>1. bets[request[q].key] = None
    BY <1>3, CommitBetMoney
  <2>2. \A y \in BetKeys \ {request[q].key} : bets'[y] = bets[y]
    BY <1>3 DEF CommitBet, MoneyOK, Tables
  <2>3. k # request[q].key
    BY <1>0, <2>1
  <2> QED
    BY <1>0, <2>2, <2>3
<1>4. \/ bets' = bets
      \/ \E q \in Requests : CommitBet(q)
      \/ \E r, status : bets' = Marked(Pending(r), status)
  <2>1. CASE UNCHANGED vars
    BY <2>1 DEF vars, state, money
  <2>2. CASE Player
    BY <2>2 DEF Player, CheckBet, BeginBet, CheckWithdrawal, LockWithdrawal, money
  <2>3. CASE Office
    BY <2>3 DEF Office, CreditDeposit, ReviewKyc, SetResponsibleLimits, SetWalletFrozen, SetRiskControls, money
  <2>4. CASE Engine \/ ForcedEnd \/ Midnight \/ \E r \in Rounds : OpenRound(r) \/ LockRound(r)
    <3>1. CASE Engine
      BY <3>1 DEF Engine, Resolve, Recover, money
    <3>2. CASE ForcedEnd
      BY <3>2 DEF ForcedEnd, ForceResult, ForceStop, money
    <3>3. CASE Midnight \/ \E r \in Rounds : OpenRound(r) \/ LockRound(r)
      BY <3>3 DEF Midnight, OpenRound, LockRound, money
    <3> QED
      BY <2>4, <3>1, <3>2, <3>3
  <2>5. CASE \E x \in WithdrawalKeys, d \in DecisionKeys, action \in DOMAIN Outcome : DecideWithdrawal(x, action, d)
    BY <2>5 DEF DecideWithdrawal
  <2>6. CASE \E p \in Procs : Settling(p) \/ SettlementAborts(p) \/ Crash(p)
    <3> PICK p \in Procs : Settling(p) \/ SettlementAborts(p) \/ Crash(p)
      BY <2>6
    <3>1. CASE SettleRound(p)
      BY <3>1 DEF SettleRound, Decide
    <3>2. CASE RefundRound(p)
      BY <3>2 DEF RefundRound, Decide
    <3>3. CASE RecordFailure(p) \/ Complete(p) \/ SettlementAborts(p) \/ Crash(p)
      BY <3>3 DEF RecordFailure, Complete, SettlementAborts, Crash, money
    <3> QED
      BY <3>1, <3>2, <3>3 DEF Settling
  <2> QED
    BY <2>1, <2>2, <2>3, <2>4, <2>5, <2>6 DEF Next
<1> QED
  BY <1>1, <1>3, <1>4

\* A bet is decided once: what the engine, forceResult or forceStop settled or
\* refunded, none of them touches again (settleRound and refundRound read PENDING bets).
THEOREM BetsDecidedOnce == Spec => DecidedOnce
<1>1. IInv /\ [Next]_vars => [\A k \in Placed : bets[k].status # "PENDING" => bets'[k] = bets[k]]_vars
  BY DecidedStep, InvParts
<1> QED
  BY <1>1, RealMoneyInvariant, PTL DEF Spec, DecidedOnce
===============================================================================
