--------------------------- MODULE CoinWalletProofs ---------------------------
(***************************************************************************)
(* CoinWallet for every number of users, keys, calls and failures: IInv is *)
(* inductive, a caller's answer is what the ledger says, and the calls     *)
(* with their lookups, locks, snapshots and retries implement the ledger's *)
(* promise (LedgerPromise).                                                *)
(***************************************************************************)
EXTENDS CoinWallet, TLAPS

USE CoinWalletAssumption

Kinds == {"open", "movement", "adjust"}

-----------------------------------------------------------------------------
(* Shapes *)

LEMMA MovementShape ==
    \A m \in Movements : /\ m.user \in Users /\ m.amount \in Nat /\ m.direction \in {"CREDIT", "DEBIT"}
                         /\ m = [user |-> m.user, type |-> m.type, direction |-> m.direction, amount |-> m.amount]
  OBVIOUS

LEMMA BonusShape == \A u \in Users : BonusOf(u).user = u /\ BonusOf(u).amount = Bonus /\ BonusOf(u).direction = "CREDIT"
  BY DEF BonusOf

LEMMA EntryShape ==
    ASSUME NEW e \in Entries, e # None
    PROVE  e = Entry(e.mv, e.status) /\ e.status \in {"SUCCESS", "FAILED"}
  BY DEF Entries, Entry

LEMMA EntryIsEntry ==
    ASSUME NEW m \in Movements \cup {BonusOf(u) : u \in Users}, NEW s \in {"SUCCESS", "FAILED"}
    PROVE  Entry(m, s) \in Entries /\ Entry(m, s) # None /\ Entry(m, s).mv = m /\ Entry(m, s).status = s
<1>1. Entry(m, s) \in [mv : Movements \cup {BonusOf(u) : u \in Users}, status : {"SUCCESS", "FAILED"}]
  BY DEF Entry
<1>2. Entry(m, s).status = s /\ None.status = "NONE"
  BY DEF Entry, None
<1> QED
  BY <1>1, <1>2 DEF Entries, Entry

LEMMA UserOfIsUser == ASSUME TypeOK, NEW c \in Calls PROVE UserOf(c) \in Users
<1>1. op[c].mv \in Movements \cup {BonusOf(u) : u \in Users}
  BY DEF TypeOK, Op
<1> QED
  BY <1>1, BonusShape, MovementShape DEF UserOf

-----------------------------------------------------------------------------
(* Wallet arithmetic *)

LEMMA EnsuredIsWallet ==
    ASSUME NEW w \in Wallets
    PROVE  Ensured(w) \in Wallets /\ Ensured(w).open
  BY DEF Ensured, Wallets

\* A movement that is not refused leaves a legal row whose total moved by it.
LEMMA MovedIsWallet ==
    ASSUME NEW w \in Wallets, w.open, NEW m \in Movements, ~Insufficient(w, m)
    PROVE  /\ Moved(w, m) \in Wallets /\ Moved(w, m).open
           /\ TotalOf(Moved(w, m)) = TotalOf(w) + (IF m.direction = "CREDIT" THEN m.amount ELSE -m.amount)
           /\ TotalOf(Moved(w, m)) >= 0
<1>1. w.deposit \in Nat /\ w.winning \in Nat /\ w = [deposit |-> w.deposit, winning |-> w.winning, open |-> w.open]
  BY DEF Wallets
<1>2. m.amount \in Nat /\ m.direction \in {"CREDIT", "DEBIT"}
  BY MovementShape
<1>3. CASE m.direction = "CREDIT"
  BY <1>1, <1>2, <1>3 DEF Moved, CreditWinning, CreditDeposit, TotalOf, Wallets
<1>4. CASE m.direction = "DEBIT"
  <2>1. Moved(w, m) = [w EXCEPT !.deposit = Debit(w, m.amount).deposit, !.winning = Debit(w, m.amount).winning]
    BY <1>4 DEF Moved
  <2>2. Debit(w, m.amount).winning >= 0
    BY <1>4, <1>1, <1>2 DEF Insufficient, InsufficientFunds, Debit, DepositDebit
  <2>3. /\ Debit(w, m.amount).deposit \in Nat /\ Debit(w, m.amount).winning \in Nat
        /\ Debit(w, m.amount).deposit + Debit(w, m.amount).winning = w.deposit + w.winning - m.amount
    BY <1>1, <1>2, <2>2 DEF Debit, DepositDebit
  <2>4. Moved(w, m) = [deposit |-> Debit(w, m.amount).deposit, winning |-> Debit(w, m.amount).winning, open |-> w.open]
    BY <1>1, <2>1
  <2>5. Moved(w, m) \in Wallets /\ Moved(w, m).open
    BY <1>1, <2>3, <2>4 DEF Wallets
  <2>6. TotalOf(Moved(w, m)) = w.deposit + w.winning - m.amount /\ TotalOf(Moved(w, m)) >= 0
    BY <2>3, <2>4 DEF TotalOf
  <2> QED
    BY <1>1, <1>2, <1>4, <2>5, <2>6 DEF TotalOf
<1> QED
  BY <1>2, <1>3, <1>4

\* A movement is refused exactly when the total would become negative.
LEMMA RefusedIsNegative ==
    ASSUME NEW w \in Wallets, NEW m \in Movements, Insufficient(w, m)
    PROVE  TotalOf(w) + (IF m.direction = "CREDIT" THEN m.amount ELSE -m.amount) < 0
<1>1. w.deposit \in Nat /\ w.winning \in Nat /\ m.amount \in Nat
  BY MovementShape DEF Wallets
<1> QED
  BY <1>1 DEF Insufficient, InsufficientFunds, Debit, DepositDebit, TotalOf

-----------------------------------------------------------------------------
(* Two shapes of step *)

\* What a call's own record must satisfy.
Good(o) ==
    /\ o \in Op
    /\ o.kind = "open" => o.key = o.mv.user /\ o.mv = BonusOf(o.mv.user)
    /\ o.kind # "open" => o.key \in Keys /\ o.mv \in Movements
    /\ o.at = "idle" => o.kind = "open"
    /\ o.at # "done" => o.answer = "none"

LEMMA GoodCall == ASSUME IInv, NEW c \in Calls PROVE Good(op[c])
<1>1. op[c] \in Op
  BY DEF IInv, TypeOK
<1>2. CallOK(c)
  BY DEF IInv
<1> QED
  BY <1>1, <1>2 DEF Good, CallOK, UserOf

LEMMA UserOfGood == ASSUME NEW o, Good(o) PROVE o.mv.user \in Users
<1>1. o.mv \in Movements \cup {BonusOf(u) : u \in Users}
  BY DEF Good, Op
<1> QED
  BY <1>1, BonusShape, MovementShape

\* A step that leaves wallets and ledger alone and replaces one call's record.
LEMMA QuietStep ==
    ASSUME IInv, NEW c \in Calls, NEW o, Good(o), op' = [op EXCEPT ![c] = o],
           wallet' = wallet, ledger' = ledger, audit' = audit, left' \in 0 .. MaxFail,
           o.at = "locked" => o.snap = wallet[o.mv.user] /\ Locked(o.mv.user) \subseteq {c},
           o.answer \in {"ok", "replay"} => ledger[o.key] = Entry(o.mv, "SUCCESS")
    PROVE  IInv'
<1>1. op'[c] = o /\ \A d \in Calls : d # c => op'[d] = op[d]
  BY DEF IInv, TypeOK
<1>2. TypeOK'
  BY DEF IInv, TypeOK, Good
<1>3. \A d \in Calls : CallOK(d)'
  <2> SUFFICES ASSUME NEW d \in Calls PROVE CallOK(d)'
    OBVIOUS
  <2>1. CASE d = c
    BY <1>1, <2>1 DEF Good, CallOK, UserOf
  <2>2. CASE d # c
    BY <1>1, <2>2 DEF IInv, CallOK, UserOf
  <2> QED
    BY <2>1, <2>2
<1>4. \A u \in Users : BooksOK(u)'
  BY DEF IInv, BooksOK
<1>5. OneHolder'
  <2> SUFFICES ASSUME NEW d \in Calls, NEW e \in Calls, op'[d].at = "locked", op'[e].at = "locked",
                      op'[d].mv.user = op'[e].mv.user
               PROVE  d = e
    BY DEF OneHolder, UserOf
  <2>1. CASE d = c /\ e = c
    BY <2>1
  <2>2. CASE d = c /\ e # c
    BY <1>1, <2>2 DEF Locked, UserOf
  <2>3. CASE d # c /\ e = c
    BY <1>1, <2>3 DEF Locked, UserOf
  <2>4. CASE d # c /\ e # c
    BY <1>1, <2>4 DEF IInv, OneHolder, UserOf
  <2> QED
    BY <2>1, <2>2, <2>3, <2>4
<1>6. AnswersAreTrue'
  BY <1>1 DEF IInv, AnswersAreTrue
<1> QED
  BY <1>2, <1>3, <1>4, <1>5, <1>6 DEF IInv

\* A commit: the holder of the row of u writes it and ends; ledger rows stay.
LEMMA CommitStep ==
    ASSUME IInv, NEW c \in Calls, op[c].at = "locked", NEW o, Good(o), o.at = "done",
           op' = [op EXCEPT ![c] = o], NEW w \in Wallets, w.open,
           wallet' = [wallet EXCEPT ![UserOf(c)] = w],
           ledger' \in [AllKeys -> Entries], audit' \subseteq Keys, left' = left,
           ledger'[UserOf(c)] = Entry(BonusOf(UserOf(c)), "SUCCESS"),
           \A u \in Users : u # UserOf(c) => ledger'[u] = ledger[u],
           \A k \in AllKeys : ledger[k] # None => ledger'[k] = ledger[k],
           o.answer \in {"ok", "replay"} => ledger'[o.key] = Entry(o.mv, "SUCCESS")
    PROVE  IInv'
<1>0. UserOf(c) \in Users
  BY UserOfIsUser DEF IInv
<1>1. op'[c] = o /\ \A d \in Calls : d # c => op'[d] = op[d]
  BY DEF IInv, TypeOK
<1>2. wallet'[UserOf(c)] = w /\ \A u \in Users : u # UserOf(c) => wallet'[u] = wallet[u]
  BY <1>0 DEF IInv, TypeOK
<1>3. TypeOK'
  BY <1>0 DEF IInv, TypeOK, Good
<1>4. \A d \in Calls : CallOK(d)'
  <2> SUFFICES ASSUME NEW d \in Calls PROVE CallOK(d)'
    OBVIOUS
  <2>1. CASE d = c
    BY <1>1, <2>1 DEF Good, CallOK, UserOf
  <2>2. CASE d # c
    <3>1. op'[d] = op[d] /\ CallOK(d) /\ op[d].mv.user \in Users
      BY <1>1, <2>2, UserOfIsUser DEF IInv, UserOf
    <3>2. op[d].at = "locked" => op[d].mv.user # UserOf(c)
      BY <2>2 DEF IInv, OneHolder, UserOf
    <3>3. op[d].at = "locked" => wallet'[op[d].mv.user] = wallet[op[d].mv.user]
      BY <3>1, <3>2, <1>2
    <3> QED
      BY <3>1, <3>3 DEF CallOK, UserOf
  <2> QED
    BY <2>1, <2>2
<1>5. \A u \in Users : BooksOK(u)'
  <2> SUFFICES ASSUME NEW u \in Users PROVE BooksOK(u)'
    OBVIOUS
  <2>1. CASE u = UserOf(c)
    BY <1>2, <2>1 DEF BooksOK
  <2>2. CASE u # UserOf(c)
    BY <1>2, <2>2 DEF BooksOK, IInv
  <2> QED
    BY <2>1, <2>2
<1>6. OneHolder'
  BY <1>1 DEF IInv, OneHolder, UserOf
<1>7. AnswersAreTrue'
  <2> SUFFICES ASSUME NEW d \in Calls, op'[d].answer \in {"ok", "replay"}
               PROVE  ledger'[op'[d].key] = Entry(op'[d].mv, "SUCCESS")
    BY DEF AnswersAreTrue
  <2>1. CASE d = c
    BY <1>1, <2>1
  <2>2. CASE d # c
    <3>1. op'[d] = op[d] /\ op[d].key \in AllKeys /\ op[d].mv \in Movements \cup {BonusOf(u) : u \in Users}
      BY <1>1, <2>2 DEF IInv, TypeOK, Op
    <3>2. ledger[op[d].key] = Entry(op[d].mv, "SUCCESS")
      BY <3>1 DEF IInv, AnswersAreTrue
    <3>3. ledger[op[d].key] # None
      BY <3>1, <3>2, EntryIsEntry
    <3> QED
      BY <3>1, <3>2, <3>3
  <2> QED
    BY <2>1, <2>2
<1> QED
  BY <1>3, <1>4, <1>5, <1>6, <1>7 DEF IInv

-----------------------------------------------------------------------------
(* The invariant is inductive *)

LEMMA InitIInv == Init => IInv
<1> SUFFICES ASSUME Init PROVE IInv
  OBVIOUS
<1>1. PICK u \in Users : op = [c \in Calls |->
            [at |-> "idle", kind |-> "open", key |-> u, mv |-> BonusOf(u),
             snap |-> NoWallet, tries |-> 0, answer |-> "none"]]
  BY DEF Init
<1>2. NoWallet \in Wallets /\ NoWallet.open = FALSE
  BY DEF NoWallet, Wallets
<1>3. op \in [Calls -> Op]
  BY <1>1, <1>2 DEF Op, AllKeys, Answers
<1>4. TypeOK
  BY <1>2, <1>3 DEF Init, TypeOK, Entries
<1>5. \A c \in Calls : CallOK(c)
  BY <1>1, BonusShape DEF CallOK, UserOf
<1>6. \A v \in Users : BooksOK(v)
  BY <1>2 DEF Init, BooksOK, AllKeys
<1>7. OneHolder /\ AnswersAreTrue
  BY <1>1 DEF OneHolder, AnswersAreTrue
<1> QED
  BY <1>4, <1>5, <1>6, <1>7 DEF IInv

\* A call's record with a new place and answer stays good.
LEMMA Moves ==
    ASSUME NEW o, Good(o), NEW at \in {"idle", "lookup", "begin", "lock", "locked", "recheck", "done"}, at # "idle",
           NEW a \in Answers, at # "done" => a = "none",
           NEW s \in Wallets, NEW n \in 0 .. 2
    PROVE  Good([o EXCEPT !.at = at, !.answer = a, !.snap = s, !.tries = n])
  BY DEF Good, Op

LEMMA StartIInv ==
    ASSUME IInv, NEW c \in Calls, NEW k \in Keys, NEW m \in Movements,
           ApplyLedgerMovement(c, k, m) \/ AdjustWallet(c, k, m)
    PROVE  IInv'
<1>1. Good(op[c]) /\ op[c].at = "idle"
  BY GoodCall DEF ApplyLedgerMovement, AdjustWallet
<1>2. op[c].answer = "none"
  BY <1>1 DEF Good
<1>3. left \in 0 .. MaxFail
  BY DEF IInv, TypeOK
<1>4. CASE ApplyLedgerMovement(c, k, m)
  <2> DEFINE o == [op[c] EXCEPT !.at = "lookup", !.kind = "movement", !.key = k, !.mv = m]
  <2>1. Good(o)
    BY <1>1, <1>2 DEF Good, Op, AllKeys
  <2>2. o.at = "lookup" /\ o.answer = "none"
    BY <1>1, <1>2 DEF Good, Op
  <2>3. op' = [op EXCEPT ![c] = o]
    BY <1>4 DEF ApplyLedgerMovement
  <2> HIDE DEF o
  <2> QED
    BY <1>3, <1>4, <2>1, <2>2, <2>3, QuietStep DEF ApplyLedgerMovement
<1>5. CASE AdjustWallet(c, k, m)
  <2> DEFINE o == [op[c] EXCEPT !.at = "begin", !.kind = "adjust", !.key = k, !.mv = m, !.tries = 1]
  <2>a. op[c] \in Op /\ k \in AllKeys /\ 1 \in 0 .. 2
    BY <1>1 DEF Good, AllKeys
  <2>b. o \in Op
    BY <2>a DEF Op
  <2>c. o.at = "begin" /\ o.kind = "adjust" /\ o.key = k /\ o.mv = m /\ o.answer = op[c].answer
    BY <2>a DEF Op
  <2> HIDE DEF o
  <2>1. Good(o)
    BY <1>2, <2>b, <2>c DEF Good
  <2> USE DEF o
  <2>2. o.at = "begin" /\ o.answer = "none"
    BY <1>1, <1>2 DEF Good, Op
  <2>3. op' = [op EXCEPT ![c] = o]
    BY <1>5 DEF AdjustWallet
  <2> HIDE DEF o
  <2> QED
    BY <1>3, <1>5, <2>1, <2>2, <2>3, QuietStep DEF AdjustWallet
<1> QED
  BY <1>4, <1>5

LEMMA OpenIInv ==
    ASSUME IInv, NEW c \in Calls, NEW u \in Users, GetWalletBalance(c, u)
    PROVE  IInv'
<1>1. Good(op[c]) /\ op[c].at = "idle"
  BY GoodCall DEF GetWalletBalance
<1>2. op[c].answer = "none" /\ op[c].kind = "open" /\ left \in 0 .. MaxFail
  BY <1>1 DEF Good, IInv, TypeOK
<1> DEFINE o == [op[c] EXCEPT !.at = "begin", !.key = u, !.mv = BonusOf(u)]
<1>a. op[c] \in Op /\ u \in AllKeys
  BY <1>1 DEF Good, AllKeys
<1>b. o \in Op
  BY <1>a DEF Op
<1>c. o.at = "begin" /\ o.kind = op[c].kind /\ o.key = u /\ o.mv = BonusOf(u) /\ o.answer = op[c].answer
  BY <1>a DEF Op
<1> HIDE DEF o
<1>3. Good(o)
  BY <1>2, <1>b, <1>c, BonusShape DEF Good
<1> USE DEF o
<1>4. o.at = "begin" /\ o.answer = "none"
  BY <1>1, <1>2 DEF Good, Op
<1>5. op' = [op EXCEPT ![c] = o]
  BY DEF GetWalletBalance
<1> HIDE DEF o
<1> QED
  BY <1>2, <1>3, <1>4, <1>5, QuietStep DEF GetWalletBalance

\* A call that is answered from the ledger's entry of its key.
LEMMA ReplayIInv ==
    ASSUME IInv, NEW c \in Calls, op[c].at # "idle", ledger[op[c].key] # None,
           Replay(c, ledger[op[c].key]), wallet' = wallet, ledger' = ledger, audit' = audit, left' = left
    PROVE  IInv'
<1> DEFINE e == ledger[op[c].key]
           a == IF e.mv # op[c].mv THEN "conflict" ELSE IF e.status = "FAILED" THEN "failed" ELSE "replay"
           o == [op[c] EXCEPT !.at = "done", !.answer = a]
<1>1. Good(op[c]) /\ left \in 0 .. MaxFail
  BY GoodCall DEF IInv, TypeOK
<1>2. Good(o) /\ o.at = "done" /\ o.answer = a /\ o.key = op[c].key /\ o.mv = op[c].mv
  BY <1>1 DEF Good, Op, Answers
<1>3. op' = [op EXCEPT ![c] = o]
  BY DEF Replay, Answer
<1>4. op[c].key \in AllKeys /\ e \in Entries
  BY <1>1 DEF Good, Op, IInv, TypeOK
<1>5. a = "replay" => e = Entry(op[c].mv, "SUCCESS")
  BY <1>4, EntryShape
<1>6. o.answer \in {"ok", "replay"} => ledger[o.key] = Entry(o.mv, "SUCCESS")
  BY <1>2, <1>5
<1> HIDE DEF o
<1> QED
  BY <1>1, <1>2, <1>3, <1>6, QuietStep

\* A call that goes on elsewhere or ends with an answer that promises nothing.
LEMMA GoesOn ==
    ASSUME IInv, NEW c \in Calls, op[c].at # "idle", op[c].at # "done",
           NEW at \in {"begin", "lock", "locked", "recheck", "done"}, NEW a \in Answers \ {"ok", "replay"},
           at # "done" => a = "none", NEW s \in Wallets, NEW n \in 0 .. 2,
           at = "locked" => s = wallet[UserOf(c)] /\ Locked(UserOf(c)) = {},
           op' = [op EXCEPT ![c] = [@ EXCEPT !.at = at, !.answer = a, !.snap = s, !.tries = n]],
           wallet' = wallet, ledger' = ledger, audit' = audit, left' \in 0 .. MaxFail
    PROVE  IInv'
<1> DEFINE o == [op[c] EXCEPT !.at = at, !.answer = a, !.snap = s, !.tries = n]
<1>1. Good(op[c])
  BY GoodCall
<1>2. Good(o)
  BY <1>1, Moves
<1>3. o.at = at /\ o.answer = a /\ o.snap = s /\ o.mv = op[c].mv
  BY <1>1 DEF Good, Op
<1>4. op' = [op EXCEPT ![c] = o]
  OBVIOUS
<1>5. o.at = "locked" => o.snap = wallet[o.mv.user] /\ Locked(o.mv.user) \subseteq {c}
  BY <1>3 DEF UserOf
<1> HIDE DEF o
<1> QED
  BY <1>2, <1>3, <1>4, <1>5, QuietStep

\* The records of Goto, Answer and their like, in the form GoesOn speaks of.
LEMMA FieldsAt ==
    ASSUME IInv, NEW c \in Calls, NEW at
    PROVE  [op EXCEPT ![c].at = at]
           = [op EXCEPT ![c] = [@ EXCEPT !.at = at, !.answer = op[c].answer, !.snap = op[c].snap, !.tries = op[c].tries]]
<1>1. op \in [Calls -> Op] /\ op[c] \in Op
  BY DEF IInv, TypeOK
<1> QED
  BY <1>1 DEF Op

LEMMA FieldsAnswer ==
    ASSUME IInv, NEW c \in Calls, NEW at, NEW a
    PROVE  [op EXCEPT ![c].at = at, ![c].answer = a]
           = [op EXCEPT ![c] = [@ EXCEPT !.at = at, !.answer = a, !.snap = op[c].snap, !.tries = op[c].tries]]
<1>1. op \in [Calls -> Op] /\ op[c] \in Op
  BY DEF IInv, TypeOK
<1> QED
  BY <1>1 DEF Op

LEMMA FieldsSnap ==
    ASSUME IInv, NEW c \in Calls, NEW at, NEW s
    PROVE  [op EXCEPT ![c].at = at, ![c].snap = s]
           = [op EXCEPT ![c] = [@ EXCEPT !.at = at, !.answer = op[c].answer, !.snap = s, !.tries = op[c].tries]]
<1>1. op \in [Calls -> Op] /\ op[c] \in Op
  BY DEF IInv, TypeOK
<1> QED
  BY <1>1 DEF Op

LEMMA FieldsTries ==
    ASSUME IInv, NEW c \in Calls, NEW at, NEW n
    PROVE  [op EXCEPT ![c].at = at, ![c].tries = n]
           = [op EXCEPT ![c] = [@ EXCEPT !.at = at, !.answer = op[c].answer, !.snap = op[c].snap, !.tries = n]]
<1>1. op \in [Calls -> Op] /\ op[c] \in Op
  BY DEF IInv, TypeOK
<1> QED
  BY <1>1 DEF Op

\* A transaction that failed.
LEMMA FailedIInv ==
    ASSUME IInv, NEW c \in Calls, op[c].at # "idle", op[c].at # "done", NEW code, Failed(c, code),
           wallet' = wallet, ledger' = ledger, audit' = audit, left' \in 0 .. MaxFail
    PROVE  IInv'
<1>1. op[c].answer = "none" /\ op[c].snap \in Wallets /\ op[c].tries \in 0 .. 2
  BY GoodCall DEF Good, Op
<1>2. "none" \in Answers \ {"ok", "replay"} /\ "error" \in Answers \ {"ok", "replay"}
  BY DEF Answers
<1>3. CASE op' = [op EXCEPT ![c].at = "begin", ![c].tries = 2]
  <2> DEFINE n == 2
             at == "begin"
  <2>1. n \in 0 .. 2 /\ at \in {"begin", "lock", "locked", "recheck", "done"} /\ at # "done" /\ at # "locked"
    OBVIOUS
  <2>2. op' = [op EXCEPT ![c].at = at, ![c].tries = n]
    BY <1>3
  <2> HIDE DEF n, at
  <2>3. op' = [op EXCEPT ![c] = [@ EXCEPT !.at = at, !.answer = op[c].answer, !.snap = op[c].snap, !.tries = n]]
    BY <2>2, FieldsTries
  <2> QED
    BY <1>1, <1>2, <2>1, <2>3, GoesOn
<1>4. CASE op' = [op EXCEPT ![c].at = "recheck"]
  <2>1. op' = [op EXCEPT ![c] = [@ EXCEPT !.at = "recheck", !.answer = "none", !.snap = op[c].snap, !.tries = op[c].tries]]
    BY <1>1, <1>4, FieldsAt
  <2> QED
    BY <1>1, <1>2, <2>1, GoesOn
<1>5. CASE op' = [op EXCEPT ![c].at = "done", ![c].answer = "error"]
  <2>1. op' = [op EXCEPT ![c] = [@ EXCEPT !.at = "done", !.answer = "error", !.snap = op[c].snap, !.tries = op[c].tries]]
    BY <1>1, <1>5, FieldsAnswer
  <2> QED
    BY <1>1, <1>2, <2>1, GoesOn
<1> QED
  BY <1>3, <1>4, <1>5 DEF Failed, Goto, Answer

LEMMA LookupIInv == ASSUME IInv, NEW c \in Calls, Lookup(c) PROVE IInv'
<1>1. CASE ledger[op[c].key] # None
  BY <1>1, ReplayIInv DEF Lookup
<1>2. CASE ledger[op[c].key] = None
  <2>1. /\ op[c].at = "lookup" /\ op[c].answer = "none" /\ op[c].snap \in Wallets /\ op[c].tries \in 0 .. 2
        /\ left' \in 0 .. MaxFail /\ "none" \in Answers \ {"ok", "replay"}
    BY GoodCall DEF Good, Op, Lookup, IInv, TypeOK, Answers
  <2>2. op' = [op EXCEPT ![c] = [@ EXCEPT !.at = "begin", !.answer = "none", !.snap = op[c].snap, !.tries = op[c].tries]]
    BY <1>2, <2>1, FieldsAt DEF Lookup, Goto
  <2> QED
    BY <2>1, <2>2, GoesOn DEF Lookup
<1> QED
  BY <1>1, <1>2

LEMMA BeginIInv == ASSUME IInv, NEW c \in Calls, Begin(c) PROVE IInv'
<1>1. CASE op[c].kind = "adjust" /\ ledger[op[c].key] # None
  BY <1>1, ReplayIInv DEF Begin
<1>2. CASE ~ (op[c].kind = "adjust" /\ ledger[op[c].key] # None)
  <2>1. /\ op[c].at = "begin" /\ op[c].answer = "none" /\ op[c].tries \in 0 .. 2
        /\ left' \in 0 .. MaxFail /\ "none" \in Answers \ {"ok", "replay"}
    BY GoodCall DEF Good, Op, Begin, IInv, TypeOK, Answers
  <2> DEFINE s == wallet[UserOf(c)]
  <2>2. s \in Wallets
    BY UserOfIsUser DEF IInv, TypeOK
  <2>3. op' = [op EXCEPT ![c].at = "lock", ![c].snap = s]
    BY <1>2 DEF Begin
  <2> HIDE DEF s
  <2>4. op' = [op EXCEPT ![c] = [@ EXCEPT !.at = "lock", !.answer = op[c].answer, !.snap = s, !.tries = op[c].tries]]
    BY <2>3, FieldsSnap
  <2> QED
    BY <2>1, <2>2, <2>4, GoesOn DEF Begin
<1> QED
  BY <1>1, <1>2

LEMMA LockIInv == ASSUME IInv, NEW c \in Calls, LockWallet(c) PROVE IInv'
<1>1. /\ op[c].at = "lock" /\ op[c].answer = "none" /\ op[c].tries \in 0 .. 2 /\ op[c].snap \in Wallets
      /\ left' \in 0 .. MaxFail /\ "none" \in Answers \ {"ok", "replay"}
  BY GoodCall DEF Good, Op, LockWallet, IInv, TypeOK, Answers
<1>2. CASE Unchanged(c)
  <2>1. op' = [op EXCEPT ![c] = [@ EXCEPT !.at = "locked", !.answer = "none", !.snap = op[c].snap, !.tries = op[c].tries]]
    BY <1>1, <1>2, FieldsAt DEF LockWallet, Goto
  <2> QED
    BY <1>1, <1>2, <2>1, GoesOn DEF LockWallet, Unchanged
<1>3. CASE ~ Unchanged(c)
  <2>1. PICK code \in {"P2002", "P2034"} : Failed(c, code)
    BY <1>3 DEF LockWallet
  <2> QED
    BY <1>1, <2>1, FailedIInv DEF LockWallet
<1> QED
  BY <1>2, <1>3

LEMMA RecheckIInv == ASSUME IInv, NEW c \in Calls, Recheck(c) PROVE IInv'
<1>1. CASE ledger[op[c].key] # None /\ ledger[op[c].key].mv.user = UserOf(c)
  BY <1>1, ReplayIInv DEF Recheck
<1>2. CASE ~ (ledger[op[c].key] # None /\ ledger[op[c].key].mv.user = UserOf(c))
  <2>1. /\ op[c].at = "recheck" /\ op[c].answer = "none" /\ op[c].tries \in 0 .. 2 /\ op[c].snap \in Wallets
        /\ left' \in 0 .. MaxFail /\ "error" \in Answers \ {"ok", "replay"}
    BY GoodCall DEF Good, Op, Recheck, IInv, TypeOK, Answers
  <2>2. op' = [op EXCEPT ![c] = [@ EXCEPT !.at = "done", !.answer = "error", !.snap = op[c].snap, !.tries = op[c].tries]]
    <3>1. op' = [op EXCEPT ![c].at = "done", ![c].answer = "error"]
      BY <1>2 DEF Recheck, Answer
    <3> QED
      BY <2>1, <3>1, FieldsAnswer
  <2> QED
    BY <2>1, <2>2, GoesOn DEF Recheck
<1> QED
  BY <1>1, <1>2

LEMMA AbortIInv == ASSUME IInv, NEW c \in Calls, Abort(c) PROVE IInv'
<1>1. left' \in 0 .. MaxFail
  BY DEF Abort, IInv, TypeOK
<1> QED
  BY <1>1, FailedIInv DEF Abort

-----------------------------------------------------------------------------
(* Commits *)

\* What the holder of a wallet row knows.
LEMMA Holder ==
    ASSUME IInv, NEW c \in Calls, op[c].at = "locked"
    PROVE  /\ UserOf(c) \in Users /\ op[c].snap = wallet[UserOf(c)] /\ op[c].snap \in Wallets
           /\ op[c].answer = "none" /\ op[c].tries \in 0 .. 2 /\ op[c].key \in AllKeys
           /\ op[c].kind = "open" => op[c].key = UserOf(c) /\ op[c].mv = BonusOf(UserOf(c))
           /\ op[c].kind # "open" => op[c].key \in Keys /\ op[c].mv \in Movements /\ op[c].key \notin Users
           /\ Ensured(op[c].snap) \in Wallets /\ Ensured(op[c].snap).open
<1>1. UserOf(c) \in Users /\ CallOK(c) /\ Good(op[c])
  BY UserOfIsUser, GoodCall DEF IInv
<1>2. op[c].snap \in Wallets
  BY <1>1 DEF Good, Op
<1> QED
  BY <1>1, <1>2, EnsuredIsWallet DEF CallOK, Good, Op

\* The ledger after the wallet of u opened, if it was not open.
LEMMA OpenedLedger ==
    ASSUME IInv, NEW u \in Users
    PROVE  /\ Opened(u) \in [AllKeys -> Entries]
           /\ Opened(u)[u] = Entry(BonusOf(u), "SUCCESS")
           /\ \A k \in AllKeys : k # u => Opened(u)[k] = ledger[k]
           /\ ledger[u] # None => Opened(u)[u] = ledger[u]
<1>1. ledger \in [AllKeys -> Entries] /\ u \in AllKeys /\ BooksOK(u)
  BY DEF IInv, TypeOK, AllKeys
<1>2. Entry(BonusOf(u), "SUCCESS") \in Entries
  BY EntryIsEntry
<1> QED
  BY <1>1, <1>2 DEF Opened, BooksOK

\* The call that commits is answered.
LEMMA Answered ==
    ASSUME IInv, NEW c \in Calls, op[c].at = "locked", NEW a \in Answers, Answer(c, a)
    PROVE  \E o : /\ Good(o) /\ o.at = "done" /\ o.answer = a /\ o.key = op[c].key /\ o.mv = op[c].mv
                  /\ op' = [op EXCEPT ![c] = o]
<1> DEFINE o == [op[c] EXCEPT !.at = "done", !.answer = a]
<1>1. Good(op[c])
  BY GoodCall
<1>2. Good(o) /\ o.at = "done" /\ o.answer = a /\ o.key = op[c].key /\ o.mv = op[c].mv
  BY <1>1 DEF Good, Op
<1>3. op' = [op EXCEPT ![c] = o]
  BY DEF Answer
<1> QED
  BY <1>2, <1>3

LEMMA CommitIInv == ASSUME IInv, NEW c \in Calls, Commit(c) PROVE IInv'
<1> DEFINE u == UserOf(c)
           m == op[c].mv
           k == op[c].key
           w == Ensured(op[c].snap)
<1>1. op[c].at = "locked" /\ left' = left /\ left' \in 0 .. MaxFail
  BY DEF Commit, IInv, TypeOK
<1>2. /\ u \in Users /\ w \in Wallets /\ w.open /\ k \in AllKeys
      /\ op[c].kind = "open" => k = u /\ m = BonusOf(u)
      /\ op[c].kind # "open" => k \in Keys /\ m \in Movements /\ k \notin Users /\ k # u
  BY <1>1, Holder
<1>3. /\ Opened(u) \in [AllKeys -> Entries] /\ Opened(u)[u] = Entry(BonusOf(u), "SUCCESS")
      /\ \A j \in AllKeys : j # u => Opened(u)[j] = ledger[j]
      /\ ledger[u] # None => Opened(u)[u] = ledger[u]
  BY <1>2, OpenedLedger
<1>4. audit \subseteq Keys /\ {"ok", "insufficient", "inactive"} \subseteq Answers /\ Users \subseteq AllKeys
  BY DEF IInv, TypeOK, Answers, AllKeys
<1>5. CASE op[c].kind = "open" /\ wallet' = [wallet EXCEPT ![u] = w] /\ ledger' = Opened(u)
           /\ Answer(c, "ok") /\ UNCHANGED audit
  <2>1. PICK o : /\ Good(o) /\ o.at = "done" /\ o.answer = "ok" /\ o.key = k /\ o.mv = m
                 /\ op' = [op EXCEPT ![c] = o]
    BY <1>1, <1>4, <1>5, Answered
  <2>2. ledger'[o.key] = Entry(o.mv, "SUCCESS")
    BY <1>2, <1>3, <1>5, <2>1
  <2>3. /\ \A v \in Users : v # u => ledger'[v] = ledger[v]
        /\ \A j \in AllKeys : ledger[j] # None => ledger'[j] = ledger[j]
    BY <1>3, <1>4, <1>5
  <2> HIDE DEF u, m, k, w
  <2> QED
    BY <1>1, <1>2, <1>3, <1>4, <1>5, <2>1, <2>2, <2>3, CommitStep DEF u
<1>6. CASE op[c].kind # "open" /\ Answer(c, "inactive") /\ UNCHANGED <<wallet, ledger, audit>>
  <2>1. PICK o : /\ Good(o) /\ o.at = "done" /\ o.answer = "inactive" /\ op' = [op EXCEPT ![c] = o]
    BY <1>1, <1>4, <1>6, Answered
  <2> QED
    BY <1>1, <1>6, <2>1, QuietStep
<1>7. CASE Failed(c, "P2002") /\ UNCHANGED <<wallet, ledger, audit>>
  BY <1>1, <1>7, FailedIInv
<1>8. CASE op[c].kind = "adjust" /\ Answer(c, "insufficient") /\ UNCHANGED <<wallet, ledger, audit>>
  <2>1. PICK o : /\ Good(o) /\ o.at = "done" /\ o.answer = "insufficient" /\ op' = [op EXCEPT ![c] = o]
    BY <1>1, <1>4, <1>8, Answered
  <2> QED
    BY <1>1, <1>8, <2>1, QuietStep
<1>9. ASSUME op[c].kind # "open", ledger[k] = None, NEW st \in {"SUCCESS", "FAILED"}, NEW a \in {"ok", "insufficient"},
             a = "ok" => st = "SUCCESS", Answer(c, a),
             NEW x \in Wallets, x.open, wallet' = [wallet EXCEPT ![u] = x],
             ledger' = [Opened(u) EXCEPT ![k] = Entry(m, st)], audit' \subseteq Keys
      PROVE  IInv'
  <2>1. PICK o : /\ Good(o) /\ o.at = "done" /\ o.answer = a /\ o.key = k /\ o.mv = m
                 /\ op' = [op EXCEPT ![c] = o]
    BY <1>1, <1>4, <1>9, Answered
  <2>2. Entry(m, st) \in Entries
    BY <1>2, <1>9, EntryIsEntry
  <2>3. /\ ledger' \in [AllKeys -> Entries] /\ ledger'[k] = Entry(m, st)
        /\ \A j \in AllKeys : j # k => ledger'[j] = Opened(u)[j]
    BY <1>2, <1>3, <1>9, <2>2
  <2>4. /\ ledger'[u] = Entry(BonusOf(u), "SUCCESS")
        /\ \A v \in Users : v # u => ledger'[v] = ledger[v]
        /\ \A j \in AllKeys : ledger[j] # None => ledger'[j] = ledger[j]
    BY <1>2, <1>3, <1>4, <1>9, <2>3
  <2>5. o.answer \in {"ok", "replay"} => ledger'[o.key] = Entry(o.mv, "SUCCESS")
    BY <1>9, <2>1, <2>3
  <2> HIDE DEF u, m, k, w
  <2> QED
    BY <1>1, <1>9, <2>1, <2>3, <2>4, <2>5, CommitStep DEF u
<1>10. CASE op[c].kind = "movement" /\ ledger[k] = None /\ Answer(c, "insufficient") /\ UNCHANGED audit
            /\ wallet' = [wallet EXCEPT ![u] = w] /\ ledger' = [Opened(u) EXCEPT ![k] = Entry(m, "FAILED")]
  BY <1>2, <1>4, <1>9, <1>10
<1>11. CASE /\ op[c].kind # "open" /\ ledger[k] = None /\ ~ Insufficient(w, m) /\ Answer(c, "ok")
            /\ wallet' = [wallet EXCEPT ![u] = Moved(w, m)]
            /\ ledger' = [Opened(u) EXCEPT ![k] = Entry(m, "SUCCESS")]
            /\ audit' = IF Audited(c) THEN audit \cup {k} ELSE audit
  <2>1. Moved(w, m) \in Wallets /\ Moved(w, m).open
    BY <1>2, <1>11, MovedIsWallet
  <2>2. audit' \subseteq Keys
    BY <1>2, <1>4, <1>11
  <2> QED
    BY <1>2, <1>9, <1>11, <2>1, <2>2
<1>12. op[c].kind \in Kinds
  BY <1>1, GoodCall DEF Good, Op, Kinds
<1> QED
  BY <1>5, <1>6, <1>7, <1>8, <1>10, <1>11, <1>12 DEF Commit, KeyTaken, Kinds

LEMMA NextIInv == IInv /\ [Next]_vars => IInv'
<1> SUFFICES ASSUME IInv, [Next]_vars PROVE IInv'
  OBVIOUS
<1>1. CASE UNCHANGED vars
  BY <1>1 DEF vars, IInv, TypeOK, CallOK, BooksOK, OneHolder, AnswersAreTrue, UserOf
<1>2. CASE Next
  <2>1. PICK c \in Calls : \/ \E k \in Keys, m \in Movements : ApplyLedgerMovement(c, k, m) \/ AdjustWallet(c, k, m)
                           \/ \E u \in Users : GetWalletBalance(c, u)
                           \/ Step(c) \/ Abort(c)
    BY <1>2 DEF Next
  <2> QED
    BY <2>1, StartIInv, OpenIInv, LookupIInv, BeginIInv, LockIInv, CommitIInv, RecheckIInv, AbortIInv DEF Step
<1> QED
  BY <1>1, <1>2

\* The invariant the calls' steps keep, for every instance.
THEOREM InvariantHolds == Spec => []IInv
  BY InitIInv, NextIInv, PTL DEF Spec

\* Whoever is told its movement was made, now or by an earlier call of the key,
\* finds exactly this movement in the ledger as a success (applyLedgerMovement,
\* assertIdempotentReplay, adjustWallet).
THEOREM AnswersHold == Spec => []AnswersAreTrue
<1>1. IInv => AnswersAreTrue
  BY DEF IInv
<1> QED
  BY <1>1, InvariantHolds, PTL

THEOREM TypeHolds == Spec => []TypeOK
<1>1. IInv => TypeOK
  BY DEF IInv
<1> QED
  BY <1>1, InvariantHolds, PTL

-----------------------------------------------------------------------------
(* Audit records *)

\* Only the commit of a movement that is not refused reports an adjustment.
LEMMA ReportedByCommit ==
    ASSUME IInv, NEW d \in Calls, Next, op'[d].answer = "ok", op'[d].kind = "adjust"
    PROVE  /\ audit \subseteq audit'
           /\ op[d].kind = "adjust" /\ op'[d].key = op[d].key
           /\ op[d].answer = "ok" \/ op[d].key \in audit'
<1>1. PICK e \in Calls : \/ \E k \in Keys, m \in Movements : ApplyLedgerMovement(e, k, m) \/ AdjustWallet(e, k, m)
                         \/ \E u \in Users : GetWalletBalance(e, u)
                         \/ Step(e) \/ Abort(e)
  BY DEF Next
<1>2. op \in [Calls -> Op] /\ Good(op[e])
  BY GoodCall DEF IInv, TypeOK
<1>3. CASE d # e
  <2>1. op'[d] = op[d]
    BY <1>1, <1>2, <1>3 DEF Step, ApplyLedgerMovement, AdjustWallet, GetWalletBalance, Lookup, Begin, LockWallet,
          Commit, Recheck, Abort, Replay, Answer, Goto, Failed
  <2>2. audit \subseteq audit'
    BY <1>1 DEF Step, ApplyLedgerMovement, AdjustWallet, GetWalletBalance, Lookup, Begin, LockWallet,
          Commit, Recheck, Abort
  <2> QED
    BY <2>1, <2>2
<1>4. CASE d = e
  <2>1. ASSUME NEW k \in Keys, NEW m \in Movements, ApplyLedgerMovement(e, k, m) \/ AdjustWallet(e, k, m) PROVE FALSE
    <3>1. op[e].at = "idle" /\ op[e].answer = "none"
      BY <1>2, <2>1 DEF Good, ApplyLedgerMovement, AdjustWallet
    <3>2. op'[e].answer = op[e].answer
      <4>1. CASE ApplyLedgerMovement(e, k, m)
        BY <1>2, <4>1 DEF Op, ApplyLedgerMovement
      <4>2. CASE AdjustWallet(e, k, m)
        <5>1. op'[e] = [op[e] EXCEPT !.at = "begin", !.kind = "adjust", !.key = k, !.mv = m, !.tries = 1]
          BY <1>2, <4>2 DEF AdjustWallet
        <5> QED
          BY <1>2, <5>1 DEF Op
      <4> QED
        BY <2>1, <4>1, <4>2
    <3> QED
      BY <1>4, <3>1, <3>2
  <2>2. ASSUME NEW u \in Users, GetWalletBalance(e, u) PROVE FALSE
    BY <1>2, <1>4, <2>2 DEF Good, Op, GetWalletBalance
  <2>3. ASSUME NEW code, Failed(e, code), op[e].answer = "none" PROVE FALSE
    BY <1>2, <1>4, <2>3 DEF Op, Failed, Goto, Answer
  <2>4. ASSUME NEW x, Replay(e, x) PROVE FALSE
    BY <1>2, <1>4, <2>4 DEF Op, Replay, Answer
  <2>5. ~ Lookup(e) /\ ~ Begin(e)
    BY <1>2, <1>4, <2>4 DEF Good, Op, Lookup, Begin, Goto
  <2>6. ~ LockWallet(e) /\ ~ Recheck(e) /\ ~ Abort(e)
    BY <1>2, <1>4, <2>3, <2>4 DEF Good, Op, LockWallet, Recheck, Abort, Goto, Answer
  <2>7. Commit(e) /\ op[e].answer = "none"
    BY <1>1, <1>2, <2>1, <2>2, <2>5, <2>6 DEF Step, Commit, Good
  <2>8. op'[e].kind = op[e].kind /\ op'[e].key = op[e].key
    BY <1>2, <2>7 DEF Op, Commit, Answer, Failed, Goto
  <2>9. op[e].kind # "open" /\ audit' = IF Audited(e) THEN audit \cup {op[e].key} ELSE audit
    BY <1>2, <1>4, <2>3, <2>7, <2>8 DEF Op, Commit, Answer
  <2> QED
    BY <1>4, <2>8, <2>9 DEF Audited
<1> QED
  BY <1>3, <1>4

\* Every adjustment that adjustWallet reports as made has its audit record, when
\* its first transaction failed and the second one made it, too.
THEOREM AdjustmentsHaveRecords == Spec => []AdjustmentsAudited
<1>1. Init => AdjustmentsAudited
  BY DEF Init, AdjustmentsAudited
<1>2. IInv /\ AdjustmentsAudited /\ [Next]_vars => AdjustmentsAudited'
  <2> SUFFICES ASSUME IInv, AdjustmentsAudited, [Next]_vars, NEW d \in Calls, op'[d].answer = "ok", op'[d].kind = "adjust"
               PROVE  op'[d].key \in audit'
    BY DEF AdjustmentsAudited
  <2>1. CASE Next
    BY <2>1, ReportedByCommit DEF AdjustmentsAudited
  <2>2. CASE UNCHANGED vars
    BY <2>2 DEF vars, AdjustmentsAudited
  <2> QED
    BY <2>1, <2>2
<1> QED
  BY <1>1, <1>2, InvariantHolds, PTL DEF Spec

-----------------------------------------------------------------------------
(* The calls keep the ledger's promise *)

Totals == [u \in Users |-> TotalOf(wallet[u])]

\* The promise's books of a user are the wallet and the ledger's.
LEMMA SameBooks ==
    ASSUME IInv, NEW u \in Users
    PROVE  /\ Abs!Opened(u) = Opened(u) /\ Abs!Base(u) = TotalOf(Ensured(wallet[u]))
           /\ ~ wallet[u].open => ledger[u] = Abs!None /\ Ensured(wallet[u]) = [deposit |-> Bonus, winning |-> 0, open |-> TRUE]
<1>1. BooksOK(u) /\ wallet[u] \in Wallets
  BY DEF IInv, TypeOK
<1>2. Abs!None = None /\ Abs!Entry(Abs!BonusOf(u), "SUCCESS") = Entry(BonusOf(u), "SUCCESS")
  BY DEF Abs!None, None, Abs!Entry, Entry, Abs!BonusOf, BonusOf
<1>3. CASE wallet[u].open
  <2>1. ledger[u] # None
    BY <1>1, <1>3, EntryIsEntry DEF BooksOK
  <2> QED
    BY <1>2, <1>3, <2>1 DEF Abs!Opened, Opened, Abs!Base, Ensured
<1>4. CASE ~ wallet[u].open
  <2>1. ledger[u] = None
    BY <1>1, <1>4 DEF BooksOK
  <2>2. Ensured(wallet[u]) = [deposit |-> Bonus, winning |-> 0, open |-> TRUE]
    BY <1>4 DEF Ensured
  <2>3. TotalOf(Ensured(wallet[u])) = Bonus
    BY <2>2 DEF TotalOf
  <2> QED
    BY <1>2, <1>4, <2>1, <2>2, <2>3 DEF Abs!Opened, Opened, Abs!Base
<1> QED
  BY <1>3, <1>4

\* Writing one wallet moves one total.
LEMMA TotalMoves ==
    ASSUME IInv, NEW u \in Users, NEW x, wallet' = [wallet EXCEPT ![u] = x]
    PROVE  Totals' = [Totals EXCEPT ![u] = TotalOf(x)]
  BY DEF Totals, TotalOf, IInv, TypeOK

\* A commit applies, refuses or opens; or it leaves everything as it is.
LEMMA CommitKeeps ==
    ASSUME IInv, NEW c \in Calls, Commit(c)
    PROVE  Abs!Next \/ UNCHANGED <<Totals, ledger>>
<1> DEFINE u == UserOf(c)
           m == op[c].mv
           k == op[c].key
           w == Ensured(op[c].snap)
<1>1. op[c].at = "locked" /\ op[c].kind \in {"open", "movement", "adjust"}
  BY GoodCall DEF Commit, Good, Op
<1>2. /\ u \in Users /\ w = Ensured(wallet[u]) /\ w \in Wallets /\ w.open
      /\ op[c].snap = wallet[u]
      /\ op[c].kind = "open" => k = u /\ m = BonusOf(u)
      /\ op[c].kind # "open" => k \in Keys /\ m \in Movements /\ m.user = u
  BY <1>1, Holder DEF UserOf
<1>3. /\ Abs!Opened(u) = Opened(u) /\ Abs!Base(u) = TotalOf(w)
      /\ ~ wallet[u].open => ledger[u] = Abs!None /\ TotalOf(w) = Bonus
  <2>1. ~ wallet[u].open => w = [deposit |-> Bonus, winning |-> 0, open |-> TRUE]
    BY <1>2, SameBooks
  <2>2. ~ wallet[u].open => TotalOf(w) = Bonus
    BY <2>1 DEF TotalOf
  <2> QED
    BY <1>2, <2>2, SameBooks
<1>4. \A x : wallet' = [wallet EXCEPT ![u] = x] => Totals' = [Totals EXCEPT ![u] = TotalOf(x)]
  BY <1>2, TotalMoves
<1>5. Abs!None = None /\ \A s : Abs!Entry(m, s) = Entry(m, s)
  BY DEF Abs!None, None, Abs!Entry, Entry
<1> HIDE DEF w, u, m, k
<1>6. CASE op[c].kind = "open" /\ wallet' = [wallet EXCEPT ![u] = w] /\ ledger' = Opened(u)
  <2>1. CASE wallet[u].open
    <3>1. w = wallet[u] /\ ledger' = ledger
      BY <1>2, <1>6, <2>1 DEF Ensured, Opened
    <3>2. wallet' = wallet
      BY <1>2, <1>6, <3>1 DEF IInv, TypeOK
    <3> QED
      BY <3>1, <3>2 DEF Totals
  <2>2. CASE ~ wallet[u].open
    <3>1. Totals' = [Totals EXCEPT ![u] = Bonus] /\ ledger[u] = Abs!None /\ ledger' = Abs!Opened(u)
      BY <1>3, <1>4, <1>6, <2>2
    <3>2. Abs!Open(u)
      BY <3>1 DEF Abs!Open, Totals
    <3> QED
      BY <1>2, <3>2 DEF Abs!Next
  <2> QED
    BY <2>1, <2>2
<1>7. CASE UNCHANGED <<wallet, ledger>>
  BY <1>7 DEF Totals
<1>8. CASE /\ op[c].kind # "open" /\ ledger[k] = None /\ Insufficient(w, m)
           /\ wallet' = [wallet EXCEPT ![u] = w] /\ ledger' = [Opened(u) EXCEPT ![k] = Entry(m, "FAILED")]
  <2>1. Totals' = [Totals EXCEPT ![u] = Abs!Base(u)] /\ Abs!Base(u) + Abs!Delta(m) < 0
    BY <1>2, <1>3, <1>4, <1>8, RefusedIsNegative DEF Abs!Delta
  <2>2. ledger[k] = Abs!None /\ ledger' = [Abs!Opened(u) EXCEPT ![k] = Abs!Entry(m, "FAILED")]
    BY <1>3, <1>5, <1>8
  <2>3. Abs!Refuse(k, m)
    BY <1>2, <1>8, <2>1, <2>2 DEF Abs!Refuse, Totals
  <2> QED
    BY <1>2, <1>8, <2>3 DEF Abs!Next
<1>9. CASE /\ op[c].kind # "open" /\ ledger[k] = None /\ ~ Insufficient(w, m)
           /\ wallet' = [wallet EXCEPT ![u] = Moved(w, m)] /\ ledger' = [Opened(u) EXCEPT ![k] = Entry(m, "SUCCESS")]
  <2>1. TotalOf(Moved(w, m)) = Abs!Base(u) + Abs!Delta(m) /\ TotalOf(Moved(w, m)) >= 0
    BY <1>2, <1>3, <1>9, MovedIsWallet DEF Abs!Delta
  <2>2. Totals' = [Totals EXCEPT ![u] = Abs!Base(u) + Abs!Delta(m)]
    BY <1>4, <1>9, <2>1
  <2>3. ledger[k] = Abs!None /\ ledger' = [Abs!Opened(u) EXCEPT ![k] = Abs!Entry(m, "SUCCESS")]
    BY <1>3, <1>5, <1>9
  <2>4. Abs!Apply(k, m)
    BY <1>2, <1>9, <2>1, <2>2, <2>3 DEF Abs!Apply, Totals
  <2> QED
    BY <1>2, <1>9, <2>4 DEF Abs!Next
<1> QED
  BY <1>1, <1>6, <1>7, <1>8, <1>9 DEF Commit, KeyTaken, u, m, k, w

\* The calls of the wallet service, with their lookups, locks, stale snapshots,
\* conflicts and second runs, implement the ledger's promise: each key is decided
\* once, by one movement or one refusal, and the balance follows it.
THEOREM Implements == Spec => KeepsPromise
<1>1. Init => Abs!Init
  <2> SUFFICES ASSUME Init PROVE Abs!Init
    OBVIOUS
  <2>1. Totals = [u \in Users |-> 0]
    BY DEF Init, Totals, TotalOf, NoWallet
  <2> QED
    BY <2>1 DEF Init, Abs!Init, Totals, AllKeys, None, Abs!None
<1>2. IInv /\ [Next]_vars => [Abs!Next]_<<[u \in Users |-> TotalOf(wallet[u])], ledger>>
  <2> SUFFICES ASSUME IInv, [Next]_vars PROVE Abs!Next \/ UNCHANGED <<Totals, ledger>>
    BY DEF Totals
  <2>1. CASE UNCHANGED <<wallet, ledger>>
    BY <2>1 DEF Totals
  <2>2. ASSUME NEW c \in Calls, Commit(c) PROVE Abs!Next \/ UNCHANGED <<Totals, ledger>>
    BY <2>2, CommitKeeps
  <2>3. UNCHANGED <<wallet, ledger>> \/ \E c \in Calls : Commit(c)
    BY DEF Next, Step, vars, ApplyLedgerMovement, AdjustWallet, GetWalletBalance, Lookup, Begin, LockWallet, Recheck, Abort
  <2> QED
    BY <2>1, <2>2, <2>3
<1> QED
  BY <1>1, <1>2, InvariantHolds, PTL DEF Spec, KeepsPromise, Abs!Spec

=============================================================================
