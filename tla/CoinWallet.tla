------------------------------ MODULE CoinWallet ------------------------------
(***************************************************************************)
(* The coin wallet's ledger movements (wallet.service.ts and               *)
(* wallet.repository.ts): applyLedgerMovement, the administrator's         *)
(* adjustWallet around applyLedgerMovementInTransaction, and the wallet    *)
(* that opens on first use.                                                *)
(*                                                                         *)
(* A call looks its key up, opens a SERIALIZABLE transaction, locks the    *)
(* wallet row and commits; other calls run between any two of these steps. *)
(* The balances are computed from the row of the transaction's snapshot:   *)
(* the database fails a transaction whose row changed after the snapshot.  *)
(***************************************************************************)
EXTENDS WalletOps, FiniteSetsExt

CONSTANTS
    Users, Keys, Movements, Bonus,   \* see LedgerPromise
    Frozen,     \* users whose wallet is not ACTIVE
    Calls,      \* bound: calls of a run
    MaxFail     \* bound: transactions that fail for no reason of their own

ASSUME CoinWalletAssumption ==
    /\ Keys \cap Users = {} /\ Bonus \in Nat /\ MaxFail \in Nat
    /\ Movements \subseteq [user : Users, type : {"BONUS_CREDIT", "BET_DEBIT", "BET_WIN_CREDIT", "ADMIN_ADJUSTMENT"},
                            direction : {"CREDIT", "DEBIT"}, amount : Nat]

VARIABLES
    wallet,     \* wallets, NoWallet before first use
    ledger,     \* coin_ledger by its unique idempotency key
    audit,      \* keys of audit_logs WALLET_ADMIN_ADJUSTMENT
    op,         \* the calls
    left

vars == <<wallet, ledger, audit, op, left>>

NoWallet == [deposit |-> 0, winning |-> 0, open |-> FALSE]
Wallets == [deposit : Nat, winning : Nat, open : BOOLEAN]
None == [status |-> "NONE"]
Entry(m, s) == [mv |-> m, status |-> s]
BonusOf(u) == [user |-> u, type |-> "BONUS_CREDIT", direction |-> "CREDIT", amount |-> Bonus]
AllKeys == Keys \cup Users
Entries == {None} \cup [mv : Movements \cup {BonusOf(u) : u \in Users}, status : {"SUCCESS", "FAILED"}]

Answers == {"none", "ok", "replay", "conflict", "failed", "insufficient", "inactive", "error"}
Op == [at : {"idle", "lookup", "begin", "lock", "locked", "recheck", "done"},
       kind : {"open", "movement", "adjust"}, key : AllKeys, mv : Movements \cup {BonusOf(u) : u \in Users},
       snap : Wallets, tries : 0 .. 2, answer : Answers]

TypeOK ==
    /\ wallet \in [Users -> Wallets]
    /\ ledger \in [AllKeys -> Entries]
    /\ audit \subseteq Keys
    /\ op \in [Calls -> Op]
    /\ left \in 0 .. MaxFail

UserOf(c) == op[c].mv.user

Init ==
    /\ wallet = [u \in Users |-> NoWallet]
    /\ ledger = [k \in AllKeys |-> None]
    /\ audit = {}
    /\ \E u \in Users : op = [c \in Calls |-> [at |-> "idle", kind |-> "open", key |-> u, mv |-> BonusOf(u),
                                               snap |-> NoWallet, tries |-> 0, answer |-> "none"]]
    /\ left = MaxFail

-----------------------------------------------------------------------------
(* Parts of steps *)

Goto(c, at) == op' = [op EXCEPT ![c].at = at]
Answer(c, a) == op' = [op EXCEPT ![c].at = "done", ![c].answer = a]

\* Variant with a fault: any use of the key counts as a replay.
ReplayAny(c, e) == Answer(c, IF e.status = "FAILED" THEN "failed" ELSE "replay")
\* assertIdempotentReplay, assertReplayWasSuccessful
Replay(c, e) ==
    Answer(c, IF e.mv # op[c].mv THEN "conflict" ELSE IF e.status = "FAILED" THEN "failed" ELSE "replay")

\* ensureWalletForUser: the row of the snapshot, or the one it creates.
Ensured(w) == IF w.open THEN w ELSE [deposit |-> Bonus, winning |-> 0, open |-> TRUE]
Opened(u) == IF wallet[u].open THEN ledger ELSE [ledger EXCEPT ![u] = Entry(BonusOf(u), "SUCCESS")]

\* calculateNextBalances
Moved(w, m) ==
    IF m.direction = "CREDIT"
    THEN IF m.type = "BET_WIN_CREDIT" THEN CreditWinning(w, m.amount) ELSE CreditDeposit(w, m.amount)
    ELSE [w EXCEPT !.deposit = Debit(w, m.amount).deposit, !.winning = Debit(w, m.amount).winning]
Insufficient(w, m) == m.direction = "DEBIT" /\ InsufficientFunds(w, m.amount)

\* A transaction failed with P2002 or P2034.  applyLedgerMovement looks the key up
\* again after P2002 only; adjustWallet runs a second time after either.
Failed(c, code) ==
    IF op[c].kind = "adjust" /\ op[c].tries = 1 THEN op' = [op EXCEPT ![c].at = "begin", ![c].tries = 2]
    ELSE IF op[c].kind = "movement" /\ code = "P2002" THEN Goto(c, "recheck")
    ELSE Answer(c, "error")

-----------------------------------------------------------------------------
(* A call *)

\* creditCoins, debitCoins, creditBetWinnings, adminAdjustCoins
ApplyLedgerMovement(c, k, m) ==
    /\ op[c].at = "idle"
    /\ op' = [op EXCEPT ![c] = [@ EXCEPT !.at = "lookup", !.kind = "movement", !.key = k, !.mv = m]]
    /\ UNCHANGED <<wallet, ledger, audit, left>>

AdjustWallet(c, k, m) ==
    /\ op[c].at = "idle" /\ m.type = "ADMIN_ADJUSTMENT"
    /\ op' = [op EXCEPT ![c] = [@ EXCEPT !.at = "begin", !.kind = "adjust", !.key = k, !.mv = m, !.tries = 1]]
    /\ UNCHANGED <<wallet, ledger, audit, left>>

\* getWalletBalance, when there is no wallet yet
GetWalletBalance(c, u) ==
    /\ op[c].at = "idle" /\ ~ wallet[u].open
    /\ op' = [op EXCEPT ![c] = [@ EXCEPT !.at = "begin", !.key = u, !.mv = BonusOf(u)]]
    /\ UNCHANGED <<wallet, ledger, audit, left>>

\* findLedgerByIdempotencyKey, outside the transaction
Lookup(c) ==
    /\ op[c].at = "lookup"
    /\ IF ledger[op[c].key] # None THEN Replay(c, ledger[op[c].key]) ELSE Goto(c, "begin")
    /\ UNCHANGED <<wallet, ledger, audit, left>>

\* The first statement takes the snapshot; adjustWallet looks its key up in it.
Begin(c) ==
    /\ op[c].at = "begin"
    /\ IF op[c].kind = "adjust" /\ ledger[op[c].key] # None THEN Replay(c, ledger[op[c].key])
       ELSE op' = [op EXCEPT ![c].at = "lock", ![c].snap = wallet[UserOf(c)]]
    /\ UNCHANGED <<wallet, ledger, audit, left>>

\* Variant with a fault: an answered call keeps its lock.
HeldForever(u) == {c \in Calls : op[c].at \in {"locked", "done"} /\ UserOf(c) = u}
Locked(u) == {c \in Calls : op[c].at = "locked" /\ UserOf(c) = u}
\* The row is as the snapshot has it.
Unchanged(c) == wallet[UserOf(c)] = op[c].snap
\* The upsert and SELECT ... FOR UPDATE wait for the row, and fail when it changed.
LockWallet(c) ==
    /\ op[c].at = "lock" /\ Locked(UserOf(c)) = {}
    /\ IF Unchanged(c) THEN Goto(c, "locked")
       ELSE \E code \in {"P2002", "P2034"} :
               (code = "P2002" => ~ op[c].snap.open) /\ Failed(c, code)
    /\ UNCHANGED <<wallet, ledger, audit, left>>

\* Variant with a fault: no unique index.
UniqueIgnored(c) == FALSE
\* createLedgerEntry runs into the unique key.
KeyTaken(c) == op[c].kind # "open" /\ ledger[op[c].key] # None

Audited(c) == op[c].kind = "adjust"

\* The rest of the transaction.
Commit(c) ==
    LET u == UserOf(c)  m == op[c].mv  k == op[c].key  w == Ensured(op[c].snap) IN
    /\ op[c].at = "locked"
    /\ \/ /\ op[c].kind = "open"
          /\ wallet' = [wallet EXCEPT ![u] = w] /\ ledger' = Opened(u)
          /\ Answer(c, "ok") /\ UNCHANGED audit
       \/ /\ op[c].kind # "open" /\ u \in Frozen
          /\ Answer(c, "inactive") /\ UNCHANGED <<wallet, ledger, audit>>
       \/ /\ u \notin Frozen /\ KeyTaken(c)
          /\ Failed(c, "P2002") /\ UNCHANGED <<wallet, ledger, audit>>
       \/ /\ op[c].kind # "open" /\ u \notin Frozen /\ ~ KeyTaken(c) /\ Insufficient(w, m)
          /\ IF op[c].kind = "adjust" THEN UNCHANGED <<wallet, ledger>>   \* thrown inside the transaction
             ELSE wallet' = [wallet EXCEPT ![u] = w] /\ ledger' = [Opened(u) EXCEPT ![k] = Entry(m, "FAILED")]
          /\ Answer(c, "insufficient") /\ UNCHANGED audit
       \/ /\ op[c].kind # "open" /\ u \notin Frozen /\ ~ KeyTaken(c) /\ ~ Insufficient(w, m)
          /\ wallet' = [wallet EXCEPT ![u] = Moved(w, m)]
          /\ ledger' = [Opened(u) EXCEPT ![k] = Entry(m, "SUCCESS")]
          /\ audit' = IF Audited(c) THEN audit \cup {k} ELSE audit
          /\ Answer(c, "ok")
    /\ UNCHANGED left

\* findLedgerByIdempotencyKeyForUser after P2002
Recheck(c) ==
    LET e == ledger[op[c].key] IN
    /\ op[c].at = "recheck"
    /\ IF e # None /\ e.mv.user = UserOf(c) THEN Replay(c, e) ELSE Answer(c, "error")
    /\ UNCHANGED <<wallet, ledger, audit, left>>

\* The database fails the transaction: a false serialization conflict, or its timeout.
Abort(c) ==
    /\ op[c].at \in {"lock", "locked"} /\ left > 0 /\ left' = left - 1
    /\ Failed(c, "P2034")
    /\ UNCHANGED <<wallet, ledger, audit>>

-----------------------------------------------------------------------------
Step(c) == Lookup(c) \/ Begin(c) \/ LockWallet(c) \/ Commit(c) \/ Recheck(c)

Next ==
    \E c \in Calls :
        \/ \E k \in Keys, m \in Movements : ApplyLedgerMovement(c, k, m) \/ AdjustWallet(c, k, m)
        \/ \E u \in Users : GetWalletBalance(c, u)
        \/ Step(c) \/ Abort(c)

Spec == Init /\ [][Next]_vars

\* The server and the database go on with every call.
FairSpec == Spec /\ \A c \in Calls : WF_vars(Step(c))

-----------------------------------------------------------------------------
(* Properties *)

Abs == INSTANCE LedgerPromise WITH
           total <- [u \in Users |-> TotalOf(wallet[u])], entry <- ledger
\* Every key is decided once, by one movement or one refusal, whatever lookups,
\* conflicts, retries and stale snapshots lie between: the ledger's promise.
KeepsPromise == Abs!Spec

\* A caller that is told its movement was made, now or by an earlier call, finds
\* exactly this movement in the ledger as a success.
AnswersAreTrue ==
    \A c \in Calls : op[c].answer \in {"ok", "replay"} => ledger[op[c].key] = Entry(op[c].mv, "SUCCESS")

\* What makes the answers true: a call holds the lock of a wallet alone and has
\* its row as it is, and a wallet is open exactly when its bonus is in the ledger.
CallOK(c) ==
    /\ op[c].kind = "open" => op[c].key = UserOf(c) /\ op[c].mv = BonusOf(UserOf(c))
    /\ op[c].kind # "open" => op[c].key \in Keys /\ op[c].mv \in Movements
    /\ op[c].at = "idle" => op[c].kind = "open"
    /\ op[c].at # "done" => op[c].answer = "none"
    /\ op[c].at = "locked" => op[c].snap = wallet[UserOf(c)]
BooksOK(u) ==
    /\ wallet[u].open => ledger[u] = Entry(BonusOf(u), "SUCCESS")
    /\ ~ wallet[u].open => wallet[u] = NoWallet /\ ledger[u] = None
OneHolder ==
    \A c, d \in Calls :
        op[c].at = "locked" /\ op[d].at = "locked" /\ UserOf(c) = UserOf(d) => c = d
IInv == TypeOK /\ (\A c \in Calls : CallOK(c)) /\ (\A u \in Users : BooksOK(u)) /\ OneHolder /\ AnswersAreTrue

\* Every adjustment adjustWallet reports has its audit record, on its second run too.
AdjustmentsAudited ==
    \A c \in Calls : op[c].kind = "adjust" /\ op[c].answer = "ok" => op[c].key \in audit

\* Every call gets an answer: nobody waits for a lock for ever or retries endlessly.
CallsAnswered == \A c \in Calls : (op[c].at # "idle") ~> (op[c].at = "done")
===============================================================================
