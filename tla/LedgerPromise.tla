---------------------------- MODULE LedgerPromise ----------------------------
(***************************************************************************)
(* What the coin ledger promises, without saying how: an idempotency key   *)
(* is decided once, either by one movement of one user's balance or by its *)
(* refusal for lack of funds, and a wallet opens once, with its bonus.     *)
(* Lookups, locks, snapshots, conflicts and retries are the implementation *)
(* (CoinWallet).                                                           *)
(***************************************************************************)
EXTENDS Integers

CONSTANTS
    Users,      \* a user is also the idempotency key of the bonus of its wallet
    Keys,       \* the idempotency keys of callers
    Movements,  \* [user, type, direction, amount]
    Bonus       \* INITIAL_VIRTUAL_COINS

VARIABLES
    total,      \* the balance of every user, 0 before the wallet opens
    entry       \* what became of every key

None == [status |-> "NONE"]
Entry(m, s) == [mv |-> m, status |-> s]
BonusOf(u) == [user |-> u, type |-> "BONUS_CREDIT", direction |-> "CREDIT", amount |-> Bonus]

Delta(m) == IF m.direction = "CREDIT" THEN m.amount ELSE -m.amount
Base(u) == IF entry[u] = None THEN Bonus ELSE total[u]
Opened(u) == IF entry[u] = None THEN [entry EXCEPT ![u] = Entry(BonusOf(u), "SUCCESS")] ELSE entry

Init ==
    /\ total = [u \in Users |-> 0]
    /\ entry = [k \in Keys \cup Users |-> None]

Open(u) ==
    /\ entry[u] = None
    /\ entry' = Opened(u)
    /\ total' = [total EXCEPT ![u] = Bonus]

Apply(k, m) ==
    /\ entry[k] = None /\ Base(m.user) + Delta(m) >= 0
    /\ entry' = [Opened(m.user) EXCEPT ![k] = Entry(m, "SUCCESS")]
    /\ total' = [total EXCEPT ![m.user] = Base(m.user) + Delta(m)]

Refuse(k, m) ==
    /\ entry[k] = None /\ Base(m.user) + Delta(m) < 0
    /\ entry' = [Opened(m.user) EXCEPT ![k] = Entry(m, "FAILED")]
    /\ total' = [total EXCEPT ![m.user] = Base(m.user)]

Next ==
    \/ \E u \in Users : Open(u)
    \/ \E k \in Keys, m \in Movements : Apply(k, m) \/ Refuse(k, m)

Spec == Init /\ [][Next]_<<total, entry>>
===============================================================================
