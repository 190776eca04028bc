------------------------------ MODULE RealMoney ------------------------------
(***************************************************************************)
(* The compliance-gated paise domain: wallets, bets, withdrawals, round    *)
(* settlement and refund (modules/real-money), and the places in the round *)
(* engine and the administrator's service that call it.                    *)
(*                                                                         *)
(* Every transaction of this domain is Serializable and is one action,     *)
(* except placeBet's: it reads the round row, which the engine moves with  *)
(* plain statements the serialization check does not see, so its snapshot  *)
(* and its commit are two actions.  A committing transaction aborts the    *)
(* open bet transactions PostgreSQL would abort (Surviving).               *)
(***************************************************************************)
EXTENDS Integers, FiniteSets, Functions

CONSTANTS
    Users, Colors, Stakes, Amounts,   \* stakePaise and withdrawal amountPaise
    MaxRound,          \* bound: rounds created
    Requests,          \* bet and withdrawal requests that may be in flight
    BetKeys,           \* bet idempotency keys
    WithdrawalKeys,    \* withdrawal idempotency keys
    DecisionKeys,      \* idempotency keys of decideWithdrawal
    Deposits,          \* verified deposit events, one user's each
    DepositPaise,      \* amount of a deposit
    Engines, Admins,   \* processes that settle and refund
    Scenarios,         \* what a run explores, one for each of its initial states
    MaxFaults, MaxDay, \* bounds: failed transactions, crashes and lost seeds; midnights
    MaxRoundExposure, MaxColorExposure,  \* MAX_REAL_MONEY_EXPOSURE_PER_*
    DailyWithdrawal, DailyLoss,          \* daily limits in force
    None               \* no row, no request, NULL

Scenario == [
    ops     : SUBSET {"stop", "result", "withdraw", "kyc", "risk", "limits", "freeze"},
                       \* operations of the administrators
    users : SUBSET Users, askers : SUBSET Users,   \* the players, those who withdraw
    bets    : SUBSET BetKeys,      \* the keys used
    faults  : 0 .. MaxFaults, days : 0 .. MaxDay]    \* the bounds of this scenario

ASSUME RealMoneyAssumption ==
    /\ Scenarios \subseteq Scenario
    /\ Stakes \subseteq Nat \ {0} /\ Amounts \subseteq Nat \ {0} /\ DepositPaise \in Nat
    /\ MaxRound \in Nat /\ MaxFaults \in Nat /\ MaxDay \in Nat
    /\ MaxRoundExposure \in Nat /\ MaxColorExposure \in Nat

Multiplier == 2        \* REAL_MONEY_WIN_PAYOUT_MULTIPLIER

Rounds   == 1 .. MaxRound
Procs    == Engines \cup Admins
Operation == {"BET", "DEPOSIT", "WITHDRAWAL"}
Live     == {"OPEN", "LOCKED", "RESOLVING"}
Ended    == {"COMPLETED", "CANCELLED"}

VARIABLES
    round,        \* game_rounds, as RoundGame moves them
    wallet,       \* real_money_game_wallets
    ledger,       \* real_money_game_ledger
    bets,         \* real_money_bets, by idempotency key
    withdrawals,  \* real_money_withdrawals, by idempotency key
    settlement,   \* real_money_round_settlements
    standing,     \* KYC, risk controls and self-exclusion of a user
    decided,      \* idempotency keys of audited withdrawal decisions
    request,      \* requests in flight, with what they read
    pc, job,      \* where each settling process is, and for which round
    day, faults,
    scenario      \* the scenario explored

game  == <<round, settlement, pc, job>>
money == <<wallet, ledger, bets, withdrawals>>
desk  == <<standing, decided, day>>
state == <<game, money, desk, request, faults>>
vars  == <<state, scenario>>

AdminOps == scenario.ops

Bet == [user : Users, round : Rounds, choice : Colors, stake : Stakes, day : 0 .. MaxDay,
        status : {"PENDING", "WON", "LOST", "REFUNDED"}]
Withdrawal == [user : Users, amount : Amounts, day : 0 .. MaxDay,
               status : {"REQUESTED", "APPROVED", "REJECTED", "PAID"}]
Entry == [kind : {"deposit", "bet-lock", "bet-settlement", "bet-refund",
                  "withdrawal-lock", "withdrawal-reject", "withdrawal-paid"},
          ref : BetKeys \cup WithdrawalKeys \cup Deposits, user : Users,
          available : Int, locked : Int]
BetRequest == [op : {"BET"}, stage : {"checked", "open"}, key : BetKeys, user : Users,
               round : Rounds, choice : Colors, stake : Stakes, forced : BOOLEAN]
WithdrawalRequest == [op : {"WITHDRAWAL"}, key : WithdrawalKeys, user : Users,
                      amount : Amounts]

ASSUME NoneAssumption ==
    /\ None \notin Colors /\ None \notin Bet /\ None \notin Withdrawal
    /\ None \notin BetRequest /\ None \notin WithdrawalRequest

TypeOK ==
    /\ round \in [Rounds -> [status : {"ABSENT"} \cup Live \cup Ended, result : Colors \cup {None}]]
    /\ wallet \in [Users -> [available : Nat, locked : Nat, active : BOOLEAN]]
    /\ \A e \in ledger : e \in Entry
    /\ bets \in [BetKeys -> Bet \cup {None}]
    /\ withdrawals \in [WithdrawalKeys -> Withdrawal \cup {None}]
    /\ settlement \in [Rounds -> [status : {"NONE", "SUCCESS", "FAILED"}, result : Colors \cup {None}]]
    /\ standing \in [Users -> [verified : BOOLEAN, blocked : SUBSET Operation, excluded : BOOLEAN]]
    /\ decided \subseteq DecisionKeys
    /\ request \in [Requests -> BetRequest \cup WithdrawalRequest \cup {None}]
    /\ pc \in [Procs -> {"idle", "settle", "failed", "complete", "refund"}]
    /\ job \in [Procs -> [round : 0 .. MaxRound, result : Colors \cup {None}]]
    /\ day \in 0 .. MaxDay /\ faults \in 0 .. MaxFaults /\ scenario \in Scenarios

Init ==
    /\ round = [r \in Rounds |-> [status |-> "ABSENT", result |-> None]]
    /\ wallet = [u \in Users |-> [available |-> 0, locked |-> 0, active |-> TRUE]]
    /\ ledger = {}
    /\ bets = [k \in BetKeys |-> None]
    /\ withdrawals = [k \in WithdrawalKeys |-> None]
    /\ settlement = [r \in Rounds |-> [status |-> "NONE", result |-> None]]
    /\ standing = [u \in Users |-> [verified |-> TRUE, blocked |-> {}, excluded |-> FALSE]]
    /\ decided = {}
    /\ request = [q \in Requests |-> None]
    /\ pc = [p \in Procs |-> "idle"]
    /\ job = [p \in Procs |-> [round |-> 0, result |-> None]]
    /\ day = 0 /\ faults = 0 /\ scenario \in Scenarios

-----------------------------------------------------------------------------
(* Queries and ledger-backed movements *)

Placed  == {k \in BetKeys : bets[k] # None}
Asked   == {k \in WithdrawalKeys : withdrawals[k] # None}
Pending(r) == {k \in Placed : bets[k].round = r /\ bets[k].status = "PENDING"}

StakeSum(S)  == SumFunction([k \in S |-> bets[k].stake])
AmountSum(S) == SumFunction([k \in S |-> withdrawals[k].amount])

\* kolkataDayBounds: what counts today.
WithdrawnToday(u) ==
    AmountSum({k \in Asked : /\ withdrawals[k].user = u
                             /\ withdrawals[k].day = day
                             /\ withdrawals[k].status # "REJECTED"})
LostToday(u) ==
    StakeSum({k \in Placed : bets[k].user = u /\ bets[k].status = "LOST" /\ bets[k].day = day})

\* eligibility, with every compliance flag open and an active user.
Eligible(u) == standing[u].verified /\ ~standing[u].excluded /\ wallet[u].active

\* assertActionAllowed
Allowed(u, op) ==
    /\ op = "BET" => \A r \in Rounds : settlement[r].status # "FAILED"
    /\ Eligible(u) /\ op \notin standing[u].blocked

Available(E) == SumFunction([e \in E |-> e.available])
Locked(E)    == SumFunction([e \in E |-> e.locked])

\* moveWallet: lockWallet's row, one ledger row per movement, the new snapshot.
\* A movement below zero is a 409, a key used before violates the unique index.
Move(entries) ==
    LET Of(u) == {e \in entries : e.user = u}
    IN  /\ \A e \in entries : ~\E f \in ledger : f.kind = e.kind /\ f.ref = e.ref
        /\ wallet' = [u \in Users |->
              [wallet[u] EXCEPT !.available = @ + Available(Of(u)), !.locked = @ + Locked(Of(u))]]
        /\ \A u \in Users : wallet'[u].available >= 0 /\ wallet'[u].locked >= 0
        /\ ledger' = ledger \cup entries

Row(kind, ref, u, available, locked) ==
    [kind |-> kind, ref |-> ref, user |-> u, available |-> available, locked |-> locked]

OpenBet(q) == request[q] # None /\ request[q].op = "BET" /\ request[q].stage = "open"

\* A committing transaction that wrote the wallet rows of S aborts the open bet
\* transactions that will SELECT one of them FOR UPDATE.
HoldsNone(q, S) == ~OpenBet(q) \/ request[q].user \notin S
Surviving(S) == [q \in Requests |-> IF q \in S THEN request[q] ELSE None]

\* It read the pending bets of round r (an open bet on r would have been one):
\* fatal to an open bet that has itself read what somebody wrote, the bets the
\* committing one changed or the round row a Serializable force operation moved.
Harmless(q, r, changed) ==
    \/ ~OpenBet(q) \/ request[q].round # r
    \/ changed = {} /\ ~request[q].forced

-----------------------------------------------------------------------------
(* RealMoneyService.placeBet *)

\* assertActionAllowed, assertDailyLimit and the replay lookup, before the transaction.
CheckBet(q, k, u, r, c, s) ==
    /\ request[q] = None
    /\ bets[k] = None
    /\ round[r].status # "ABSENT"
    /\ Allowed(u, "BET") /\ LostToday(u) < DailyLoss
    /\ request' = [request EXCEPT ![q] =
          [op |-> "BET", stage |-> "checked", key |-> k, user |-> u, round |-> r,
           choice |-> c, stake |-> s, forced |-> FALSE]]
    /\ UNCHANGED <<game, money, desk, faults>>

\* The snapshot: the round is OPEN, the exposure and the funds suffice.
CanBet(b) ==
    /\ round[b.round].status = "OPEN"
    /\ StakeSum(Pending(b.round)) + b.stake <= MaxRoundExposure
    /\ StakeSum({k \in Pending(b.round) : bets[k].choice = b.choice}) + b.stake
          <= MaxColorExposure
    /\ wallet[b.user].active /\ wallet[b.user].available >= b.stake

BeginBet(q) ==
    /\ request[q] # None /\ request[q].op = "BET" /\ request[q].stage = "checked"
    /\ request' = [request EXCEPT ![q] =
          IF CanBet(@) /\ bets[@.key] = None THEN [@ EXCEPT !.stage = "open"] ELSE None]
    /\ UNCHANGED <<game, money, desk, faults>>

NoRivals(q) == {}  \* variant with a fault: concurrent bets do not exclude one another

\* Other open bets on the round read its pending bets before this one was there,
\* and so did this one before theirs; a used key violates the unique index.
Rivals(q) == {x \in Requests : OpenBet(x) /\ \/ request[x].round = request[q].round
                                              \/ request[x].key = request[q].key}

CommitBet(q) ==
    LET b == request[q]
    IN  /\ OpenBet(q)
        /\ bets' = [bets EXCEPT ![b.key] =
              [user |-> b.user, round |-> b.round, choice |-> b.choice, stake |-> b.stake,
               day |-> 0, status |-> "PENDING"]]
        /\ Move({Row("bet-lock", b.key, b.user, -b.stake, b.stake)})
        /\ request' = Surviving({x \in Requests : x \notin Rivals(q) \cup {q} /\ HoldsNone(x, {b.user})})
        /\ UNCHANGED <<game, withdrawals, desk, faults>>

-----------------------------------------------------------------------------
(* Deposits and withdrawals *)

\* creditRealMoneyDeposit, inside the transaction that processes event e.
CreditDeposit(e, u) ==
    /\ Move({Row("deposit", e, u, DepositPaise, 0)})
    /\ request' = Surviving({x \in Requests : HoldsNone(x, {u})})
    /\ UNCHANGED <<game, bets, withdrawals, desk, faults>>

\* requestWithdrawal: eligibility, daily limit and replay before the transaction.
CheckWithdrawal(q, k, u, a) ==
    /\ request[q] = None
    /\ Allowed(u, "WITHDRAWAL")
    /\ WithdrawnToday(u) + a <= DailyWithdrawal
    /\ withdrawals[k] = None
    /\ request' = [request EXCEPT ![q] =
          [op |-> "WITHDRAWAL", key |-> k, user |-> u, amount |-> a]]
    /\ UNCHANGED <<game, money, desk, faults>>

\* The transaction locks the amount, or fails for want of funds or a used key.
LockWithdrawal(q) ==
    LET b == request[q]
    IN  /\ b # None /\ b.op = "WITHDRAWAL"
        /\ IF wallet[b.user].available >= b.amount /\ withdrawals[b.key] = None
           THEN /\ withdrawals' = [withdrawals EXCEPT ![b.key] =
                      [user |-> b.user, amount |-> b.amount, day |-> day, status |-> "REQUESTED"]]
                /\ Move({Row("withdrawal-lock", b.key, b.user, -b.amount, b.amount)})
                /\ request' = Surviving({x \in Requests : x # q /\ HoldsNone(x, {b.user})})
           ELSE /\ request' = [request EXCEPT ![q] = None]
                /\ UNCHANGED <<wallet, ledger, withdrawals>>
        /\ UNCHANGED <<game, bets, desk, faults>>

\* Variant with a fault: a rejected withdrawal can be taken up again.
LenientTransition == [APPROVE |-> {"REQUESTED", "REJECTED"}, REJECT |-> {"REQUESTED", "APPROVED"},
                      MARK_PAID |-> {"APPROVED"}]

\* decideWithdrawal: a used decision key is a replay and changes nothing.
Transition == [APPROVE |-> {"REQUESTED"}, REJECT |-> {"REQUESTED", "APPROVED"},
               MARK_PAID |-> {"APPROVED"}]
Outcome    == [APPROVE |-> "APPROVED", REJECT |-> "REJECTED", MARK_PAID |-> "PAID"]

DecideWithdrawal(k, action, d) ==
    LET w == withdrawals[k]
    IN  /\ "withdraw" \in AdminOps /\ d \notin decided
        /\ w # None /\ w.status \in Transition[action]
        /\ CASE action = "APPROVE"   -> UNCHANGED <<wallet, ledger>>
             [] action = "REJECT"    -> Move({Row("withdrawal-reject", k, w.user, w.amount, -w.amount)})
             [] action = "MARK_PAID" -> Move({Row("withdrawal-paid", k, w.user, 0, -w.amount)})
        /\ withdrawals' = [withdrawals EXCEPT ![k].status = Outcome[action]]
        /\ decided' = decided \cup {d}
        /\ request' = Surviving({x \in Requests : HoldsNone(x, IF action = "APPROVE" THEN {} ELSE {w.user})})
        /\ UNCHANGED <<game, bets, standing, day, faults>>

-----------------------------------------------------------------------------
(* RealMoneyAdminService: eligibility and the freeze switch *)

ReviewKyc(u, ok) ==
    /\ "kyc" \in AdminOps
    /\ standing' = [standing EXCEPT ![u].verified = ok]
    /\ UNCHANGED <<game, money, decided, day, request, faults>>

SetRiskControls(u, S) ==
    /\ "risk" \in AdminOps
    /\ standing' = [standing EXCEPT ![u].blocked = S]
    /\ UNCHANGED <<game, money, decided, day, request, faults>>

SetResponsibleLimits(u, excluded) ==
    /\ "limits" \in AdminOps
    /\ standing' = [standing EXCEPT ![u].excluded = excluded]
    /\ UNCHANGED <<game, money, decided, day, request, faults>>

SetWalletFrozen(u, frozen) ==
    /\ "freeze" \in AdminOps
    /\ wallet' = [wallet EXCEPT ![u].active = ~frozen]
    /\ request' = Surviving({x \in Requests : HoldsNone(x, {u})})
    /\ UNCHANGED <<game, ledger, bets, withdrawals, desk, faults>>

\* Midnight in Asia/Kolkata.
Midnight == day < scenario.days /\ day' = day + 1 /\ UNCHANGED <<game, money, standing, decided, request, faults>>

-----------------------------------------------------------------------------
(* The round, as far as real money depends on it: RoundGame has the details. *)

At(p, to, r, c) ==
    /\ pc' = [pc EXCEPT ![p] = to]
    /\ job' = [job EXCEPT ![p] = [round |-> r, result |-> c]]
Done(p) == At(p, "idle", 0, None)

\* createNextRound
OpenRound(r) ==
    /\ round[r].status = "ABSENT"
    /\ \A x \in 1 .. (r - 1) : round[x].status \in Ended
    /\ round' = [round EXCEPT ![r].status = "OPEN"]
    /\ UNCHANGED <<settlement, pc, job, money, desk, request, faults>>

\* updateRoundStatus OPEN -> LOCKED, a plain statement.
LockRound(r) ==
    /\ round[r].status = "OPEN"
    /\ round' = [round EXCEPT ![r].status = "LOCKED"]
    /\ UNCHANGED <<settlement, pc, job, money, desk, request, faults>>

AnyResult(r, c) == TRUE  \* variant with a fault: ROUND_RESULT_CONFLICT is not checked

\* The result is fixed once and kept by whoever resumes the round.
MayResult(r, c) == round[r].result \in {c, None}

\* resolveRound up to the real-money settlement.
Resolve(p, r, c) ==
    /\ pc[p] = "idle"
    /\ round[r].status \in {"LOCKED", "RESOLVING"}
    /\ MayResult(r, c)
    /\ round' = [round EXCEPT ![r] = [status |-> "RESOLVING", result |-> c]]
    /\ At(p, "settle", r, c)
    /\ UNCHANGED <<settlement, money, desk, request, faults>>

\* recoverUnresolvableRound, of a round whose seed is lost: the coin bets are
\* refunded, the paise bets are not.
Recover(p, r) ==
    /\ pc[p] = "idle" /\ faults < scenario.faults
    /\ round[r].status \in {"LOCKED", "RESOLVING"}
    /\ round' = [round EXCEPT ![r].status = "CANCELLED"]
    /\ faults' = faults + 1
    /\ UNCHANGED <<settlement, pc, job, money, desk, request>>

\* A Serializable transaction wrote the round row an open bet on r has read.
Forced(r) == [q \in Requests |-> IF OpenBet(q) /\ request[q].round = r
                                 THEN [request[q] EXCEPT !.forced = TRUE] ELSE request[q]]

\* forceResult's transaction, then (in RoundGame) the coin settlement.
ForceResult(p, r, c) ==
    /\ "result" \in AdminOps
    /\ pc[p] = "idle"
    /\ round[r].status \in Live
    /\ MayResult(r, c)
    /\ round' = [round EXCEPT ![r] = [status |-> "RESOLVING", result |-> c]]
    /\ request' = Forced(r)
    /\ At(p, "settle", r, c)
    /\ UNCHANGED <<settlement, money, desk, faults>>

\* The transaction of forceStopRound, and of forceStartRound for the round it ends.
ForceStop(p, r) ==
    /\ "stop" \in AdminOps
    /\ pc[p] = "idle"
    /\ round[r].status \in Live
    /\ round' = [round EXCEPT ![r].status = "CANCELLED"]
    /\ request' = Forced(r)
    /\ At(p, "refund", r, None)
    /\ UNCHANGED <<settlement, money, desk, faults>>

-----------------------------------------------------------------------------
(* RealMoneySettlementService *)

\* Variant with a fault: the outcome is written to every bet of the round.
MarkedAll(S, status) ==
    [k \in BetKeys |-> IF k \in Placed /\ \E x \in Procs : job[x].round = bets[k].round
                       THEN [bets[k] EXCEPT !.status = IF k \in S THEN status[k] ELSE "LOST", !.day = day]
                       ELSE bets[k]]

\* The bets of S get their status, settled today.
Marked(S, status) ==
    [k \in BetKeys |-> IF k \in S THEN [bets[k] EXCEPT !.status = status[k], !.day = day]
                                ELSE bets[k]]

\* Both transactions decide the pending bets of round r and move their stakes.
Decide(r, status, moves) ==
    /\ bets' = Marked(Pending(r), status)
    /\ Move(moves)
    /\ request' = Surviving({q \in Requests : /\ HoldsNone(q, {bets[k].user : k \in Pending(r)})
                                              /\ Harmless(q, r, Pending(r))})

Payout(b, c) == IF b.choice = c THEN b.stake * Multiplier ELSE 0

\* REAL_MONEY_SETTLEMENT_RESULT_CONFLICT
ResultConflict(p) ==
    LET s == settlement[job[p].round]
    IN  s.status = "FAILED" /\ s.result # job[p].result

\* settleRound
SettleRound(p) ==
    LET r == job[p].round
        c == job[p].result
    IN  /\ pc[p] = "settle"
        /\ ~ResultConflict(p)
        /\ IF settlement[r].status = "SUCCESS"
           THEN UNCHANGED <<bets, wallet, ledger, settlement, request>>
           ELSE /\ Decide(r, [k \in Pending(r) |-> IF bets[k].choice = c THEN "WON" ELSE "LOST"],
                          {Row("bet-settlement", k, bets[k].user, Payout(bets[k], c), -bets[k].stake)
                             : k \in Pending(r)})
                /\ settlement' = [settlement EXCEPT ![r] = [status |-> "SUCCESS", result |-> c]]
        /\ At(p, "complete", r, c)
        /\ UNCHANGED <<round, withdrawals, desk, faults>>

\* The transaction fails: another result, serialization failure, timeout, lost connection.
SettlementAborts(p) ==
    /\ pc[p] = "settle"
    /\ faults < scenario.faults \/ ResultConflict(p)
    /\ At(p, "failed", job[p].round, job[p].result)
    /\ faults' = IF ResultConflict(p) THEN faults ELSE faults + 1
    /\ UNCHANGED <<round, settlement, money, desk, request>>

\* Its catch block: FAILED whatever the row says, or an error that is swallowed.
RecordFailure(p) ==
    LET r == job[p].round
    IN  /\ pc[p] = "failed"
        /\ settlement' = [settlement EXCEPT ![r] =
              [status |-> "FAILED", result |-> IF @.status = "NONE" THEN job[p].result ELSE @.result]]
        /\ At(p, "complete", r, job[p].result)
        /\ UNCHANGED <<round, money, desk, request, faults>>

\* The rest of the caller: the engine's guarded update, forceResult's plain one.
Complete(p) ==
    LET r == job[p].round
    IN  /\ pc[p] = "complete"
        /\ round' = IF p \in Admins \/ round[r].status = "RESOLVING"
                    THEN [round EXCEPT ![r] = [status |-> "COMPLETED", result |-> job[p].result]]
                    ELSE round
        /\ Done(p)
        /\ UNCHANGED <<settlement, money, desk, request, faults>>

Refund(k) == Row("bet-refund", k, bets[k].user, bets[k].stake, -bets[k].stake)

\* Variant with a fault: the refund is never made.
RefundNothing(p) == pc[p] = "refund" /\ Done(p) /\ UNCHANGED <<round, settlement, money, desk, request, faults>>

\* refundRound
RefundRound(p) ==
    LET r == job[p].round
    IN  /\ pc[p] = "refund"
        /\ Decide(r, [k \in Pending(r) |-> "REFUNDED"], {Refund(k) : k \in Pending(r)})
        /\ Done(p)
        /\ UNCHANGED <<round, settlement, withdrawals, desk, faults>>

\* The process dies, or an error that nobody catches ends the request.
Crash(p) ==
    /\ pc[p] # "idle" /\ faults < scenario.faults
    /\ Done(p)
    /\ faults' = faults + 1
    /\ UNCHANGED <<round, settlement, money, desk, request>>

-----------------------------------------------------------------------------
Player ==
    \E q \in Requests :
       \/ \E k \in scenario.bets, u \in scenario.users, r \in Rounds, c \in Colors, s \in Stakes :
             CheckBet(q, k, u, r, c, s)
       \/ BeginBet(q)
       \/ CommitBet(q)
       \/ \E k \in WithdrawalKeys, u \in scenario.askers, a \in Amounts : CheckWithdrawal(q, k, u, a)
       \/ LockWithdrawal(q)

Office ==
    \E u \in scenario.users :
       \/ \E e \in Deposits : CreditDeposit(e, u)
       \/ \E ok \in BOOLEAN : ReviewKyc(u, ok) \/ SetResponsibleLimits(u, ok) \/ SetWalletFrozen(u, ok)
       \/ \E S \in SUBSET Operation : SetRiskControls(u, S)

Settling(p) == SettleRound(p) \/ RecordFailure(p) \/ Complete(p) \/ RefundRound(p)

Engine ==
    \E p \in Engines, r \in Rounds : (\E c \in Colors : Resolve(p, r, c)) \/ Recover(p, r)

ForcedEnd ==
    \E p \in Admins, r \in Rounds : (\E c \in Colors : ForceResult(p, r, c)) \/ ForceStop(p, r)

Next ==
    /\ UNCHANGED scenario
    /\ \/ Player \/ Office \/ Engine \/ ForcedEnd \/ Midnight
       \/ \E r \in Rounds : OpenRound(r) \/ LockRound(r)
       \/ \E k \in WithdrawalKeys, d \in DecisionKeys, action \in DOMAIN Outcome :
             DecideWithdrawal(k, action, d)
       \/ \E p \in Procs : Settling(p) \/ SettlementAborts(p) \/ Crash(p)

Spec == Init /\ [][Next]_vars

\* The scheduler ticks for ever and a request that was begun goes on.
FairSpec ==
    /\ Spec
    /\ \A r \in Rounds : WF_state(LockRound(r))
    /\ \A p \in Engines, r \in Rounds : WF_state(\E c \in Colors : Resolve(p, r, c))
    /\ \A p \in Procs : WF_state(Settling(p))

-----------------------------------------------------------------------------
(* Properties *)

\* The paise held in a wallet are explained by the records: what is locked is
\* the stake of every undecided bet and every open withdrawal, and what is
\* available is deposits and payouts less stakes and withdrawals.  Settlement,
\* refund, rejection and payment run in any order and may fail half way.
WalletMatchesRecords ==
    \A u \in Users :
       LET B(st) == {k \in Placed : bets[k].user = u /\ bets[k].status \in st}
           W(st) == {k \in Asked : withdrawals[k].user = u /\ withdrawals[k].status \in st}
           D == {e \in ledger : e.kind = "deposit" /\ e.user = u}
       IN  /\ wallet[u].locked = StakeSum(B({"PENDING"})) + AmountSum(W({"REQUESTED", "APPROVED"}))
           /\ wallet[u].available =
                 Cardinality(D) * DepositPaise + Multiplier * StakeSum(B({"WON"}))
                 - StakeSum(B({"PENDING", "WON", "LOST"}))
                 - AmountSum(W({"REQUESTED", "APPROVED", "PAID"}))

\* No sum of open bets ever exceeds the exposure limits, though every bet
\* checks them against a snapshot that others change before it commits.
ExposureWithinLimits ==
    \A r \in Rounds :
       /\ StakeSum(Pending(r)) <= MaxRoundExposure
       /\ \A c \in Colors : StakeSum({k \in Pending(r) : bets[k].choice = c}) <= MaxColorExposure

\* Every bet that was won or lost agrees with the result its round shows, however
\* the engine, forceResult and a failed settlement interleave.
BetFollowsResult ==
    \A k \in Placed :
       LET b == bets[k]
       IN  b.status \in {"WON", "LOST"} =>
              /\ round[b.round].result # None
              /\ (b.status = "WON") = (b.choice = round[b.round].result)

\* A bet is decided once, though the settlement of the engine, that of
\* forceResult and the refund of forceStop may all run on one round.
DecidedOnce ==
    [][\A k \in Placed : bets[k].status # "PENDING" => bets'[k] = bets[k]]_vars

\* Unless an attempt to settle fails or the round's seed is lost, a bet that was
\* placed while its round was open is settled or refunded, whoever ends the round.
OpenBetIsDecided ==
    \A k \in BetKeys :
       \A r \in Rounds :
          (k \in Pending(r) /\ round[r].status = "OPEN") ~> (k \notin Pending(r) \/ faults > 0)

\* What makes them true.  A bet or a withdrawal has its ledger row, so that its
\* key cannot be used again; whoever settles a round has the round's result; and
\* an open bet transaction still has room for its stake, or else it is a rival
\* that the commit of another one aborts.
RowsAreLogged ==
    /\ \A k \in Placed : \E e \in ledger : e.kind = "bet-lock" /\ e.ref = k
    /\ IsFiniteSet(Placed) /\ IsFiniteSet(Asked) /\ IsFiniteSet(ledger)
SettlersKnowResult ==
    \A p \in Procs :
       /\ pc[p] # "idle" => job[p].round \in Rounds
       /\ pc[p] \in {"settle", "failed", "complete"} =>
             job[p].result \in Colors /\ round[job[p].round].result = job[p].result
OpenBetsFit ==
    \A q \in Requests :
       LET b == request[q]
       IN  OpenBet(q) =>
              /\ StakeSum(Pending(b.round)) + b.stake <= MaxRoundExposure
              /\ StakeSum({k \in Pending(b.round) : bets[k].choice = b.choice}) + b.stake
                    <= MaxColorExposure
IInv ==
    /\ TypeOK /\ RowsAreLogged /\ SettlersKnowResult /\ OpenBetsFit
    /\ WalletMatchesRecords /\ ExposureWithinLimits /\ BetFollowsResult

\* assertDailyLimit (real-money.service.ts:212): what a user withdraws in a day
\* stays within the daily limit.
WithdrawalWithinDailyLimit == \A u \in Users : WithdrawnToday(u) <= DailyWithdrawal

\* "Sandbox bets are accepted only during the open phase"
\* (real-money.service.ts:127): least of all in a round already settled.
SettledRoundTakesNoBet ==
    [][\A k \in BetKeys : bets[k] = None /\ bets'[k] # None
          => settlement[bets'[k].round].status # "SUCCESS"]_vars

\* A settlement reported as failed (settlementAlerts, the reconciliation script)
\* has not decided the bets of its round.
FailedIsUnpaid ==
    \A k \in Placed : settlement[bets[k].round].status = "FAILED"
                          => bets[k].status \notin {"WON", "LOST"}

\* "A cancelled round refunds and cancels pending bets" (modules/game/README.md:36).
CancelledIsRefunded ==
    \A r \in Rounds : (round[r].status = "CANCELLED") ~> (Pending(r) = {})
=============================================================================
