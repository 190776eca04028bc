------------------------------ MODULE RoundGame ------------------------------
(***************************************************************************)
(* The virtual-coin game: the round life cycle driven by the scheduler     *)
(* tick of every server instance (round.service.ts, scheduler.service.ts,  *)
(* redis-lock.service.ts), bet placement (bet.service.ts), settlement and  *)
(* recovery (settlement.service.ts) and the administrator's force          *)
(* operations and pause switch (admin.service.ts).                         *)
(*                                                                         *)
(* The database is shared state.  A Serializable transaction, and a single *)
(* autocommitted statement, is one action; everything the code does across *)
(* two statements is two actions, with what was read kept in job[p], the   *)
(* process-local (and by then possibly stale) copy.                        *)
(***************************************************************************)
EXTENDS WalletOps, FiniteSets, Functions

CONSTANTS
    Users,              \* players
    Engines,            \* server instances that run the scheduler
    Admins,             \* administrators; one forceResult request each
    BetKeys,            \* bet idempotency keys (a bet is known by its key)
    Colors,             \* PredictionColor
    Stakes,             \* dto.coinsStaked
    MaxRound,           \* bound: rounds created
    MaxFaults,          \* bound: exceptions and crashes
    AdminOps,           \* the administrator operations exercised
    LossyRounds,        \* rounds whose seed secret may become unreadable
    InitialCoins,       \* coins a new wallet starts with
    MaxUserRoundStake,  \* GAME_MAX_BET_PER_USER_PER_ROUND
    MaxColorExposure,   \* GAME_MAX_EXPOSURE_PER_COLOR
    NoColor,            \* SQL NULL in a result column, or no readable seed
    NoBet,              \* no row for this idempotency key
    NoOne               \* the Redis key is absent

Multiplier == 2         \* WIN_PAYOUT_MULTIPLIER

Rounds == 1 .. MaxRound \* roundNumber
Procs  == Engines \cup Admins
Result == Colors \cup {NoColor}

Active      == {"INIT", "OPEN", "LOCKED", "RESOLVING"}
Terminal    == {"COMPLETED", "CANCELLED"}
RoundStatus == {"ABSENT"} \cup Active \cup Terminal
BetStatus   == {"PENDING", "WON", "LOST", "CANCELLED"}

RoundRow == [status : RoundStatus, result : Result]

Bet == [status : BetStatus, user : Users, round : Rounds,
        choice : Colors, stake : Stakes]

\* An idempotency key is the triple (kind, ref, user); the other columns of a
\* coin_ledger row are functions of it, the amount excepted.
EntryKind   == {"bet-debit", "settlement-credit", "cancel-refund", "recovery-refund"}
LedgerEntry == [kind : EntryKind, ref : BetKeys \cup Rounds, user : Users, amount : Coins]

ASSUME RoundGameAssumption ==
    /\ MaxRound \in Nat /\ MaxFaults \in Nat
    /\ Stakes \subseteq ValidAmounts
    /\ InitialCoins \in Coins
    /\ LossyRounds \subseteq Rounds
    /\ Engines \cap Admins = {}
    /\ NoColor \notin Colors /\ NoOne \notin Engines
    /\ NoBet \notin Bet

VARIABLES
    round,       \* game_rounds: status and result
    seed,        \* the readable seed of a round, as the result it yields
    elapsed,     \* wall clock of the newest round: 0 betting, 1 past lockTime, 2 past endTime
    paused,      \* game_controls.paused
    bets,        \* bets, by idempotency key
    wallet,      \* wallets
    ledger,      \* coin_ledger (SUCCESS rows of the game)
    settlement,  \* round_settlements
    announced,   \* "round:completed" events published, with the row's status
    lock,        \* holder of the Redis key game:round-engine:lock
    pc, job,     \* where each process is, and its local copy of a round
    faults       \* faults so far

dbVars   == <<round, seed, bets, wallet, ledger, settlement>>
procVars == <<pc, job, lock, announced, faults>>
vars     == <<round, seed, elapsed, paused, bets, wallet, ledger, settlement,
              announced, lock, pc, job, faults>>

SettlePC == {"begin", "losers", "winners", "success", "finish", "announce"}
PC       == {"idle", "read", "control", "open", "lock", "back", "seed", "resolving",
             "recover", "latest", "create", "openNew", "forced"} \cup SettlePC

Job     == [round : 0 .. MaxRound, status : RoundStatus, result : Result, due : 0 .. 2]
NoJob   == [round |-> 0, status |-> "ABSENT", result |-> NoColor, due |-> 0]

TypeOK ==
    /\ round \in [Rounds -> RoundRow]
    /\ seed \in [Rounds -> Result]
    /\ elapsed \in 0 .. 2
    /\ paused \in BOOLEAN
    /\ bets \in [BetKeys -> Bet \cup {NoBet}]
    /\ wallet \in [Users -> Wallet]
    /\ ledger \in SUBSET LedgerEntry
    /\ settlement \in [Rounds -> [status : {"NONE", "PENDING", "SUCCESS"}, result : Result]]
    /\ announced \in SUBSET [round : Rounds, status : RoundStatus]
    /\ lock \in Engines \cup {NoOne}
    /\ pc \in [Procs -> PC]
    /\ job \in [Procs -> Job]
    /\ faults \in 0 .. MaxFaults

Init ==
    /\ round = [r \in Rounds |-> [status |-> "ABSENT", result |-> NoColor]]
    /\ seed = [r \in Rounds |-> NoColor]
    /\ elapsed = 0
    /\ paused = FALSE
    /\ bets = [k \in BetKeys |-> NoBet]
    /\ wallet = [u \in Users |-> [deposit |-> InitialCoins, winning |-> 0]]
    /\ ledger = {}
    /\ settlement = [r \in Rounds |-> [status |-> "NONE", result |-> NoColor]]
    /\ announced = {}
    /\ lock = NoOne
    /\ pc = [p \in Procs |-> "idle"]
    /\ job = [p \in Procs |-> NoJob]
    /\ faults = 0

-----------------------------------------------------------------------------
(* Queries *)

ActiveRounds  == {r \in Rounds : round[r].status \in Active}
CreatedRounds == {r \in Rounds : round[r].status # "ABSENT"}

\* findLatestRound (orderBy roundNumber desc) finds number n, or no round (0).
IsLatest(n) ==
    /\ n \in CreatedRounds \/ (n = 0 /\ CreatedRounds = {})
    /\ \A r \in CreatedRounds : r <= n

Placed == {k \in BetKeys : bets[k] # NoBet}
BetsOf(r) == {k \in Placed : bets[k].round = r}
Pending(r) == {k \in BetsOf(r) : bets[k].status = "PENDING"}
Counted(r) == {k \in BetsOf(r) : bets[k].status # "CANCELLED"}

\* UPDATE bets SET status = st for the rows of S.
WithStatus(S, st) ==
    [k \in BetKeys |-> IF k \in S THEN [bets[k] EXCEPT !.status = st] ELSE bets[k]]

StakeSum(S) == SumFunction([k \in S |-> bets[k].stake])

KeyUsed(kind, ref, u) ==
    \E e \in ledger : e.kind = kind /\ e.ref = ref /\ e.user = u

-----------------------------------------------------------------------------
(* Bets: BetService.placeBet.  A key that already has a bet is a replay or a
   409 and changes nothing; otherwise one Serializable transaction. *)

UserRoundStake(u, r) == StakeSum({k \in Counted(r) : bets[k].user = u})
ColorExposure(r, c)  == StakeSum({k \in Counted(r) : bets[k].choice = c})

\* Variant with a fault: any round that has not ended accepts bets.
AcceptsLateBets(r) == round[r].status \in Active /\ ~paused

\* lockOpenRoundForBet
AcceptsBets(r) == round[r].status = "OPEN" /\ elapsed = 0 /\ ~paused

PlaceBet(k, u, r, c, s) ==
    /\ bets[k] = NoBet
    /\ AcceptsBets(r)
    /\ UserRoundStake(u, r) + s <= MaxUserRoundStake
    /\ ColorExposure(r, c) + s <= MaxColorExposure
    /\ ~InsufficientFunds(wallet[u], s)
    /\ bets' = [bets EXCEPT ![k] = [status |-> "PENDING", user |-> u, round |-> r,
                                    choice |-> c, stake |-> s]]
    /\ wallet' = [wallet EXCEPT ![u] = Debit(wallet[u], s)]
    /\ ledger' = ledger \cup {[kind |-> "bet-debit", ref |-> k, user |-> u, amount |-> s]}
    /\ UNCHANGED <<round, seed, settlement, elapsed, paused, procVars>>

-----------------------------------------------------------------------------
(* Refunds: one refundCancelledBetInTransaction per bet of S, each under its
   own key, and the bets marked CANCELLED, inside the caller's transaction. *)

\* Variant with a fault: bets are cancelled and nothing is paid back.
NothingRefundable(S, kind, u) == {}

Refundable(S, kind, u) == {k \in S : bets[k].user = u /\ ~KeyUsed(kind, k, u)}

RefundBets(S, kind) ==
    /\ wallet' = [u \in Users |-> CreditDeposit(wallet[u], StakeSum(Refundable(S, kind, u)))]
    /\ wallet' \in [Users -> Wallet]
    /\ ledger' = ledger \cup {[kind |-> kind, ref |-> k, user |-> bets[k].user,
                               amount |-> bets[k].stake] : k \in S}
    /\ bets' = WithStatus(S, "CANCELLED")

-----------------------------------------------------------------------------
(* Process bookkeeping *)

Goto(p, to) == pc' = [pc EXCEPT ![p] = to]

\* The tick or the request ends: the local copy is gone, and withLock's
\* finally releases the Redis key if the token in it is still this process's.
Done(p) ==
    /\ Goto(p, "idle")
    /\ job' = [job EXCEPT ![p] = NoJob]
    /\ lock' = IF lock = p THEN NoOne ELSE lock

Continue(p, to) == Goto(p, to) /\ UNCHANGED <<job, lock>>

SetRound(r, st, res) == round' = [round EXCEPT ![r] = [status |-> st, result |-> res]]

-----------------------------------------------------------------------------
(* The engine: SchedulerService.tick and RoundService.ensureLifecycle *)

Tick(e) ==
    /\ pc[e] = "idle" /\ lock = NoOne
    /\ lock' = e
    /\ Goto(e, "read")
    /\ UNCHANGED <<job, dbVars, elapsed, paused, announced, faults>>

\* Variant with a fault: a RESOLVING round is not resumed.
NextStepWithoutResume(st, due) ==
    CASE st = "INIT"               -> "open"
      [] st = "OPEN" /\ due >= 1   -> "lock"
      [] st = "LOCKED" /\ due >= 2 -> "seed"
      [] OTHER                     -> "idle"

\* The if-chain of ensureLifecycle for a copy in status st, "now" being due.
NextStep(st, due) ==
    CASE st = "INIT"               -> "open"
      [] st = "OPEN" /\ due >= 1   -> "lock"
      [] st = "LOCKED" /\ due >= 2 -> "seed"
      [] st = "RESOLVING"          -> "seed"
      [] OTHER                     -> "idle"

\* Keep a copy of row [status, result] of round r and go on with the if-chain.
Dispatch(e, r, row, due) ==
    LET to == NextStep(row.status, due) IN
    IF to = "idle" THEN Done(e)
    ELSE /\ Goto(e, to)
         /\ job' = [job EXCEPT ![e] = [round |-> r, status |-> row.status,
                                      result |-> row.result, due |-> due]]
         /\ UNCHANGED lock

\* findCurrentRound; a copy of no round has number 0.
ReadCurrentRound(e) ==
    /\ pc[e] = "read"
    /\ Goto(e, "control")
    /\ \/ ActiveRounds = {} /\ job' = [job EXCEPT ![e] = NoJob]
       \/ \E r \in ActiveRounds :
            job' = [job EXCEPT ![e] = [round |-> r, status |-> round[r].status,
                                       result |-> round[r].result, due |-> 0]]
    /\ UNCHANGED <<lock, dbVars, elapsed, paused, announced, faults>>

\* "now" against the times of round r: elapsed if it still is the newest.
Now(r) == IF \A s \in CreatedRounds : s <= r THEN {elapsed} ELSE 0 .. 2

\* Variant with a fault: only resolveRound creates the next round.
NoRoundCreated(e) ==
    /\ pc[e] = "control"
    /\ \/ (paused \/ job[e].round = 0) /\ Done(e)
       \/ ~paused /\ job[e].round # 0 /\ \E due \in Now(job[e].round) :
            Dispatch(e, job[e].round, [status |-> job[e].status, result |-> job[e].result], due)
    /\ UNCHANGED <<dbVars, elapsed, paused, announced, faults>>

\* getGameControl; then "now" is taken, once, and the if-chain entered.
ReadGameControl(e) ==
    /\ pc[e] = "control"
    /\ \/ paused /\ Done(e)
       \/ ~paused /\ job[e].round = 0 /\ Continue(e, "latest")
       \/ ~paused /\ job[e].round # 0 /\ \E due \in Now(job[e].round) :
            Dispatch(e, job[e].round, [status |-> job[e].status, result |-> job[e].result], due)
    /\ UNCHANGED <<dbVars, elapsed, paused, announced, faults>>

\* openRound: an update guarded by INIT ...
OpenRound(e) ==
    LET r == job[e].round IN
    /\ pc[e] = "open"
    /\ IF round[r].status = "INIT" THEN SetRound(r, "OPEN", round[r].result)
                                   ELSE UNCHANGED round
    /\ Continue(e, "back")
    /\ UNCHANGED <<seed, bets, wallet, ledger, settlement, elapsed, paused, announced, faults>>

\* lockRound: an update guarded by OPEN; when it changed nothing, the stale OPEN
\* copy ends the tick ...
LockRound(e) ==
    LET r == job[e].round IN
    /\ pc[e] = "lock"
    /\ IF round[r].status = "OPEN" THEN SetRound(r, "LOCKED", round[r].result) /\ Continue(e, "back")
                                   ELSE UNCHANGED round /\ Done(e)
    /\ UNCHANGED <<seed, bets, wallet, ledger, settlement, elapsed, paused, announced, faults>>

\* ... and in both findRoundById, whatever the row has become by then.
ReadBack(e) ==
    LET r == job[e].round IN
    /\ pc[e] = "back"
    /\ Dispatch(e, r, round[r], job[e].due)
    /\ UNCHANGED <<dbVars, elapsed, paused, announced, faults>>

\* Variant with a fault: the result is computed anew for a RESOLVING round.
ReadSeedAfresh(e) ==
    LET j == job[e] IN
    /\ pc[e] = "seed"
    /\ IF seed[j.round] = NoColor
       THEN Goto(e, "recover") /\ UNCHANGED job
       ELSE /\ Goto(e, IF j.status = "LOCKED" THEN "resolving" ELSE "begin")
            /\ job' = [job EXCEPT ![e].result = seed[j.round]]
    /\ UNCHANGED <<lock, dbVars, elapsed, paused, announced, faults>>

\* resolveRound: getSeedReveal and the hash check, then the result.
ReadSeed(e) ==
    LET j == job[e] IN
    /\ pc[e] = "seed"
    /\ IF seed[j.round] = NoColor
       THEN Goto(e, "recover") /\ UNCHANGED job
       ELSE /\ Goto(e, IF j.status = "LOCKED" THEN "resolving" ELSE "begin")
            /\ job' = [job EXCEPT ![e].result = IF j.result # NoColor THEN j.result
                                                                      ELSE seed[j.round]]
    /\ UNCHANGED <<lock, dbVars, elapsed, paused, announced, faults>>

\* updateRoundStatus guarded by LOCKED; a count of 0 ends the tick.
MarkResolving(e) ==
    LET r == job[e].round IN
    /\ pc[e] = "resolving"
    /\ IF round[r].status = "LOCKED"
       THEN SetRound(r, "RESOLVING", job[e].result) /\ Continue(e, "begin")
       ELSE UNCHANGED round /\ Done(e)
    /\ UNCHANGED <<seed, bets, wallet, ledger, settlement, elapsed, paused, announced, faults>>

-----------------------------------------------------------------------------
(* SettlementService.settleRound, run by an engine or by forceResult *)

\* Variant with a fault: the settlement row is always upserted as PENDING.
RestartSettlement(p) ==
    /\ pc[p] = "begin"
    /\ settlement' = [settlement EXCEPT ![job[p].round] = [status |-> "PENDING",
                                                           result |-> job[p].result]]
    /\ Continue(p, "losers")
    /\ UNCHANGED <<round, seed, bets, wallet, ledger, elapsed, paused, announced, faults>>

\* beginRoundSettlementInTx.  A row with another result is a 409, which only
\* Fail(p) can follow.
BeginSettlement(p) ==
    LET r == job[p].round
        new == settlement[r].status = "NONE"
    IN  /\ pc[p] = "begin"
        /\ ~new => settlement[r].result = job[p].result
        /\ settlement' = IF new
                         THEN [settlement EXCEPT ![r] = [status |-> "PENDING",
                                                         result |-> job[p].result]]
                         ELSE settlement
        /\ Continue(p, IF settlement[r].status = "SUCCESS" THEN "finish" ELSE "losers")
        /\ UNCHANGED <<round, seed, bets, wallet, ledger, elapsed, paused, announced, faults>>

\* Variant with a fault: the choice is not compared.
MarkAllBetsLost(p) ==
    /\ pc[p] = "losers"
    /\ bets' = WithStatus(Pending(job[p].round), "LOST")
    /\ Continue(p, "winners")
    /\ UNCHANGED <<round, seed, wallet, ledger, settlement, elapsed, paused, announced, faults>>

\* markLosingBetsForRound: one autocommitted statement.
MarkLosingBets(p) ==
    /\ pc[p] = "losers"
    /\ bets' = WithStatus({k \in Pending(job[p].round) : bets[k].choice # job[p].result}, "LOST")
    /\ Continue(p, "winners")
    /\ UNCHANGED <<round, seed, wallet, ledger, settlement, elapsed, paused, announced, faults>>

\* Variant with a fault: bets that are no longer PENDING are paid too.
AllWinnerBets(r, res, u) ==
    {k \in BetsOf(r) : bets[k].choice = res /\ bets[k].user = u}

WinnerBets(r, res, u) ==
    {k \in Pending(r) : bets[k].choice = res /\ bets[k].user = u}

\* settleWinnerUser: lock the user's pending winning bets, credit their sum
\* times the multiplier under one key, mark them WON.  The order of users is
\* free (they run concurrently).  A used key is a replay when it was for the
\* same amount; with another amount it is a 409.
SettleWinnerUser(p, u) ==
    LET r      == job[p].round
        W      == WinnerBets(r, job[p].result, u)
        payout == Multiplier * StakeSum(W)
        entry  == [kind |-> "settlement-credit", ref |-> r, user |-> u, amount |-> payout]
        replay == KeyUsed("settlement-credit", r, u)
    IN  /\ pc[p] = "winners" /\ W # {}
        /\ payout \in ValidAmounts
        /\ replay => entry \in ledger
        /\ wallet' = IF replay THEN wallet
                     ELSE [wallet EXCEPT ![u] = CreditWinning(@, payout)]
        /\ wallet' \in [Users -> Wallet]
        /\ ledger' = ledger \cup {entry}
        /\ bets' = WithStatus(W, "WON")
        /\ Continue(p, "winners")
        /\ UNCHANGED <<round, seed, settlement, elapsed, paused, announced, faults>>

\* findPendingWinnerPayouts returns no row and the loop ends;
\* getRoundSettlementStats then finds no pending bet, or it is
\* ROUND_SETTLEMENT_INCOMPLETE, 409, which only Fail(p) can follow.
WinnersDone(p) ==
    /\ pc[p] = "winners"
    /\ \A u \in Users : WinnerBets(job[p].round, job[p].result, u) = {}
    /\ Pending(job[p].round) = {}
    /\ Continue(p, "success")
    /\ UNCHANGED <<dbVars, elapsed, paused, announced, faults>>

\* completeRoundSettlement: an upsert that overwrites result and status.
CompleteSettlement(p) ==
    /\ pc[p] = "success"
    /\ settlement' = [settlement EXCEPT ![job[p].round] = [status |-> "SUCCESS",
                                                           result |-> job[p].result]]
    /\ Continue(p, "finish")
    /\ UNCHANGED <<round, seed, bets, wallet, ledger, elapsed, paused, announced, faults>>

-----------------------------------------------------------------------------
(* The end of resolveRound, recovery and createNextRound *)

\* updateRoundStatus guarded by RESOLVING ...
CompleteRound(e) ==
    LET r == job[e].round IN
    /\ pc[e] = "finish"
    /\ IF round[r].status = "RESOLVING" THEN SetRound(r, "COMPLETED", job[e].result)
                                        ELSE UNCHANGED round
    /\ Continue(e, "announce")
    /\ UNCHANGED <<seed, bets, wallet, ledger, settlement, elapsed, paused, announced, faults>>

\* ... findRoundById, and round:result and round:completed are published whatever
\* the row now says.
AnnounceRound(e) ==
    LET r == job[e].round IN
    /\ pc[e] = "announce"
    /\ announced' = announced \cup {[round |-> r, status |-> round[r].status]}
    /\ Continue(e, "latest")
    /\ UNCHANGED <<dbVars, elapsed, paused, faults>>

\* SettlementService.recoverUnresolvableRound, one transaction.
RecoverRound(e) ==
    LET r == job[e].round IN
    /\ pc[e] = "recover"
    /\ IF round[r].status \in Active
       THEN SetRound(r, "CANCELLED", NoColor) /\ RefundBets(Pending(r), "recovery-refund")
       ELSE UNCHANGED <<round, bets, wallet, ledger>>
    /\ Continue(e, "latest")
    /\ UNCHANGED <<seed, settlement, elapsed, paused, announced, faults>>

\* createNextRound: findLatestRound, outside the transaction.
FindLatestRound(e) ==
    /\ pc[e] = "latest"
    /\ Goto(e, "create")
    /\ \E n \in 0 .. MaxRound :
         /\ IsLatest(n)
         /\ job' = [job EXCEPT ![e] = [NoJob EXCEPT !.round = n]]
    /\ UNCHANGED <<lock, dbVars, elapsed, paused, announced, faults>>

\* Variant with a fault: the active round is not looked up in the transaction.
CanCreateAnyway(n) == n \in Rounds /\ round[n].status = "ABSENT"

CanCreate(n) == ActiveRounds = {} /\ n \in Rounds /\ round[n].status = "ABSENT"

\* The transaction inserts the round and its secret together.
CreateRound(e, c) ==
    LET n == job[e].round + 1 IN
    /\ pc[e] = "create"
    /\ CanCreate(n)
    /\ SetRound(n, "INIT", NoColor)
    /\ seed' = [seed EXCEPT ![n] = c]
    /\ elapsed' = 0
    /\ Goto(e, "openNew")
    /\ job' = [job EXCEPT ![e].round = n]
    /\ UNCHANGED <<lock, bets, wallet, ledger, settlement, paused, announced, faults>>

\* An active round exists and is returned; or roundNumber is taken (P2002); or
\* the bound on rounds is reached.
CreateNothing(e) ==
    LET n == job[e].round + 1 IN
    /\ pc[e] = "create"
    /\ ~CanCreate(n)
    /\ Done(e)
    /\ UNCHANGED <<dbVars, elapsed, paused, announced, faults>>

OpenNewRound(e) ==
    LET r == job[e].round IN
    /\ pc[e] = "openNew"
    /\ IF round[r].status = "INIT" THEN SetRound(r, "OPEN", round[r].result)
                                   ELSE UNCHANGED round
    /\ Done(e)
    /\ UNCHANGED <<seed, bets, wallet, ledger, settlement, elapsed, paused, announced, faults>>

-----------------------------------------------------------------------------
(* The administrator *)

\* forceStopRound, one transaction.  Unlike recovery it leaves result alone.
ForceStopRound ==
    /\ "stop" \in AdminOps
    /\ \E r \in ActiveRounds :
         /\ RefundBets(Pending(r), "cancel-refund")
         /\ SetRound(r, "CANCELLED", round[r].result)
    /\ UNCHANGED <<seed, settlement, elapsed, paused, procVars>>

\* forceStartRound, one transaction: every active round is refunded and
\* cancelled and the next one is created OPEN.
ForceStartRound(c, n) ==
    /\ "start" \in AdminOps
    /\ IsLatest(n - 1)
    /\ round[n].status = "ABSENT"   \* UNIQUE(round_number)
    /\ RefundBets(UNION {Pending(r) : r \in ActiveRounds}, "cancel-refund")
    /\ round' = [r \in Rounds |->
                   IF r = n THEN [status |-> "OPEN", result |-> NoColor]
                   ELSE IF r \in ActiveRounds THEN [round[r] EXCEPT !.status = "CANCELLED"]
                   ELSE round[r]]
    /\ seed' = [seed EXCEPT ![n] = c]
    /\ elapsed' = 0
    /\ UNCHANGED <<settlement, paused, procVars>>

\* forceResult, its transaction ...
ForceResult(a, c) ==
    /\ pc[a] = "idle"
    /\ \E r \in ActiveRounds :
         /\ round[r].result \in {NoColor, c}
         /\ SetRound(r, "RESOLVING", c)
         /\ job' = [job EXCEPT ![a] = [round |-> r, status |-> "RESOLVING",
                                       result |-> c, due |-> 0]]
    /\ Goto(a, "forced")
    /\ UNCHANGED <<seed, bets, wallet, ledger, settlement, elapsed, paused, lock, announced, faults>>

\* ... the seed check, which throws on a missing seed ...
ForceResultSeed(a) ==
    /\ pc[a] = "forced"
    /\ IF seed[job[a].round] = NoColor THEN Done(a) ELSE Continue(a, "begin")
    /\ UNCHANGED <<dbVars, elapsed, paused, announced, faults>>

\* ... settleRound as above, and then an update by id, whatever the status.
ForceResultComplete(a) ==
    LET r == job[a].round IN
    /\ pc[a] = "finish"
    /\ SetRound(r, "COMPLETED", job[a].result)
    /\ announced' = announced \cup {[round |-> r, status |-> "COMPLETED"]}
    /\ Done(a)
    /\ UNCHANGED <<seed, bets, wallet, ledger, settlement, elapsed, paused, faults>>

SetPaused(b) ==
    /\ "pause" \in AdminOps /\ paused # b
    /\ paused' = b
    /\ UNCHANGED <<dbVars, elapsed, procVars>>

-----------------------------------------------------------------------------
(* Environment *)

\* Time passes; it is read only while a round is active.
Clock ==
    /\ ActiveRounds # {} /\ elapsed < 2
    /\ elapsed' = elapsed + 1
    /\ UNCHANGED <<dbVars, paused, procVars>>

\* The secret row is missing or does not match its hash, and the cache is empty.
LoseSeed(r) ==
    /\ r \in LossyRounds /\ seed[r] # NoColor
    /\ seed' = [seed EXCEPT ![r] = NoColor]
    /\ UNCHANGED <<round, bets, wallet, ledger, settlement, elapsed, paused, procVars>>

\* PX ttl: the key expires although its holder may still be running.
LockExpires ==
    /\ lock # NoOne
    /\ lock' = NoOne
    /\ UNCHANGED <<dbVars, elapsed, paused, pc, job, announced, faults>>

\* A statement or transaction of p throws (serialization failure, timeout,
\* lost connection, 409): the tick or request ends, and the lock is released.
Fail(p) ==
    /\ pc[p] # "idle" /\ faults < MaxFaults
    /\ faults' = faults + 1
    /\ Done(p)
    /\ UNCHANGED <<dbVars, elapsed, paused, announced>>

\* The process of p dies and restarts: nothing releases the Redis key.
Crash(p) ==
    /\ pc[p] # "idle" /\ faults < MaxFaults
    /\ faults' = faults + 1
    /\ Goto(p, "idle")
    /\ job' = [job EXCEPT ![p] = NoJob]
    /\ UNCHANGED <<dbVars, elapsed, paused, announced, lock>>

-----------------------------------------------------------------------------

Settle(p) ==
    \/ BeginSettlement(p) \/ MarkLosingBets(p)
    \/ \E u \in Users : SettleWinnerUser(p, u)
    \/ WinnersDone(p) \/ CompleteSettlement(p)

Engine(e) ==
    \/ Tick(e) \/ ReadCurrentRound(e) \/ ReadGameControl(e)
    \/ OpenRound(e) \/ LockRound(e) \/ ReadBack(e)
    \/ ReadSeed(e) \/ MarkResolving(e) \/ Settle(e)
    \/ CompleteRound(e) \/ AnnounceRound(e) \/ RecoverRound(e)
    \/ FindLatestRound(e) \/ CreateNothing(e) \/ OpenNewRound(e)
    \/ \E c \in Colors : CreateRound(e, c)

ForceResultStep(a) == ForceResultSeed(a) \/ Settle(a) \/ ForceResultComplete(a)

Admin(a) == ForceResultStep(a) \/ \E c \in Colors : ForceResult(a, c)

Next ==
    \/ \E k \in BetKeys, u \in Users, r \in Rounds, c \in Colors, s \in Stakes :
          PlaceBet(k, u, r, c, s)
    \/ \E e \in Engines : Engine(e)
    \/ \E a \in Admins : Admin(a)
    \/ ForceStopRound
    \/ \E c \in Colors, n \in Rounds : ForceStartRound(c, n)
    \/ \E b \in BOOLEAN : SetPaused(b)
    \/ \E r \in Rounds : LoseSeed(r)
    \/ Clock
    \/ LockExpires
    \/ \E p \in Procs : Fail(p) \/ Crash(p)

Spec == Init /\ [][Next]_vars

\* A server keeps ticking (setInterval) and its awaits return; an admin request
\* in flight runs on; time passes; the key's TTL runs out.
Fairness ==
    /\ \A e \in Engines : WF_vars(Engine(e))
    /\ \A a \in Admins : WF_vars(ForceResultStep(a))
    /\ WF_vars(Clock)
    /\ WF_vars(LockExpires)

FairSpec == Spec /\ Fairness
-----------------------------------------------------------------------------
(* Properties *)

\* At most one round is INIT, OPEN, LOCKED or RESOLVING, although the latest
\* number is read outside createNextRound's transaction, two engines may run at
\* once and forceStartRound creates rounds without the engine's lock.
OneActiveRound == \A r, s \in ActiveRounds : r = s

\* A COMPLETED or CANCELLED round has no PENDING bet: no bet slips in after the
\* losers and winners were read, whoever settles, stops or recovers the round.
NoBetLeftBehind == \A r \in Rounds : round[r].status \in Terminal => Pending(r) = {}

\* A bet is WON or LOST only by the one result recorded in round_settlements,
\* although an engine and forceResult may settle the same round concurrently
\* from different copies of it.
OutcomeFollowsResult ==
    \A k \in Placed :
        bets[k].status \in {"WON", "LOST"} =>
            LET s == settlement[bets[k].round] IN
            /\ s.status # "NONE"
            /\ bets[k].status = "WON" <=> bets[k].choice = s.result

\* A round row says COMPLETED, or round:completed was published for it, only
\* when its settlement is SUCCESS, and with the result that was settled.
CompletedIsSettled ==
    /\ \A r \in Rounds : round[r].status = "COMPLETED" =>
          settlement[r].status = "SUCCESS" /\ settlement[r].result = round[r].result
    /\ \A a \in announced : settlement[a.round].status = "SUCCESS"

\* What a bet has added to its owner's wallet.
NetOf(b) == CASE b.status = "WON"       -> (Multiplier - 1) * b.stake
              [] b.status = "CANCELLED" -> 0
              [] OTHER                  -> 0 - b.stake

\* Every bet is debited once and paid or refunded at most once: the wallet is
\* the initial grant plus the net effect of the user's bets, through crashes,
\* retries, replays and concurrent settlement and cancellation.
CoinsConserved ==
    \A u \in Users :
        TotalOf(wallet[u]) =
            InitialCoins + SumFunction([k \in {k \in Placed : bets[k].user = u} |-> NetOf(bets[k])])

\* The check of scripts/wallet-reconcile.mjs: the wallet snapshot is the signed
\* sum of the user's SUCCESS ledger rows (the initial grant being one).
SignedAmount(e) == IF e.kind = "bet-debit" THEN 0 - e.amount ELSE e.amount

WalletMatchesLedger ==
    \A u \in Users :
        TotalOf(wallet[u]) =
            InitialCoins + SumFunction([e \in {e \in ledger : e.user = u} |-> SignedAmount(e)])

\* A bet leaves PENDING at most once and its terms never change: WON, LOST and
\* CANCELLED are final for every interleaving of settlement and cancellation.
BetStep ==
    \A k \in BetKeys : bets[k] # NoBet =>
        /\ bets'[k] # NoBet
        /\ bets'[k] # bets[k] =>
             /\ bets[k].status = "PENDING"
             /\ bets'[k] = [bets[k] EXCEPT !.status = bets'[k].status]

BetIsDecidedOnce == [][BetStep]_bets

\* Once a settlement row exists its result never changes and SUCCESS is final,
\* although completeRoundSettlement overwrites both columns.
SettlementStep ==
    \A r \in Rounds : settlement[r].status # "NONE" =>
        /\ settlement'[r].result = settlement[r].result
        /\ settlement'[r].status # "NONE"
        /\ settlement[r].status = "SUCCESS" => settlement'[r].status = "SUCCESS"

SettlementIsFinal == [][SettlementStep]_settlement

\* Under FairSpec: an active round ends (or the game is paused), whatever fails
\* or crashes on the way: the next tick picks the round up where it stands.
RoundEnds ==
    \A r \in Rounds : round[r].status \in Active ~> (round[r].status \in Terminal \/ paused)

\* Under FairSpec: when no round is active the engine starts one, also after a
\* crash between completing a round and creating the next.
NextRoundStarts ==
    (ActiveRounds = {} /\ CreatedRounds # Rounds) ~> (ActiveRounds # {} \/ paused)

-----------------------------------------------------------------------------
(* The inductive invariant behind the safety properties *)

\* p works from a decided result: it settles, or holds a RESOLVING copy.
Decided(p) ==
    \/ pc[p] \in SettlePC \cup {"forced"}
    \/ pc[p] \in {"control", "seed"} /\ job[p].status = "RESOLVING"

\* Local copies are of existing rounds, and of the status their step expects.
CopiesAreSane ==
    \A p \in Procs :
        /\ (Decided(p) \/ pc[p] \in {"open", "lock", "back", "seed", "resolving", "recover", "openNew"})
             => job[p].round \in Rounds
        /\ pc[p] = "seed" => job[p].status \in {"LOCKED", "RESOLVING"}
        /\ pc[p] = "resolving" => job[p].result \in Colors

\* Before RESOLVING nothing of a round is settled; from then on it has a result.
UndecidedIsUnsettled ==
    \A r \in Rounds :
        /\ round[r].status \in {"ABSENT", "INIT", "OPEN", "LOCKED"} => settlement[r].status = "NONE"
        /\ round[r].status = "RESOLVING" =>
             /\ round[r].result \in Colors
             /\ settlement[r].status # "NONE" => settlement[r].result = round[r].result

\* Whoever works on a decided round works with one and the same result, and it
\* is the result of the round row (until that is cancelled) and of the
\* settlement row (once there is one).  This is why ROUND_SETTLEMENT_RESULT_CONFLICT
\* never stops a round from being settled.
SettlersAgree ==
    \A p \in Procs : Decided(p) =>
        LET r == job[p].round IN
        /\ job[p].result \in Colors
        /\ round[r].status \in {"RESOLVING"} \cup Terminal
        /\ round[r].status = "RESOLVING" => round[r].result = job[p].result
        /\ settlement[r].status # "NONE" => settlement[r].result = job[p].result
        /\ \A q \in Procs : Decided(q) /\ job[q].round = r => job[q].result = job[p].result

\* What is known at each stage of settleRound.  In particular the final
\* statistics never find a pending bet: ROUND_SETTLEMENT_INCOMPLETE is never thrown.
SettlementStages ==
    /\ \A p \in Procs :
         LET r == job[p].round IN
         /\ pc[p] \in {"losers", "winners", "success"} => settlement[r].status # "NONE"
         /\ pc[p] = "winners" => \A k \in Pending(r) : bets[k].choice = job[p].result
         /\ pc[p] = "success" => Pending(r) = {}
         /\ pc[p] \in {"finish", "announce"} => settlement[r].status = "SUCCESS"
    /\ \A r \in Rounds : settlement[r].status = "SUCCESS" => Pending(r) = {}

IInv ==
    /\ TypeOK
    /\ OneActiveRound
    /\ CopiesAreSane
    /\ UndecidedIsUnsettled
    /\ SettlersAgree
    /\ SettlementStages
    /\ NoBetLeftBehind
    /\ OutcomeFollowsResult
    /\ CompletedIsSettled

\* What a row of coin_ledger says of the bet or round it refers to.  A bet is
\* debited when it is placed and refunded only when it is cancelled, and once a
\* user was paid for a round none of the user's bets that would win is pending.
Spent(e) ==
    IF e.kind = "settlement-credit"
    THEN /\ e.ref \in Rounds /\ settlement[e.ref].status # "NONE"
         /\ \A k \in Pending(e.ref) :
              bets[k].user = e.user => bets[k].choice # settlement[e.ref].result
    ELSE /\ e.ref \in Placed
         /\ e.kind # "bet-debit" => bets[e.ref].status = "CANCELLED"

\* So no idempotency key is used before the movement it stands for, and a
\* replay never swallows a payout or a refund that is still due.
KeysAreSpent == \A e \in ledger : Spent(e)

BooksInv ==
    /\ IsFiniteSet(Placed) /\ IsFiniteSet(ledger)
    /\ KeysAreSpent
    /\ CoinsConserved
    /\ WalletMatchesLedger

-----------------------------------------------------------------------------
(* What the documentation says and the code does not guarantee *)

\* game/README.md: a cancelled round "never emits the normal completion event".
CancelledIsNeverAnnounced == \A a \in announced : a.status # "CANCELLED"

\* game/README.md: CANCELLED is the end of an admin-stopped round; the row of a
\* cancelled, refunded round never becomes COMPLETED.
CancelledIsFinal ==
    [][\A r \in Rounds : round[r].status = "CANCELLED" => round'[r].status = "CANCELLED"]_round

\* production-deployment.md: the Redis "SET NX PX lock allows only one active
\* lifecycle runner".
OneLifecycleRunner == \A e, f \in Engines : pc[e] # "idle" /\ pc[f] # "idle" => e = f

\* prisma/README.md: "bets.user_id + round_id is unique to prevent double betting".
OneBetPerUserAndRound ==
    \A k, l \in Placed : bets[k].user = bets[l].user /\ bets[k].round = bets[l].round => k = l
=============================================================================
