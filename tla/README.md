# Formal model of the colour-trading game

TLA+ specifications of this repository's game, money, sessions, realtime channel and operations,
the TLC configurations that check them on small instances, and TLAPS proofs of their safety
properties for instances of any size. `PROJECT.json` links definitions to source lines and lists
the runs, the hazards the properties are aimed at, the mutants and the theorems.

## 1. The system

| Component | Source | State | Operations | Module |
|---|---|---|---|---|
| Round engine | `modules/game` (`round.service`, `scheduler.service`, `redis-lock.service`, `game.repository`) | `game_rounds`, `round_secrets`, `game_controls`, the Redis key `game:round-engine:lock`; process-local copies of a round | a tick per second and server: create, open, lock, resolve, complete; recover a round without a readable seed | `RoundGame` |
| Settlement | `game/services/settlement.service` | `round_settlements`, `bets`, wallets, ledger | begin, mark losers, a transaction per winning user, complete | `RoundGame` |
| Bet placement | `modules/bet` | `bets`, wallets, ledger | `placeBet` under an idempotency key | `RoundGame`, `WalletOps` |
| Coin wallet | `modules/wallet` | `wallets`, `coin_ledger` | credit, debit, adjust; a wallet opens with its bonus | `CoinWallet`, `LedgerPromise`, `WalletOps` |
| Administrator | `modules/admin` | all of the above | force start, stop, result; pause; ban; adjust; risk controls | `RoundGame`, `RealMoney`, `AuthSessions`, `Realtime`, `CoinWallet`, `FraudGuard` |
| Real money | `modules/real-money` | wallets with available and locked paise, bets, settlements, withdrawals, limits | bet, settle, refund, withdraw, review | `RealMoney` |
| Payments, main API | `modules/payments` | `payment_intents`, `processed_payment_events`, ledgers, `real_money_deposits` | create and read an intent, process a verified event | `PaymentPipeline` |
| Payment service | `apps/payment` | sessions, orders, transactions, `outbox_events` | order, reconcile, deliver | `PaymentPipeline` |
| Auth and sessions | `modules/auth`, `common/guards`, the client's `api-client` | users, sessions, refresh tokens; cookie, auth store | register, login, refresh, logout, revoke, retry | `AuthSessions` |
| Fraud and limits | `modules/fraud` | Redis counters, risk profiles, trackers | limit, score, decay, block | `FraudGuard` |
| Realtime | `apps/server/src/sockets`, the client's `SocketBridge` | sockets, rooms, gauges | authenticate, set up, re-authorize, cut, reconnect | `Realtime` |
| Web client | `apps/client` | game store, query cache, bet form, session storage | apply events and snapshots, place bets | `ClientGame` (partly) |
| Observability | `modules/observability` | the log's queue, metrics, alerts | log, flush, report | `SystemLog` (partly) |
| Scripts | `apps/server/scripts` | `schema_migrations` | migrate, gate the start | `Deployment` (partly) |

(Paths without `apps/` are under `apps/server/src`.)

**Interaction.** Server instances share one PostgreSQL database and one Redis. A tick takes the
Redis lock (5 s, never renewed), reads the current round and runs the if-chain of
`ensureLifecycle`; every statement it then executes may meet a row that an administrator, a
player or another instance has changed. `resolveRound` and `forceResult` both call `settleRound`
and then the real-money settlement. Bets, settlement, cancellation and recovery meet in the same
bet, wallet and ledger rows. Payments cross two services with a database each: the payment service
learns from the provider that an order is paid and posts one signed event per recorded transaction
to the main API until it is answered 200. What the database changes is published by one instance,
routed to the sockets there, and routed again by every instance that hears of it over Redis; a tab
merges these events with snapshots, polls and acknowledgements.

**What is hard.** A lock that expires under its holder; a row read, awaited over and acted upon;
settlement in several transactions with crashes in between; an administrator cancelling or deciding
a round while it is being settled; outbox leases that run out and lost answers; two refreshes of
one token; a ban that passes while a socket is being set up; a score that is read, changed and
written back; copies of an event in different orders; a late acknowledgement. The list with line
numbers is under `hazards` in `PROJECT.json`.

## 2. Modules

A database transaction and a single autocommitted statement are one action each, unless said
otherwise. What the code does across two statements or two awaits is two actions, and what was read
is kept in the process's own record, where it may be stale when it is used. `MC` modules hold the
values and scenarios of the runs, nothing else.

Operators that are deliberately wrong versions of the one that follows them (`AcceptsLateBets`,
`AlwaysFresh`, ...) belong to no specification. Each is a mutant: put in place of the right one it
must make a property fail.

**`RoundGame`** is the virtual-coin game. `pc[p]` is the next statement of process `p`, an engine's
tick or an administrator's `forceResult`, and `job[p]` its copy of the round. `round`, `settlement`,
`bets`, `ledger`, `wallet` are the tables; round `n` is row `n`. `seed[r]` is the colour the readable
seed yields; hashing is left out and `LoseSeed` makes a seed unreadable. `elapsed` is the wall clock
relative to the newest round's times; for an older round "now" is any value. `lock` is the owner in
the Redis key; `LockExpires` may remove it at any time. `Fail` is any exception, `Crash` the end of
the process without releasing the lock; `MaxFaults` bounds both. `WalletOps` is the arithmetic of a
wallet row (`calculateNextBalances` and the funds check).

**`CoinWallet`** is a ledger movement outside the game: lookup of the key, transaction with its
snapshot, row lock, commit or conflict, and the second run of `adjustWallet`. **`LedgerPromise`** is
its abstract specification: a key is decided once, by one movement or one refusal, and a wallet
opens once. `CoinWallet` implements it under the mapping `total <- TotalOf(wallet)`,
`entry <- ledger` (`KeepsPromise`).

**`PaymentPipeline`**: `intent`, `deposit`, `processed`, `ledger` are the main API's tables;
`session`, `order`, `recorded`, `outbox` the payment service's. An intent stands for its amount and
owner: the code compares copies of these, so the comparisons succeed. `statements` are second
statements between decision and execution; `request[q]` is a request between its call of the
provider and its write; `worker[w]` one run of `deliverNextEvent`, of which several may overlap;
`orphans` are posts whose sender no longer waits. Updates after a delivery are by id only, as in the
code. External: the provider, which captures payments for orders it has, more than once, at any time.

**`RealMoney`** is the paise domain and the places in the engine and the administrator's service
that call it. Transactions are Serializable and one action each, except `placeBet`'s: it reads the
round row, which the engine moves with plain statements that the serialization check does not see,
so its snapshot and its commit are two actions, and a commit aborts the open transactions that
PostgreSQL would abort (`Surviving`). `pc[p]` is the settlement of process `p` with its failure
handler. Limits are checked on the snapshot.

**`AuthSessions`** has the server's sessions and the browser's half of the exchange. Tokens are the
ids of their sessions. A rotation holds a row lock from the update that consumes the token to its
commit, so it is two actions; logout, logout-all and ban are statements that see the rows of the
moment they start, wait for locked rows and then commit, two actions as well. The tabs of a browser
share its cookie, the callers of a tab its auth store and its `refreshRequest`.

**`Realtime`** is the life of a tab's connection: the handshake, the four steps of
`handleConnection`, re-authorization of every event, the ban's event on its way to each instance,
the gauge, and `SocketBridge`, which reconnects with a refreshed token. A tab's n-th session is its
generation n.

**`FraudGuard`**: every await of the risk engine and of the limiter is a step; a counter is
incremented and given its expiry by two commands; `observeBetActivity` runs on beside the user's
next requests. A signal starts the insert of its log and the adjustment of the score at once
(`Promise.all`): either may fail or come late without the other, so `op[r].todo` holds what is still
to be answered and `Reject` lets the rest of a failed signal run on. The log rows have no variable,
for nothing in the server reads them; `raised` counts the points of the signals `adjustRisk` took up,
logged or not. Thresholds and points are parameters. A scenario says which of the requests, faults
and administrative acts a run explores.

**`ClientGame`** is one tab and what the servers send it: lanes of events (`bus`, `lane`; one per
instance, in order within a lane only), the socket with the snapshot it is building (`srv`), the
store (`page`), the session storage, the query cache and the bet form. What a scenario slices away
(`topics`, `queries`) is neither sent nor read. The end of a round is four steps, as in
`resolveRound`: `closing` is the round an engine resolves (`ResolveRound`, `SettleBet`), then the row
`CompleteRound` reads back, which is CANCELLED when a stop came between, and `AnnounceRound` sends
`round:result` and the updates with that row whatever its status. `AbandonRound` is an engine that
fails on the way. Abstractions: the wallet is the number of its ledger
entries; LOCKED stands for LOCKED and RESOLVING, which the page treats alike; `round:update`,
`round:state` and `round:completed` of one row are one event, since the second and third change
nothing the first has not; other than at the end of a round a database change and
its publication are one step, so are the three reads of a snapshot; refunds of a stopped round are
announced in any order, since the query has no order; the cache keeps the old object when an answer
equals it, and then no effect runs; a settlement
the history brings is within its five minutes; the page remembers 100 settlements, so `bets` is at most 100.

**`SystemLog`** is the buffered database log: queue, batch in flight, put-back after a failed insert,
the flush of the shutdown, which takes one batch, and the end of the process. `httpServer.close`
waits for the clients; the shutdown waits for the insert it starts itself, and starts none while one
of the timer is in flight (`ExitWaits` says no more than that). **`Deployment`** is the migration runner with its advisory lock and checksums,
the start gate around it and the readiness probe; a host that is lost leaves its lock to a "ghost"
session until the database reaps it. The database may be empty, hold a schema older than
`schema_migrations`, hold that table without a row, or have checksums of older rules.

**Proof modules.** `SumTheorems` (sums over finite sets), `RoundGameProofs`, `CoinWalletProofs`,
`RealMoneyProofs`, `AuthSessionsProofs`, `GatewayProofs` (`Realtime` and `FraudGuard`),
`PlayerProofs` (`ClientGame` and `PaymentPipeline`), `OperationsProofs` (`SystemLog` and
`Deployment`). The last three each extend two specifications that share nothing; this is why the
standard names of one of the two carry a prefix (`RiskInit`, `TabNext`, `LogSpec`).

## 3. Runs

| Run | Question | Instance |
|---|---|---|
| `game_safety` | Do two instances with an expiring lock, a forced result, a stop and a crash decide each bet once and conserve coins? | 2 users, 2 engines, 1 administrator, 2 bet keys, 1 round, 1 fault; users, engines, keys and colours symmetric; any two of the ticks and the request at work (`TwoAtWork`) |
| `game_live` | Does every round end and the next begin? | 1 engine, 2 rounds, 1 fault; stop, pause, start |
| `cancelled_announced` | Violation: a round stopped during its settlement is still announced as completed | 1 engine, 1 round |
| `payment` | Is an intent credited once, in time, with its deposit row, and in the end? | 1 real-money intent, 2 transactions, 1 request, 2 workers, 2 faults |
| `real_money` | Are paise explained by records, exposures limited, bets decided once, by the result, and in the end? | 2 users, 2 bet requests and keys, 1 withdrawal key, 2 decisions, 1 engine, 1 administrator, 1 fault, 1 midnight; three scenarios, two complications at a time |
| `auth` | Do refreshes, logouts, bans and registrations leave one live session per login, one bonus, and no caller waiting? | 3 callers, 2 tabs, 1 browser, 6 sessions; one of each disturbance, two at a time |
| `realtime` | Does a ban cut every socket, and does a lost one come back? | 2 tabs, 2 instances, 3 sockets, 4 generations, one of each event |
| `fraud` | Do scores stay within the signals raised, and do blocks and counters end? | 2 users, 2 requests, four scenarios, limits of one |
| `coin` | Do concurrent calls with retries keep the ledger's promise, and is every call answered? | 2 users, keys and calls, 1 failure, a frozen wallet |
| `tab` | Does the page tell the truth, once, and catch up with the database? | six scenarios: copies, reload, presses, stopped round, pause, wallet |
| `deploy` | Is the ledger of migrations true, and does every deploy serve? | 2 containers, a job, two releases, an empty, a legacy or a migrated database, 3 deploys, 1 SQL failure, 1 kill |
| `log` | Does the table keep the order without a hole, also at the end of the process, and is every record stored if the server lives? | batches of 2, queue of 3, 7 records, 2 failures |

**Bounds.** Two of everything that can race. One fault is a failure or crash at any statement; a
second restarts from a state that the first already produces. Where several independent
disturbances exist (`real_money`, `auth`, `game_safety`) a state constraint lets any two of them
meet, since each property is about what one of them does to another; the proofs cover the rest.
Limits and thresholds of one or two make every boundary reachable. In `tab` a lane takes what one
step publishes when it is empty (`laneCap` bounds what may wait before that), and an engine
abandons a round once in the scenario of two rounds of bets. `game_safety` is the only passing
run with symmetry and checks no liveness; the action properties it checks are symmetric. The runs
whose cfg says `CHECK_DEADLOCK FALSE` have systems that really stop: calls, tabs or containers are
used up, or the process has exited.

**Fairness**, and why the code justifies it:
- `RoundGame`: weak for an engine's steps, for `setInterval` fires while the process lives and every
  await returns or throws; for the steps of a `forceResult` in flight, the clock, and the lock's TTL.
- `PaymentPipeline`: strong for claiming an event, because the timer never stops and the oldest due
  event is taken first; weak for the lease and the steps of a delivery.
- `RealMoney`: weak for `LockRound`, `Resolve` and the steps of a settlement: the engine's ticks.
- `AuthSessions`: weak for the progress of each caller: answers arrive or fail.
- `Realtime`: weak for the server's set-up steps, the bridge, and the event the bridge's 15 s
  `state:sync` sends on every open socket.
- `FraudGuard`: weak for steps, for the passing of time, Redis expiry, and (an assumption on users)
  that a refused user tries again: recovery happens only on an attempt to bet.
- `CoinWallet`, `Deployment`, `SystemLog`: weak for each call's steps; the runner's steps, lock
  timeout, the restart by the container platform and the reaping of dead sessions; the flush timer,
  the insert's end, the close of the server and the exit.
- `ClientGame`: weak for connecting (socket.io retries for ever), the 15 s interval, the server's
  steps and delivery on a live connection; strong for an answer to a query, because the interval is
  long against a fetch and cannot give the refetch up again and again.
Nothing is assumed of administrators, the provider, failures or crashes beyond their bounds.

**Disagreements the models show.** One is listed as a finding: `round.service.ts` publishes
`round:completed` whatever its guarded update did, and `modules/game/README.md:36` says that a
cancelled round never emits it (`cancelled_announced`). Further configurations, not among the listed
runs, reproduce others. Each checks one property, and TLC finds it violated:

| Configuration | What it shows |
|---|---|
| `RoundGame_cancelled_final` | `forceResult`'s last update turns a CANCELLED, refunded round into COMPLETED |
| `RoundGame_lifecycle_runner` | the lock expires, so two instances run the life cycle at once; safety rests on guarded updates and transactions, not on the lock |
| `RoundGame_one_bet` | a user may have several bets in a round, which `prisma/README.md` calls unique |
| `PaymentPipeline_late` | a payment completed after expiry is recorded, refused with 409 and retried for ever |
| `RealMoney_late` | a bet may commit in a round that is already settled |
| `RealMoney_limit` | two withdrawals at once pass the daily limit |
| `RealMoney_failed` | the loser of a serialization conflict writes FAILED over SUCCESS |
| `RealMoney_recovered` | recovery of a round without seed refunds coin bets and not paise bets |
| `AuthSessions_logout_all` | a session rotated meanwhile outlives logout-all |
| `Realtime_refresh`, `Realtime_gauge` | a tab with a live session may stay disconnected after a refresh; the gauge drifts |
| `FraudGuard_lost`, `FraudGuard_stuck` | concurrent signals lose points; a failure between two commands leaves a counter for ever |
| `ClientGame_ended` | a round stopped during a pause whose event was lost stays on the page as running |
| `ClientGame_offline`, `ClientGame_retry` | "Connection lost" while connected; a retry after a late answer bets again |
| `Deployment_rollback` | a release that has served is refused after a later one edited a migration |

## 4. Proofs

TLAPS checks every theorem for all values of the constants: any finite or infinite sets of users,
processes, keys and requests (finite where sums or cardinalities are taken), any numbers of rounds,
faults, retries and messages. The assumptions are the named `ASSUME`s of the modules: bounds are
numbers, stakes are valid amounts, null values differ from real ones, tables of constants have their
types. Two carry more. `ClientGameAssumption` gives a scenario at most 100 bets, because the page
remembers 100 ids, and no unbounded budget of reloads, because `NoticeOnce` counts them.
`FraudAssumption` orders the thresholds. The runs check all of them.

Every safety property follows from an inductive invariant (`IInv`, `TabIInv`, `RiskIInv`,
`LogIInv`, `BooksInv`): it holds initially, each action preserves it, and it implies the property.

**The game** (`RoundGameProofs`). That outcomes follow the result needs all concurrent settlers to
agree: a process gets a result only from a round that is RESOLVING (`SettlersAgree`), where the
row's result no longer changes while it is active, and a round not yet RESOLVING has no settlement
row (`UndecidedIsUnsettled`). That a finished round has no pending bet needs what each stage of
`settleRound` has achieved (`SettlementStages`). `CopiesAreSane` ties local copies to existing
rounds. Theorems: `AtMostOneActiveRound`, `NoStrandedBet`, `OutcomesAreConsistent`,
`CompletionIsSettled`, `ConcurrentSettlersAgree`, `BetsAreDecidedOnce`, `SettlementsAreFinal`. A
by-product: `ROUND_SETTLEMENT_INCOMPLETE` and `ROUND_SETTLEMENT_RESULT_CONFLICT` are unreachable in
`settleRound`. On top of it stand the books, `CoinsAreConserved` and `WalletsMatchLedger`: a wallet
is the sum over its user's bets and over its user's ledger rows. They need `KeysAreSpent`: a debit
key belongs to a placed bet, a refund key to a cancelled one, and once a user's payout key of a
round is used no bet of that user that would win is pending. So a movement whose key was already
spent never changes one side only.

**Sums** (`SumTheorems`). The community operator adds the elements of a finite set in an order that
a CHOOSE fixes. That the order is irrelevant, that an element can be taken out, and that functions
that agree have one sum are inductions over sets, put as arguments about a smallest counterexample,
which exists because strict inclusion of finite sets is well founded.

**Coin wallet** (`CoinWalletProofs`). `Implements` is the refinement: every step of a call is a step
of `LedgerPromise` or a stutter. It needs that a call that holds the row lock computes from the row
as it is, or will be failed for a conflict (`CallOK`, `OneHolder`).

**Real money** (`RealMoneyProofs`). `WalletsMatch` needs that every bet has its ledger row, so that
its key cannot be used again (`RowsAreLogged`); `BetsFollowResults` that whoever settles has the
round's result (`SettlersKnowResult`); `ExposureIsLimited` that an open transaction still has room
for its stake or is a rival that the commit of another one aborts (`OpenBetsFit`). The action
property `DecidedOnce` follows too.

**Payments** (`PlayerProofs`). That an intent is credited once cannot rest on its status, which
`getIntent` may turn from CREDITED to EXPIRED. It rests on a chain: an order has one recorded
transaction, this has one event (`OneEventPerOrder`), the ledger holds events only
(`LedgerIsOfEvents`), each at most once because credit and processed event are written together
(`EventsAreCredited`). Theorems: `CreditsAreUnique`, `CreditsArePaidInTime`, `DeliveryMeansCredit`,
`DepositsAgree`.

**The page** (`PlayerProofs`). `TabInvariant` says that whatever was said of a bet is true while it
is on its way, in an event (`EventsHold`) or in an answer (`HistoryHolds`); that the last packet and
the acks of its number are about the round the form was sent for (`PacketIsOfForm`), so that the
bets the form counts exist (`FormHolds`); and that every popup raised is remembered, by the session
storage for good or else by the store until the page is loaded again (`ShowsAreKnown`). From it:
`NoticesComeOnce`, `NoticesAreTrue`, `PlacedBetsExist`, for any number of
instances, copies, reorderings, lost connections, reloads and presses. `CancelledStandsAlone` has an
invariant of its own (`ResultIInv`), because an engine may announce a result for a round that was
stopped: the store then holds the cancelled round with its result until the update that follows. It
says that every result on its way is followed in its lane by an update of its round (`Followed`), and
that a page that shows a cancelled round has no result of another one (`OlderResultGone`). The events of a step are a
flattened sequence; `FlattenType` is again a smallest counterexample, to the recursion of the
community operator.

**Sessions** (`AuthSessionsProofs`). The argument is the row lock: an open rotation holds an active
session, alone (`RotationsAreApart`), so what it stores takes the place of the only live session of
its login. `LoginsHaveOneSession`, `BonusIsGivenOnce`.

**Gateway** (`GatewayProofs`). `BansCutSockets`: a socket whose set-up is done has its transport
(`ReadyIsConnected`) and presents a session issued to its tab (`PresentsSession`), so either the
ban's event finds it in the room or the second check does. `RiskIsExplained`: a score never exceeds
what the raised signals add up to; also one that somebody has read and is about to write back does
not, the signal's points counted in (`ReadsAreExplained`). It is an upper bound: points may be lost
(`FraudGuard_lost`).

**Operations** (`OperationsProofs`). The log: every record is somewhere (`Tracked`), the records on
their way are in order, and those not yet in the table are younger than every row (`RowsAreOldest`),
so what an ended process leaves behind makes no hole: `RecordsAreAccounted`, `RecordsStayInOrder`,
`QueueStaysBounded`, and `OwnFlushLands` for the one insert the shutdown starts. Deployment: only the
holder of the lock works on the schema, what it has passed is recorded with its own release's text,
and a server starts after the last migration (`InstOK`); the names within a release are distinct, as
files of one directory are. `LedgerStaysTrue`, `RunnersStayApart` (one at work, none trips),
`ReadyServersAreMigrated`, and `EditsAreStopped`: a runner goes on only past migrations recorded as it
ships them, and turns a record into that only from a compatible text or a listed edit.

**Model-checked only.** All liveness properties (`RoundEnds`, `NextRoundStarts`, `PaidIsCredited`,
`OpenBetIsDecided`, `CallersReturn`, `Reconnects`, `RevokedSocketIsCut`, `Recovers`,
`CountersExpire`, `CallsAnswered`, `CatchesUp`, `EveryDeployServes`, `EveryRecordStored`): fairness
and ENABLED are outside what the prover supports here. Every safety property of a passing run has a
theorem.

## 5. What is left

**Not modelled.** Cryptography (seed hashes, token and event signatures) is taken to work. Rendering,
checkout pages, timers and activity lists of the client; metrics, alerts and request tracing, which
feed operators only; serializers and read-only lists; the reconcile scripts, which are read-only and
check what `WalletMatchesLedger` and `WalletMatchesRecords` state; the administrator's bootstrap and
the payment app's schema script, which are run by hand.

**Not composed.** `RoundGame` and `RealMoney` each have a round of their own; the second takes the
engine's steps as far as the real-money code sees them. `Realtime` moves sessions as `AuthSessions`
does, with generations in place of rotation. `ClientGame` takes the outcome of bets as given.

**Plan.** Prove that the coarser models are sound where they meet: the rounds of `RealMoney` against
those of `RoundGame`, the sessions of `Realtime` against `AuthSessions`. State what a bet promises
(debited once, then won, lost or refunded) as an abstract specification that `RoundGame` implements;
its invariants are proved (`KeysAreSpent`, `BetsAreDecidedOnce`). Prove action properties of
`PaymentPipeline` (statuses of an intent move forward except CREDITED to EXPIRED) and of
`AuthSessions` (a revoked session stays revoked).
