----------------------------- MODULE FraudGuard -----------------------------
(***************************************************************************)
(* The fraud layer (modules/fraud): Redis counters with a window, the risk *)
(* profile of a user, the gate in front of a bet over HTTP, and the        *)
(* limits of logins and socket events.                                     *)
(*                                                                         *)
(* Every await is a step: the risk profile is read, changed in memory and  *)
(* written back, and a counter is incremented and given its expiry by two  *)
(* commands.  A signal starts two things at once, the insert of its log    *)
(* and the adjustment of the score; each may fail without the other.  What *)
(* a bet sets off (observeBetActivity) runs on after the bet was let       *)
(* through, beside the user's next requests.                               *)
(***************************************************************************)
EXTENDS Naturals, FiniteSets, Sequences

CONSTANTS
    Players, IP, Device,   \* users, the network and the device of each
    Requests,              \* bound: requests in progress at once
    Scenarios,             \* what a run explores, one for each of its initial states
    UserLimit, IpLimit, SoftLimit, AuthLimit, SocketLimit,   \* 6, 80, 2, 20, 40
    MaxTokens,             \* SOCKET_RATE_LIMIT_MAX_EVENTS
    IpAccounts, DeviceAccounts, SharedUsers,  \* thresholds 4, 3, 6
    Points,                \* risk points of a signal
    SoftAt, BlockAt, MaxScore,                \* 61, 81, 100
    MaxDecay               \* MAX_DECAY_POINTS

Kinds  == {"bet", "login", "socket"}
Signal == {"limit", "socket", "ip", "device", "timing", "shared"}

Scenario == [
    users : SUBSET Players, requests : SUBSET Requests, kinds : SUBSET Kinds,
    score   : 0 .. MaxScore,   \* a user's when the behaviour begins
    clock   : BOOLEAN,         \* whether it lasts half an hour or more
    fail    : Nat,             \* bounds: errors and crashes,
    control : Nat,             \* updates of the risk controls,
    forget  : Nat]             \* expiries of observations

ASSUME FraudAssumption ==
    /\ SoftAt \in Nat /\ BlockAt \in Nat /\ MaxScore \in Nat /\ SoftAt <= BlockAt
    /\ BlockAt <= MaxScore /\ MaxDecay \in Nat /\ MaxTokens \in Nat \ {0}
    /\ Points \in [Signal -> Nat] /\ \A s \in Scenarios : s \in Scenario
    /\ {UserLimit, IpLimit, SoftLimit, AuthLimit, SocketLimit} \subseteq Nat

VARIABLES
    profile,   \* user_risk_profiles; age: half hours since last_updated
    raised,    \* history: points of the signals adjustRisk took up, to MaxScore
    suspected, \* history: users with a bot signal among them
    counter,   \* fraud:rl:* in Redis: the count (0: no key) and whether it expires
    seenBy,    \* the sets of the session tracker and of the bot detector
    tokens,    \* the socket's own guard: tokens, and whether its window is over
    op,        \* the requests
    allowed,   \* what is left of the scenario's bounds
    scenario   \* the scenario explored

redis == <<counter, seenBy>>
risk == <<profile, raised, suspected>>
riskState == <<risk, redis, tokens, op, allowed>>
riskVars == <<riskState, scenario>>

InitScore == [u \in Players |-> scenario.score]
Bounds == [fail |-> scenario.fail, control |-> scenario.control, forget |-> scenario.forget]

Keys == [of : {"user", "soft", "socket"}, who : Players] \cup [of : {"ip", "auth"}, who : {IP[u] : u \in Players}]
Key(of, u) == [of |-> of, who |-> IF of \in {"ip", "auth"} THEN IP[u] ELSE u]
Limit(k) == CASE k.of = "user" -> UserLimit [] k.of = "ip" -> IpLimit [] k.of = "soft" -> SoftLimit
              [] k.of = "auth" -> AuthLimit [] k.of = "socket" -> SocketLimit

Profile == [score : 0 .. MaxScore, blocked : BOOLEAN, bot : BOOLEAN, age : 0 .. 2 * MaxDecay]
NotRead == [score |-> 0, blocked |-> FALSE, bot |-> FALSE, age |-> 0]
Observed == {"ip", "device", "shared"}
Idle == [at |-> "idle"]
Commands == {"log", "read", "write"}   \* fraudLog.create; the two of adjustRisk
Op == [at : {"decay", "incr", "expire", "signal", "observe", "inspect"},
       kind : {"bet", "login", "socket"}, user : Players, seen : Profile, keys : SUBSET Keys,
       fresh : SUBSET Keys, over : SUBSET Keys, sigs : Seq(Signal), todo : SUBSET Commands,
       then : {"idle", "inspect"}]

RiskTypeOK ==
    /\ profile \in [Players -> Profile]
    /\ raised \in [Players -> 0 .. MaxScore] /\ suspected \subseteq Players
    /\ counter \in [Keys -> [n : Nat, ttl : BOOLEAN]]
    /\ \A k \in Keys : counter[k].n <= Limit(k) + 1
    /\ seenBy \in [Observed -> SUBSET Players]
    /\ tokens \in [Players -> [n : 0 .. MaxTokens, over : BOOLEAN]]
    /\ op \in [Requests -> {Idle} \cup Op]
    /\ scenario \in Scenarios /\ allowed \in [fail : Nat, control : Nat, forget : Nat]

RiskInit ==
    /\ scenario \in Scenarios
    /\ profile = [u \in Players |-> [score |-> InitScore[u], blocked |-> InitScore[u] >= BlockAt,
                                   bot |-> FALSE, age |-> 0]]
    /\ raised = [u \in Players |-> 0] /\ suspected = {}
    /\ counter = [k \in Keys |-> [n |-> 0, ttl |-> FALSE]]
    /\ seenBy = [o \in Observed |-> {}]
    /\ tokens = [u \in Players |-> [n |-> MaxTokens, over |-> FALSE]]
    /\ op = [r \in Requests |-> Idle]
    /\ allowed = Bounds

-----------------------------------------------------------------------------
(* Arithmetic of risk.engine.ts *)

Smaller(a, b) == IF a <= b THEN a ELSE b
clampRiskScore(n) == Smaller(n, MaxScore)
\* applyDecay: a point for every full hour since last_updated.
applyDecay(p) ==
    LET decay == Smaller(p.age \div 2, MaxDecay) IN
    IF decay >= p.score THEN 0 ELSE p.score - decay

Written(p, score) == [p EXCEPT !.score = score, !.blocked = score >= BlockAt, !.age = 0]

\* A request past its limits, at a step.
At(r, step) == [op[r] EXCEPT !.at = step, !.keys = {}, !.fresh = {}, !.over = {}, !.seen = NotRead,
                             !.todo = IF step = "signal" THEN {"log", "read"} ELSE {}]
\* Go on to the signals found, then to another step.
After(r, sigs, then) ==
    IF sigs # <<>> THEN [At(r, "signal") EXCEPT !.sigs = sigs, !.then = then]
    ELSE IF then = "idle" THEN Idle ELSE [At(r, then) EXCEPT !.sigs = <<>>, !.then = "idle"]
Goto(r, next) == op' = [op EXCEPT ![r] = next]

-----------------------------------------------------------------------------
(* The gate and the counters *)

Start(r, u, kind, at, keys) ==
    /\ op[r] = Idle /\ kind \in scenario.kinds
    /\ Goto(r, [at |-> at, kind |-> kind, user |-> u, seen |-> IF at = "decay" THEN profile[u] ELSE NotRead, keys |-> keys,
                fresh |-> {}, over |-> {}, sigs |-> <<>>, todo |-> {}, then |-> "idle"])
    /\ UNCHANGED <<risk, redis, tokens, allowed>>

\* enforceBettingPolicy begins with decayRisk, which reads the profile.
Bet(r, u) == Start(r, u, "bet", "decay", {Key("user", u), Key("ip", u)})
Login(r, u) == Start(r, u, "login", "incr", {Key("auth", u)})
SocketEvent(r, u) == Start(r, u, "socket", "incr", {Key("socket", u)})

WritesAlways(p) == TRUE
\* decayRisk writes only when a point was lost.
Writes(p) == applyDecay(p) # p.score
\* decayRisk goes on, and enforceBettingPolicy refuses a blocked user with 423.
Gate(r) ==
    LET p == op[r].seen  u == op[r].user
        q == IF Writes(p) THEN Written(profile[u], applyDecay(p)) ELSE p IN
    /\ op[r].at = "decay"
    /\ profile' = IF Writes(p) THEN [profile EXCEPT ![u] = q] ELSE profile
    /\ Goto(r, IF q.blocked \/ q.score >= BlockAt THEN Idle ELSE [op[r] EXCEPT !.at = "incr", !.seen = q])
    /\ UNCHANGED <<raised, suspected, redis, tokens, allowed>>

\* consume, first half: INCR.  The count stops at the first value over the limit.
Incr(r) ==
    LET K == op[r].keys
        n == [k \in Keys |-> Smaller(counter[k].n + 1, Limit(k) + 1)] IN
    /\ op[r].at = "incr"
    /\ counter' = [k \in Keys |-> IF k \in K THEN [counter[k] EXCEPT !.n = n[k]] ELSE counter[k]]
    /\ Goto(r, [op[r] EXCEPT !.at = "expire", !.fresh = {k \in K : n[k] = 1},
                             !.over = {k \in K : n[k] > Limit(k)}])
    /\ UNCHANGED <<risk, seenBy, tokens, allowed>>

NeverFresh(r) == {k \in op[r].fresh : counter[k].n > Limit(k)}
Fresh(r) == op[r].fresh
\* consume, second half: PEXPIRE of a counter that was 1, PTTL, and the decision.
Expiring(r) ==
    /\ op[r].at = "expire"
    /\ counter' = [k \in Keys |-> [counter[k] EXCEPT !.ttl = @ \/ (k \in Fresh(r) /\ counter[k].n > 0)]]

\* The rest of enforceBettingPolicy; handleRateLimit raises a signal.
DecideBet(r) ==
    LET soft == Key("soft", op[r].user) IN
    /\ Expiring(r) /\ op[r].kind = "bet"
    /\ Goto(r, IF op[r].over # {} THEN After(r, <<"limit">>, "idle")
               ELSE IF soft \notin op[r].keys /\ op[r].seen.score >= SoftAt
               THEN [op[r] EXCEPT !.at = "incr", !.keys = {soft}]
               ELSE At(r, "observe"))
    /\ UNCHANGED <<risk, seenBy, tokens, allowed>>

\* enforceAuthRateLimit; a login that succeeds is observed in the background.
DecideLogin(r) ==
    /\ Expiring(r) /\ op[r].kind = "login"
    /\ \/ Goto(r, IF op[r].over # {} THEN Idle ELSE At(r, "observe"))
       \/ Goto(r, Idle)    \* the login itself fails
    /\ UNCHANGED <<risk, seenBy, tokens, allowed>>

\* consumeSocketToken
DecideSocket(r) ==
    LET u == op[r].user  t == tokens[u] IN
    /\ Expiring(r) /\ op[r].kind = "socket"
    /\ IF op[r].over # {} THEN Goto(r, After(r, <<"socket">>, "idle")) /\ UNCHANGED tokens
       ELSE IF t.over
       THEN Goto(r, Idle) /\ tokens' = [tokens EXCEPT ![u] = [n |-> MaxTokens - 1, over |-> FALSE]]
       ELSE IF t.n = 0 THEN Goto(r, After(r, <<"socket">>, "idle")) /\ UNCHANGED tokens
       ELSE Goto(r, Idle) /\ tokens' = [tokens EXCEPT ![u].n = @ - 1]
    /\ UNCHANGED <<risk, seenBy, allowed>>

-----------------------------------------------------------------------------
(* Signals *)

If(cond, sig) == IF cond THEN <<sig>> ELSE <<>>
Seen(u, O) == [o \in Observed |-> IF o \in O THEN seenBy[o] \cup {u} ELSE seenBy[o]]

\* observeUserSession, of a login or of a bet that was let through.
Observe(r) ==
    LET u == op[r].user  seen == Seen(u, {"ip", "device"})
        sameIp == {v \in seen["ip"] : IP[v] = IP[u]}
        sameDevice == {v \in seen["device"] : Device[v] = Device[u]} IN
    /\ op[r].at = "observe"
    /\ seenBy' = seen
    /\ Goto(r, After(r, If(Cardinality(sameIp) >= IpAccounts, "ip")
                        \o If(Cardinality(sameDevice) >= DeviceAccounts, "device"),
                     IF op[r].kind = "bet" THEN "inspect" ELSE "idle"))
    /\ UNCHANGED <<risk, counter, tokens, allowed>>

\* inspectBet; whether the times of the last bets are regular, and whether the
\* bet is the one many users place this minute, is left open.
Inspect(r) ==
    /\ op[r].at = "inspect"
    /\ \E regular, common \in BOOLEAN :
          LET seen == Seen(op[r].user, IF common THEN {"shared"} ELSE {})
              shared == common /\ Cardinality(seen["shared"]) >= SharedUsers IN
          /\ seenBy' = seen
          /\ Goto(r, After(r, If(regular, "timing") \o If(shared, "shared"), "idle"))
    /\ UNCHANGED <<risk, counter, tokens, allowed>>

IsBot(sig) == sig \in {"timing", "shared"}
\* applyRiskSignal starts both parts of a signal at once (Promise.all) and goes on
\* when both have answered.
Signalling(r, command) == op[r].at = "signal" /\ command \in op[r].todo
Answered(r, command) ==
    LET rest == op[r].todo \ {command} IN
    Goto(r, IF rest = {} THEN After(r, Tail(op[r].sigs), op[r].then) ELSE [op[r] EXCEPT !.todo = rest])

\* The row of fraud_logs; nothing in the server reads it back.
RecordFraudEvent(r) ==
    /\ Signalling(r, "log") /\ Answered(r, "log")
    /\ UNCHANGED <<risk, redis, tokens, allowed>>

\* adjustRisk reads the profile ...
ReadRisk(r) ==
    LET u == op[r].user  sig == Head(op[r].sigs) IN
    /\ Signalling(r, "read")
    /\ raised' = [raised EXCEPT ![u] = clampRiskScore(@ + Points[sig])]
    /\ suspected' = IF IsBot(sig) THEN suspected \cup {u} ELSE suspected
    /\ Goto(r, [op[r] EXCEPT !.todo = (@ \ {"read"}) \cup {"write"}, !.seen = profile[u]])
    /\ UNCHANGED <<profile, redis, tokens, allowed>>

AddedTwice(seen, now, n) == clampRiskScore(now.score + n + n)
\* ... and writes what follows from the profile it read.
NextScore(seen, now, n) == clampRiskScore(applyDecay(seen) + n)
AdjustRisk(r) ==
    LET u == op[r].user  p == op[r].seen  sig == Head(op[r].sigs) IN
    /\ Signalling(r, "write")
    /\ profile' = [profile EXCEPT ![u] =
          [Written(@, NextScore(p, @, Points[sig])) EXCEPT !.bot = p.bot \/ IsBot(sig)]]
    /\ Answered(r, "write")
    /\ UNCHANGED <<raised, suspected, redis, tokens, allowed>>

-----------------------------------------------------------------------------
(* Time, the administrator, and failures *)

Expire(k) ==
    /\ counter[k].ttl
    /\ counter' = [counter EXCEPT ![k] = [n |-> 0, ttl |-> FALSE]]
    /\ UNCHANGED <<risk, seenBy, tokens, op, allowed>>
\* The expiry of a session set, or the next minute's bucket of bets.
Forget(o) ==
    /\ seenBy[o] # {} /\ allowed.forget > 0 /\ allowed' = [allowed EXCEPT !.forget = @ - 1]
    /\ seenBy' = [seenBy EXCEPT ![o] = {}]
    /\ UNCHANGED <<risk, counter, tokens, op>>
SocketWindow(u) ==
    /\ tokens[u].n < MaxTokens /\ ~ tokens[u].over
    /\ tokens' = [tokens EXCEPT ![u].over = TRUE]
    /\ UNCHANGED <<risk, redis, op, allowed>>
HalfHour ==
    /\ scenario.clock
    /\ profile' = [u \in Players |-> [profile[u] EXCEPT !.age = Smaller(@ + 1, 2 * MaxDecay)]]
    /\ UNCHANGED <<raised, suspected, redis, tokens, op, allowed>>

\* setRiskControls touches last_updated without settling the decay.
SetRiskControls(u) ==
    /\ allowed.control > 0 /\ allowed' = [allowed EXCEPT !.control = @ - 1]
    /\ profile' = [profile EXCEPT ![u].age = 0]
    /\ UNCHANGED <<raised, suspected, redis, tokens, op>>

\* A failed command, or the death of the server, ends a request where it is.
Fails == allowed.fail > 0 /\ allowed' = [allowed EXCEPT !.fail = @ - 1]
Fail(r) ==
    /\ op[r] # Idle /\ Fails
    /\ Goto(r, Idle)
    /\ UNCHANGED <<risk, redis, tokens>>
\* One part of a signal fails: the request is rejected with its other signals,
\* while the other part runs on to its end.
Reject(r) ==
    /\ op[r].at = "signal" /\ Fails
    /\ \E command \in op[r].todo :
          LET rest == op[r].todo \ {command} IN
          Goto(r, IF rest = {} THEN Idle
                  ELSE [op[r] EXCEPT !.todo = rest, !.sigs = <<Head(@)>>, !.then = "idle"])
    /\ UNCHANGED <<risk, redis, tokens>>

-----------------------------------------------------------------------------
Request(r) == \E u \in scenario.users : Bet(r, u) \/ Login(r, u) \/ SocketEvent(r, u)
Step(r) == \/ Gate(r) \/ Incr(r) \/ DecideBet(r) \/ DecideLogin(r) \/ DecideSocket(r)
           \/ Observe(r) \/ Inspect(r) \/ RecordFraudEvent(r) \/ ReadRisk(r) \/ AdjustRisk(r)

RiskNext ==
    /\ UNCHANGED scenario
    /\ \/ \E r \in scenario.requests : Request(r) \/ Step(r) \/ Fail(r) \/ Reject(r)
       \/ \E k \in Keys : Expire(k)
       \/ \E o \in Observed : Forget(o)
       \/ \E u \in scenario.users : SocketWindow(u) \/ SetRiskControls(u)
       \/ HalfHour

RiskSpec == RiskInit /\ [][RiskNext]_riskVars

\* The server answers, Redis expires its keys, time passes, and a user who was
\* refused tries again.
TriesAgain(u) == u \in scenario.users /\ \E r \in scenario.requests : Bet(r, u)
FairRiskSpec ==
    /\ RiskSpec /\ WF_riskState(HalfHour)
    /\ \A r \in Requests : WF_riskState(Step(r))
    /\ \A k \in Keys : WF_riskState(Expire(k))
    /\ \A u \in Players : WF_riskState(TriesAgain(u))

-----------------------------------------------------------------------------
(* Properties *)

Pending(u) == {r \in Requests : op[r] # Idle /\ op[r].user = u /\ op[r].at \in {"decay", "signal"}}

\* A score never exceeds what the raised signals add up to: however the
\* read-modify-writes of adjustRisk and decayRisk interleave, fail or outlive
\* their request, no signal is counted twice and a decay never raises a score.
\* (It may well be lower: SignalsAreKept.)
Explained(u, score) == score <= InitScore[u] + raised[u] \/ raised[u] = MaxScore
NoUnexplainedRisk == \A u \in Players : Explained(u, profile[u].score)

\* What it rests on: a score somebody has read and is about to write back is
\* explained too, the points of the signal that brought it there counted in.
ReadsAreExplained ==
    \A r \in Requests :
        /\ op[r].at = "decay" => Explained(op[r].user, op[r].seen.score)
        /\ Signalling(r, "write") => Explained(op[r].user, op[r].seen.score + Points[Head(op[r].sigs)])

\* A request that is at a signal has one.
SignalsWait == \A r \in Requests : op[r].at = "signal" => op[r].sigs # <<>>

RiskIInv == RiskTypeOK /\ NoUnexplainedRisk /\ SignalsWait /\ ReadsAreExplained

\* Where time passes, a user for whom no more signals are raised does not stay
\* blocked, however often the user tries to bet meanwhile.
Recovers ==
    \A u \in Players :
        <>[](scenario.clock /\ \A r \in Requests : op[r] # Idle => op[r].sigs = <<>>)
            => []<>(profile[u].score < BlockAt)

\* A rate limit lifts unless a request fails: a counter that counted a request is
\* gone some time later, however often the user tries again meanwhile.
CountersExpire == \A k \in Keys : []<>(counter[k].n = 0 \/ allowed.fail < scenario.fail)

\* The same of every request: "Risk decays slowly over time so false positives can
\* recover without manual intervention." (modules/fraud/README.md:25)
EveryCounterExpires == \A k \in Keys : []<>(counter[k].n = 0)

\* When nothing is in progress for a user, the profile holds the points and the
\* suspicion of every signal that was raised.
SignalsAreKept ==
    \A u \in Players : ~ scenario.clock /\ Pending(u) = {} =>
        /\ profile[u].score = clampRiskScore(InitScore[u] + raised[u])
        /\ u \in suspected => profile[u].bot
=============================================================================
