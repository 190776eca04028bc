----------------------------- MODULE ClientGame -------------------------------
(***************************************************************************)
(* One player's browser tab and what the servers send it: the game store,  *)
(* the socket bridge, the queries and the bet form on one side, the event  *)
(* bus, the snapshots and the socket bet handler on the other.             *)
(*                                                                         *)
(* A database change is published by one server instance.  That instance   *)
(* routes the event to the tab at once; every other instance receives it   *)
(* over Redis and routes it again, so the tab gets one copy per instance.  *)
(* Copies of one instance arrive in order (a lane); nothing orders lanes.  *)
(* Answers of the tab's own instance (snapshots, bet acks) share its lane. *)
(*                                                                         *)
(* The wallet is the number of its ledger entries, a round its id and      *)
(* status (LOCKED stands for LOCKED and RESOLVING, which the page treats   *)
(* alike).  Timers, activity lines and the result list are display only.   *)
(***************************************************************************)
EXTENDS Integers, Sequences, FiniteSets, SequencesExt

CONSTANTS
    Scenarios,      \* what a run explores, one for each of its initial states
    Own,            \* the tab's instance
    Forever         \* no bound

Kinds == {"drop", "reload", "resync", "pause", "cancel", "abandon", "press"}

Scenario == [
    instances : SUBSET STRING,  \* server processes
    engine    : STRING,         \* the one running the game
    laneCap   : Nat,            \* bound on events in flight per lane; one step's always fit an empty one
    rounds    : Nat,            \* bound on the rounds of the game
    bets      : 0 .. 100,       \* bound on the player's bets: the page remembers 100
    quantity  : Nat \ {0},      \* bets one press of "Confirm bet" places (safeQuantity)
    storage   : BOOLEAN,        \* whether window.sessionStorage is available
    topics    : SUBSET {"round", "wallet", "bets", "control", "sync", "ack"},
    queries   : SUBSET {"round", "wallet", "bets"},  \* what is looked at; the rest is left out
    budget    : [Kinds -> Nat]] \* how often each of Kinds may happen

ASSUME ClientGameAssumption ==
    /\ \A s \in Scenarios : /\ s \in Scenario /\ {Own, s.engine} \subseteq s.instances
                            /\ s.budget["reload"] # Forever  \* NoticeOnce counts them,
                            /\ s.budget["drop"] # Forever    \* CancelledShowsNoResult these
    /\ Forever \in Nat

VARIABLES
    round, paused, wallet, bet,     \* the database
    closing,                        \* the round the engine resolves, then the row it read back
    bus, lane,                      \* events to route, events on their way to the tab
    srv,                            \* the tab's socket on its instance, with the snapshot it builds
    ask, req,                       \* state:sync and bet:place packets on their way to the server
    conn,                           \* the socket in the tab, and the module variable activeSocket
    page,                           \* useGameStore
    stored,                         \* sessionStorage's shown-settled-bet-ids
    query,                          \* the react-query cache
    form,                           \* the bet mutation
    shows,                          \* how often the result popup of a bet was raised
    scenario, left                  \* the scenario, and what is left of its budget

db == <<round, paused, wallet, bet, closing>>
net == <<bus, lane, srv, ask, req>>
tab == <<conn, page, stored, query, form, shows>>
state == <<db, net, tab, left>>
tabVars == <<state, scenario>>

Instances == scenario.instances
Engine    == scenario.engine
LaneCap   == scenario.laneCap
MaxRound  == scenario.rounds
Bets      == 1 .. scenario.bets
Quantity  == scenario.quantity
Storage   == scenario.storage
Topics    == scenario.topics
Queries   == scenario.queries
Budget    == scenario.budget

NoRound == [id |-> 0, st |-> "NONE"]
Ongoing == {"OPEN", "LOCKED"}
Over == {"COMPLETED", "CANCELLED"}
Settled == {"WON", "LOST", "CANCELLED"}
NoBet == [st |-> "free", rd |-> 0]
Nothing == [kind |-> "nothing"]
NoSnapshot == [ev |-> "none"]

NotAsked == [at |-> "idle"]
Asked == [at |-> "asked"]

Rounds == [id : 0 .. MaxRound, st : Ongoing \cup Over \cup {"NONE"}]

EmptyPage ==
    [connected |-> FALSE, round |-> NoRound, wallet |-> 0, paused |-> FALSE, last |-> 0,
     orders |-> [b \in Bets |-> "none"], notice |-> [b |-> 0, st |-> "none"], ids |-> {}]
EmptyCache == [n \in Queries |-> [data |-> Nothing, fly |-> Asked]]
EmptyForm == [at |-> "idle", rd |-> 0, got |-> {}, n |-> 0, up |-> FALSE]

Running == {r \in Rounds : r.st \in Ongoing \cup {"NONE"}}
BetStatus == {"PENDING"} \cup Settled

\* Snapshots, events and acks.
Snapshot == [ev : {"sync"}, r : Running, v : Nat, p : BOOLEAN]
Message ==
    Snapshot \cup [ev : {"round", "cancelled"}, r : Rounds]
             \cup [ev : {"result"}, r : {r \in Rounds : r.st \in Over}]
             \cup [ev : {"placed", "settled"}, b : Bets, st : BetStatus]
             \cup [ev : {"wallet"}, v : Nat] \cup [ev : {"control"}, p : BOOLEAN]
             \cup [ev : {"ack"}, ok : BOOLEAN, b : Bets \cup {0}, v : Nat, n : Nat]
Packet == [kind : {"bet"}, rd : 0 .. MaxRound, n : Nat, live : BOOLEAN]
Page ==
    [connected : BOOLEAN, round : Rounds, wallet : Nat, paused : BOOLEAN, last : 0 .. MaxRound,
     orders : [Bets -> {"none"} \cup BetStatus],
     notice : [b : Bets \cup {0}, st : {"none"} \cup BetStatus], ids : SUBSET Bets]
Form == [at : {"idle", "wait", "ok", "failed", "refused"}, rd : 0 .. MaxRound,
         got : SUBSET Bets, n : Nat, up : BOOLEAN]
AnswerTo(n) ==
    CASE n = "round" -> [kind : {"round"}, r : Running]
      [] n = "wallet" -> [kind : {"wallet"}, v : Nat]
      [] n = "bets" -> [kind : {"bets"}, st : [Bets -> {"free"} \cup BetStatus]]
Cached(n) == [data : {Nothing} \cup AnswerTo(n),
              fly : {NotAsked, Asked} \cup [at : {"read"}, answer : AnswerTo(n)]]

TabTypeOK ==
    /\ round \in Rounds /\ closing \in Rounds /\ paused \in BOOLEAN /\ wallet \in Nat
    /\ bet \in [Bets -> [st : {"free"} \cup BetStatus, rd : 0 .. MaxRound]]
    /\ bus \in [Instances -> Seq(Message)] /\ lane \in [Instances -> Seq(Message)]
    /\ srv \in [at : {"none", "joined", "ready"}, snap : {NoSnapshot} \cup Snapshot]
    /\ ask \in BOOLEAN
    /\ req \in {Nothing} \cup Packet
    /\ conn \in [up : BOOLEAN, active : BOOLEAN]
    /\ page \in Page
    /\ stored \subseteq Bets
    /\ DOMAIN query = Queries /\ \A n \in Queries : query[n] \in Cached(n)
    /\ form \in Form
    /\ shows \in [Bets -> Nat]
    /\ scenario \in Scenarios /\ left \in [Kinds -> Nat]

TabInit ==
    /\ scenario \in Scenarios
    /\ round = NoRound /\ closing = NoRound /\ paused = FALSE /\ wallet = 0
    /\ bet = [b \in Bets |-> NoBet]
    /\ bus = [i \in Instances |-> <<>>]
    /\ lane = [i \in Instances |-> <<>>]
    /\ srv = [at |-> "none", snap |-> NoSnapshot]
    /\ ask = FALSE
    /\ req = Nothing
    /\ conn = [up |-> FALSE, active |-> TRUE]
    /\ page = EmptyPage
    /\ stored = {}
    /\ query = EmptyCache
    /\ form = EmptyForm
    /\ shows = [b \in Bets |-> 0]
    /\ left = Budget

Spend(k) == left[k] > 0 /\ left' = [left EXCEPT ![k] = IF Budget[k] = Forever THEN @ ELSE @ - 1]

-------------------------------------------------------------------------------
(* The event bus and the sockets of the server.                            *)

\* routeRealtimeEvent reaches the tab once its socket has joined its rooms.
\* Every event of this model goes to a room the player's socket is in.
Reaches == srv.at # "none"

Topic(e) == CASE e.ev \in {"result", "cancelled"} -> "round" [] e.ev \in {"placed", "settled"} -> "bets"
              [] OTHER -> e.ev
OfInterest(es) ==
    FlattenSeq([k \in DOMAIN es |-> IF Topic(es[k]) \in Topics THEN <<es[k]>> ELSE <<>>])
Routed(i, es) == IF Reaches THEN [lane EXCEPT ![i] = @ \o es] ELSE lane

\* publishRealtimeEvent: process here, publish to Redis for the others.  The
\* publisher's own copy comes back and is dropped: its id is in seenEventIds.
PublishRealtimeEvent(i, es) ==
    /\ lane[i] = <<>> \/ Len(lane[i]) + Len(OfInterest(es)) <= LaneCap
    /\ lane' = Routed(i, OfInterest(es))
    /\ bus' = [j \in Instances |-> IF j = i THEN bus[j] ELSE bus[j] \o OfInterest(es)]

\* The Redis subscriber of instance j handles the next message.
ProcessRealtimeEvent(j) ==
    /\ bus[j] # <<>>
    /\ Len(lane[j]) < LaneCap
    /\ lane' = Routed(j, <<Head(bus[j])>>)
    /\ bus' = [bus EXCEPT ![j] = Tail(@)]
    /\ UNCHANGED <<db, srv, ask, req, tab, left>>

\* findCurrentRound and the snapshot's query: the round that is under way.
CurrentRound == IF round.st \in Ongoing THEN round ELSE NoRound

BlindSnapshot == [ev |-> "sync", r |-> CurrentRound, v |-> wallet, p |-> FALSE]

\* buildStateSnapshot reads the database; its three reads are taken as one.
BuildStateSnapshot ==
    [ev |-> "sync", r |-> CurrentRound, v |-> wallet, p |-> paused]

\* handleConnection after it joined the rooms: syncLatestState reads a
\* snapshot; until it is emitted the socket has no handlers.
SyncLatestState ==
    /\ srv.at = "joined" /\ srv.snap = NoSnapshot
    /\ srv' = [srv EXCEPT !.snap = BuildStateSnapshot]
    /\ UNCHANGED <<db, bus, lane, ask, req, tab, left>>

\* "state:sync" arrives: a snapshot is read, or the packet finds no handler.
StateSync ==
    /\ ask
    /\ srv.snap = NoSnapshot \/ srv.at = "joined"
    /\ ask' = FALSE
    /\ srv' = IF srv.at = "ready" THEN [srv EXCEPT !.snap = BuildStateSnapshot] ELSE srv
    /\ UNCHANGED <<db, bus, lane, req, tab, left>>

\* The snapshot is emitted: system:sync, then round:update, round:state and
\* user:balance_sync with the same data, in one go on the same socket.
EmitSnapshot ==
    /\ srv.snap # NoSnapshot
    /\ Len(lane[Own]) < LaneCap
    /\ lane' = Routed(Own, OfInterest(<<srv.snap>>))
    /\ srv' = [at |-> "ready", snap |-> NoSnapshot]
    /\ UNCHANGED <<db, bus, ask, req, tab, left>>

-------------------------------------------------------------------------------
(* The game, as far as the tab can see it.                                 *)

\* round:created, round:lock, round:locked, round:update, round:state, round:completed.
RoundEvent(r) == [ev |-> "round", r |-> r]

CreateNextRound ==
    /\ ~paused /\ CurrentRound = NoRound /\ round.id < MaxRound
    /\ round' = [id |-> round.id + 1, st |-> "OPEN"]
    /\ PublishRealtimeEvent(Engine, <<RoundEvent(round')>>)
    /\ UNCHANGED <<paused, wallet, bet, closing, srv, ask, req, tab, left>>

LockRound ==
    /\ ~paused /\ round.st = "OPEN"
    /\ round' = [round EXCEPT !.st = "LOCKED"]
    /\ PublishRealtimeEvent(Engine, <<RoundEvent(round')>>)
    /\ UNCHANGED <<paused, wallet, bet, closing, srv, ask, req, tab, left>>

Pending == {b \in Bets : bet[b].st = "PENDING" /\ bet[b].rd = round.id}

SettledEvents(b, st) ==
    (IF st = "LOST" THEN <<>> ELSE <<[ev |-> "wallet", v |-> wallet + 1]>>)
        \o <<[ev |-> "settled", b |-> b, st |-> st]>>

\* resolveRound moves the round to RESOLVING (told to nobody) and settles it.
ResolveRound ==
    /\ closing = NoRound /\ round.st = "LOCKED"
    /\ closing' = round
    /\ UNCHANGED <<round, paused, wallet, bet, net, tab, left>>

\* settleRound, one bet at a time: a winner is credited and told its wallet.
SettleBet(b, st) ==
    /\ closing = round /\ round.st = "LOCKED" /\ b \in Pending
    /\ bet' = [bet EXCEPT ![b].st = st]
    /\ wallet' = IF st = "WON" THEN wallet + 1 ELSE wallet
    /\ PublishRealtimeEvent(Engine, SettledEvents(b, st))
    /\ UNCHANGED <<round, paused, closing, srv, ask, req, tab, left>>

\* The round is completed where it is still being resolved; either way its row is
\* read back.  It is CANCELLED when an administrator stopped the round meanwhile.
CompleteRound ==
    /\ closing.st = "LOCKED"
    /\ IF round = closing
       THEN /\ Pending = {}
            /\ round' = [round EXCEPT !.st = "COMPLETED"]
            /\ closing' = round'
       ELSE /\ closing' = [closing EXCEPT !.st = "CANCELLED"]
            /\ UNCHANGED round
    /\ UNCHANGED <<paused, wallet, bet, net, tab, left>>

\* round:result, then round:update, round:state and round:completed, all with the
\* row read back, whatever its status.
AnnounceRound ==
    /\ closing.st \in Over
    /\ PublishRealtimeEvent(Engine, <<[ev |-> "result", r |-> closing], RoundEvent(closing)>>)
    /\ closing' = NoRound
    /\ UNCHANGED <<round, paused, wallet, bet, srv, ask, req, tab, left>>

\* The engine fails on the way; a later tick resolves what is still under way.
AbandonRound ==
    /\ closing # NoRound /\ Spend("abandon")
    /\ closing' = NoRound
    /\ UNCHANGED <<round, paused, wallet, bet, net, tab>>

\* forceStopRound: pending bets are refunded in one transaction, in the order the
\* database returns them, then announced one after the other, with round:cancelled,
\* round:update and round:state at the end.
Refunds(turn) ==
    FlattenSeq([k \in 1 .. Cardinality(Pending) |->
        <<[ev |-> "wallet", v |-> wallet + k],
          [ev |-> "settled", b |-> turn[k], st |-> "CANCELLED"]>>])

ForceStop ==
    /\ round.st \in Ongoing
    /\ Spend("cancel")
    /\ round' = [round EXCEPT !.st = "CANCELLED"]
    /\ bet' = [b \in Bets |-> IF b \in Pending THEN [bet[b] EXCEPT !.st = "CANCELLED"] ELSE bet[b]]
    /\ wallet' = wallet + Cardinality(Pending)
    /\ \E i \in Instances, turn \in SetToSeqs(Pending) :
          PublishRealtimeEvent(i, Refunds(turn) \o <<[ev |-> "cancelled", r |-> round']>>)
    /\ UNCHANGED <<paused, closing, srv, ask, req, tab>>

\* pauseGame and resumeGame.
SetPaused ==
    /\ ~paused => Spend("pause")
    /\ paused => UNCHANGED left
    /\ paused' = ~paused
    /\ \E i \in Instances : PublishRealtimeEvent(i, <<[ev |-> "control", p |-> paused']>>)
    /\ UNCHANGED <<round, wallet, bet, closing, srv, ask, req, tab>>

Ack(ok, b, v) ==
    IF req.live THEN <<[ev |-> "ack", ok |-> ok, b |-> b, v |-> v, n |-> req.n]>> ELSE <<>>

\* handlePlaceBet: the bet and its debit are committed, announced and
\* acknowledged, or it is refused with an error (round closed, game paused,
\* or for funds, limits or the session, which other modules decide).  The
\* packet is lost when the socket has no handlers yet; its ack is lost when
\* the socket it came on is gone.
PlaceBet(b) ==
    LET es == <<[ev |-> "placed", b |-> b, st |-> "PENDING"], [ev |-> "wallet", v |-> wallet + 1]>> IN
    /\ round = [id |-> req.rd, st |-> "OPEN"] /\ ~paused
    /\ bet[b] = NoBet /\ \A a \in 1 .. b - 1 : bet[a] # NoBet
    /\ bet' = [bet EXCEPT ![b] = [st |-> "PENDING", rd |-> req.rd]]
    /\ wallet' = wallet + 1
    /\ bus' = [j \in Instances |-> IF j = Own THEN bus[j] ELSE bus[j] \o OfInterest(es)]
    /\ lane' = Routed(Own, OfInterest(es \o Ack(TRUE, b, wallet + 1)))

Refuse ==
    /\ lane' = Routed(Own, OfInterest(Ack(FALSE, 0, 0)))
    /\ UNCHANGED <<bet, wallet, bus>>

HandlePlaceBet ==
    /\ req # Nothing
    /\ req' = Nothing
    /\ IF req.live /\ srv.at = "joined" THEN UNCHANGED <<bet, wallet, bus, lane>>
       ELSE Refuse \/ \E b \in Bets : PlaceBet(b)
    /\ Len(lane'[Own]) <= LaneCap
    /\ UNCHANGED <<round, paused, closing, srv, ask, tab, left>>

-------------------------------------------------------------------------------
(* The tab: connection, store, queries.                                    *)

\* invalidateQueries: an answer on its way is given up and asked for again.
Invalidated(c, names) ==
    [n \in Queries |-> IF n \in names THEN [c[n] EXCEPT !.fly = Asked] ELSE c[n]]

\* "connect": the store says connected, state:sync is sent, and all queries
\* are refetched.  activeSocket was set by createSocket and is not set again.
Connect ==
    /\ ~conn.up
    /\ conn' = [conn EXCEPT !.up = TRUE]
    /\ page' = [page EXCEPT !.connected = TRUE]
    /\ srv' = [at |-> "joined", snap |-> NoSnapshot]
    /\ ask' = ("sync" \in Topics)
    /\ query' = Invalidated(query, Queries)
    /\ UNCHANGED <<db, bus, lane, req, stored, form, shows, left>>

\* The socket is gone: what was on its way is lost, a bet packet perhaps not.
Gone ==
    /\ srv' = [at |-> "none", snap |-> NoSnapshot]
    /\ ask' = FALSE
    /\ lane' = [i \in Instances |-> <<>>]
    /\ \/ req' = Nothing
       \/ req # Nothing /\ req' = [req EXCEPT !.live = FALSE]
    /\ UNCHANGED <<db, bus>>

\* "disconnect": the handlers of createSocket and of the bridge.
Drop ==
    /\ conn.up
    /\ Spend("drop")
    /\ Gone
    /\ conn' = [up |-> FALSE, active |-> FALSE]
    /\ page' = [page EXCEPT !.connected = FALSE]
    /\ UNCHANGED <<stored, query, form, shows>>

\* The page is loaded again: a new store, a new cache, a new socket.
Reload ==
    /\ Spend("reload")
    /\ Gone
    /\ conn' = [up |-> FALSE, active |-> TRUE]
    /\ page' = EmptyPage
    /\ query' = EmptyCache
    /\ form' = [EmptyForm EXCEPT !.n = form.n]
    /\ UNCHANGED <<stored, shows>>

\* The 15 second interval, or the page becoming visible.
Resync ==
    /\ conn.up
    /\ Spend("resync")
    /\ ask' = TRUE
    /\ query' = Invalidated(query, Queries)
    /\ UNCHANGED <<db, bus, lane, srv, req, conn, page, stored, form, shows>>

\* A settlement the store has not shown yet raises the popup.
AlwaysFresh(p, e) == e.ev = "settled"
Fresh(p, e) == e.ev = "settled" /\ e.b \notin p.ids

\* A cancelled round takes the result of an earlier one off the page.
KeepResult(p, r) == p.last
ResultAfter(p, r) == IF r.st = "CANCELLED" THEN 0 ELSE p.last

\* system:sync: a snapshot without a running round leaves the old one.
AfterSync(p, e) ==
    [p EXCEPT !.round = IF e.r = NoRound THEN @ ELSE e.r, !.wallet = e.v, !.paused = e.p]

\* applyRealtimeEvent, on the store p.
ApplyRealtimeEvent(p, e) ==
    CASE e.ev = "sync" -> AfterSync(p, e)
      [] e.ev = "control" -> [p EXCEPT !.paused = e.p]
      [] e.ev \in {"round", "cancelled"} ->
           [p EXCEPT !.round = e.r, !.last = ResultAfter(p, e.r)]
      [] e.ev = "result" -> [p EXCEPT !.round = e.r, !.last = e.r.id]
      [] e.ev \in {"placed", "settled"} ->
           [p EXCEPT !.orders[e.b] = e.st,
                     !.notice = IF Fresh(p, e) THEN [b |-> e.b, st |-> e.st] ELSE @,
                     !.ids = IF Fresh(p, e) THEN @ \cup {e.b} ELSE @]
      [] e.ev = "wallet" -> [p EXCEPT !.wallet = e.v]

Shown(p, e) == [b \in Bets |-> shows[b] + (IF Fresh(p, e) /\ e.b = b THEN 1 ELSE 0)]

\* readShownSettlementIds and rememberSettlementShown; the list keeps 100 ids,
\* more than the bets of this model.
Remember(b) == stored' = IF Storage THEN stored \cup {b} ELSE stored

\* The bridge's handler of "bet:settled".
MarkShown(e) == [page EXCEPT !.ids = IF e.b \in stored THEN @ \cup {e.b} ELSE @]

Refetched(e) ==
    CASE e.ev = "settled" -> {"bets", "wallet"}
      [] e.ev = "wallet" -> {"wallet"}
      [] e.ev = "cancelled" -> {"bets", "wallet"}
      [] e.ev = "control" /\ ~e.p -> Queries
      [] OTHER -> {}

OnEvent(e) ==
    LET p == IF e.ev = "settled" THEN MarkShown(e) ELSE page IN
    /\ page' = ApplyRealtimeEvent(p, e)
    /\ shows' = Shown(p, e)
    /\ IF e.ev = "settled" THEN Remember(e.b) ELSE UNCHANGED stored
    /\ query' = Invalidated(query, Refetched(e))
    /\ UNCHANGED <<form, req>>

\* placeBetOverSocket's callback and the mutation around it: after the last
\* bet onSuccess puts the bets and the last wallet into the store; onError
\* asks for the round again when the answer was that betting is closed.
SendBet(f) ==
    IF conn.up /\ conn.active
    THEN /\ req' = [kind |-> "bet", rd |-> f.rd, n |-> f.n + 1, live |-> TRUE]
         /\ form' = [f EXCEPT !.at = "wait", !.n = @ + 1]
    ELSE /\ form' = [f EXCEPT !.at = "refused", !.up = conn.up]
         /\ UNCHANGED req

OnAckUnchecked(e) ==
    /\ UNCHANGED <<query, stored, shows>>
    /\ IF form.at # "wait" \/ e.n # form.n THEN UNCHANGED <<page, form, req>>
       ELSE /\ form' = [form EXCEPT !.at = "ok", !.got = @ \cup {e.b}]
            /\ UNCHANGED <<page, req>>

OnAck(e) ==
    LET got == form.got \cup {e.b} IN
    /\ UNCHANGED <<stored, shows>>
    /\ query' \in {query} \cup
           (IF e.ok \/ form.at # "wait" \/ e.n # form.n THEN {} ELSE {Invalidated(query, {"round"})})
    /\ IF form.at # "wait" \/ e.n # form.n THEN UNCHANGED <<page, form, req>>
       ELSE IF ~e.ok THEN form' = [form EXCEPT !.at = "failed"] /\ UNCHANGED <<page, req>>
       ELSE IF Cardinality(got) < Quantity THEN SendBet([form EXCEPT !.got = got]) /\ UNCHANGED page
       ELSE /\ form' = [form EXCEPT !.at = "ok", !.got = got]
            /\ page' = [page EXCEPT !.wallet = e.v,
                   !.orders = [b \in Bets |-> IF b \in got THEN "PENDING" ELSE @[b]]]
            /\ UNCHANGED req

Receive(i) ==
    /\ conn.up /\ lane[i] # <<>>
    /\ lane' = [lane EXCEPT ![i] = Tail(@)]
    /\ LET e == Head(lane[i]) IN IF e.ev = "ack" THEN OnAck(e) ELSE OnEvent(e)
    /\ UNCHANGED <<db, bus, srv, ask, conn, left>>

\* The server answers a query from the database.
Answer(n) ==
    CASE n = "round" -> [kind |-> "round", r |-> CurrentRound]
      [] n = "wallet" -> [kind |-> "wallet", v |-> wallet]
      [] n = "bets" -> [kind |-> "bets", st |-> [b \in Bets |-> bet[b].st]]

Fetch(n) ==
    /\ query[n].fly = Asked
    /\ query' = [query EXCEPT ![n].fly = [at |-> "read", answer |-> Answer(n)]]
    /\ UNCHANGED <<db, net, conn, page, stored, form, shows, left>>

\* GamePage's effect on the bet history: the newest settled bet that the session has
\* not shown is treated as a bet:settled event.
Unshown(a) == {b \in Bets : a.st[b] \in Settled /\ b \notin (IF Storage THEN stored ELSE {})}

HistoryEffect(a) ==
    IF Unshown(a) = {} THEN UNCHANGED <<page, stored, shows>>
    ELSE LET b == CHOOSE x \in Unshown(a) : \A y \in Unshown(a) : y <= x
             e == [ev |-> "settled", b |-> b, st |-> a.st[b]] IN
         /\ page' = ApplyRealtimeEvent(page, e)
         /\ shows' = Shown(page, e)
         /\ Remember(b)

\* An answer arrives.  The cache keeps the old object when nothing in it
\* changed, and then no effect runs; otherwise the page copies it.
Arrive(n) ==
    /\ query[n].fly.at = "read"
    /\ query' = [query EXCEPT ![n] = [data |-> @.fly.answer, fly |-> NotAsked]]
    /\ LET a == query[n].fly.answer IN
       IF a = query[n].data THEN UNCHANGED <<page, stored, shows>>
       ELSE CASE n = "round" -> page' = [page EXCEPT !.round = a.r] /\ UNCHANGED <<stored, shows>>
              [] n = "wallet" -> page' = [page EXCEPT !.wallet = a.v] /\ UNCHANGED <<stored, shows>>
              [] n = "bets" -> HistoryEffect(a)
    /\ UNCHANGED <<db, net, conn, form, left>>

\* The popup closes after seven seconds or by a click.
DismissSettlementNotice ==
    /\ page.notice.b # 0
    /\ page' = [page EXCEPT !.notice = [b |-> 0, st |-> "none"]]
    /\ UNCHANGED <<db, net, conn, stored, query, form, shows, left>>

-------------------------------------------------------------------------------
(* The bet form.                                                           *)

CanPredict == page.connected /\ ~page.paused /\ page.round.st = "OPEN"

\* "Confirm bet", and confirming once more after an error.
Press ==
    /\ CanPredict /\ form.at \in {"idle", "failed", "refused"}
    /\ Spend("press")
    /\ SendBet([form EXCEPT !.rd = page.round.id, !.got = {}])
    /\ UNCHANGED <<db, bus, lane, srv, ask, conn, page, stored, query, shows>>

\* socket.timeout(5000): no ack came.  A later one is ignored.
Timeout ==
    /\ form.at = "wait"
    /\ form' = [form EXCEPT !.at = "failed"]
    /\ UNCHANGED <<db, net, conn, page, stored, query, shows, left>>

-------------------------------------------------------------------------------
AnyInstance == UNION {s.instances : s \in Scenarios}
AnyQuery    == UNION {s.queries : s \in Scenarios}
RouteAt(i)     == i \in Instances /\ ProcessRealtimeEvent(i)
ReceiveFrom(i) == i \in Instances /\ Receive(i)
Ask(n)         == n \in Queries /\ Fetch(n)
Get(n)         == n \in Queries /\ Arrive(n)

Game ==
    \/ CreateNextRound \/ LockRound \/ ResolveRound \/ CompleteRound \/ AnnounceRound
    \/ AbandonRound \/ ForceStop \/ SetPaused
    \/ \E b \in Bets, st \in {"WON", "LOST"} : SettleBet(b, st)
Server ==
    \/ SyncLatestState \/ StateSync \/ EmitSnapshot \/ HandlePlaceBet
    \/ \E i \in AnyInstance : RouteAt(i)
Browser ==
    \/ Connect \/ Drop \/ Reload \/ Resync \/ DismissSettlementNotice \/ Press \/ Timeout
    \/ \E i \in AnyInstance : ReceiveFrom(i)
    \/ \E n \in AnyQuery : Ask(n) \/ Get(n)

TabNext == (Game \/ Server \/ Browser) /\ UNCHANGED scenario

TabSpec == TabInit /\ [][TabNext]_tabVars

\* Packets on a live connection arrive, the servers answer, socket.io
\* reconnects without end, and the interval of the bridge keeps firing.  It
\* is long against a fetch: a refetch cannot be given up again and again.
FairTabSpec ==
    /\ TabSpec
    /\ WF_state(Connect) /\ WF_state(Resync)
    /\ WF_state(SyncLatestState) /\ WF_state(StateSync) /\ WF_state(EmitSnapshot)
    /\ \A i \in AnyInstance : WF_state(RouteAt(i)) /\ WF_state(ReceiveFrom(i))
    /\ \A n \in AnyQuery : WF_state(Ask(n)) /\ SF_state(Get(n))

-------------------------------------------------------------------------------
(* Properties.                                                             *)

\* What was said of a bet is true when it is said and stays true; an ack that
\* answers the form's last packet tells of a bet in the round it was meant for.
Holds(e) ==
    /\ e.ev = "settled" => e.st \in Settled /\ bet[e.b].st = e.st
    /\ e.ev = "ack" =>
         /\ e.n <= form.n
         /\ e.ok => e.b \in Bets /\ bet[e.b] # NoBet
         /\ e.ok /\ e.n = form.n /\ form.at = "wait" => bet[e.b].rd = form.rd

EventsHold ==
    \A i \in Instances :
        /\ \A k \in DOMAIN bus[i] : Holds(bus[i][k])
        /\ \A k \in DOMAIN lane[i] : Holds(lane[i][k])
HistoryHolds ==
    "bets" \in Queries /\ query["bets"].fly.at = "read" =>
        \A b \in Bets : query["bets"].fly.answer.st[b] \in Settled
                          => query["bets"].fly.answer.st[b] = bet[b].st

\* The last packet is the form's, unless the page was loaded again.
PacketIsOfForm ==
    req # Nothing => req.n <= form.n /\ (req.n = form.n /\ form.at = "wait" => req.rd = form.rd)

\* What the form has counted so far.
FormHolds ==
    /\ form.at \in {"wait", "ok"} => \A b \in form.got : bet[b] # NoBet /\ bet[b].rd = form.rd
    /\ form.at = "wait" => Cardinality(form.got) < Quantity
    /\ form.at = "ok" => Cardinality(form.got) = Quantity

Reloads == Budget["reload"] - left["reload"]

\* Who knows of a popup that was raised: the session storage for good, the
\* store until the page is loaded again.
ShowsAreKnown ==
    \A b \in Bets :
        IF Storage THEN shows[b] <= IF b \in stored THEN 1 ELSE 0
                   ELSE shows[b] <= Reloads + IF b \in page.ids THEN 1 ELSE 0

\* The result popup of a bet is raised once: not again for the copy of the
\* event that another instance routes, for the bet history that reports the
\* same settlement, or after the page is loaded again.  Without session
\* storage only a reload may raise it again.
NoticeOnce ==
    \A b \in Bets : shows[b] <= 1 + (IF Storage THEN 0 ELSE Reloads)

\* The popup tells the outcome the database holds, never "waiting": neither a
\* late copy nor a history read before the settlement can put another status
\* into it.
NoticeIsFinal ==
    page.notice.b # 0 => /\ page.notice.st \in Settled
                         /\ page.notice.st = bet[page.notice.b].st

\* "Bet placed" is shown only when each of the bets exists, in the round the
\* player saw when confirming: an error or the late ack of an earlier attempt
\* never counts as an answer.
PlacedMeansPlaced ==
    form.at = "ok" => /\ Cardinality(form.got) = Quantity
                      /\ \A b \in form.got : b \in Bets /\ bet[b] # NoBet /\ bet[b].rd = form.rd

Resyncs == Budget["resync"] = Forever
MostBets == CHOOSE n \in {s.bets : s \in Scenarios} : \A s \in Scenarios : s.bets <= n

\* A settled bet is announced even when its event was lost with the
\* connection: the bet history brings it, if the page stays open.
SettlementIsTold ==
    \A b \in 1 .. MostBets :
        (Resyncs /\ "bets" \in Queries /\ b \in Bets /\ bet[b].st \in Settled)
            ~> (b \in Bets => shows[b] >= 1)

\* What instance i still has for the tab, in the order in which it will arrive.
Coming(i) == lane[i] \o bus[i]
Lost == left["drop"] < Budget["drop"]

\* The result of an earlier round never stands beside "Round cancelled".  The
\* round's own may, when it was stopped while the engine resolved it, and not for
\* long: the round:update that takes it off is on its way, unless the connection
\* was lost.
OlderResultGone == page.round.st = "CANCELLED" => page.last \in {0, page.round.id}
CancelledShowsNoResult ==
    page.round.st = "CANCELLED" /\ page.last # 0 =>
        /\ page.last = page.round.id
        /\ Lost \/ \E i \in Instances : RoundEvent(page.round) \in Range(Coming(i))

TabIInv ==
    /\ TabTypeOK /\ EventsHold /\ HistoryHolds /\ PacketIsOfForm /\ FormHolds /\ ShowsAreKnown
    /\ NoticeIsFinal /\ OlderResultGone

\* A result of a cancelled round is followed by the round's update, from the moment
\* it is published until it arrives, copy by copy; and a tab that has lost no
\* connection since it holds a result is still reached.
Followed(s) ==
    \A k \in DOMAIN s : s[k].ev = "result" /\ s[k].r.st = "CANCELLED" =>
        \E m \in DOMAIN s : k < m /\ s[m] = RoundEvent(s[k].r)
ResultIInv ==
    /\ \A i \in Instances : Followed(Coming(i))
    /\ conn.up = Reaches
    /\ srv.at = "none" => srv.snap = NoSnapshot /\ \A i \in Instances : lane[i] = <<>>
    /\ left["drop"] <= Budget["drop"]
    /\ ~Lost /\ page.last # 0 => conn.up
    /\ CancelledShowsNoResult

\* Whatever events were lost, doubled or overtaken by snapshots, the page ends
\* up with the database's pause flag and wallet, and with its round while one
\* is under way.
CatchesUp ==
    Resyncs /\ "sync" \in Topics =>
    <>[](/\ page.paused = paused
         /\ page.wallet = wallet
         /\ round.st \in Ongoing => page.round = round)

\* What the deployment guide says of a missed event, for a round that was
\* stopped during a pause: the page ends up not showing it as running.
ForgetsEndedRound ==
    <>[](paused /\ CurrentRound = NoRound) => <>[](page.round.st \notin Ongoing)

\* The page turns a bet away with "Connection lost. Trying to reconnect..."
\* only while the socket is not connected.
RefusedOnlyOffline == form.at = "refused" => ~form.up

\* Confirming again after an error does not place more bets than were asked
\* for: the retry is a replay of the same operation.
RetryIsReplay == Cardinality({b \in Bets : bet[b] # NoBet}) <= Quantity

===============================================================================
