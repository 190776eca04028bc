------------------------------- MODULE Realtime -------------------------------
(***************************************************************************)
(* A tab's realtime connection through its life: the handshake and the     *)
(* set-up of a server socket (sockets/socket.server.ts, socket.auth.ts,    *)
(* socket.session.ts), the ban that must cut it on every server instance   *)
(* (socket.events.ts over Redis), and the bridge that reconnects it        *)
(* (SocketBridge.tsx, services/socket.ts).                                 *)
(*                                                                         *)
(* handleConnection awaits the database twice, before and after it joins   *)
(* the user's room, so a socket is set up in four steps and the transport  *)
(* or the session may be lost between them.  The sessions themselves move  *)
(* as in AuthSessions; here a tab's n-th session is its generation n.      *)
(***************************************************************************)
EXTENDS Integers, FiniteSets

CONSTANTS
    Tabs, Users, UserOf,   \* browser tabs and the user signed in there
    Nodes, NodeOf,         \* server instances and the one a tab connects to
    Admin,                 \* the instance that serves the administrator
    Sockets,               \* bound: server sockets alive at once
    MaxGen,                \* bound: sessions of a tab
    Budget                 \* bounds: how often each event of Event may happen

Event == {"drop", "rotate", "age", "logoutAll", "ban", "signIn", "signOut"}
Gens  == 1 .. MaxGen

ASSUME RealtimeAssumption ==
    /\ UserOf \in [Tabs -> Users] /\ NodeOf \in [Tabs -> Nodes] /\ Admin \in Nodes
    /\ MaxGen \in Nat /\ Budget \in [Event -> Nat] /\ IsFiniteSet(Sockets)

VARIABLES
    gen,      \* the session of a tab's auth store, 0 when signed out
    state,    \* auth_sessions: what became of each session
    aged,     \* sessions whose access token has expired
    banned,   \* users with status SUSPENDED
    unpublished,  \* bans committed and not yet published
    inbox,    \* user:suspended events on their way to an instance
    conn,     \* the socket of a tab: where it is and the session it presents
    sock,     \* server sockets
    gauge,    \* active_sockets of an instance
    left

session == <<gen, state, aged>>
bans == <<banned, unpublished, inbox>>
vars == <<session, bans, conn, sock, gauge, left>>

NoSocket == [at |-> "none"]
Socket == [at : {"auth", "checked", "joined", "ready"}, tab : Tabs, gen : Gens, alive : BOOLEAN]

TypeOK ==
    /\ gen \in [Tabs -> 0 .. MaxGen]
    /\ state \in [Tabs -> [Gens -> {"none", "live", "rotated", "ended", "banned"}]]
    /\ aged \subseteq Tabs \X Gens
    /\ banned \subseteq Users /\ unpublished \subseteq Users
    /\ inbox \in [Nodes -> SUBSET Users]
    /\ conn \in [Tabs -> [at : {"off", "connecting", "up", "refused", "rejected", "kicked"},
                          gen : 0 .. MaxGen]]
    /\ sock \in [Sockets -> {NoSocket} \cup Socket]
    /\ gauge \in [Nodes -> Int] /\ left \in [Event -> Nat]

Init ==
    /\ gen = [c \in Tabs |-> 0]
    /\ state = [c \in Tabs |-> [g \in Gens |-> "none"]]
    /\ aged = {} /\ banned = {} /\ unpublished = {}
    /\ inbox = [i \in Nodes |-> {}]
    /\ conn = [c \in Tabs |-> [at |-> "off", gen |-> 0]]
    /\ sock = [k \in Sockets |-> NoSocket]
    /\ gauge = [i \in Nodes |-> 0]
    /\ left = Budget

-----------------------------------------------------------------------------
(* Queries and parts of steps *)

Spend(e) == left[e] > 0 /\ left' = [left EXCEPT ![e] = @ - 1]

\* assertSocketSessionActive
SessionActive(c, g) == state[c][g] = "live" /\ UserOf[c] \notin banned
\* authenticateSocket refuses with a message that isSocketAuthError recognises.
Handshake(c, g) ==
    IF <<c, g>> \in aged \/ state[c][g] # "live" THEN "refused"
    ELSE IF UserOf[c] \in banned THEN "rejected"
    ELSE "up"

\* Sessions of a user that are live, ended for a reason.
Ending(S, why) == [c \in Tabs |-> [g \in Gens |->
    IF UserOf[c] \in S /\ state[c][g] = "live" THEN why ELSE state[c][g]]]
Rotated(c) ==
    [state EXCEPT ![c][gen[c]] = "rotated", ![c][gen[c] + 1] = "live"]

Ours(K) == {c \in Tabs : \E k \in K : sock[k].tab = c /\ sock[k].alive /\ conn[c].at = "up"}
Counted(i) == {k \in Sockets : sock[k] # NoSocket /\ sock[k].at \in {"joined", "ready"}
                               /\ NodeOf[sock[k].tab] = i}
\* incrementSocketGauge(-1): only sockets whose disconnect handler is installed.
Uncounted(K) == [i \in Nodes |-> gauge[i] - Cardinality({k \in K \cap Counted(i) : sock[k].alive})]

\* The server closes sockets: socket.disconnect(true) and disconnectSockets(true).
\* The client library does not reconnect after a disconnect by the server.
Disconnect(K) ==
    /\ sock' = [k \in Sockets |-> IF k \in K THEN NoSocket ELSE sock[k]]
    /\ gauge' = Uncounted(K)
    /\ conn' = [c \in Tabs |-> IF c \in Ours(K) THEN [conn[c] EXCEPT !.at = "kicked"] ELSE conn[c]]

\* The transport is gone.  A socket still in its first check has no disconnect
\* handler yet; handleConnection goes on with it.
Orphaned(c) == [k \in Sockets |->
    IF sock[k] = NoSocket \/ sock[k].tab # c THEN sock[k]
    ELSE IF sock[k].at \in {"auth", "checked"} THEN [sock[k] EXCEPT !.alive = FALSE]
    ELSE IF sock[k].alive THEN NoSocket ELSE sock[k]]
TabSockets(c) == {k \in Sockets : sock[k] # NoSocket /\ sock[k].tab = c}
Hangup(c, at, g) ==
    /\ sock' = Orphaned(c)
    /\ gauge' = Uncounted(TabSockets(c))
    /\ conn' = [conn EXCEPT ![c] = [at |-> at, gen |-> g]]

-----------------------------------------------------------------------------
(* The tab's session, and the effect of SocketBridge on it *)

\* Login; createSocket when authenticated becomes true.
SignIn(c) ==
    /\ gen[c] = 0 /\ UserOf[c] \notin banned /\ Spend("signIn")
    /\ \E g \in Gens :
          /\ state[c][g] = "none" /\ \A h \in 1 .. g - 1 : state[c][h] # "none"
          /\ state' = [state EXCEPT ![c][g] = "live"]
          /\ gen' = [gen EXCEPT ![c] = g]
          /\ conn' = [conn EXCEPT ![c] = [at |-> "connecting", gen |-> g]]
    /\ UNCHANGED <<aged, bans, sock, gauge>>

\* Logout in the tab, or a failed HTTP refresh; disposeSocket.
SignOut(c) ==
    /\ gen[c] # 0 /\ Spend("signOut")
    /\ state' = [state EXCEPT ![c][gen[c]] = IF @ = "live" THEN "ended" ELSE @]
    /\ gen' = [gen EXCEPT ![c] = 0]
    /\ Hangup(c, "off", 0)
    /\ UNCHANGED <<aged, bans>>

\* request() refreshed the session after a 401: the socket keeps its old token.
HttpRefresh(c) ==
    /\ gen[c] \in 1 .. MaxGen - 1 /\ SessionActive(c, gen[c]) /\ Spend("rotate")
    /\ state' = Rotated(c)
    /\ gen' = [gen EXCEPT ![c] = @ + 1]
    /\ UNCHANGED <<aged, bans, conn, sock, gauge>>

Age(c) ==
    /\ gen[c] # 0 /\ <<c, gen[c]>> \notin aged /\ Spend("age")
    /\ aged' = aged \cup {<<c, gen[c]>>}
    /\ UNCHANGED <<gen, state, bans, conn, sock, gauge>>

\* logout-all from elsewhere publishes no event.
LogoutAll(u) ==
    /\ Spend("logoutAll")
    /\ state' = Ending({u}, "ended")
    /\ UNCHANGED <<gen, aged, bans, conn, sock, gauge>>

-----------------------------------------------------------------------------
(* Connecting: authenticateSocket, handleConnection, syncLatestState *)

\* io.use(authenticateSocket); the client hears connect or connect_error.
Connect(c, k) ==
    LET g == conn[c].gen  verdict == Handshake(c, g) IN
    /\ conn[c].at = "connecting" /\ sock[k] = NoSocket
    /\ conn' = [conn EXCEPT ![c].at = verdict]
    /\ sock' = IF verdict # "up" THEN sock
               ELSE [sock EXCEPT ![k] = [at |-> "auth", tab |-> c, gen |-> g, alive |-> TRUE]]
    /\ UNCHANGED <<session, bans, gauge, left>>

CheckedNever(k) == TRUE
\* authorizeSensitiveSocketEvent
Checked(k) == SessionActive(sock[k].tab, sock[k].gen)
\* The check before the socket joins its rooms: the database is read ...
Authorize(k) ==
    /\ sock[k].at = "auth"
    /\ IF Checked(k) THEN sock' = [sock EXCEPT ![k].at = "checked"] /\ UNCHANGED <<conn, gauge>>
       ELSE Disconnect({k})
    /\ UNCHANGED <<session, bans, left>>

\* ... and when the answer is back the socket joins and is counted.
JoinRooms(k) ==
    /\ sock[k].at = "checked"
    /\ sock' = [sock EXCEPT ![k].at = "joined"]
    /\ gauge' = [gauge EXCEPT ![NodeOf[sock[k].tab]] = @ + 1]
    /\ UNCHANGED <<session, bans, conn, left>>

RecheckNothing(k) == TRUE
\* The check of syncLatestState, after the rooms were joined.  Nothing more
\* happens to a socket that had lost its transport.
Recheck(k) == Checked(k)
SyncLatestState(k) ==
    /\ sock[k].at = "joined"
    /\ IF Recheck(k)
       THEN /\ sock' = [sock EXCEPT ![k] = IF @.alive THEN [@ EXCEPT !.at = "ready"] ELSE NoSocket]
            /\ UNCHANGED <<conn, gauge>>
       ELSE Disconnect({k})
    /\ UNCHANGED <<session, bans, left>>

\* state:sync (the bridge sends it every 15 s), join:room, join:round,
\* leave_round, bet:place: each authorizes first, and what it then reads,
\* joins or places is not about the connection.
SensitiveEvent(k) ==
    /\ sock[k].at = "ready" /\ sock[k].alive /\ ~ Checked(k)
    /\ Disconnect({k})
    /\ UNCHANGED <<session, bans, left>>

-----------------------------------------------------------------------------
(* Losing the connection, and getting it back *)

\* Transport loss or the crash of an instance; the client library tries again
\* with the token it has.
Drop(c) ==
    /\ conn[c].at = "up" /\ Spend("drop")
    /\ Hangup(c, "connecting", conn[c].gen)
    /\ UNCHANGED <<session, bans>>

StaleToken(c) == conn[c].gen
\* reconnectSocketWithToken presents the refreshed token.
ReconnectToken(c) == gen'[c]
\* connect_error with an authentication message: refreshSession, then reconnect,
\* or clearSession and disposeSocket.
ConnectError(c) ==
    /\ conn[c].at = "refused"
    /\ IF gen[c] # 0 /\ SessionActive(c, gen[c])
       THEN /\ gen[c] < MaxGen
            /\ state' = Rotated(c)
            /\ gen' = [gen EXCEPT ![c] = @ + 1]
            /\ conn' = [conn EXCEPT ![c] = [at |-> "connecting", gen |-> ReconnectToken(c)]]
       ELSE /\ state' = IF gen[c] = 0 THEN state ELSE Ending({UserOf[c]}, "ended")
            /\ gen' = [gen EXCEPT ![c] = 0]
            /\ conn' = [conn EXCEPT ![c] = [at |-> "off", gen |-> 0]]
    /\ UNCHANGED <<aged, bans, sock, gauge, left>>

-----------------------------------------------------------------------------
(* A ban: banUser, publishRealtimeEvent, routeRealtimeEvent *)

Ban(u) ==
    /\ u \notin banned /\ Spend("ban")
    /\ banned' = banned \cup {u}
    /\ state' = Ending({u}, "banned")
    /\ unpublished' = unpublished \cup {u}
    /\ UNCHANGED <<gen, aged, inbox, conn, sock, gauge>>

Unban(u) ==
    /\ u \in banned \ unpublished
    /\ banned' = banned \ {u}
    /\ UNCHANGED <<session, unpublished, inbox, conn, sock, gauge, left>>

\* Sockets in the room of a user on an instance.
Room(u, i) == {k \in Counted(i) : sock[k].alive /\ UserOf[sock[k].tab] = u}

\* The publishing instance routes the event at once, the others through Redis.
Publish(u) ==
    /\ u \in unpublished
    /\ unpublished' = unpublished \ {u}
    /\ inbox' = [i \in Nodes |-> IF i = Admin THEN inbox[i] ELSE inbox[i] \cup {u}]
    /\ Disconnect(Room(u, Admin))
    /\ UNCHANGED <<session, banned, left>>

Deliver(u, i) ==
    /\ u \in inbox[i]
    /\ inbox' = [inbox EXCEPT ![i] = @ \ {u}]
    /\ Disconnect(Room(u, i))
    /\ UNCHANGED <<session, banned, unpublished, left>>

-----------------------------------------------------------------------------
Setup(k) == Authorize(k) \/ JoinRooms(k) \/ SyncLatestState(k)
Bridge(c) == (\E k \in Sockets : Connect(c, k)) \/ ConnectError(c)

Next ==
    \/ \E c \in Tabs : \/ SignIn(c) \/ SignOut(c) \/ HttpRefresh(c) \/ Age(c)
                       \/ Bridge(c) \/ Drop(c)
    \/ \E k \in Sockets : Setup(k) \/ SensitiveEvent(k)
    \/ \E u \in Users : \/ LogoutAll(u) \/ Ban(u) \/ Unban(u) \/ Publish(u)
                        \/ \E i \in Nodes : Deliver(u, i)

Spec == Init /\ [][Next]_vars

\* The server finishes what it awaits; the client library and the bridge keep
\* trying; the bridge sends state:sync for ever.
FairSpec ==
    /\ Spec
    /\ \A k \in Sockets : WF_vars(Setup(k)) /\ WF_vars(SensitiveEvent(k))
    /\ \A c \in Tabs : WF_vars(Bridge(c))

-----------------------------------------------------------------------------
(* Properties *)

\* When a ban has been delivered, no socket of the banned sessions is left in
\* the user's room with its set-up done: a socket that was joining while the
\* event passed is caught by the second check.
BanCutsSockets ==
    \A k \in Sockets : sock[k].at = "ready" /\ state[sock[k].tab][sock[k].gen] = "banned" =>
        LET u == UserOf[sock[k].tab] IN
        u \in unpublished \/ u \in inbox[NodeOf[sock[k].tab]]

\* What it rests on: a socket whose set-up is done has its transport, for the
\* disconnect handler takes it out of the rooms at once ...
ReadyIsConnected == \A k \in Sockets : sock[k].at = "ready" => sock[k].alive

\* ... and a tab presents a session that was issued to it.
PresentsSession ==
    \A c \in Tabs : conn[c].at \in {"connecting", "up", "refused"} => conn[c].gen \in Gens

IInv == TypeOK /\ ReadyIsConnected /\ PresentsSession /\ BanCutsSockets

\* A socket that is being refused, retried or re-authorized ends connected, or
\* given up for a reason the user can see: signed out, banned, or closed by the server.
Reconnects ==
    \A c \in Tabs : []<>(conn[c].at \in {"up", "off", "rejected", "kicked"})

\* A socket whose session was revoked does not stay connected: with the bridge's
\* state:sync it is cut even though logout-all publishes nothing.
RevokedSocketIsCut ==
    \A k \in Sockets :
        (sock[k].at = "ready" /\ ~ SessionActive(sock[k].tab, sock[k].gen))
            ~> (sock[k].at # "ready" \/ SessionActive(sock[k].tab, sock[k].gen))

\* A tab whose session stays live is connected again and again, whatever refreshes
\* and losses it saw before.
StaysConnected ==
    \A c \in Tabs :
        <>[](gen[c] # 0 /\ SessionActive(c, gen[c])) => []<>(conn[c].at = "up")

\* The gauge of an instance counts its connected sockets.
GaugeIsTrue ==
    \A i \in Nodes : gauge[i] = Cardinality({k \in Counted(i) : sock[k].alive})
===============================================================================
