---------------------------- MODULE GatewayProofs ----------------------------
(***************************************************************************)
(* What stands between a player and the game, proved for every size.       *)
(* First Realtime: a published ban leaves no socket of the banned sessions *)
(* in the user's room, whatever the number of tabs, instances and sockets, *)
(* and whatever is dropped, refreshed or revoked meanwhile.  Then          *)
(* FraudGuard: no interleaving of the read-modify-writes of the risk       *)
(* engine raises a score above what the fraud log accounts for.            *)
(***************************************************************************)
EXTENDS Realtime, FraudGuard, FiniteSetTheorems, SequenceTheorems, TLAPS

-----------------------------------------------------------------------------
(*                                 Realtime                                *)

-----------------------------------------------------------------------------
(* The values the variables hold *)

Status == {"none", "live", "rotated", "ended", "banned"}
ConnState == [at : {"off", "connecting", "up", "refused", "rejected", "kicked"}, gen : 0 .. MaxGen]

\* A server socket is free or belongs to a session of a tab.
LEMMA SocketFields ==
    ASSUME TypeOK, NEW k \in Sockets, sock[k].at # "none"
    PROVE  /\ sock[k] \in Socket /\ sock[k] # NoSocket
           /\ sock[k].tab \in Tabs /\ sock[k].gen \in Gens
           /\ sock[k].at \in {"auth", "checked", "joined", "ready"}
           /\ sock[k].alive \in BOOLEAN
<1>1. sock[k] \in {NoSocket} \cup Socket
  BY DEF TypeOK
<1>2. sock[k] # NoSocket
  BY DEF NoSocket
<1>3. sock[k] \in Socket
  BY <1>1, <1>2
<1> QED
  BY <1>2, <1>3 DEF Socket

\* The place of a socket that is not free says so.
LEMMA FreeSocket ==
    ASSUME TypeOK, NEW k \in Sockets, sock[k] # NoSocket
    PROVE  sock[k] \in Socket /\ sock[k].at # "none"
<1>1. sock[k] \in Socket
  BY DEF TypeOK
<1> QED
  BY <1>1 DEF Socket

\* What a disconnect leaves of the gauge is a number.
LEMMA GaugeTyped ==
    ASSUME TypeOK, NEW K
    PROVE  Uncounted(K) \in [Nodes -> Int]
<1>1. ASSUME NEW i \in Nodes
      PROVE  gauge[i] - Cardinality({k \in K \cap Counted(i) : sock[k].alive}) \in Int
  <2> DEFINE C == {k \in K \cap Counted(i) : sock[k].alive}
  <2>1. C \subseteq Sockets
    BY DEF Counted
  <2>2. IsFiniteSet(C)
    BY <2>1, FS_Subset, RealtimeAssumption DEF RealtimeAssumption
  <2>3. Cardinality(C) \in Nat
    BY <2>2, FS_CardinalityType
  <2>4. gauge[i] \in Int
    BY DEF TypeOK
  <2> QED
    BY <2>3, <2>4
<1> QED
  BY <1>1 DEF Uncounted

-----------------------------------------------------------------------------
(* What a step leaves of the three other parts of the invariant *)

Kept == sock \in [Sockets -> {NoSocket} \cup Socket] /\ gauge \in [Nodes -> Int]
        /\ conn \in [Tabs -> ConnState] /\ ReadyIsConnected /\ PresentsSession

\* The server closes sockets.
LEMMA DisconnectKeeps ==
    ASSUME IInv, NEW K, Disconnect(K)
    PROVE  Kept' /\ \A k \in Sockets : sock'[k] = IF k \in K THEN NoSocket ELSE sock[k]
<1>1. \A k \in Sockets : sock'[k] = IF k \in K THEN NoSocket ELSE sock[k]
  BY DEF Disconnect
<1>2. sock' \in [Sockets -> {NoSocket} \cup Socket]
  BY DEF Disconnect, IInv, TypeOK
<1>3. gauge' \in [Nodes -> Int]
  BY GaugeTyped DEF Disconnect, IInv
<1>4. \A c \in Tabs : conn'[c] = IF c \in Ours(K) THEN [conn[c] EXCEPT !.at = "kicked"] ELSE conn[c]
  BY DEF Disconnect
<1>5. conn' \in [Tabs -> ConnState]
  BY DEF Disconnect, IInv, TypeOK, ConnState
<1>6. ReadyIsConnected'
  <2> SUFFICES ASSUME NEW k \in Sockets, sock'[k].at = "ready" PROVE sock'[k].alive
    BY DEF ReadyIsConnected
  <2> QED
    BY <1>1 DEF NoSocket, IInv, ReadyIsConnected
<1>7. PresentsSession'
  <2> SUFFICES ASSUME NEW c \in Tabs, conn'[c].at \in {"connecting", "up", "refused"}
               PROVE  conn'[c].gen \in Gens
    BY DEF PresentsSession, Gens
  <2>1. conn[c] \in ConnState
    BY DEF IInv, TypeOK, ConnState
  <2>2. c \notin Ours(K)
    BY <1>4, <2>1 DEF ConnState
  <2> QED
    BY <1>4, <2>2 DEF IInv, PresentsSession
<1> QED
  BY <1>1, <1>2, <1>3, <1>5, <1>6, <1>7 DEF Kept

\* The transport of a tab is gone: a socket that is ready afterwards was so before.
LEMMA HangupKeeps ==
    ASSUME IInv, NEW c \in Tabs, NEW at, NEW g, Hangup(c, at, g), [at |-> at, gen |-> g] \in ConnState,
           at \in {"connecting", "up", "refused"} => g \in Gens
    PROVE  Kept' /\ \A k \in Sockets : sock'[k].at = "ready" => sock'[k] = sock[k]
<1>1. \A k \in Sockets : sock'[k] =
        IF sock[k] = NoSocket \/ sock[k].tab # c THEN sock[k]
        ELSE IF sock[k].at \in {"auth", "checked"} THEN [sock[k] EXCEPT !.alive = FALSE]
        ELSE IF sock[k].alive THEN NoSocket ELSE sock[k]
  BY DEF Hangup, Orphaned
<1>2. ASSUME NEW k \in Sockets
      PROVE  /\ sock'[k] \in {NoSocket} \cup Socket
             /\ sock'[k].at = "ready" => sock'[k] = sock[k]
  <2>1. CASE sock[k] = NoSocket
    BY <1>1, <2>1
  <2>2. CASE sock[k] # NoSocket
    <3>1. sock[k] \in Socket
      BY <2>2, FreeSocket DEF IInv
    <3>2. [sock[k] EXCEPT !.alive = FALSE] \in Socket /\ [sock[k] EXCEPT !.alive = FALSE].at = sock[k].at
      BY <3>1 DEF Socket
    <3>3. CASE sock'[k] = sock[k]
      BY <3>1, <3>3
    <3>4. CASE sock'[k] = NoSocket
      BY <3>4 DEF NoSocket
    <3>5. CASE sock'[k] = [sock[k] EXCEPT !.alive = FALSE] /\ sock[k].at \in {"auth", "checked"}
      <4> DEFINE v == [sock[k] EXCEPT !.alive = FALSE]
      <4>1. v \in Socket /\ v.at # "ready" /\ sock'[k] = v
        BY <3>2, <3>5
      <4> HIDE DEF v
      <4> QED
        BY <4>1
    <3> QED
      BY <1>1, <2>2, <3>3, <3>4, <3>5
  <2> QED
    BY <2>1, <2>2
<1>3. sock' \in [Sockets -> {NoSocket} \cup Socket]
  BY <1>2 DEF Hangup, Orphaned
<1>4. gauge' \in [Nodes -> Int]
  BY GaugeTyped DEF Hangup, IInv
<1>5. conn' = [conn EXCEPT ![c] = [at |-> at, gen |-> g]]
  BY DEF Hangup
<1>6. conn' \in [Tabs -> ConnState]
  BY <1>5 DEF IInv, TypeOK, ConnState
<1>7. ReadyIsConnected'
  BY <1>2 DEF ReadyIsConnected, IInv
<1>8. PresentsSession'
  <2> SUFFICES ASSUME NEW d \in Tabs, conn'[d].at \in {"connecting", "up", "refused"}
               PROVE  conn'[d].gen \in Gens
    BY DEF PresentsSession, Gens
  <2>1. CASE d = c
    BY <1>5, <2>1 DEF IInv, TypeOK
  <2>2. CASE d # c
    BY <1>5, <2>2 DEF IInv, TypeOK, PresentsSession
  <2> QED
    BY <2>1, <2>2
<1> QED
  BY <1>2, <1>3, <1>4, <1>6, <1>7, <1>8 DEF Kept

\* A step that moves only a tab's own socket.
LEMMA ConnMoves ==
    ASSUME IInv, NEW c \in Tabs, NEW v \in ConnState, conn' = [conn EXCEPT ![c] = v],
           v.at \in {"connecting", "up", "refused"} => v.gen \in Gens
    PROVE  conn' \in [Tabs -> ConnState] /\ PresentsSession'
<1>1. conn' \in [Tabs -> ConnState]
  BY DEF IInv, TypeOK, ConnState
<1>2. ASSUME NEW d \in Tabs, conn'[d].at \in {"connecting", "up", "refused"}
      PROVE  conn'[d].gen \in Gens
  <2>1. CASE d = c
    BY <1>2, <2>1 DEF IInv, TypeOK
  <2>2. CASE d # c
    BY <1>2, <2>2 DEF IInv, TypeOK, PresentsSession
  <2> QED
    BY <2>1, <2>2
<1> QED
  BY <1>1, <1>2 DEF PresentsSession, Gens

-----------------------------------------------------------------------------
(* Bans *)

\* Only a ban makes a session banned: every other step may be checked on the
\* sockets it leaves ready.
NoNewBan == \A c \in Tabs, g \in Gens : state'[c][g] = "banned" => state[c][g] = "banned"

LEMMA BansStayCut ==
    ASSUME IInv, TypeOK', NoNewBan,
           \A u : u \in unpublished => u \in unpublished',
           \A i \in Nodes : inbox[i] \subseteq inbox'[i],
           \A k \in Sockets : sock'[k].at = "ready" =>
               \/ sock'[k] = sock[k]
               \/ state'[sock'[k].tab][sock'[k].gen] # "banned"
    PROVE  BanCutsSockets'
<1> SUFFICES ASSUME NEW k \in Sockets, sock'[k].at = "ready",
                    state'[sock'[k].tab][sock'[k].gen] = "banned"
             PROVE  UserOf[sock'[k].tab] \in unpublished' \/ UserOf[sock'[k].tab] \in inbox'[NodeOf[sock'[k].tab]]
  BY DEF BanCutsSockets
<1>1. sock'[k] = sock[k]
  OBVIOUS
<1>2. sock[k].tab \in Tabs /\ sock[k].gen \in Gens
  BY <1>1, SocketFields DEF IInv
<1>3. state[sock[k].tab][sock[k].gen] = "banned"
  BY <1>1, <1>2 DEF NoNewBan
<1>4. NodeOf[sock[k].tab] \in Nodes
  BY <1>2, RealtimeAssumption DEF RealtimeAssumption
<1>5. UserOf[sock[k].tab] \in unpublished \/ UserOf[sock[k].tab] \in inbox[NodeOf[sock[k].tab]]
  BY <1>1, <1>3 DEF IInv, BanCutsSockets
<1> QED
  BY <1>1, <1>4, <1>5

-----------------------------------------------------------------------------
(* The steps *)

\* Spending leaves a budget.
LEMMA SpendTyped ==
    ASSUME TypeOK, NEW e \in Event, Spend(e)
    PROVE  left' \in [Event -> Nat]
BY DEF Spend, TypeOK

\* Ending sessions for a reason other than a ban bans none.
LEMMA EndingTyped ==
    ASSUME TypeOK, NEW S, NEW why \in Status
    PROVE  Ending(S, why) \in [Tabs -> [Gens -> Status]]
BY DEF Ending, TypeOK, Status

LEMMA EndingBans ==
    ASSUME TypeOK, NEW S, NEW why, why # "banned",
           NEW c \in Tabs, NEW g \in Gens, Ending(S, why)[c][g] = "banned"
    PROVE  state[c][g] = "banned"
BY DEF Ending, TypeOK

\* A rotation bans none.
LEMMA RotatedIs ==
    ASSUME TypeOK, NEW c \in Tabs, gen[c] \in 1 .. MaxGen - 1
    PROVE  /\ Rotated(c) \in [Tabs -> [Gens -> Status]]
           /\ \A d \in Tabs, g \in Gens : Rotated(c)[d][g] = "banned" => state[d][g] = "banned"
           /\ [gen EXCEPT ![c] = @ + 1] \in [Tabs -> 0 .. MaxGen]
           /\ gen[c] + 1 \in Gens
<1>0. MaxGen \in Nat
  BY RealtimeAssumption DEF RealtimeAssumption
<1>1. gen[c] \in Gens /\ gen[c] + 1 \in Gens /\ gen[c] + 1 \in 0 .. MaxGen
  BY <1>0 DEF Gens
<1>2. state \in [Tabs -> [Gens -> Status]]
  BY DEF TypeOK, Status
<1>3. Rotated(c) \in [Tabs -> [Gens -> Status]]
  BY <1>1, <1>2 DEF Rotated, Status
<1>4. ASSUME NEW d \in Tabs, NEW g \in Gens, Rotated(c)[d][g] = "banned"
      PROVE  state[d][g] = "banned"
  BY <1>1, <1>2, <1>4 DEF Rotated
<1>5. [gen EXCEPT ![c] = @ + 1] \in [Tabs -> 0 .. MaxGen]
  BY <1>1 DEF TypeOK
<1> QED
  BY <1>1, <1>3, <1>4, <1>5

\* A socket whose session was just found live is not of a banned session.
LEMMA CheckedIsNotBanned ==
    ASSUME NEW k, Checked(k)
    PROVE  state[sock[k].tab][sock[k].gen] # "banned"
BY DEF Checked, SessionActive

LEMMA SignInSafe == ASSUME IInv, NEW c \in Tabs, SignIn(c) PROVE IInv'
<1>0. TypeOK
  BY DEF IInv
<1>g. MaxGen \in Nat
  BY RealtimeAssumption DEF RealtimeAssumption
<1>1. PICK g \in Gens :
        /\ state' = [state EXCEPT ![c][g] = "live"]
        /\ gen' = [gen EXCEPT ![c] = g]
        /\ conn' = [conn EXCEPT ![c] = [at |-> "connecting", gen |-> g]]
  BY DEF SignIn
<1>2. UNCHANGED <<aged, bans, sock, gauge>> /\ Spend("signIn")
  BY DEF SignIn
<1>3. left' \in [Event -> Nat]
  BY <1>0, <1>2, SpendTyped DEF Event
<1>4. [at |-> "connecting", gen |-> g] \in ConnState /\ g \in 0 .. MaxGen
  BY <1>g DEF ConnState, Gens
<1>5. conn' \in [Tabs -> ConnState] /\ PresentsSession'
  <2> DEFINE v == [at |-> "connecting", gen |-> g]
  <2>1. v \in ConnState /\ v.gen \in Gens /\ conn' = [conn EXCEPT ![c] = v]
    BY <1>1, <1>4
  <2> HIDE DEF v
  <2> QED
    BY <2>1, ConnMoves
<1>6. TypeOK'
  BY <1>0, <1>1, <1>2, <1>3, <1>4, <1>5 DEF TypeOK, ConnState, bans
<1>7. NoNewBan
  BY <1>0, <1>1 DEF NoNewBan, TypeOK
<1>8. BanCutsSockets'
  BY <1>2, <1>6, <1>7, BansStayCut DEF bans
<1>9. ReadyIsConnected'
  BY <1>2 DEF IInv, ReadyIsConnected
<1> QED
  BY <1>5, <1>6, <1>8, <1>9 DEF IInv

LEMMA SignOutSafe == ASSUME IInv, NEW c \in Tabs, SignOut(c) PROVE IInv'
<1>0. TypeOK
  BY DEF IInv
<1>g. MaxGen \in Nat
  BY RealtimeAssumption DEF RealtimeAssumption
<1>1. /\ state' = [state EXCEPT ![c][gen[c]] = IF @ = "live" THEN "ended" ELSE @]
      /\ gen' = [gen EXCEPT ![c] = 0]
      /\ Hangup(c, "off", 0)
      /\ UNCHANGED <<aged, bans>> /\ Spend("signOut") /\ gen[c] # 0
  BY DEF SignOut
<1>2. [at |-> "off", gen |-> 0] \in ConnState
  BY <1>g DEF ConnState
<1>3. Kept' /\ \A k \in Sockets : sock'[k].at = "ready" => sock'[k] = sock[k]
  BY <1>1, <1>2, HangupKeeps
<1>4. left' \in [Event -> Nat]
  BY <1>0, <1>1, SpendTyped DEF Event
<1>5. gen[c] \in Gens
  BY <1>0, <1>1, <1>g DEF TypeOK, Gens
<1>6. state' \in [Tabs -> [Gens -> Status]] /\ gen' \in [Tabs -> 0 .. MaxGen]
  BY <1>0, <1>1, <1>5, <1>g DEF TypeOK, Status
<1>7. TypeOK'
  BY <1>0, <1>1, <1>3, <1>4, <1>6 DEF TypeOK, Kept, ConnState, bans, Status
<1>8. NoNewBan
  BY <1>0, <1>1, <1>5 DEF NoNewBan, TypeOK
<1>9. BanCutsSockets'
  BY <1>1, <1>3, <1>7, <1>8, BansStayCut DEF bans
<1> QED
  BY <1>3, <1>7, <1>9 DEF IInv, Kept

LEMMA HttpRefreshSafe == ASSUME IInv, NEW c \in Tabs, HttpRefresh(c) PROVE IInv'
<1>0. TypeOK
  BY DEF IInv
<1>1. /\ gen[c] \in 1 .. MaxGen - 1 /\ Spend("rotate")
      /\ state' = Rotated(c) /\ gen' = [gen EXCEPT ![c] = @ + 1]
      /\ UNCHANGED <<aged, bans, conn, sock, gauge>>
  BY DEF HttpRefresh
<1>2. left' \in [Event -> Nat]
  BY <1>0, <1>1, SpendTyped DEF Event
<1>3. /\ state' \in [Tabs -> [Gens -> Status]] /\ gen' \in [Tabs -> 0 .. MaxGen]
      /\ \A d \in Tabs, g \in Gens : state'[d][g] = "banned" => state[d][g] = "banned"
  BY <1>0, <1>1, RotatedIs
<1>4. TypeOK'
  BY <1>0, <1>1, <1>2, <1>3 DEF TypeOK, bans, Status
<1>5. BanCutsSockets'
  BY <1>1, <1>3, <1>4, BansStayCut DEF bans, NoNewBan
<1> QED
  BY <1>1, <1>4, <1>5 DEF IInv, ReadyIsConnected, PresentsSession, Gens

LEMMA AgeSafe == ASSUME IInv, NEW c \in Tabs, Age(c) PROVE IInv'
<1>0. TypeOK
  BY DEF IInv
<1>g. MaxGen \in Nat
  BY RealtimeAssumption DEF RealtimeAssumption
<1>1. gen[c] # 0 /\ Spend("age") /\ aged' = aged \cup {<<c, gen[c]>>}
      /\ UNCHANGED <<gen, state, bans, conn, sock, gauge>>
  BY DEF Age
<1>2. left' \in [Event -> Nat]
  BY <1>0, <1>1, SpendTyped DEF Event
<1>3. gen[c] \in Gens
  BY <1>0, <1>1, <1>g DEF TypeOK, Gens
<1>4. TypeOK'
  BY <1>0, <1>1, <1>2, <1>3 DEF TypeOK, bans
<1>5. BanCutsSockets'
  BY <1>1, <1>4, BansStayCut DEF bans, NoNewBan
<1> QED
  BY <1>1, <1>4, <1>5 DEF IInv, ReadyIsConnected, PresentsSession, Gens

LEMMA LogoutAllSafe == ASSUME IInv, NEW u \in Users, LogoutAll(u) PROVE IInv'
<1>0. TypeOK
  BY DEF IInv
<1>1. Spend("logoutAll") /\ state' = Ending({u}, "ended") /\ UNCHANGED <<gen, aged, bans, conn, sock, gauge>>
  BY DEF LogoutAll
<1>2. left' \in [Event -> Nat]
  BY <1>0, <1>1, SpendTyped DEF Event
<1>3. state' \in [Tabs -> [Gens -> Status]]
  BY <1>0, <1>1, EndingTyped DEF Status
<1>n. ASSUME NEW c \in Tabs, NEW g \in Gens, state'[c][g] = "banned"
      PROVE  state[c][g] = "banned"
  <2>1. Ending({u}, "ended")[c][g] = "banned"
    BY <1>1, <1>n
  <2> QED
    BY <1>0, <2>1, EndingBans
<1>4. TypeOK'
  BY <1>0, <1>1, <1>2, <1>3 DEF TypeOK, bans, Status
<1>5. BanCutsSockets'
  BY <1>1, <1>n, <1>4, BansStayCut DEF bans, NoNewBan
<1> QED
  BY <1>1, <1>4, <1>5 DEF IInv, ReadyIsConnected, PresentsSession, Gens

LEMMA ConnectSafe == ASSUME IInv, NEW c \in Tabs, NEW k \in Sockets, Connect(c, k) PROVE IInv'
<1>0. TypeOK
  BY DEF IInv
<1> DEFINE g == conn[c].gen
           verdict == Handshake(c, g)
           v == [conn[c] EXCEPT !.at = verdict]
           n == [at |-> "auth", tab |-> c, gen |-> g, alive |-> TRUE]
<1>1. /\ conn[c].at = "connecting"
      /\ conn' = [conn EXCEPT ![c].at = verdict]
      /\ sock' = IF verdict # "up" THEN sock ELSE [sock EXCEPT ![k] = n]
      /\ UNCHANGED <<session, bans, gauge, left>>
  BY DEF Connect
<1>2. conn[c] \in ConnState
  BY <1>0 DEF TypeOK, ConnState
<1>3. g \in Gens
  BY <1>1 DEF IInv, PresentsSession
<1>4. verdict \in {"refused", "rejected", "up"}
  BY DEF Handshake
<1>5. v \in ConnState /\ v.gen = g
  BY <1>2, <1>4 DEF ConnState
<1>6. conn' = [conn EXCEPT ![c] = v]
  BY <1>0, <1>1 DEF TypeOK
<1>7. n \in Socket /\ n.at = "auth"
  BY <1>3 DEF Socket
<1> HIDE DEF verdict, v, n
<1>8. conn' \in [Tabs -> ConnState] /\ PresentsSession'
  BY <1>3, <1>5, <1>6, ConnMoves
<1>9. sock' \in [Sockets -> {NoSocket} \cup Socket]
  BY <1>0, <1>1, <1>7 DEF TypeOK
<1>10. \A j \in Sockets : sock'[j].at = "ready" => sock'[j] = sock[j]
  BY <1>0, <1>1, <1>7 DEF TypeOK
<1>11. TypeOK'
  BY <1>0, <1>1, <1>8, <1>9 DEF TypeOK, ConnState, bans, session
<1>12. BanCutsSockets'
  BY <1>1, <1>10, <1>11, BansStayCut DEF bans, session, NoNewBan
<1>13. ReadyIsConnected'
  BY <1>10 DEF IInv, ReadyIsConnected
<1> QED
  BY <1>8, <1>11, <1>12, <1>13 DEF IInv

LEMMA ConnectErrorSafe == ASSUME IInv, NEW c \in Tabs, ConnectError(c) PROVE IInv'
<1>0. TypeOK
  BY DEF IInv
<1>g. MaxGen \in Nat
  BY RealtimeAssumption DEF RealtimeAssumption
<1>1. conn[c].at = "refused" /\ UNCHANGED <<aged, bans, sock, gauge, left>>
  BY DEF ConnectError
<1>2. CASE gen[c] # 0 /\ SessionActive(c, gen[c])
  <2> DEFINE v == [at |-> "connecting", gen |-> gen[c] + 1]
  <2>1. /\ gen[c] < MaxGen /\ state' = Rotated(c) /\ gen' = [gen EXCEPT ![c] = @ + 1]
        /\ conn' = [conn EXCEPT ![c] = [at |-> "connecting", gen |-> gen'[c]]]
    BY <1>2 DEF ConnectError, ReconnectToken
  <2>2. gen[c] \in 1 .. MaxGen - 1
    BY <1>0, <1>2, <1>g, <2>1 DEF TypeOK
  <2>3. /\ state' \in [Tabs -> [Gens -> Status]] /\ gen' \in [Tabs -> 0 .. MaxGen]
        /\ \A d \in Tabs, h \in Gens : state'[d][h] = "banned" => state[d][h] = "banned"
        /\ gen[c] + 1 \in Gens
    BY <1>0, <2>1, <2>2, RotatedIs
  <2>4. gen'[c] = gen[c] + 1
    BY <1>0, <2>1 DEF TypeOK
  <2>5. v \in ConnState /\ v.gen \in Gens /\ conn' = [conn EXCEPT ![c] = v]
    BY <1>g, <2>1, <2>3, <2>4 DEF ConnState, Gens
  <2> HIDE DEF v
  <2>6. conn' \in [Tabs -> ConnState] /\ PresentsSession'
    BY <2>5, ConnMoves
  <2>7. TypeOK'
    BY <1>0, <1>1, <2>3, <2>6 DEF TypeOK, ConnState, bans, Status
  <2>8. BanCutsSockets'
    BY <1>1, <2>3, <2>7, BansStayCut DEF bans, NoNewBan
  <2> QED
    BY <1>1, <2>6, <2>7, <2>8 DEF IInv, ReadyIsConnected
<1>3. CASE ~(gen[c] # 0 /\ SessionActive(c, gen[c]))
  <2> DEFINE v == [at |-> "off", gen |-> 0]
  <2>1. /\ state' = IF gen[c] = 0 THEN state ELSE Ending({UserOf[c]}, "ended")
        /\ gen' = [gen EXCEPT ![c] = 0]
        /\ conn' = [conn EXCEPT ![c] = v]
    BY <1>3 DEF ConnectError
  <2>2. state' \in [Tabs -> [Gens -> Status]]
    BY <1>0, <2>1, EndingTyped DEF Status, TypeOK
  <2>3. ASSUME NEW d \in Tabs, NEW h \in Gens, state'[d][h] = "banned"
        PROVE  state[d][h] = "banned"
    <3>1. CASE gen[c] = 0
      BY <2>1, <2>3, <3>1
    <3>2. CASE gen[c] # 0
      <4>1. Ending({UserOf[c]}, "ended")[d][h] = "banned"
        BY <2>1, <2>3, <3>2
      <4> QED
        BY <1>0, <4>1, EndingBans
    <3> QED
      BY <3>1, <3>2
  <2>4. gen' \in [Tabs -> 0 .. MaxGen]
    BY <1>0, <1>g, <2>1 DEF TypeOK
  <2>5. v \in ConnState /\ v.at = "off"
    BY <1>g DEF ConnState
  <2> HIDE DEF v
  <2>6. conn' \in [Tabs -> ConnState] /\ PresentsSession'
    BY <2>1, <2>5, ConnMoves
  <2>7. TypeOK'
    BY <1>0, <1>1, <2>2, <2>4, <2>6 DEF TypeOK, ConnState, bans, Status
  <2>8. BanCutsSockets'
    BY <1>1, <2>3, <2>7, BansStayCut DEF bans, NoNewBan
  <2> QED
    BY <1>1, <2>6, <2>7, <2>8 DEF IInv, ReadyIsConnected
<1> QED
  BY <1>2, <1>3

LEMMA DropSafe == ASSUME IInv, NEW c \in Tabs, Drop(c) PROVE IInv'
<1>0. TypeOK
  BY DEF IInv
<1>1. /\ conn[c].at = "up" /\ Spend("drop") /\ Hangup(c, "connecting", conn[c].gen)
      /\ UNCHANGED <<session, bans>>
  BY DEF Drop
<1>2. conn[c].gen \in Gens /\ conn[c] \in ConnState
  BY <1>0, <1>1 DEF IInv, PresentsSession, TypeOK, ConnState
<1>3. [at |-> "connecting", gen |-> conn[c].gen] \in ConnState
  BY <1>2 DEF ConnState
<1>4. Kept' /\ \A k \in Sockets : sock'[k].at = "ready" => sock'[k] = sock[k]
  BY <1>1, <1>2, <1>3, HangupKeeps
<1>5. left' \in [Event -> Nat]
  BY <1>0, <1>1, SpendTyped DEF Event
<1>6. TypeOK'
  BY <1>0, <1>1, <1>4, <1>5 DEF TypeOK, Kept, ConnState, bans, session
<1>7. BanCutsSockets'
  BY <1>1, <1>4, <1>6, BansStayCut DEF bans, session, NoNewBan
<1> QED
  BY <1>4, <1>6, <1>7 DEF IInv, Kept

\* A disconnect that is all a step does.
LEMMA CutSafe ==
    ASSUME IInv, NEW K, Disconnect(K), UNCHANGED <<session, bans, left>>
    PROVE  IInv'
<1>1. Kept' /\ \A k \in Sockets : sock'[k] = IF k \in K THEN NoSocket ELSE sock[k]
  BY DisconnectKeeps
<1>2. TypeOK'
  BY <1>1 DEF IInv, TypeOK, Kept, ConnState, bans, session
<1>3. \A k \in Sockets : sock'[k].at = "ready" => sock'[k] = sock[k]
  BY <1>1 DEF NoSocket
<1>4. BanCutsSockets'
  BY <1>2, <1>3, BansStayCut DEF bans, session, NoNewBan
<1> QED
  BY <1>1, <1>2, <1>4 DEF IInv, Kept

\* A step that moves one socket on.
LEMMA MoveSafe ==
    ASSUME IInv, NEW k \in Sockets, NEW v \in {NoSocket} \cup Socket, sock' = [sock EXCEPT ![k] = v],
           gauge' \in [Nodes -> Int], UNCHANGED <<session, bans, conn, left>>,
           v.at = "ready" => v.alive /\ state[v.tab][v.gen] # "banned"
    PROVE  IInv'
<1>1. \A j \in Sockets : sock'[j] = IF j = k THEN v ELSE sock[j]
  BY DEF IInv, TypeOK
<1>2. TypeOK'
  BY DEF IInv, TypeOK, bans, session
<1>3. BanCutsSockets'
  BY <1>1, <1>2, BansStayCut DEF bans, session, NoNewBan
<1>4. ReadyIsConnected'
  BY <1>1 DEF IInv, ReadyIsConnected
<1> QED
  BY <1>2, <1>3, <1>4 DEF IInv, PresentsSession, Gens

LEMMA AuthorizeSafe == ASSUME IInv, NEW k \in Sockets, Authorize(k) PROVE IInv'
<1>1. sock[k].at = "auth" /\ UNCHANGED <<session, bans, left>>
  BY DEF Authorize
<1>2. CASE Checked(k)
  <2> DEFINE v == [sock[k] EXCEPT !.at = "checked"]
  <2>1. sock' = [sock EXCEPT ![k].at = "checked"] /\ UNCHANGED <<conn, gauge>>
    BY <1>2 DEF Authorize
  <2>2. sock[k] \in Socket
    BY <1>1, SocketFields DEF IInv
  <2>3. v \in Socket /\ v.at = "checked" /\ sock' = [sock EXCEPT ![k] = v]
    BY <2>1, <2>2 DEF Socket, IInv, TypeOK
  <2> HIDE DEF v
  <2> QED
    BY <1>1, <2>1, <2>3, MoveSafe DEF IInv, TypeOK
<1>3. CASE ~Checked(k)
  BY <1>1, <1>3, CutSafe DEF Authorize
<1> QED
  BY <1>2, <1>3

LEMMA JoinRoomsSafe == ASSUME IInv, NEW k \in Sockets, JoinRooms(k) PROVE IInv'
<1> DEFINE v == [sock[k] EXCEPT !.at = "joined"]
<1>1. /\ sock[k].at = "checked" /\ sock' = [sock EXCEPT ![k].at = "joined"]
      /\ gauge' = [gauge EXCEPT ![NodeOf[sock[k].tab]] = @ + 1]
      /\ UNCHANGED <<session, bans, conn, left>>
  BY DEF JoinRooms
<1>2. sock[k] \in Socket /\ sock[k].tab \in Tabs
  BY <1>1, SocketFields DEF IInv
<1>3. v \in Socket /\ v.at = "joined" /\ sock' = [sock EXCEPT ![k] = v]
  BY <1>1, <1>2 DEF Socket, IInv, TypeOK
<1>4. gauge' \in [Nodes -> Int]
  <2>1. gauge \in [Nodes -> Int]
    BY DEF IInv, TypeOK
  <2> DEFINE i == NodeOf[sock[k].tab]
  <2>2. gauge' = [gauge EXCEPT ![i] = @ + 1]
    BY <1>1
  <2>3. i \in Nodes
    BY <1>2, RealtimeAssumption DEF RealtimeAssumption
  <2> HIDE DEF i
  <2> QED
    BY <2>1, <2>2, <2>3
<1> HIDE DEF v
<1> QED
  BY <1>1, <1>3, <1>4, MoveSafe

LEMMA SyncLatestStateSafe == ASSUME IInv, NEW k \in Sockets, SyncLatestState(k) PROVE IInv'
<1>1. sock[k].at = "joined" /\ UNCHANGED <<session, bans, left>>
  BY DEF SyncLatestState
<1>2. CASE Recheck(k)
  <2> DEFINE v == IF sock[k].alive THEN [sock[k] EXCEPT !.at = "ready"] ELSE NoSocket
  <2>1. sock' = [sock EXCEPT ![k] = IF @.alive THEN [@ EXCEPT !.at = "ready"] ELSE NoSocket]
        /\ UNCHANGED <<conn, gauge>>
    BY <1>2 DEF SyncLatestState
  <2>2. sock[k] \in Socket
    BY <1>1, SocketFields DEF IInv
  <2>3. sock' = [sock EXCEPT ![k] = v]
    BY <2>1 DEF IInv, TypeOK
  <2>4. v \in {NoSocket} \cup Socket
    BY <2>2 DEF Socket
  <2>5. state[sock[k].tab][sock[k].gen] # "banned"
    BY <1>2, CheckedIsNotBanned DEF Recheck
  <2>6. v.at = "ready" => v.alive /\ v.tab = sock[k].tab /\ v.gen = sock[k].gen
    BY <2>2 DEF Socket, NoSocket
  <2> HIDE DEF v
  <2>7. v.at = "ready" => v.alive /\ state[v.tab][v.gen] # "banned"
    BY <2>5, <2>6
  <2>8. gauge' \in [Nodes -> Int]
    BY <2>1 DEF IInv, TypeOK
  <2> QED
    BY <1>1, <2>1, <2>3, <2>4, <2>7, <2>8, MoveSafe
<1>3. CASE ~Recheck(k)
  BY <1>1, <1>3, CutSafe DEF SyncLatestState
<1> QED
  BY <1>2, <1>3

LEMMA SensitiveEventSafe == ASSUME IInv, NEW k \in Sockets, SensitiveEvent(k) PROVE IInv'
BY CutSafe DEF SensitiveEvent

-----------------------------------------------------------------------------
(* The ban itself, and its event *)

LEMMA BanSafe == ASSUME IInv, NEW u \in Users, Ban(u) PROVE IInv'
<1>0. TypeOK
  BY DEF IInv
<1>1. /\ Spend("ban") /\ banned' = banned \cup {u} /\ state' = Ending({u}, "banned")
      /\ unpublished' = unpublished \cup {u} /\ UNCHANGED <<gen, aged, inbox, conn, sock, gauge>>
  BY DEF Ban
<1>2. left' \in [Event -> Nat]
  BY <1>0, <1>1, SpendTyped DEF Event
<1>3. state' \in [Tabs -> [Gens -> Status]]
  BY <1>0, <1>1, EndingTyped DEF Status
<1>4. TypeOK'
  BY <1>0, <1>1, <1>2, <1>3 DEF TypeOK, Status
<1>5. BanCutsSockets'
  <2> SUFFICES ASSUME NEW k \in Sockets, sock[k].at = "ready",
                      state'[sock[k].tab][sock[k].gen] = "banned"
               PROVE  UserOf[sock[k].tab] \in unpublished' \/ UserOf[sock[k].tab] \in inbox[NodeOf[sock[k].tab]]
    BY <1>1 DEF BanCutsSockets
  <2>1. sock[k].tab \in Tabs /\ sock[k].gen \in Gens
    BY <1>0, SocketFields
  <2>2. CASE UserOf[sock[k].tab] = u
    BY <1>1, <2>2
  <2>3. CASE UserOf[sock[k].tab] # u
    <3>1. state[sock[k].tab][sock[k].gen] = "banned"
      BY <1>1, <2>1, <2>3 DEF Ending
    <3> QED
      BY <1>1, <3>1 DEF IInv, BanCutsSockets
  <2> QED
    BY <2>2, <2>3
<1> QED
  BY <1>1, <1>4, <1>5 DEF IInv, ReadyIsConnected, PresentsSession, Gens

LEMMA UnbanSafe == ASSUME IInv, NEW u \in Users, Unban(u) PROVE IInv'
<1>1. banned' = banned \ {u} /\ UNCHANGED <<session, unpublished, inbox, conn, sock, gauge, left>>
  BY DEF Unban
<1>2. TypeOK'
  BY <1>1 DEF IInv, TypeOK, session
<1>3. BanCutsSockets'
  BY <1>1, <1>2, BansStayCut DEF session, NoNewBan
<1> QED
  BY <1>1, <1>2, <1>3 DEF IInv, ReadyIsConnected, PresentsSession, Gens

\* The event passes on an instance: the banned sessions it finds ready there
\* are in the user's room, and go.
LEMMA RoomIsCut ==
    ASSUME IInv, TypeOK', NEW u \in Users, NEW i \in Nodes, Disconnect(Room(u, i)), UNCHANGED session,
           \A v \in Users : v # u => (v \in unpublished => v \in unpublished'),
           \A j \in Nodes, v \in Users : v \in inbox[j] => v \in inbox'[j] \/ (v = u /\ j = i),
           \A j \in Nodes : (j # i /\ u \in unpublished) => (u \in unpublished' \/ u \in inbox'[j])
    PROVE  BanCutsSockets'
<1>1. \A k \in Sockets : sock'[k] = IF k \in Room(u, i) THEN NoSocket ELSE sock[k]
  BY DisconnectKeeps
<1> SUFFICES ASSUME NEW k \in Sockets, sock'[k].at = "ready",
                    state'[sock'[k].tab][sock'[k].gen] = "banned"
             PROVE  UserOf[sock'[k].tab] \in unpublished' \/ UserOf[sock'[k].tab] \in inbox'[NodeOf[sock'[k].tab]]
  BY DEF BanCutsSockets
<1>2. k \notin Room(u, i) /\ sock'[k] = sock[k]
  BY <1>1 DEF NoSocket
<1>3. sock[k] # NoSocket /\ sock[k].tab \in Tabs /\ sock[k].gen \in Gens
  BY <1>2, SocketFields DEF IInv
<1>4. sock[k].alive
  BY <1>2 DEF IInv, ReadyIsConnected
<1> DEFINE v == UserOf[sock[k].tab]
           j == NodeOf[sock[k].tab]
<1>5. v \in Users /\ j \in Nodes
  BY <1>3, RealtimeAssumption DEF RealtimeAssumption
<1>6. ~(v = u /\ j = i)
  BY <1>2, <1>3, <1>4 DEF Room, Counted
<1>7. v \in unpublished \/ v \in inbox[j]
  BY <1>2 DEF IInv, BanCutsSockets, session
<1>8. UserOf[sock'[k].tab] = v /\ NodeOf[sock'[k].tab] = j
  BY <1>2
<1> HIDE DEF v, j
<1>9. CASE v \in inbox[j]
  BY <1>5, <1>6, <1>8, <1>9
<1>10. CASE v \in unpublished
  BY <1>5, <1>6, <1>8, <1>10
<1> QED
  BY <1>7, <1>9, <1>10

LEMMA PublishSafe == ASSUME IInv, NEW u \in Users, Publish(u) PROVE IInv'
<1>0. TypeOK /\ Admin \in Nodes
  BY RealtimeAssumption DEF IInv, RealtimeAssumption
<1>1. /\ u \in unpublished /\ unpublished' = unpublished \ {u}
      /\ inbox' = [i \in Nodes |-> IF i = Admin THEN inbox[i] ELSE inbox[i] \cup {u}]
      /\ Disconnect(Room(u, Admin)) /\ UNCHANGED <<session, banned, left>>
  BY DEF Publish
<1>2. Kept'
  BY <1>1, DisconnectKeeps
<1>3. inbox' \in [Nodes -> SUBSET Users]
  BY <1>0, <1>1 DEF TypeOK
<1>4. TypeOK'
  BY <1>0, <1>1, <1>2, <1>3 DEF TypeOK, Kept, ConnState, session
<1>5. \A v \in Users : v # u => (v \in unpublished => v \in unpublished')
  BY <1>1
<1>6. \A j \in Nodes, v \in Users : v \in inbox[j] => v \in inbox'[j] \/ (v = u /\ j = Admin)
  BY <1>1
<1>7. \A j \in Nodes : (j # Admin /\ u \in unpublished) => (u \in unpublished' \/ u \in inbox'[j])
  BY <1>1
<1>8. UNCHANGED session /\ Disconnect(Room(u, Admin))
  BY <1>1
<1>9. BanCutsSockets'
  BY ONLY IInv, <1>0, <1>4, <1>5, <1>6, <1>7, <1>8, RoomIsCut
<1> QED
  BY <1>2, <1>4, <1>9 DEF IInv, Kept

LEMMA DeliverSafe == ASSUME IInv, NEW u \in Users, NEW i \in Nodes, Deliver(u, i) PROVE IInv'
<1>0. TypeOK
  BY DEF IInv
<1>1. /\ u \in inbox[i] /\ inbox' = [inbox EXCEPT ![i] = @ \ {u}]
      /\ Disconnect(Room(u, i)) /\ UNCHANGED <<session, banned, unpublished, left>>
  BY DEF Deliver
<1>2. Kept'
  BY <1>1, DisconnectKeeps
<1>3. inbox' \in [Nodes -> SUBSET Users]
  BY <1>0, <1>1 DEF TypeOK
<1>4. TypeOK'
  BY <1>0, <1>1, <1>2, <1>3 DEF TypeOK, Kept, ConnState, session
<1>5. \A j \in Nodes, v \in Users : v \in inbox[j] => v \in inbox'[j] \/ (v = u /\ j = i)
  BY <1>0, <1>1 DEF TypeOK
<1>6. \A v \in Users : v # u => (v \in unpublished => v \in unpublished')
  BY <1>1
<1>7. \A j \in Nodes : (j # i /\ u \in unpublished) => (u \in unpublished' \/ u \in inbox'[j])
  BY <1>1
<1>8. UNCHANGED session /\ Disconnect(Room(u, i))
  BY <1>1
<1>9. BanCutsSockets'
  BY ONLY IInv, <1>4, <1>5, <1>6, <1>7, <1>8, RoomIsCut
<1> QED
  BY <1>2, <1>4, <1>9 DEF IInv, Kept

-----------------------------------------------------------------------------
(* The theorems *)

LEMMA InitSafe == ASSUME Init PROVE IInv
<1>1. MaxGen \in Nat /\ Budget \in [Event -> Nat]
  BY RealtimeAssumption DEF RealtimeAssumption
<1>2. TypeOK
  BY <1>1 DEF Init, TypeOK
<1>3. ReadyIsConnected /\ BanCutsSockets
  BY DEF Init, ReadyIsConnected, BanCutsSockets, NoSocket
<1>4. PresentsSession
  BY DEF Init, PresentsSession
<1> QED
  BY <1>2, <1>3, <1>4 DEF IInv

LEMMA StepSafe == ASSUME IInv, [Next]_vars PROVE IInv'
<1>1. ASSUME NEW c \in Tabs, SignIn(c) \/ SignOut(c) \/ HttpRefresh(c) \/ Age(c) \/ Bridge(c) \/ Drop(c)
      PROVE  IInv'
  BY <1>1, SignInSafe, SignOutSafe, HttpRefreshSafe, AgeSafe, ConnectSafe, ConnectErrorSafe, DropSafe DEF Bridge
<1>2. ASSUME NEW k \in Sockets, Setup(k) \/ SensitiveEvent(k)
      PROVE  IInv'
  BY <1>2, AuthorizeSafe, JoinRoomsSafe, SyncLatestStateSafe, SensitiveEventSafe DEF Setup
<1>3. ASSUME NEW u \in Users, LogoutAll(u) \/ Ban(u) \/ Unban(u) \/ Publish(u) \/ \E i \in Nodes : Deliver(u, i)
      PROVE  IInv'
  BY <1>3, LogoutAllSafe, BanSafe, UnbanSafe, PublishSafe, DeliverSafe
<1>4. CASE UNCHANGED vars
  BY <1>4 DEF vars, session, bans, IInv, TypeOK, ReadyIsConnected, PresentsSession, BanCutsSockets, Gens
<1> QED
  BY <1>1, <1>2, <1>3, <1>4 DEF Next

\* In every behaviour the variables hold what they are meant to, a socket whose
\* set-up is done has its transport, and a tab presents a session issued to it.
THEOREM RealtimeInvariant == Spec => []IInv
<1>1. Init => IInv
  BY InitSafe
<1>2. IInv /\ [Next]_vars => IInv'
  BY StepSafe
<1> QED
  BY <1>1, <1>2, PTL DEF Spec

\* Once the suspension of a user has been published and delivered to an
\* instance, no socket of a session it ended is ready there, whatever was
\* joining, dropping or refreshing while the event passed (routeRealtimeEvent
\* and the second check of handleConnection).
THEOREM BansCutSockets == Spec => []BanCutsSockets
<1>1. IInv => BanCutsSockets
  BY DEF IInv
<1> QED
  BY <1>1, RealtimeInvariant, PTL

-----------------------------------------------------------------------------
(*                                FraudGuard                               *)

-----------------------------------------------------------------------------
(* Scores *)

Score == 0 .. MaxScore

LEMMA RiskNumbers ==
    /\ SoftAt \in Nat /\ BlockAt \in Nat /\ MaxScore \in Nat /\ MaxDecay \in Nat
    /\ MaxTokens \in Nat \ {0} /\ \A sig \in Signal : Points[sig] \in Nat
BY FraudAssumption DEF FraudAssumption

\* A decay never raises a score.
LEMMA DecayLowers ==
    ASSUME NEW p \in Profile
    PROVE  applyDecay(p) \in Score /\ applyDecay(p) <= p.score
<1> DEFINE d == Smaller(p.age \div 2, MaxDecay)
<1>1. p.age \in 0 .. 2 * MaxDecay /\ p.score \in 0 .. MaxScore
  BY DEF Profile
<1>2. p.age \in Nat /\ p.score \in Nat /\ p.score <= MaxScore
  BY <1>1, RiskNumbers
<1>3. p.age \div 2 \in Nat
  BY <1>2
<1>4. d \in Nat
  BY <1>3, RiskNumbers DEF Smaller
<1>5. applyDecay(p) = IF d >= p.score THEN 0 ELSE p.score - d
  BY DEF applyDecay
<1> HIDE DEF d
<1> QED
  BY <1>2, <1>4, <1>5, RiskNumbers DEF Score

LEMMA ClampedScore ==
    ASSUME NEW n \in Nat
    PROVE  clampRiskScore(n) \in Score /\ clampRiskScore(n) <= n
           /\ (clampRiskScore(n) = n \/ clampRiskScore(n) = MaxScore)
BY RiskNumbers DEF clampRiskScore, Smaller, Score

LEMMA WrittenProfile ==
    ASSUME NEW p \in Profile, NEW s \in Score
    PROVE  Written(p, s) \in Profile /\ Written(p, s).score = s
<1> DEFINE b == s >= BlockAt
<1>1. 0 \in 0 .. 2 * MaxDecay /\ b \in BOOLEAN
  BY RiskNumbers
<1>2. Written(p, s) = [p EXCEPT !.score = s, !.blocked = b, !.age = 0]
  BY DEF Written
<1> HIDE DEF b
<1> QED
  BY <1>1, <1>2 DEF Profile, Score

-----------------------------------------------------------------------------
(* Requests *)

Steps == {"decay", "incr", "expire", "signal", "observe", "inspect"}

\* A request about to write a score back; one that has not read it yet.
Writing(v) == v.at = "signal" /\ "write" \in v.todo
Quiet(v) == v.at = "signal" => v.sigs # <<>> /\ "write" \notin v.todo

LEMMA IdleIsIdle == Idle.at = "idle"
BY DEF Idle

\* A request that is somewhere has its fields.
LEMMA RequestFields ==
    ASSUME RiskTypeOK, NEW r \in Requests, op[r].at # "idle"
    PROVE  op[r] \in Op /\ op[r] # Idle /\ op[r].user \in Players /\ op[r].seen \in Profile
           /\ op[r].sigs \in Seq(Signal) /\ op[r].then \in {"idle", "inspect"} /\ op[r].keys \subseteq Keys
           /\ op[r].todo \subseteq Commands
<1>1. op[r] \in {Idle} \cup Op
  BY DEF RiskTypeOK
<1>2. op[r] # Idle
  BY IdleIsIdle
<1>3. op[r] \in Op
  BY <1>1, <1>2
<1> QED
  BY <1>2, <1>3 DEF Op

LEMMA NothingRead == NotRead \in Profile
BY RiskNumbers DEF NotRead, Profile

LEMMA AtTyped ==
    ASSUME NEW r, op[r] \in Op, NEW step \in Steps
    PROVE  At(r, step) \in Op /\ At(r, step).at = step /\ At(r, step).sigs = op[r].sigs
           /\ "write" \notin At(r, step).todo
<1> DEFINE todo == IF step = "signal" THEN {"log", "read"} ELSE {}
<1>1. todo \subseteq Commands /\ "write" \notin todo
  BY DEF Commands
<1>2. At(r, step) = [op[r] EXCEPT !.at = step, !.keys = {}, !.fresh = {}, !.over = {}, !.seen = NotRead, !.todo = todo]
  BY DEF At
<1> DEFINE o == [op[r] EXCEPT !.at = step, !.keys = {}, !.fresh = {}]
<1>3. o \in Op /\ o.at = step /\ o.sigs = op[r].sigs
  BY DEF Op, Steps
<1> HIDE DEF todo
<1>4. At(r, step) = [o EXCEPT !.over = {}, !.seen = NotRead, !.todo = todo]
  BY <1>2 DEF Op
<1> HIDE DEF o
<1> QED
  BY <1>1, <1>3, <1>4, NothingRead DEF Op

LEMMA AfterTyped ==
    ASSUME NEW r, op[r] \in Op, NEW sigs \in Seq(Signal), NEW then \in {"idle", "inspect"}
    PROVE  /\ After(r, sigs, then) \in {Idle} \cup Op
           /\ After(r, sigs, then).at \in {"idle", "inspect", "signal"}
           /\ Quiet(After(r, sigs, then))
<1>1. CASE sigs # <<>>
  <2> DEFINE a == At(r, "signal")
             v == [a EXCEPT !.sigs = sigs, !.then = then]
  <2>1. a \in Op /\ a.at = "signal" /\ "write" \notin a.todo
    BY AtTyped DEF Steps
  <2>2. After(r, sigs, then) = v
    BY <1>1 DEF After
  <2> HIDE DEF a
  <2>3. v \in Op /\ v.at = "signal" /\ v.sigs = sigs /\ v.todo = a.todo
    BY <2>1 DEF Op
  <2> HIDE DEF v
  <2> QED
    BY <1>1, <2>1, <2>2, <2>3 DEF Quiet
<1>2. CASE sigs = <<>> /\ then = "idle"
  BY <1>2, IdleIsIdle DEF After, Quiet
<1>3. CASE sigs = <<>> /\ then = "inspect"
  <2> DEFINE a == At(r, "inspect")
             v == [a EXCEPT !.sigs = <<>>, !.then = "idle"]
  <2>1. a \in Op /\ a.at = "inspect"
    BY AtTyped DEF Steps
  <2>2. After(r, sigs, then) = v
    BY <1>3 DEF After
  <2>e. <<>> \in Seq(Signal)
    BY EmptySeq
  <2> HIDE DEF a
  <2>3. v \in Op /\ v.at = "inspect"
    BY <2>1, <2>e DEF Op
  <2> HIDE DEF v
  <2> QED
    BY <2>2, <2>3 DEF Quiet
<1> QED
  BY <1>1, <1>2, <1>3

-----------------------------------------------------------------------------
(* What a step does to the explanations *)

LEMMA InitScoreTyped ==
    ASSUME RiskTypeOK, NEW u \in Players
    PROVE  InitScore[u] \in Score /\ InitScore[u] = scenario.score
<1>1. scenario \in Scenario
  BY FraudAssumption DEF RiskTypeOK, FraudAssumption
<1> QED
  BY <1>1 DEF InitScore, Scenario, Score

\* Signals are only added to the log of a run.
LogGrows == scenario' = scenario /\ raised' \in [Players -> Score] /\ \A u \in Players : raised[u] <= raised'[u]

\* Explained with what the step has raised.
NowExplained(u, score) == score <= InitScore[u] + raised'[u] \/ raised'[u] = MaxScore

LEMMA StaysExplained ==
    ASSUME RiskTypeOK, LogGrows, NEW u \in Players, NEW n \in Nat, Explained(u, n)
    PROVE  NowExplained(u, n)
<1>1. /\ raised[u] \in Nat /\ raised'[u] \in Nat /\ raised[u] <= raised'[u]
      /\ raised'[u] <= MaxScore /\ raised[u] <= MaxScore
  BY RiskNumbers DEF RiskTypeOK, LogGrows, Score
<1>2. InitScore[u] \in Nat
  BY InitScoreTyped, RiskNumbers DEF Score
<1> HIDE DEF InitScore
<1> QED
  BY <1>1, <1>2, RiskNumbers DEF Explained, NowExplained

LEMMA LessIsExplained ==
    ASSUME RiskTypeOK, LogGrows, NEW u \in Players, NEW n \in Nat, NEW m \in Nat, m <= n, NowExplained(u, n)
    PROVE  NowExplained(u, m)
<1>1. raised'[u] \in Nat
  BY RiskNumbers DEF LogGrows, Score
<1>2. InitScore[u] \in Nat
  BY InitScoreTyped, RiskNumbers DEF Score
<1> HIDE DEF InitScore
<1> QED
  BY <1>1, <1>2 DEF NowExplained

\* Nothing raised, nothing to explain anew.
LEMMA NothingLogged ==
    ASSUME RiskTypeOK, UNCHANGED <<raised, scenario>>
    PROVE  LogGrows /\ \A u \in Players : raised'[u] = raised[u]
<1>1. \A u \in Players : raised[u] \in Nat
  BY RiskNumbers DEF RiskTypeOK
<1> QED
  BY <1>1 DEF RiskTypeOK, LogGrows, Score

LEMMA ScoresStayExplained ==
    ASSUME RiskTypeOK, LogGrows, \A u \in Players : NowExplained(u, profile'[u].score)
    PROVE  NoUnexplainedRisk'
BY DEF NoUnexplainedRisk, Explained, NowExplained, LogGrows, InitScore

\* A request goes on to v.
LEMMA RequestMoves ==
    ASSUME RiskIInv, LogGrows, NEW r \in Requests, NEW v \in {Idle} \cup Op, op' = [op EXCEPT ![r] = v],
           v.at = "signal" => v.sigs # <<>>,
           v.at = "decay" => NowExplained(v.user, v.seen.score),
           Writing(v) => NowExplained(v.user, v.seen.score + Points[Head(v.sigs)])
    PROVE  op' \in [Requests -> {Idle} \cup Op] /\ SignalsWait' /\ ReadsAreExplained'
<1>0. RiskTypeOK
  BY DEF RiskIInv
<1>1. \A q \in Requests : op'[q] = IF q = r THEN v ELSE op[q]
  BY <1>0 DEF RiskTypeOK
<1>2. op' \in [Requests -> {Idle} \cup Op]
  BY <1>0 DEF RiskTypeOK
<1>3. SignalsWait'
  BY <1>1 DEF RiskIInv, SignalsWait
<1>4. ASSUME NEW q \in Requests
      PROVE  /\ op'[q].at = "decay" => NowExplained(op'[q].user, op'[q].seen.score)
             /\ Writing(op'[q]) => NowExplained(op'[q].user, op'[q].seen.score + Points[Head(op'[q].sigs)])
  <2>1. CASE q = r
    <3>1. op'[q] = v
      BY <1>1, <2>1
    <3> QED
      BY <3>1
  <2>2. CASE q # r
    <3>1. op'[q] = op[q]
      BY <1>1, <2>2
    <3>2. CASE op[q].at = "decay"
      <4>1. op[q].user \in Players /\ op[q].seen.score \in Nat
        BY <1>0, <3>2, RequestFields, RiskNumbers DEF Profile
      <4>2. Explained(op[q].user, op[q].seen.score)
        BY <3>2 DEF RiskIInv, ReadsAreExplained
      <4>3. NowExplained(op[q].user, op[q].seen.score)
        BY <1>0, <4>1, <4>2, StaysExplained
      <4>4. ~ Writing(op[q])
        BY <3>2 DEF Writing
      <4> QED
        BY <3>1, <4>3, <4>4
    <3>3. CASE Writing(op[q])
      <4> DEFINE n == op[q].seen.score + Points[Head(op[q].sigs)]
      <4>1. op[q].user \in Players /\ op[q].seen.score \in Nat /\ op[q].sigs \in Seq(Signal)
        BY <1>0, <3>3, RequestFields, RiskNumbers DEF Profile, Writing
      <4>2. op[q].sigs # <<>>
        BY <3>3 DEF RiskIInv, SignalsWait, Writing
      <4>3. Head(op[q].sigs) \in Signal
        BY <4>1, <4>2, HeadTailProperties
      <4>4. n \in Nat
        BY <4>1, <4>3, RiskNumbers
      <4>5. Explained(op[q].user, n)
        BY <3>3 DEF RiskIInv, ReadsAreExplained, Writing, Signalling
      <4> HIDE DEF n
      <4>6. NowExplained(op[q].user, n)
        BY <1>0, <4>1, <4>4, <4>5, StaysExplained
      <4>7. op[q].at # "decay"
        BY <3>3 DEF Writing
      <4> QED
        BY <3>1, <4>6, <4>7 DEF n
    <3> QED
      BY <3>1, <3>2, <3>3
  <2> QED
    BY <2>1, <2>2
<1>5. ReadsAreExplained'
  BY <1>4 DEF ReadsAreExplained, Signalling, Writing, NowExplained, Explained, LogGrows, InitScore
<1> QED
  BY <1>2, <1>3, <1>5

-----------------------------------------------------------------------------
(* The steps *)

\* A step that leaves scores and log alone and moves one request on.
LEMMA RequestMoveSafe ==
    ASSUME RiskIInv, UNCHANGED <<risk, scenario>>, NEW r \in Requests, NEW v \in {Idle} \cup Op,
           op' = [op EXCEPT ![r] = v], v.at # "decay", Quiet(v)
    PROVE  op' \in [Requests -> {Idle} \cup Op] /\ NoUnexplainedRisk' /\ SignalsWait' /\ ReadsAreExplained'
<1>1. RiskTypeOK /\ UNCHANGED <<profile, raised, suspected, scenario>>
  BY DEF RiskIInv, risk
<1>2. LogGrows
  BY <1>1, NothingLogged
<1>3. op' \in [Requests -> {Idle} \cup Op] /\ SignalsWait' /\ ReadsAreExplained'
  BY <1>2, RequestMoves DEF Quiet, Writing
<1>4. NoUnexplainedRisk'
  BY <1>1 DEF RiskIInv, NoUnexplainedRisk, Explained, InitScore
<1> QED
  BY <1>3, <1>4

\* A step that moves no request.
LEMMA NobodyMoves ==
    ASSUME RiskIInv, UNCHANGED <<raised, suspected, op, scenario>>
    PROVE  SignalsWait' /\ ReadsAreExplained'
BY DEF RiskIInv, SignalsWait, ReadsAreExplained, Signalling, Explained, InitScore

\* The scores keep their explanation while no score rises.
LEMMA ScoresDoNotRise ==
    ASSUME RiskIInv, UNCHANGED <<raised, scenario>>, \A u \in Players : profile'[u].score = profile[u].score
    PROVE  NoUnexplainedRisk'
BY DEF RiskIInv, NoUnexplainedRisk, Explained, InitScore

LEMMA KeyTyped == ASSUME NEW u \in Players, NEW of \in {"user", "soft", "socket", "ip", "auth"} PROVE Key(of, u) \in Keys
<1>1. CASE of \in {"ip", "auth"}
  BY <1>1 DEF Key, Keys
<1>2. CASE of \notin {"ip", "auth"}
  BY <1>2 DEF Key, Keys
<1> QED
  BY <1>1, <1>2

\* A request begins; a bet has read the profile.
LEMMA StartSafe ==
    ASSUME RiskIInv, UNCHANGED scenario, NEW r \in Requests, NEW u \in Players,
           NEW kind \in {"bet", "login", "socket"}, NEW at \in {"decay", "incr"}, NEW K \in SUBSET Keys,
           Start(r, u, kind, at, K)
    PROVE  RiskIInv'
<1> DEFINE seen == IF at = "decay" THEN profile[u] ELSE NotRead
           v == [at |-> at, kind |-> kind, user |-> u, seen |-> seen, keys |-> K,
                 fresh |-> {}, over |-> {}, sigs |-> <<>>, todo |-> {}, then |-> "idle"]
<1>0. RiskTypeOK
  BY DEF RiskIInv
<1>1. op' = [op EXCEPT ![r] = v] /\ UNCHANGED <<risk, redis, tokens, allowed>>
  BY DEF Start, Goto
<1>2. UNCHANGED <<profile, raised, suspected, counter, seenBy, tokens, allowed, scenario>>
  BY <1>1 DEF risk, redis
<1>3. LogGrows
  BY <1>0, <1>2, NothingLogged
<1>4. seen \in Profile /\ profile[u] \in Profile
  BY <1>0, NothingRead DEF RiskTypeOK
<1>5. v \in Op
  <2>1. <<>> \in Seq(Signal)
    BY EmptySeq
  <2> HIDE DEF seen
  <2> QED
    BY <1>4, <2>1 DEF Op
<1>6. v.at = at /\ v.user = u /\ v.seen = seen
  OBVIOUS
<1>7. at = "decay" => NowExplained(u, seen.score)
  <2> SUFFICES ASSUME at = "decay" PROVE NowExplained(u, profile[u].score)
    OBVIOUS
  <2>1. profile[u].score \in Nat
    BY <1>4, RiskNumbers DEF Profile
  <2>2. Explained(u, profile[u].score)
    BY DEF RiskIInv, NoUnexplainedRisk
  <2> QED
    BY <1>0, <1>3, <2>1, <2>2, StaysExplained
<1> HIDE DEF v, seen
<1>8. op' \in [Requests -> {Idle} \cup Op] /\ SignalsWait' /\ ReadsAreExplained'
  BY <1>1, <1>3, <1>5, <1>6, <1>7, RequestMoves DEF Writing
<1>9. RiskTypeOK'
  BY <1>0, <1>2, <1>8 DEF RiskTypeOK
<1>10. NoUnexplainedRisk'
  BY <1>2, ScoresDoNotRise
<1> QED
  BY <1>8, <1>9, <1>10 DEF RiskIInv

LEMMA RequestSafe ==
    ASSUME RiskIInv, UNCHANGED scenario, NEW r \in Requests, NEW u \in Players, Bet(r, u) \/ Login(r, u) \/ SocketEvent(r, u)
    PROVE  RiskIInv'
<1>1. CASE Bet(r, u)
  <2>1. {Key("user", u), Key("ip", u)} \in SUBSET Keys
    BY KeyTyped
  <2> QED
    BY <1>1, <2>1, StartSafe DEF Bet
<1>2. CASE Login(r, u)
  <2>1. {Key("auth", u)} \in SUBSET Keys
    BY KeyTyped
  <2> QED
    BY <1>2, <2>1, StartSafe DEF Login
<1>3. CASE SocketEvent(r, u)
  <2>1. {Key("socket", u)} \in SUBSET Keys
    BY KeyTyped
  <2> QED
    BY <1>3, <2>1, StartSafe DEF SocketEvent
<1> QED
  BY <1>1, <1>2, <1>3

\* decayRisk writes a score that is not above the one it read.
LEMMA GateSafe == ASSUME RiskIInv, UNCHANGED scenario, NEW r \in Requests, Gate(r) PROVE RiskIInv'
<1>0. RiskTypeOK
  BY DEF RiskIInv
<1> DEFINE p == op[r].seen
           u == op[r].user
           w == Written(profile[u], applyDecay(p))
           q == IF Writes(p) THEN w ELSE p
           v == IF q.blocked \/ q.score >= BlockAt THEN Idle ELSE [op[r] EXCEPT !.at = "incr", !.seen = q]
<1>1. /\ op[r].at = "decay"
      /\ profile' = IF Writes(p) THEN [profile EXCEPT ![u] = q] ELSE profile
      /\ op' = [op EXCEPT ![r] = v]
      /\ UNCHANGED <<raised, suspected, redis, tokens, allowed>>
  BY DEF Gate, Goto
<1>2. op[r] \in Op /\ u \in Players /\ p \in Profile
  BY <1>0, <1>1, RequestFields
<1>3. profile[u] \in Profile
  BY <1>0, <1>2 DEF RiskTypeOK
<1>4. applyDecay(p) \in Score /\ applyDecay(p) <= p.score
  BY <1>2, DecayLowers
<1>5. w \in Profile /\ w.score = applyDecay(p)
  BY <1>3, <1>4, WrittenProfile
<1>6. q \in Profile
  BY <1>2, <1>5
<1>7. v \in {Idle} \cup Op /\ v.at \in {"idle", "incr"}
  <2> HIDE DEF q
  <2> QED
    BY <1>2, <1>6, IdleIsIdle DEF Op
<1>8. LogGrows /\ UNCHANGED <<raised, scenario>>
  BY <1>0, <1>1, NothingLogged
<1>9. profile' \in [Players -> Profile]
  <2> HIDE DEF q
  <2> QED
    BY <1>0, <1>1, <1>6 DEF RiskTypeOK
<1>10. ASSUME NEW x \in Players PROVE NowExplained(x, profile'[x].score)
  <2>1. profile[x] \in Profile /\ profile[x].score \in Nat
    BY <1>0, RiskNumbers DEF RiskTypeOK, Profile
  <2>2. NowExplained(x, profile[x].score)
    BY <1>0, <1>8, <2>1, StaysExplained DEF RiskIInv, NoUnexplainedRisk
  <2>3. CASE profile'[x] = profile[x]
    BY <2>2, <2>3
  <2>4. CASE profile'[x] # profile[x]
    <3>1. x = u /\ profile'[x] = w
      <4> HIDE DEF w
      <4> QED
        BY <1>0, <1>1, <1>2, <2>4 DEF RiskTypeOK
    <3>2. p.score \in Nat /\ applyDecay(p) \in Nat
      BY <1>2, <1>4, RiskNumbers DEF Profile, Score
    <3>3. Explained(u, p.score)
      BY <1>1 DEF RiskIInv, ReadsAreExplained
    <3> HIDE DEF p, u, w
    <3>4. NowExplained(u, p.score)
      BY <1>0, <1>2, <1>8, <3>2, <3>3, StaysExplained
    <3>5. NowExplained(u, applyDecay(p))
      BY <1>0, <1>2, <1>4, <1>8, <3>2, <3>4, LessIsExplained
    <3> QED
      BY <1>5, <3>1, <3>5
  <2> QED
    BY <2>3, <2>4
<1>11. NoUnexplainedRisk'
  BY <1>0, <1>8, <1>10, ScoresStayExplained
<1> HIDE DEF v
<1>12. op' \in [Requests -> {Idle} \cup Op] /\ SignalsWait' /\ ReadsAreExplained'
  <2>1. v.at # "decay" /\ v.at # "signal" /\ ~ Writing(v)
    BY <1>7 DEF Writing
  <2> QED
    BY <1>1, <1>7, <1>8, <2>1, RequestMoves
<1>13. RiskTypeOK'
  BY <1>0, <1>1, <1>8, <1>9, <1>12 DEF RiskTypeOK, redis
<1> QED
  BY <1>11, <1>12, <1>13 DEF RiskIInv

\* INCR of the request's counters.
LEMMA IncrSafe == ASSUME RiskIInv, UNCHANGED scenario, NEW r \in Requests, Incr(r) PROVE RiskIInv'
<1>0. RiskTypeOK
  BY DEF RiskIInv
<1> DEFINE K == op[r].keys
           n == [k \in Keys |-> Smaller(counter[k].n + 1, Limit(k) + 1)]
           fresh == {k \in K : n[k] = 1}
           over == {k \in K : n[k] > Limit(k)}
           v == [op[r] EXCEPT !.at = "expire", !.fresh = fresh, !.over = over]
<1>1. /\ op[r].at = "incr"
      /\ counter' = [k \in Keys |-> IF k \in K THEN [counter[k] EXCEPT !.n = n[k]] ELSE counter[k]]
      /\ op' = [op EXCEPT ![r] = v]
      /\ UNCHANGED <<risk, seenBy, tokens, allowed>>
  BY DEF Incr, Goto
<1>2. op[r] \in Op /\ K \subseteq Keys
  BY <1>0, <1>1, RequestFields
<1>3. fresh \in SUBSET Keys /\ over \in SUBSET Keys
  BY <1>2
<1>4. v \in Op /\ v.at = "expire"
  <2> HIDE DEF fresh, over
  <2> QED
    BY <1>2, <1>3 DEF Op
<1>5. ASSUME NEW k \in Keys
      PROVE  counter'[k] \in [n : Nat, ttl : BOOLEAN] /\ counter'[k].n <= Limit(k) + 1
  <2>1. Limit(k) \in Nat
    <3>1. k.of \in {"user", "soft", "socket", "ip", "auth"}
      BY DEF Keys
    <3> QED
      BY <3>1, FraudAssumption DEF FraudAssumption, Limit
  <2>2. counter[k] \in [n : Nat, ttl : BOOLEAN] /\ counter[k].n <= Limit(k) + 1
    BY <1>0 DEF RiskTypeOK
  <2>3. n[k] \in Nat /\ n[k] <= Limit(k) + 1
    BY <2>1, <2>2 DEF Smaller
  <2>4. counter'[k] = IF k \in K THEN [counter[k] EXCEPT !.n = n[k]] ELSE counter[k]
    BY <1>1
  <2> HIDE DEF n, K
  <2> QED
    BY <2>2, <2>3, <2>4
<1>6. counter' \in [Keys -> [n : Nat, ttl : BOOLEAN]] /\ \A k \in Keys : counter'[k].n <= Limit(k) + 1
  BY <1>1, <1>5
<1> HIDE DEF v
<1>7. op' \in [Requests -> {Idle} \cup Op] /\ NoUnexplainedRisk' /\ SignalsWait' /\ ReadsAreExplained'
  BY <1>1, <1>4, RequestMoveSafe DEF Quiet
<1>8. RiskTypeOK'
  BY <1>0, <1>1, <1>6, <1>7 DEF RiskTypeOK, risk
<1> QED
  BY <1>7, <1>8 DEF RiskIInv

\* PEXPIRE changes no count.
LEMMA ExpiringTyped ==
    ASSUME RiskTypeOK, NEW r, Expiring(r)
    PROVE  counter' \in [Keys -> [n : Nat, ttl : BOOLEAN]] /\ \A k \in Keys : counter'[k].n <= Limit(k) + 1
<1>1. ASSUME NEW k \in Keys
      PROVE  counter'[k] \in [n : Nat, ttl : BOOLEAN] /\ counter'[k].n = counter[k].n
  <2> DEFINE b == counter[k].ttl \/ (k \in Fresh(r) /\ counter[k].n > 0)
  <2>1. counter'[k] = [counter[k] EXCEPT !.ttl = b]
    BY DEF Expiring
  <2>2. b \in BOOLEAN
    BY DEF RiskTypeOK
  <2> HIDE DEF b
  <2> QED
    BY <2>1, <2>2 DEF RiskTypeOK
<1>2. counter' = [k \in Keys |-> counter'[k]]
  BY DEF Expiring
<1> QED
  BY <1>1, <1>2 DEF RiskTypeOK

LEMMA SignalSeq == ASSUME NEW sig \in Signal PROVE <<sig>> \in Seq(Signal) /\ <<sig>> # <<>>
OBVIOUS

LEMMA IfTyped == ASSUME NEW b, NEW sig \in Signal PROVE If(b, sig) \in Seq(Signal)
BY SignalSeq, EmptySeq DEF If

LEMMA DecideBetSafe == ASSUME RiskIInv, UNCHANGED scenario, NEW r \in Requests, DecideBet(r) PROVE RiskIInv'
<1>0. RiskTypeOK
  BY DEF RiskIInv
<1> DEFINE soft == Key("soft", op[r].user)
           v == IF op[r].over # {} THEN After(r, <<"limit">>, "idle")
                ELSE IF soft \notin op[r].keys /\ op[r].seen.score >= SoftAt
                THEN [op[r] EXCEPT !.at = "incr", !.keys = {soft}]
                ELSE At(r, "observe")
<1>1. /\ op[r].at = "expire" /\ Expiring(r) /\ op' = [op EXCEPT ![r] = v]
      /\ UNCHANGED <<risk, seenBy, tokens, allowed>>
  BY DEF DecideBet, Expiring, Goto
<1>2. op[r] \in Op /\ op[r].user \in Players
  BY <1>0, <1>1, RequestFields
<1>3. soft \in Keys
  BY <1>2, KeyTyped
<1>4. v \in {Idle} \cup Op /\ v.at \in {"idle", "inspect", "signal", "incr", "observe"} /\ Quiet(v)
  <2> DEFINE a == After(r, <<"limit">>, "idle")
             b == [op[r] EXCEPT !.at = "incr", !.keys = {soft}]
             c == At(r, "observe")
  <2>1. a \in {Idle} \cup Op /\ a.at \in {"idle", "inspect", "signal"} /\ Quiet(a)
    <3>1. "limit" \in Signal
      BY DEF Signal
    <3> QED
      BY <1>2, <3>1, SignalSeq, AfterTyped
  <2>2. b \in Op /\ b.at = "incr"
    <3> HIDE DEF soft
    <3> QED
      BY <1>2, <1>3 DEF Op
  <2>3. c \in Op /\ c.at = "observe"
    BY <1>2, AtTyped DEF Steps
  <2>4. v = a \/ v = b \/ v = c
    OBVIOUS
  <2> HIDE DEF a, b, c, v
  <2> QED
    BY <2>1, <2>2, <2>3, <2>4 DEF Quiet
<1> HIDE DEF v
<1>5. op' \in [Requests -> {Idle} \cup Op] /\ NoUnexplainedRisk' /\ SignalsWait' /\ ReadsAreExplained'
  BY <1>1, <1>4, RequestMoveSafe
<1>6. RiskTypeOK'
  BY <1>0, <1>1, <1>5, ExpiringTyped DEF RiskTypeOK, risk
<1> QED
  BY <1>5, <1>6 DEF RiskIInv

LEMMA DecideLoginSafe == ASSUME RiskIInv, UNCHANGED scenario, NEW r \in Requests, DecideLogin(r) PROVE RiskIInv'
<1>0. RiskTypeOK
  BY DEF RiskIInv
<1>1. /\ op[r].at = "expire" /\ Expiring(r) /\ UNCHANGED <<risk, seenBy, tokens, allowed>>
      /\ \/ op' = [op EXCEPT ![r] = Idle]
         \/ op' = [op EXCEPT ![r] = At(r, "observe")]
  BY DEF DecideLogin, Expiring, Goto
<1>2. At(r, "observe") \in Op /\ At(r, "observe").at = "observe"
  BY <1>0, <1>1, RequestFields, AtTyped DEF Steps
<1>3. PICK v \in {Idle, At(r, "observe")} : op' = [op EXCEPT ![r] = v]
  BY <1>1
<1>4. v \in {Idle} \cup Op /\ v.at \in {"idle", "observe"} /\ Quiet(v)
  BY <1>2, IdleIsIdle DEF Quiet
<1>5. op' \in [Requests -> {Idle} \cup Op] /\ NoUnexplainedRisk' /\ SignalsWait' /\ ReadsAreExplained'
  BY <1>1, <1>3, <1>4, RequestMoveSafe
<1>6. RiskTypeOK'
  BY <1>0, <1>1, <1>5, ExpiringTyped DEF RiskTypeOK, risk
<1> QED
  BY <1>5, <1>6 DEF RiskIInv

LEMMA DecideSocketSafe == ASSUME RiskIInv, UNCHANGED scenario, NEW r \in Requests, DecideSocket(r) PROVE RiskIInv'
<1>0. RiskTypeOK
  BY DEF RiskIInv
<1> DEFINE u == op[r].user
           t == tokens[u]
           a == After(r, <<"socket">>, "idle")
<1>1. /\ op[r].at = "expire" /\ Expiring(r) /\ UNCHANGED <<risk, seenBy, allowed>>
      /\ IF op[r].over # {} THEN op' = [op EXCEPT ![r] = a] /\ UNCHANGED tokens
         ELSE IF t.over
         THEN op' = [op EXCEPT ![r] = Idle] /\ tokens' = [tokens EXCEPT ![u] = [n |-> MaxTokens - 1, over |-> FALSE]]
         ELSE IF t.n = 0 THEN op' = [op EXCEPT ![r] = a] /\ UNCHANGED tokens
         ELSE op' = [op EXCEPT ![r] = Idle] /\ tokens' = [tokens EXCEPT ![u].n = @ - 1]
  BY DEF DecideSocket, Expiring, Goto
<1>2. op[r] \in Op /\ u \in Players
  BY <1>0, <1>1, RequestFields
<1>3. a \in {Idle} \cup Op /\ a.at \in {"idle", "inspect", "signal"} /\ Quiet(a)
  <2>1. "socket" \in Signal
    BY DEF Signal
  <2> QED
    BY <1>2, <2>1, SignalSeq, AfterTyped
<1> HIDE DEF a
<1>4. PICK v \in {Idle, a} : op' = [op EXCEPT ![r] = v]
  BY <1>1
<1>5. v \in {Idle} \cup Op /\ v.at \in {"idle", "inspect", "signal"} /\ Quiet(v)
  BY <1>3, <1>4, IdleIsIdle DEF Quiet
<1>6. op' \in [Requests -> {Idle} \cup Op] /\ NoUnexplainedRisk' /\ SignalsWait' /\ ReadsAreExplained'
  BY <1>1, <1>4, <1>5, RequestMoveSafe
<1>7. tokens' \in [Players -> [n : 0 .. MaxTokens, over : BOOLEAN]]
  <2>1. tokens \in [Players -> [n : 0 .. MaxTokens, over : BOOLEAN]] /\ t \in [n : 0 .. MaxTokens, over : BOOLEAN]
    BY <1>0, <1>2 DEF RiskTypeOK
  <2>2. CASE tokens' = tokens
    BY <2>1, <2>2
  <2>3. CASE tokens' = [tokens EXCEPT ![u] = [n |-> MaxTokens - 1, over |-> FALSE]]
    <3>1. [n |-> MaxTokens - 1, over |-> FALSE] \in [n : 0 .. MaxTokens, over : BOOLEAN]
      BY RiskNumbers
    <3> QED
      BY <2>1, <2>3, <3>1
  <2>4. CASE tokens' = [tokens EXCEPT ![u].n = @ - 1] /\ t.n # 0
    <3>1. t.n - 1 \in 0 .. MaxTokens
      BY <2>1, <2>4, RiskNumbers
    <3>2. [t EXCEPT !.n = t.n - 1] \in [n : 0 .. MaxTokens, over : BOOLEAN]
      BY <2>1, <3>1
    <3>3. tokens' = [tokens EXCEPT ![u] = [t EXCEPT !.n = t.n - 1]]
      BY <1>2, <2>1, <2>4
    <3> QED
      BY <2>1, <3>2, <3>3
  <2> QED
    BY <1>1, <2>2, <2>3, <2>4
<1>8. RiskTypeOK'
  BY <1>0, <1>1, <1>6, <1>7, ExpiringTyped DEF RiskTypeOK, risk
<1> QED
  BY <1>6, <1>8 DEF RiskIInv

LEMMA SeenTyped ==
    ASSUME RiskTypeOK, NEW u \in Players, NEW O
    PROVE  Seen(u, O) \in [Observed -> SUBSET Players]
BY DEF Seen, RiskTypeOK

LEMMA ObserveSafe == ASSUME RiskIInv, UNCHANGED scenario, NEW r \in Requests, Observe(r) PROVE RiskIInv'
<1>0. RiskTypeOK
  BY DEF RiskIInv
<1> DEFINE u == op[r].user
           seen == Seen(u, {"ip", "device"})
           b1 == Cardinality({v \in seen["ip"] : IP[v] = IP[u]}) >= IpAccounts
           b2 == Cardinality({v \in seen["device"] : Device[v] = Device[u]}) >= DeviceAccounts
           sigs == If(b1, "ip") \o If(b2, "device")
           then == IF op[r].kind = "bet" THEN "inspect" ELSE "idle"
           v == After(r, sigs, then)
<1>1. /\ op[r].at = "observe" /\ seenBy' = seen /\ op' = [op EXCEPT ![r] = v]
      /\ UNCHANGED <<risk, counter, tokens, allowed>>
  BY DEF Observe, Goto
<1>2. op[r] \in Op /\ u \in Players
  BY <1>0, <1>1, RequestFields
<1>3. sigs \in Seq(Signal)
  <2> HIDE DEF b1, b2
  <2>1. If(b1, "ip") \in Seq(Signal) /\ If(b2, "device") \in Seq(Signal)
    BY IfTyped DEF Signal
  <2> QED
    BY <2>1, ConcatProperties
<1>4. then \in {"idle", "inspect"}
  OBVIOUS
<1> HIDE DEF sigs, then
<1>5. v \in {Idle} \cup Op /\ v.at \in {"idle", "inspect", "signal"} /\ Quiet(v)
  BY <1>2, <1>3, <1>4, AfterTyped
<1> HIDE DEF v
<1>6. op' \in [Requests -> {Idle} \cup Op] /\ NoUnexplainedRisk' /\ SignalsWait' /\ ReadsAreExplained'
  BY <1>1, <1>5, RequestMoveSafe
<1>7. RiskTypeOK'
  BY <1>0, <1>1, <1>2, <1>6, SeenTyped DEF RiskTypeOK, risk
<1> QED
  BY <1>6, <1>7 DEF RiskIInv

LEMMA InspectSafe == ASSUME RiskIInv, UNCHANGED scenario, NEW r \in Requests, Inspect(r) PROVE RiskIInv'
<1>0. RiskTypeOK
  BY DEF RiskIInv
<1>1. op[r].at = "inspect" /\ UNCHANGED <<risk, counter, tokens, allowed>>
  BY DEF Inspect
<1>2. op[r] \in Op /\ op[r].user \in Players
  BY <1>0, <1>1, RequestFields
<1>3. PICK regular \in BOOLEAN, common \in BOOLEAN :
        LET seen == Seen(op[r].user, IF common THEN {"shared"} ELSE {})
            shared == common /\ Cardinality(seen["shared"]) >= SharedUsers IN
        seenBy' = seen /\ Goto(r, After(r, If(regular, "timing") \o If(shared, "shared"), "idle"))
  BY DEF Inspect
<1> DEFINE seen == Seen(op[r].user, IF common THEN {"shared"} ELSE {})
           shared == common /\ Cardinality(seen["shared"]) >= SharedUsers
           sigs == If(regular, "timing") \o If(shared, "shared")
           v == After(r, sigs, "idle")
<1>4. seenBy' = seen /\ op' = [op EXCEPT ![r] = v]
  BY <1>3 DEF Goto
<1>5. sigs \in Seq(Signal)
  <2> HIDE DEF shared
  <2>1. If(regular, "timing") \in Seq(Signal) /\ If(shared, "shared") \in Seq(Signal)
    BY IfTyped DEF Signal
  <2> QED
    BY <2>1, ConcatProperties
<1> HIDE DEF sigs
<1>6. v \in {Idle} \cup Op /\ v.at \in {"idle", "inspect", "signal"} /\ Quiet(v)
  BY <1>2, <1>5, AfterTyped
<1> HIDE DEF v
<1>7. op' \in [Requests -> {Idle} \cup Op] /\ NoUnexplainedRisk' /\ SignalsWait' /\ ReadsAreExplained'
  BY <1>1, <1>4, <1>6, RequestMoveSafe
<1>8. RiskTypeOK'
  BY <1>0, <1>1, <1>2, <1>4, <1>7, SeenTyped DEF RiskTypeOK, risk
<1> QED
  BY <1>7, <1>8 DEF RiskIInv

\* The parts of a signal whose request still waits: the same signal, the same
\* profile read, and no write that was not due before.
LEMMA PartAnswered ==
    ASSUME RiskIInv, UNCHANGED <<risk, scenario>>, NEW r \in Requests, NEW v \in Op, op' = [op EXCEPT ![r] = v],
           op[r].at = "signal", v.at = "signal", v.user = op[r].user, v.seen = op[r].seen,
           v.sigs # <<>>, Head(v.sigs) = Head(op[r].sigs), v.todo \subseteq op[r].todo
    PROVE  op' \in [Requests -> {Idle} \cup Op] /\ NoUnexplainedRisk' /\ SignalsWait' /\ ReadsAreExplained'
<1>1. RiskTypeOK /\ UNCHANGED <<profile, raised, suspected, scenario>>
  BY DEF RiskIInv, risk
<1>2. LogGrows
  BY <1>1, NothingLogged
<1>3. op[r].user \in Players /\ op[r].seen \in Profile /\ op[r].sigs \in Seq(Signal) /\ op[r].sigs # <<>>
  BY <1>1, RequestFields DEF RiskIInv, SignalsWait
<1>4. Head(op[r].sigs) \in Signal /\ op[r].seen.score \in Nat
  BY <1>3, HeadTailProperties, RiskNumbers DEF Profile
<1> DEFINE n == op[r].seen.score + Points[Head(op[r].sigs)]
<1>5. n \in Nat
  BY <1>4, RiskNumbers
<1>6. ASSUME Writing(v) PROVE NowExplained(v.user, v.seen.score + Points[Head(v.sigs)])
  <2>1. Explained(op[r].user, n)
    BY <1>6 DEF RiskIInv, ReadsAreExplained, Signalling, Writing
  <2> HIDE DEF n
  <2>2. NowExplained(op[r].user, n)
    BY <1>1, <1>2, <1>3, <1>5, <2>1, StaysExplained
  <2> QED
    BY <2>2 DEF n
<1>7. op' \in [Requests -> {Idle} \cup Op] /\ SignalsWait' /\ ReadsAreExplained'
  BY <1>2, <1>6, RequestMoves
<1>8. NoUnexplainedRisk'
  BY <1>1 DEF RiskIInv, NoUnexplainedRisk, Explained, InitScore
<1> QED
  BY <1>7, <1>8

\* One part of a signal answers: the request waits for the other, or goes on.
LEMMA GoesOn ==
    ASSUME RiskIInv, NEW r \in Requests, op[r].at = "signal", NEW rest \in SUBSET op[r].todo, "write" \notin rest,
           NEW v, v = (IF rest = {} THEN After(r, Tail(op[r].sigs), op[r].then) ELSE [op[r] EXCEPT !.todo = rest])
    PROVE  v \in {Idle} \cup Op /\ v.at \in {"idle", "inspect", "signal"} /\ Quiet(v)
<1>1. /\ op[r] \in Op /\ op[r].sigs \in Seq(Signal) /\ op[r].sigs # <<>> /\ op[r].then \in {"idle", "inspect"}
      /\ op[r].todo \subseteq Commands
  BY RequestFields DEF RiskIInv, SignalsWait
<1>2. CASE rest = {}
  <2>1. Tail(op[r].sigs) \in Seq(Signal)
    BY <1>1, HeadTailProperties
  <2> QED
    BY <1>1, <1>2, <2>1, AfterTyped
<1>3. CASE rest # {}
  <2>1. v = [op[r] EXCEPT !.todo = rest]
    BY <1>3
  <2>2. v \in Op /\ v.at = "signal" /\ v.sigs = op[r].sigs /\ v.todo = rest
    BY <1>1, <2>1 DEF Op
  <2> QED
    BY <1>1, <2>2 DEF Quiet
<1> QED
  BY <1>2, <1>3

LEMMA RecordSafe == ASSUME RiskIInv, UNCHANGED scenario, NEW r \in Requests, RecordFraudEvent(r) PROVE RiskIInv'
<1>0. RiskTypeOK
  BY DEF RiskIInv
<1> DEFINE rest == op[r].todo \ {"log"}
           v == IF rest = {} THEN After(r, Tail(op[r].sigs), op[r].then) ELSE [op[r] EXCEPT !.todo = rest]
<1>1. op[r].at = "signal" /\ op' = [op EXCEPT ![r] = v] /\ UNCHANGED <<risk, redis, tokens, allowed>>
  BY DEF RecordFraudEvent, Signalling, Answered, Goto
<1>2. /\ op[r] \in Op /\ op[r].sigs # <<>> /\ op[r].todo \subseteq Commands /\ rest \in SUBSET op[r].todo
  BY <1>0, <1>1, RequestFields DEF RiskIInv, SignalsWait
<1>3. op' \in [Requests -> {Idle} \cup Op] /\ NoUnexplainedRisk' /\ SignalsWait' /\ ReadsAreExplained'
  <2>1. CASE "write" \in rest
    <3>1. v = [op[r] EXCEPT !.todo = rest]
      BY <2>1
    <3> HIDE DEF rest, v
    <3>2. v \in Op /\ v.at = "signal" /\ v.user = op[r].user /\ v.seen = op[r].seen /\ v.sigs = op[r].sigs /\ v.todo = rest
      BY <1>1, <1>2, <3>1 DEF Op
    <3> QED
      BY <1>1, <1>2, <3>2, PartAnswered
  <2>2. CASE "write" \notin rest
    <3>1. v = (IF rest = {} THEN After(r, Tail(op[r].sigs), op[r].then) ELSE [op[r] EXCEPT !.todo = rest])
      OBVIOUS
    <3> HIDE DEF rest, v
    <3>2. v \in {Idle} \cup Op /\ v.at \in {"idle", "inspect", "signal"} /\ Quiet(v)
      BY <1>1, <1>2, <2>2, <3>1, GoesOn
    <3> QED
      BY <1>1, <3>2, RequestMoveSafe
  <2> QED
    BY <2>1, <2>2
<1>4. RiskTypeOK'
  BY <1>0, <1>1, <1>3 DEF RiskTypeOK, risk, redis
<1> QED
  BY <1>3, <1>4 DEF RiskIInv

\* adjustRisk reads the profile: what the points of the signal would make of the
\* score it read is explained by the signals raised.
LEMMA ReadRiskSafe == ASSUME RiskIInv, UNCHANGED scenario, NEW r \in Requests, ReadRisk(r) PROVE RiskIInv'
<1>0. RiskTypeOK
  BY DEF RiskIInv
<1> DEFINE u == op[r].user
           sig == Head(op[r].sigs)
           todo == (op[r].todo \ {"read"}) \cup {"write"}
           v == [op[r] EXCEPT !.todo = todo, !.seen = profile[u]]
<1>1. /\ op[r].at = "signal" /\ raised' = [raised EXCEPT ![u] = clampRiskScore(@ + Points[sig])]
      /\ suspected' = IF IsBot(sig) THEN suspected \cup {u} ELSE suspected
      /\ op' = [op EXCEPT ![r] = v]
      /\ UNCHANGED <<profile, redis, tokens, allowed>>
  BY DEF ReadRisk, Signalling, Goto
<1>2. op[r] \in Op /\ u \in Players /\ op[r].sigs \in Seq(Signal)
  BY <1>0, <1>1, RequestFields
<1>3. op[r].sigs # <<>>
  BY <1>1 DEF RiskIInv, SignalsWait
<1>4. sig \in Signal /\ Points[sig] \in Nat
  BY <1>2, <1>3, HeadTailProperties, RiskNumbers
<1>5. profile[u] \in Profile /\ profile[u].score \in Nat
  BY <1>0, <1>2, RiskNumbers DEF RiskTypeOK, Profile
<1>6. v \in Op /\ v.at = "signal" /\ v.user = u /\ v.seen = profile[u] /\ v.sigs = op[r].sigs
  <2>1. todo \subseteq Commands
    BY <1>0, <1>1, RequestFields DEF Commands
  <2> HIDE DEF todo
  <2> QED
    BY <1>1, <1>2, <1>5, <2>1 DEF Op
<1> HIDE DEF v, sig, u
<1>7. \A x \in Players : raised[x] \in Nat /\ raised[x] <= MaxScore
  BY <1>0, RiskNumbers DEF RiskTypeOK
<1> DEFINE sum == raised[u] + Points[sig]
<1>8. sum \in Nat /\ raised[u] <= sum
  BY <1>2, <1>4, <1>7
<1>9. raised' = [raised EXCEPT ![u] = clampRiskScore(sum)]
  BY <1>1
<1>10. clampRiskScore(sum) \in Score /\ (clampRiskScore(sum) = sum \/ clampRiskScore(sum) = MaxScore)
  BY <1>8, ClampedScore
<1>11. raised' \in [Players -> Score] /\ raised'[u] = clampRiskScore(sum)
       /\ \A x \in Players : raised[x] <= raised'[x]
  <2>1. raised \in [Players -> Score]
    BY <1>0 DEF RiskTypeOK, Score
  <2>2. raised[u] <= clampRiskScore(sum)
    BY <1>2, <1>7, <1>8, <1>10
  <2> HIDE DEF sum
  <2>3. raised' \in [Players -> Score] /\ raised'[u] = clampRiskScore(sum)
    BY <1>2, <1>9, <1>10, <2>1
  <2>4. \A x \in Players : raised'[x] = IF x = u THEN clampRiskScore(sum) ELSE raised[x]
    BY <1>9, <2>1
  <2> QED
    BY <1>7, <2>2, <2>3, <2>4
<1>12. LogGrows
  BY <1>11 DEF LogGrows
<1>13. NowExplained(u, profile[u].score + Points[sig])
  <2>1. Explained(u, profile[u].score)
    BY <1>2 DEF RiskIInv, NoUnexplainedRisk
  <2>2. InitScore[u] \in Nat
    BY <1>0, <1>2, InitScoreTyped, RiskNumbers DEF Score
  <2>3. CASE raised'[u] = MaxScore
    BY <2>3 DEF NowExplained
  <2>4. CASE raised'[u] # MaxScore
    <3>1. raised'[u] = raised[u] + Points[sig]
      BY <1>10, <1>11, <2>4
    <3>2. raised[u] # MaxScore
      BY <1>2, <1>4, <1>7, <1>8, <1>10, <1>11, <2>4, RiskNumbers DEF Score
    <3>3. profile[u].score <= InitScore[u] + raised[u]
      BY <2>1, <3>2 DEF Explained
    <3> HIDE DEF InitScore
    <3>4. profile[u].score + Points[sig] <= InitScore[u] + raised'[u]
      BY <1>2, <1>4, <1>5, <1>7, <2>2, <3>1, <3>3
    <3> QED
      BY <3>4 DEF NowExplained
  <2> QED
    BY <2>3, <2>4
<1>14. v.seen.score + Points[Head(v.sigs)] = profile[u].score + Points[sig]
  BY <1>6 DEF sig
<1>15. op' \in [Requests -> {Idle} \cup Op] /\ SignalsWait' /\ ReadsAreExplained'
  BY <1>1, <1>3, <1>6, <1>12, <1>13, <1>14, RequestMoves
<1>16. NoUnexplainedRisk'
  <2>1. ASSUME NEW x \in Players PROVE NowExplained(x, profile'[x].score)
    <3>1. profile[x].score \in Nat /\ Explained(x, profile[x].score)
      BY <1>0, RiskNumbers DEF RiskTypeOK, Profile, RiskIInv, NoUnexplainedRisk
    <3> QED
      BY <1>0, <1>1, <1>12, <3>1, StaysExplained
  <2> QED
    BY <1>0, <1>12, <2>1, ScoresStayExplained
<1>17. suspected' \subseteq Players
  BY <1>0, <1>1, <1>2 DEF RiskTypeOK
<1>18. RiskTypeOK'
  BY <1>0, <1>1, <1>11, <1>15, <1>17 DEF RiskTypeOK, redis, Score
<1> QED
  BY <1>15, <1>16, <1>18 DEF RiskIInv

\* adjustRisk writes what follows from the profile it read, decayed.
LEMMA AdjustRiskSafe == ASSUME RiskIInv, UNCHANGED scenario, NEW r \in Requests, AdjustRisk(r) PROVE RiskIInv'
<1>0. RiskTypeOK
  BY DEF RiskIInv
<1> DEFINE u == op[r].user
           p == op[r].seen
           sig == Head(op[r].sigs)
           s == NextScore(p, profile[u], Points[sig])
           w == [Written(profile[u], s) EXCEPT !.bot = p.bot \/ IsBot(sig)]
           rest == op[r].todo \ {"write"}
           v == IF rest = {} THEN After(r, Tail(op[r].sigs), op[r].then) ELSE [op[r] EXCEPT !.todo = rest]
<1>1. /\ op[r].at = "signal" /\ Writing(op[r]) /\ op' = [op EXCEPT ![r] = v]
      /\ UNCHANGED <<raised, suspected, redis, tokens, allowed>>
  BY DEF AdjustRisk, Signalling, Writing, Answered, Goto
<1>2. op[r] \in Op /\ u \in Players /\ p \in Profile /\ op[r].sigs \in Seq(Signal) /\ op[r].then \in {"idle", "inspect"}
  BY <1>0, <1>1, RequestFields
<1>p. profile' = [profile EXCEPT ![u] = w]
  BY <1>0, <1>2 DEF AdjustRisk, RiskTypeOK
<1>3. op[r].sigs # <<>>
  BY <1>1 DEF RiskIInv, SignalsWait
<1>4. sig \in Signal /\ Points[sig] \in Nat /\ Tail(op[r].sigs) \in Seq(Signal)
  BY <1>2, <1>3, HeadTailProperties, RiskNumbers
<1>5. v \in {Idle} \cup Op /\ v.at \in {"idle", "inspect", "signal"} /\ Quiet(v)
  <2>1. v = (IF rest = {} THEN After(r, Tail(op[r].sigs), op[r].then) ELSE [op[r] EXCEPT !.todo = rest])
    OBVIOUS
  <2>2. rest \in SUBSET op[r].todo /\ "write" \notin rest
    OBVIOUS
  <2> HIDE DEF rest, v
  <2> QED
    BY <1>1, <2>1, <2>2, GoesOn
<1>6. Explained(u, p.score + Points[sig])
  BY <1>1 DEF RiskIInv, ReadsAreExplained, Signalling, Writing
<1>7. profile[u] \in Profile
  BY <1>0, <1>2 DEF RiskTypeOK
<1>8. applyDecay(p) \in Nat /\ applyDecay(p) <= p.score /\ p.score \in Nat
  BY <1>2, DecayLowers, RiskNumbers DEF Profile, Score
<1>9. s \in Score /\ s <= p.score + Points[sig]
  <2> DEFINE n == applyDecay(p) + Points[sig]
  <2>1. n \in Nat /\ n <= p.score + Points[sig]
    BY <1>4, <1>8
  <2>2. s = clampRiskScore(n)
    BY DEF NextScore
  <2>3. clampRiskScore(n) \in Score /\ clampRiskScore(n) <= n
    BY <2>1, ClampedScore
  <2> HIDE DEF n, s
  <2>4. s \in Nat
    BY <2>2, <2>3, RiskNumbers DEF Score
  <2> QED
    BY <1>4, <1>8, <2>1, <2>2, <2>3, <2>4
<1> HIDE DEF s
<1>10. w \in Profile /\ w.score = s
  <2> DEFINE b == p.bot \/ IsBot(sig)
             x == Written(profile[u], s)
  <2>1. b \in BOOLEAN
    BY DEF IsBot
  <2>2. x \in Profile /\ x.score = s
    BY <1>7, <1>9, WrittenProfile
  <2>3. w = [x EXCEPT !.bot = b]
    OBVIOUS
  <2> HIDE DEF b, x, w
  <2> QED
    BY <2>1, <2>2, <2>3 DEF Profile
<1> HIDE DEF w, v
<1>11. LogGrows
  BY <1>0, <1>1, NothingLogged
<1>12. op' \in [Requests -> {Idle} \cup Op] /\ SignalsWait' /\ ReadsAreExplained'
  BY <1>1, <1>5, <1>11, RequestMoves DEF Quiet, Writing
<1>13. ASSUME NEW x \in Players PROVE NowExplained(x, profile'[x].score)
  <2>1. CASE x = u
    <3>1. profile'[x] = w
      BY <1>0, <1>2, <1>p, <2>1 DEF RiskTypeOK
    <3> DEFINE n == p.score + Points[sig]
    <3>2. n \in Nat /\ s \in Nat /\ s <= n
      BY <1>4, <1>8, <1>9, RiskNumbers DEF Score
    <3>3. Explained(u, n)
      BY <1>6
    <3> HIDE DEF n
    <3>4. NowExplained(u, n)
      BY <1>0, <1>2, <1>11, <3>2, <3>3, StaysExplained
    <3>5. NowExplained(u, s)
      BY <1>0, <1>2, <1>11, <3>2, <3>4, LessIsExplained
    <3> QED
      BY <1>10, <2>1, <3>1, <3>5
  <2>2. CASE x # u
    <3>1. profile'[x] = profile[x]
      BY <1>0, <1>p, <2>2 DEF RiskTypeOK
    <3>2. profile[x].score \in Nat /\ Explained(x, profile[x].score)
      BY <1>0, RiskNumbers DEF RiskTypeOK, Profile, RiskIInv, NoUnexplainedRisk
    <3> QED
      BY <1>0, <1>11, <3>1, <3>2, StaysExplained
  <2> QED
    BY <2>1, <2>2
<1>14. NoUnexplainedRisk'
  BY <1>0, <1>11, <1>13, ScoresStayExplained
<1>15. profile' \in [Players -> Profile]
  BY <1>0, <1>p, <1>10 DEF RiskTypeOK
<1>16. RiskTypeOK'
  BY <1>0, <1>1, <1>11, <1>12, <1>15 DEF RiskTypeOK, redis, LogGrows, Score
<1> QED
  BY <1>12, <1>14, <1>16 DEF RiskIInv

LEMMA FailSafe == ASSUME RiskIInv, UNCHANGED scenario, NEW r \in Requests, Fail(r) PROVE RiskIInv'
<1>1. op' = [op EXCEPT ![r] = Idle] /\ UNCHANGED <<risk, redis, tokens>>
      /\ allowed.fail > 0 /\ allowed' = [allowed EXCEPT !.fail = @ - 1]
  BY DEF Fail, Fails, Goto
<1>2. allowed' \in [fail : Nat, control : Nat, forget : Nat]
  BY <1>1 DEF RiskIInv, RiskTypeOK
<1>3. op' \in [Requests -> {Idle} \cup Op] /\ NoUnexplainedRisk' /\ SignalsWait' /\ ReadsAreExplained'
  BY <1>1, IdleIsIdle, RequestMoveSafe DEF Quiet
<1>4. RiskTypeOK'
  BY <1>1, <1>2, <1>3 DEF RiskIInv, RiskTypeOK, risk, redis
<1> QED
  BY <1>3, <1>4 DEF RiskIInv

\* One part of a signal fails: what the other part will write is explained still.
LEMMA RejectSafe == ASSUME RiskIInv, UNCHANGED scenario, NEW r \in Requests, Reject(r) PROVE RiskIInv'
<1>0. RiskTypeOK
  BY DEF RiskIInv
<1>1. /\ op[r].at = "signal" /\ UNCHANGED <<risk, redis, tokens>>
      /\ allowed.fail > 0 /\ allowed' = [allowed EXCEPT !.fail = @ - 1]
  BY DEF Reject, Fails
<1>2. allowed' \in [fail : Nat, control : Nat, forget : Nat]
  BY <1>0, <1>1 DEF RiskTypeOK
<1>3. PICK rest \in SUBSET op[r].todo :
         op' = [op EXCEPT ![r] = IF rest = {} THEN Idle
                  ELSE [op[r] EXCEPT !.todo = rest, !.sigs = <<Head(@)>>, !.then = "idle"]]
  BY DEF Reject, Goto
<1>4. /\ op[r] \in Op /\ op[r].sigs \in Seq(Signal) /\ op[r].sigs # <<>> /\ op[r].todo \subseteq Commands
  BY <1>0, <1>1, RequestFields DEF RiskIInv, SignalsWait
<1>5. op' \in [Requests -> {Idle} \cup Op] /\ NoUnexplainedRisk' /\ SignalsWait' /\ ReadsAreExplained'
  <2>1. CASE rest = {}
    <3>1. op' = [op EXCEPT ![r] = Idle]
      BY <1>3, <2>1
    <3> QED
      BY <1>1, <3>1, IdleIsIdle, RequestMoveSafe DEF Quiet
  <2>2. CASE rest # {}
    <3> DEFINE h == Head(op[r].sigs)
               v == [op[r] EXCEPT !.todo = rest, !.sigs = <<h>>, !.then = "idle"]
    <3>1. op' = [op EXCEPT ![r] = v]
      BY <1>3, <2>2
    <3>2. <<h>> \in Seq(Signal) /\ <<h>> # <<>> /\ Head(<<h>>) = h
      <4>1. h \in Signal
        BY <1>4, HeadTailProperties
      <4> HIDE DEF h
      <4> QED
        BY <4>1, SignalSeq
    <3> HIDE DEF h
    <3>3. /\ v \in Op /\ v.at = "signal" /\ v.user = op[r].user /\ v.seen = op[r].seen
          /\ v.sigs = <<h>> /\ v.todo = rest
      BY <1>1, <1>3, <1>4, <3>2 DEF Op
    <3> HIDE DEF v
    <3>4. v.sigs # <<>> /\ Head(v.sigs) = Head(op[r].sigs)
      BY <3>2, <3>3 DEF h
    <3> QED
      BY <1>1, <1>3, <3>1, <3>3, <3>4, PartAnswered
  <2> QED
    BY <2>1, <2>2
<1>6. RiskTypeOK'
  BY <1>0, <1>1, <1>2, <1>5 DEF RiskTypeOK, risk, redis
<1> QED
  BY <1>5, <1>6 DEF RiskIInv

-----------------------------------------------------------------------------
(* Redis, time and the administrator *)

LEMMA ExpireSafe == ASSUME RiskIInv, UNCHANGED scenario, NEW k \in Keys, Expire(k) PROVE RiskIInv'
<1>0. RiskTypeOK
  BY DEF RiskIInv
<1>1. counter' = [counter EXCEPT ![k] = [n |-> 0, ttl |-> FALSE]] /\ UNCHANGED <<risk, seenBy, tokens, op, allowed>>
  BY DEF Expire
<1>2. UNCHANGED <<profile, raised, suspected, seenBy, tokens, op, allowed, scenario>>
  BY <1>1 DEF risk
<1>3. counter' \in [Keys -> [n : Nat, ttl : BOOLEAN]] /\ \A j \in Keys : counter'[j].n <= Limit(j) + 1
  <2> DEFINE z == [n |-> 0, ttl |-> FALSE]
  <2>1. z \in [n : Nat, ttl : BOOLEAN] /\ z.n = 0
    OBVIOUS
  <2>2. \A j \in Keys : counter'[j] = IF j = k THEN z ELSE counter[j]
    BY <1>0, <1>1 DEF RiskTypeOK
  <2>3. Limit(k) + 1 >= 0
    <3>1. k.of \in {"user", "soft", "socket", "ip", "auth"}
      BY DEF Keys
    <3>2. Limit(k) \in Nat
      BY <3>1, FraudAssumption DEF FraudAssumption, Limit
    <3> QED
      BY <3>2
  <2>4. counter' \in [Keys -> [n : Nat, ttl : BOOLEAN]]
    BY <1>0, <1>1, <2>1 DEF RiskTypeOK
  <2> HIDE DEF z
  <2> QED
    BY <1>0, <2>1, <2>2, <2>3, <2>4 DEF RiskTypeOK
<1>4. RiskTypeOK'
  BY <1>0, <1>2, <1>3 DEF RiskTypeOK
<1> QED
  BY <1>2, <1>4, NobodyMoves, ScoresDoNotRise DEF RiskIInv

LEMMA ForgetSafe == ASSUME RiskIInv, UNCHANGED scenario, NEW o \in Observed, Forget(o) PROVE RiskIInv'
<1>1. /\ allowed.forget > 0 /\ allowed' = [allowed EXCEPT !.forget = @ - 1]
      /\ seenBy' = [seenBy EXCEPT ![o] = {}] /\ UNCHANGED <<risk, counter, tokens, op>>
  BY DEF Forget
<1>2. UNCHANGED <<profile, raised, suspected, counter, tokens, op, scenario>>
  BY <1>1 DEF risk
<1>3. allowed' \in [fail : Nat, control : Nat, forget : Nat] /\ seenBy' \in [Observed -> SUBSET Players]
  BY <1>1 DEF RiskIInv, RiskTypeOK
<1>4. RiskTypeOK'
  BY <1>2, <1>3 DEF RiskIInv, RiskTypeOK
<1> QED
  BY <1>2, <1>4, NobodyMoves, ScoresDoNotRise DEF RiskIInv

LEMMA SocketWindowSafe == ASSUME RiskIInv, UNCHANGED scenario, NEW u \in Players, SocketWindow(u) PROVE RiskIInv'
<1>1. tokens' = [tokens EXCEPT ![u].over = TRUE] /\ UNCHANGED <<risk, redis, op, allowed>>
  BY DEF SocketWindow
<1>2. UNCHANGED <<profile, raised, suspected, counter, seenBy, op, allowed, scenario>>
  BY <1>1 DEF risk, redis
<1>3. tokens' \in [Players -> [n : 0 .. MaxTokens, over : BOOLEAN]]
  BY <1>1 DEF RiskIInv, RiskTypeOK
<1>4. RiskTypeOK'
  BY <1>2, <1>3 DEF RiskIInv, RiskTypeOK
<1> QED
  BY <1>2, <1>4, NobodyMoves, ScoresDoNotRise DEF RiskIInv

LEMMA HalfHourSafe == ASSUME RiskIInv, UNCHANGED scenario, HalfHour PROVE RiskIInv'
<1>1. /\ profile' = [u \in Players |-> [profile[u] EXCEPT !.age = Smaller(@ + 1, 2 * MaxDecay)]]
      /\ UNCHANGED <<raised, suspected, redis, tokens, op, allowed, scenario>>
  BY DEF HalfHour
<1>2. ASSUME NEW u \in Players
      PROVE  profile'[u] \in Profile /\ profile'[u].score = profile[u].score
  <2> DEFINE a == Smaller(profile[u].age + 1, 2 * MaxDecay)
  <2>1. profile[u] \in Profile /\ profile[u].age \in 0 .. 2 * MaxDecay
    BY DEF RiskIInv, RiskTypeOK, Profile
  <2>2. a \in 0 .. 2 * MaxDecay
    BY <2>1, RiskNumbers DEF Smaller
  <2>3. profile'[u] = [profile[u] EXCEPT !.age = a]
    BY <1>1
  <2> HIDE DEF a
  <2> QED
    BY <2>1, <2>2, <2>3 DEF Profile
<1>3. profile' \in [Players -> Profile]
  BY <1>1, <1>2
<1>4. RiskTypeOK'
  BY <1>1, <1>3 DEF RiskIInv, RiskTypeOK, redis
<1> QED
  BY <1>1, <1>2, <1>4, NobodyMoves, ScoresDoNotRise DEF RiskIInv

LEMMA SetRiskControlsSafe == ASSUME RiskIInv, UNCHANGED scenario, NEW u \in Players, SetRiskControls(u) PROVE RiskIInv'
<1>1. /\ allowed.control > 0 /\ allowed' = [allowed EXCEPT !.control = @ - 1]
      /\ profile' = [profile EXCEPT ![u].age = 0]
      /\ UNCHANGED <<raised, suspected, redis, tokens, op, scenario>>
  BY DEF SetRiskControls
<1>2. ASSUME NEW x \in Players
      PROVE  profile'[x] \in Profile /\ profile'[x].score = profile[x].score
  <2>1. profile[x] \in Profile /\ 0 \in 0 .. 2 * MaxDecay
    BY RiskNumbers DEF RiskIInv, RiskTypeOK
  <2>2. profile'[x] = profile[x] \/ profile'[x] = [profile[x] EXCEPT !.age = 0]
    BY <1>1 DEF RiskIInv, RiskTypeOK
  <2> QED
    BY <2>1, <2>2 DEF Profile
<1>3. profile' \in [Players -> Profile]
  BY <1>1, <1>2 DEF RiskIInv, RiskTypeOK
<1>4. allowed' \in [fail : Nat, control : Nat, forget : Nat]
  BY <1>1 DEF RiskIInv, RiskTypeOK
<1>5. RiskTypeOK'
  BY <1>1, <1>3, <1>4 DEF RiskIInv, RiskTypeOK, redis
<1> QED
  BY <1>1, <1>2, <1>5, NobodyMoves, ScoresDoNotRise DEF RiskIInv

-----------------------------------------------------------------------------
(* The theorems *)

LEMMA RiskInitSafe == ASSUME RiskInit PROVE RiskIInv
<1>1. scenario \in Scenarios /\ scenario \in Scenario
  BY FraudAssumption DEF RiskInit, FraudAssumption
<1>2. \A u \in Players : InitScore[u] = scenario.score
  BY DEF InitScore
<1>3. scenario.score \in 0 .. MaxScore
  BY <1>1 DEF Scenario
<1>4. profile \in [Players -> Profile] /\ \A u \in Players : profile[u].score = scenario.score
  <2>1. ASSUME NEW u \in Players PROVE profile[u] \in Profile /\ profile[u].score = scenario.score
    <3> DEFINE b == InitScore[u] >= BlockAt
    <3>1. profile[u] = [score |-> scenario.score, blocked |-> b, bot |-> FALSE, age |-> 0]
      BY <1>2 DEF RiskInit
    <3>2. b \in BOOLEAN /\ 0 \in 0 .. 2 * MaxDecay
      BY <1>2, <1>3, RiskNumbers
    <3> HIDE DEF b
    <3> QED
      BY <1>3, <3>1, <3>2 DEF Profile
  <2>2. profile = [u \in Players |-> profile[u]]
    BY DEF RiskInit
  <2> QED
    BY <2>1, <2>2
<1>5. \A k \in Keys : Limit(k) \in Nat
  BY FraudAssumption DEF FraudAssumption, Limit, Keys
<1>6. counter \in [Keys -> [n : Nat, ttl : BOOLEAN]] /\ \A k \in Keys : counter[k].n <= Limit(k) + 1
  BY <1>5 DEF RiskInit
<1>7. allowed \in [fail : Nat, control : Nat, forget : Nat]
  BY <1>1 DEF RiskInit, Bounds, Scenario
<1>8. RiskTypeOK
  BY <1>1, <1>4, <1>6, <1>7, RiskNumbers DEF RiskInit, RiskTypeOK
<1>9. NoUnexplainedRisk
  BY <1>2, <1>3, <1>4, RiskNumbers DEF NoUnexplainedRisk, Explained, RiskInit
<1>10. SignalsWait /\ ReadsAreExplained
  BY IdleIsIdle DEF RiskInit, SignalsWait, ReadsAreExplained, Signalling
<1> QED
  BY <1>8, <1>9, <1>10 DEF RiskIInv

LEMMA RiskStepSafe == ASSUME RiskIInv, [RiskNext]_riskVars PROVE RiskIInv'
<1>1. CASE UNCHANGED riskVars
  BY <1>1 DEF riskVars, riskState, risk, redis, RiskIInv, RiskTypeOK, NoUnexplainedRisk, SignalsWait,
              ReadsAreExplained, Signalling, Explained, InitScore
<1>2. CASE RiskNext
  <2>1. UNCHANGED scenario /\ scenario.requests \subseteq Requests /\ scenario.users \subseteq Players
    <3>1. scenario \in Scenario
      BY FraudAssumption DEF FraudAssumption, RiskIInv, RiskTypeOK
    <3> QED
      BY <1>2, <3>1 DEF RiskNext, Scenario
  <2>2. ASSUME NEW r \in scenario.requests, Request(r) \/ Step(r) \/ Fail(r) \/ Reject(r) PROVE RiskIInv'
    <3>1. r \in Requests
      BY <2>1
    <3>2. CASE Request(r)
      BY <2>1, <3>1, <3>2, RequestSafe DEF Request
    <3>3. CASE Step(r)
      BY <2>1, <3>1, <3>3, GateSafe, IncrSafe, DecideBetSafe, DecideLoginSafe, DecideSocketSafe,
         ObserveSafe, InspectSafe, RecordSafe, ReadRiskSafe, AdjustRiskSafe DEF Step
    <3>4. CASE Fail(r)
      BY <2>1, <3>1, <3>4, FailSafe
    <3>5. CASE Reject(r)
      BY <2>1, <3>1, <3>5, RejectSafe
    <3> QED
      BY <2>2, <3>2, <3>3, <3>4, <3>5
  <2>3. ASSUME NEW u \in scenario.users, SocketWindow(u) \/ SetRiskControls(u) PROVE RiskIInv'
    BY <2>1, <2>3, SocketWindowSafe, SetRiskControlsSafe
  <2> QED
    BY <1>2, <2>1, <2>2, <2>3, ExpireSafe, ForgetSafe, HalfHourSafe DEF RiskNext
<1> QED
  BY <1>1, <1>2

\* In every behaviour a score, and every score a request is about to write back,
\* is explained by the signals that were raised, whichever of their parts failed.
THEOREM RiskInvariant == RiskSpec => []RiskIInv
<1>1. RiskInit => RiskIInv
  BY RiskInitSafe
<1>2. RiskIInv /\ [RiskNext]_riskVars => RiskIInv'
  BY RiskStepSafe
<1> QED
  BY <1>1, <1>2, PTL DEF RiskSpec

\* No interleaving of adjustRisk and decayRisk counts a signal twice or lets a
\* decay raise a score, also where a part of a signal fails or outlives its
\* request: no user is held at a risk that no signal accounts for.
THEOREM RiskIsExplained == RiskSpec => []NoUnexplainedRisk
<1>1. RiskIInv => NoUnexplainedRisk
  BY DEF RiskIInv
<1> QED
  BY <1>1, RiskInvariant, PTL
=============================================================================
