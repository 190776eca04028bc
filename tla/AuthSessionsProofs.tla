-------------------------- MODULE AuthSessionsProofs --------------------------
(***************************************************************************)
(* AuthSessions for any users, browsers, tabs, callers and sessions, and   *)
(* any number of failures, bans, logouts and expiries: a login never has   *)
(* two sessions that work, and an account never has two signup bonuses.    *)
(*                                                                         *)
(* The argument is the row lock.  A rotation holds the lock of the session *)
(* it consumes, so nothing else ends or consumes that session before it    *)
(* commits (RotationsAreApart), and the session it stores takes the place  *)
(* of one that was the only live session of its login.                     *)
(***************************************************************************)
EXTENDS AuthSessions, TLAPS

USE AuthAssumption

SessionRow == [user : Users \cup {None}, root : Ref, state : {"FREE", "ACTIVE", "REVOKED"}]

-----------------------------------------------------------------------------
(* Type correctness *)

LEMMA IdleIsOp == Idle \in Op /\ Idle.at = "idle"
  BY DEF Idle, Op, Step, Purpose, Ref

LEMMA ClientOf ==
    ASSUME NEW c \in Callers
    PROVE  TabOf[c] \in Tabs /\ BrowserFor(c) \in Browsers /\ UserFor(c) \in Users
  BY DEF BrowserFor, UserFor

LEMMA SpendType == ASSUME TypeOK, NEW e \in Event, Spend(e) PROVE left' \in [Event -> Nat]
<1>1. left \in [Event -> Nat] /\ left[e] > 0 /\ left' = [left EXCEPT ![e] = left[e] - 1]
  BY DEF TypeOK, Spend
<1>2. left[e] - 1 \in Nat
  BY <1>1
<1> QED
  BY <1>1, <1>2

LEMMA GoesType == ASSUME TypeOK, NEW c \in Callers, NEW o \in Op, Goes(c, o) PROVE op' \in [Callers -> Op]
  BY DEF TypeOK, Goes

LEMMA AtIsOp == ASSUME NEW o \in Op, NEW at \in Step PROVE [o EXCEPT !.at = at] \in Op
  BY DEF Op

LEMMA MovesType ==
    ASSUME TypeOK, NEW c \in Callers, NEW at \in Step, Moves(c, at) PROVE op' \in [Callers -> Op]
<1>1. op[c] \in Op /\ [op[c] EXCEPT !.at = at] \in Op
  BY AtIsOp DEF TypeOK
<1> QED
  BY <1>1 DEF TypeOK, Moves

LEMMA RevokedType ==
    ASSUME TypeOK, NEW S, sess' = Revoked(S) PROVE sess' \in [Sessions -> SessionRow]
<1>1. \A s \in Sessions : sess[s] \in SessionRow /\ [sess[s] EXCEPT !.state = "REVOKED"] \in SessionRow
  BY DEF TypeOK, SessionRow
<1> QED
  BY <1>1 DEF Revoked

LEMMA StoredType ==
    ASSUME TypeOK, NEW s \in Sessions, NEW u \in Users \cup {None}, NEW r \in Ref
    PROVE  Stored(s, u, r) \in SessionRow
  BY DEF Stored, SessionRow

LEMMA LiveType == \A u : Live(u) \in SUBSET Sessions
  BY DEF Live

\* What the refresh of a tab leaves its caller with.
LEMMA RefreshSessionType ==
    ASSUME TypeOK, NEW c \in Callers, NEW o \in Op, RefreshSession(c, o)
    PROVE  /\ op' \in [Callers -> Op] /\ cookie' = cookie /\ token' = token
           /\ refreshRequest' \in [Tabs -> Callers \cup {None}]
<1>1. {"waiting", "refresh"} \subseteq Step
  BY DEF Step
<1>2. cookie[BrowserFor(c)] \in Ref
  BY ClientOf DEF TypeOK
<1>3. /\ [o EXCEPT !.at = "waiting"] \in Op
      /\ [o EXCEPT !.at = "refresh", !.tok = cookie[BrowserFor(c)]] \in Op
  BY <1>1, <1>2 DEF Op
<1>4. CASE Shared(TabOf[c])
  BY <1>3, <1>4, GoesType DEF RefreshSession, client, TypeOK
<1>5. CASE ~Shared(TabOf[c])
  <2>1. op' \in [Callers -> Op] /\ cookie' = cookie /\ token' = token
    BY <1>3, <1>5, GoesType DEF RefreshSession
  <2>2. refreshRequest' = [refreshRequest EXCEPT ![TabOf[c]] = c]
    BY <1>5 DEF RefreshSession
  <2> QED
    BY <2>1, <2>2, ClientOf DEF TypeOK
<1> QED
  BY <1>4, <1>5

LEMMA ResumedType == ASSUME NEW o \in Op, NEW s \in Ref PROVE Resumed(o, s) \in Op
  BY IdleIsOp DEF Resumed, Op, Step, Idle

LEMMA InitType == Init => TypeOK
<1> SUFFICES ASSUME Init PROVE TypeOK
  OBVIOUS
<1>1. sess \in [Sessions -> SessionRow]
  BY DEF Init, SessionRow, Ref
<1>2. op \in [Callers -> Op]
  BY IdleIsOp DEF Init
<1>3. /\ account \in [Users -> {"NONE", "ACTIVE", "SUSPENDED"}] /\ wallets \in [Users -> Nat]
      /\ expired \subseteq Sessions /\ aged \subseteq Sessions /\ left \in [Event -> Nat]
  BY DEF Init
<1>4. /\ cookie \in [Browsers -> Ref] /\ token \in [Tabs -> Ref]
      /\ refreshRequest \in [Tabs -> Callers \cup {None}]
  BY DEF Init, Ref
<1>5. ban \in [Users -> [open : BOOLEAN, snap : SUBSET Sessions]]
  BY DEF Init
<1> QED
  BY <1>1, <1>2, <1>3, <1>4, <1>5 DEF TypeOK, SessionRow

\* The sessions table of the steps that create a session.
LEMMA CreateSessionType ==
    ASSUME TypeOK, NEW c \in Callers, CreateSession(c)
    PROVE  sess' \in [Sessions -> SessionRow] /\ op' \in [Callers -> Op]
<1>1. PICK s \in Fresh : /\ sess' = [sess EXCEPT ![s] = Stored(s, UserFor(c), s)]
                         /\ Goes(c, [op[c] EXCEPT !.at = "answer", !.tok = s])
  BY DEF CreateSession
<1>2. s \in Sessions /\ s \in Ref /\ op[c] \in Op
  BY DEF Fresh, Free, Ref, TypeOK
<1>3. Stored(s, UserFor(c), s) \in SessionRow
  BY <1>2, ClientOf, StoredType
<1>4. [op[c] EXCEPT !.at = "answer", !.tok = s] \in Op
  BY <1>2 DEF Op, Step
<1> QED
  BY <1>1, <1>2, <1>3, <1>4, GoesType DEF TypeOK, SessionRow

LEMMA RotateCommitType ==
    ASSUME TypeOK, RotationsAreApart, NEW c \in Callers, RotateCommit(c)
    PROVE  sess' \in [Sessions -> SessionRow] /\ op' \in [Callers -> Op]
<1> DEFINE s == op[c].tok
<1>1. PICK n \in Fresh : /\ sess' = [sess EXCEPT ![s].state = "REVOKED", ![n] = Stored(n, sess[s].user, sess[s].root)]
                         /\ Goes(c, [op[c] EXCEPT !.at = "answer", !.tok = n])
  BY DEF RotateCommit, Consumed
<1>2. n \in Sessions /\ n \in Ref /\ op[c] \in Op /\ s \in Sessions
  BY DEF Fresh, Free, Ref, TypeOK, RotateCommit, RotationsAreApart
<1>3. sess \in [Sessions -> SessionRow] /\ sess[s] \in SessionRow /\ [sess[s] EXCEPT !.state = "REVOKED"] \in SessionRow
  <2>1. sess \in [Sessions -> SessionRow]
    BY DEF TypeOK, SessionRow
  <2>2. \A x \in SessionRow : [x EXCEPT !.state = "REVOKED"] \in SessionRow
    BY DEF SessionRow
  <2> HIDE DEF s
  <2> QED
    BY <1>2, <2>1, <2>2
<1>4. Stored(n, sess[s].user, sess[s].root) \in SessionRow
  BY <1>2, <1>3, StoredType DEF SessionRow
<1>5. [op[c] EXCEPT !.at = "answer", !.tok = n] \in Op
  BY <1>2 DEF Op, Step
<1> HIDE DEF s
<1> QED
  BY <1>1, <1>2, <1>3, <1>4, <1>5, GoesType

\* Every step keeps every variable in its type.
LEMMA StepType == ASSUME TypeOK, RotationsAreApart, TokensNameSessions, [Next]_vars PROVE TypeOK'
<1> USE DEF client
<1>s. Step = {"idle", "registering", "entering", "request", "denied", "waiting", "refresh",
              "rotating", "revoking", "ousting", "answer", "failed", "bye"}
  BY DEF Step
<1>e. Event = {"fault", "ban", "logout", "logoutAll", "expire", "age", "call"}
  BY DEF Event
<1>o. \A c \in Callers : op[c] \in Op
  BY DEF TypeOK
<1>i. {Idle, [Idle EXCEPT !.at = "registering", !.for = "register"],
       [Idle EXCEPT !.at = "entering", !.for = "login"], [Idle EXCEPT !.for = "restore"]} \subseteq Op
  BY IdleIsOp DEF Idle, Op, Step, Purpose
<1>t. sess \in [Sessions -> SessionRow]
  BY DEF TypeOK, SessionRow
<1>1. ASSUME NEW c \in Callers, RegisterCheck(c) PROVE TypeOK'
  <2>1. op' \in [Callers -> Op] /\ left' \in [Event -> Nat]
    BY <1>1, <1>e, <1>i, GoesType, SpendType DEF RegisterCheck
  <2> QED
    BY <1>1, <2>1 DEF RegisterCheck, TypeOK
<1>2. ASSUME NEW c \in Callers, RegisterCommit(c) PROVE TypeOK'
  <2>1. op' \in [Callers -> Op]
    <3>1. CASE EmailFree(UserFor(c))
      BY <1>2, <1>s, <3>1, MovesType DEF RegisterCommit
    <3>2. CASE ~EmailFree(UserFor(c))
      BY <1>2, <1>i, <3>2, GoesType DEF RegisterCommit
    <3> QED
      BY <3>1, <3>2
  <2>2. account' \in [Users -> {"NONE", "ACTIVE", "SUSPENDED"}] /\ wallets' \in [Users -> Nat]
    <3>1. UserFor(c) \in Users
      BY ClientOf
    <3>2. /\ account \in [Users -> {"NONE", "ACTIVE", "SUSPENDED"}] /\ wallets \in [Users -> Nat]
          /\ wallets[UserFor(c)] + 1 \in Nat
      BY <3>1 DEF TypeOK
    <3>3. \/ UNCHANGED <<account, wallets>>
          \/ /\ account' = [account EXCEPT ![UserFor(c)] = "ACTIVE"]
             /\ wallets' = [wallets EXCEPT ![UserFor(c)] = wallets[UserFor(c)] + 1]
      BY <1>2 DEF RegisterCommit
    <3> QED
      BY <3>1, <3>2, <3>3
  <2> QED
    BY <1>2, <2>1, <2>2 DEF RegisterCommit, TypeOK
<1>3. ASSUME NEW c \in Callers, LoginCheck(c) PROVE TypeOK'
  <2>1. op' \in [Callers -> Op] /\ left' \in [Event -> Nat]
    BY <1>3, <1>e, <1>i, GoesType, SpendType DEF LoginCheck
  <2> QED
    BY <1>3, <2>1 DEF LoginCheck, TypeOK
<1>4. ASSUME NEW c \in Callers, CreateSession(c) PROVE TypeOK'
  BY <1>4, CreateSessionType DEF CreateSession, TypeOK, SessionRow
<1>5. ASSUME NEW c \in Callers, NEW for \in {"read", "logout", "logoutAll"}, Call(c, for) PROVE TypeOK'
  <2>1. token[TabOf[c]] \in Ref
    BY ClientOf DEF TypeOK
  <2>2. [Idle EXCEPT !.at = "request", !.for = for, !.tok = token[TabOf[c]]] \in Op
    BY <2>1 DEF Idle, Op, Step, Purpose
  <2>3. (IF for = "read" THEN "call" ELSE for) \in Event
    BY <1>e
  <2>4. op' \in [Callers -> Op] /\ left' \in [Event -> Nat]
    BY <1>5, <2>2, <2>3, GoesType, SpendType DEF Call
  <2> QED
    BY <1>5, <2>4 DEF Call, TypeOK
<1>6. ASSUME NEW c \in Callers, Serve(c) PROVE TypeOK'
  <2> DEFINE S == IF op[c].for = "logoutAll" THEN Live(UserFor(c)) ELSE {op[c].tok}
  <2>1. CASE ~Admitted(op[c].tok)
    <3>1. op' \in [Callers -> Op]
      BY <1>6, <1>s, <2>1, MovesType DEF Serve
    <3> QED
      BY <1>6, <3>1 DEF Serve, TypeOK
  <2>2. CASE Admitted(op[c].tok)
    <3>1. op[c].tok \in Sessions \/ op[c].tok = None
      BY <1>o DEF Op, Ref
    <3>2. Goes(c, Idle) \/ Goes(c, [op[c] EXCEPT !.at = "revoking", !.snap = S])
      BY <1>6, <2>2 DEF Serve
    <3>3. CASE Goes(c, Idle)
      <4>1. op' \in [Callers -> Op]
        BY <1>i, <3>3, GoesType
      <4> QED
        BY <1>6, <4>1 DEF Serve, TypeOK
    <3>4. CASE Goes(c, [op[c] EXCEPT !.at = "revoking", !.snap = S])
      <4>1. op[c].tok \in Sessions
        BY <1>6 DEF Serve, TokensNameSessions
      <4>2. S \in SUBSET Sessions
        BY <4>1, LiveType
      <4> HIDE DEF S
      <4>3. [op[c] EXCEPT !.at = "revoking", !.snap = S] \in Op
        BY <1>o, <1>s, <4>2 DEF Op
      <4>4. op' \in [Callers -> Op]
        BY <3>4, <4>3, GoesType
      <4> QED
        BY <1>6, <4>4 DEF Serve, TypeOK
    <3> QED
      BY <3>2, <3>3, <3>4
  <2> QED
    BY <2>1, <2>2
<1>7. ASSUME NEW c \in Callers, Denied(c) PROVE TypeOK'
  <2>1. CASE op[c].again
    <3>1. op' \in [Callers -> Op]
      BY <1>7, <1>i, <2>1, GoesType DEF Denied
    <3>2. token' \in [Tabs -> Ref]
      BY <1>7, <2>1, ClientOf DEF Denied, TypeOK, Ref
    <3> QED
      BY <1>7, <2>1, <3>1, <3>2 DEF Denied, TypeOK
  <2>2. CASE ~op[c].again
    <3>1. RefreshSession(c, op[c])
      BY <1>7, <2>2 DEF Denied
    <3>2. /\ op' \in [Callers -> Op] /\ cookie' = cookie /\ token' = token
          /\ refreshRequest' \in [Tabs -> Callers \cup {None}]
      BY <1>o, <3>1, RefreshSessionType
    <3> QED
      BY <1>7, <3>2 DEF Denied, TypeOK
  <2> QED
    BY <2>1, <2>2
<1>8. ASSUME NEW c \in Callers, Restore(c) PROVE TypeOK'
  <2>1. /\ op' \in [Callers -> Op] /\ cookie' = cookie /\ token' = token
        /\ refreshRequest' \in [Tabs -> Callers \cup {None}]
    BY <1>8, <1>i, RefreshSessionType DEF Restore
  <2>2. left' \in [Event -> Nat]
    BY <1>8, <1>e, SpendType DEF Restore
  <2> QED
    BY <1>8, <2>1, <2>2 DEF Restore, TypeOK
<1>9. ASSUME NEW c \in Callers, RefreshWithoutCookie(c) PROVE TypeOK'
  <2>1. op' \in [Callers -> Op]
    BY <1>9, <1>s, MovesType DEF RefreshWithoutCookie
  <2> QED
    BY <1>9, <2>1 DEF RefreshWithoutCookie, TypeOK
<1>10. ASSUME NEW c \in Callers, Consume(c) PROVE TypeOK'
  <2>1. op' \in [Callers -> Op]
    BY <1>10, <1>s, MovesType DEF Consume
  <2> QED
    BY <1>10, <2>1 DEF Consume, TypeOK
<1>11. ASSUME NEW c \in Callers, RotateCommit(c) PROVE TypeOK'
  BY <1>11, RotateCommitType DEF RotateCommit, TypeOK, SessionRow
<1>12. ASSUME NEW c \in Callers, RefuseRefresh(c) PROVE TypeOK'
  <2>1. op' \in [Callers -> Op] /\ sess' \in [Sessions -> SessionRow]
    BY <1>12, <1>s, MovesType, RevokedType DEF RefuseRefresh
  <2> QED
    BY <1>12, <2>1 DEF RefuseRefresh, TypeOK, SessionRow
<1>13. ASSUME NEW c \in Callers, RefuseExpired(c) PROVE TypeOK'
  <2>1. [op[c] EXCEPT !.at = "ousting", !.snap = Live(sess[op[c].tok].user)] \in Op
    BY <1>o, <1>s, LiveType DEF Op
  <2>2. op' \in [Callers -> Op]
    BY <1>13, <2>1, GoesType DEF RefuseExpired
  <2> QED
    BY <1>13, <2>2 DEF RefuseExpired, TypeOK
<1>14. ASSUME NEW c \in Callers, Revoke(c) PROVE TypeOK'
  <2>1. op' \in [Callers -> Op] /\ sess' \in [Sessions -> SessionRow]
    BY <1>14, <1>s, MovesType, RevokedType DEF Revoke
  <2> QED
    BY <1>14, <2>1 DEF Revoke, TypeOK, SessionRow
<1>15. ASSUME NEW c \in Callers, SignedIn(c) PROVE TypeOK'
  <2>1. op[c].tok \in Ref
    BY <1>o DEF Op
  <2>2. op' \in [Callers -> Op]
    BY <1>15, <1>i, GoesType DEF SignedIn
  <2>3. cookie' \in [Browsers -> Ref] /\ token' \in [Tabs -> Ref]
    BY <1>15, <2>1, ClientOf DEF SignedIn, TypeOK
  <2> QED
    BY <1>15, <2>2, <2>3 DEF SignedIn, TypeOK
<1>16. ASSUME NEW c \in Callers, Refreshed(c) PROVE TypeOK'
  <2>1. op[c].tok \in Ref
    BY <1>o DEF Op
  <2>2. \A d \in Callers : Resumed(op[d], op[c].tok) \in Op
    BY <1>o, <2>1, ResumedType
  <2>3. op' \in [Callers -> Op]
    BY <1>16, <1>o, <2>2 DEF Refreshed
  <2>4. cookie' \in [Browsers -> Ref] /\ token' \in [Tabs -> Ref]
    BY <1>16, <2>1, ClientOf DEF Refreshed, TypeOK
  <2>5. refreshRequest' \in [Tabs -> Callers \cup {None}]
    BY <1>16, ClientOf DEF Refreshed, TypeOK
  <2> QED
    BY <1>16, <2>3, <2>4, <2>5 DEF Refreshed, TypeOK
<1>17. ASSUME NEW c \in Callers, Failed(c) PROVE TypeOK'
  <2>1. op' \in [Callers -> Op]
    BY <1>17, <1>i, <1>o DEF Failed
  <2>2. token' \in [Tabs -> Ref]
    BY <1>17, ClientOf DEF Failed, TypeOK, Ref
  <2>3. refreshRequest' \in [Tabs -> Callers \cup {None}]
    BY <1>17, ClientOf DEF Failed, TypeOK
  <2> QED
    BY <1>17, <2>1, <2>2, <2>3 DEF Failed, TypeOK
<1>18. ASSUME NEW c \in Callers, Bye(c) PROVE TypeOK'
  <2>1. op' \in [Callers -> Op]
    BY <1>18, <1>i, GoesType DEF Bye
  <2>2. token' \in [Tabs -> Ref] /\ cookie' \in [Browsers -> Ref]
    BY <1>18, ClientOf DEF Bye, TypeOK, Ref
  <2> QED
    BY <1>18, <2>1, <2>2 DEF Bye, TypeOK
<1>19. ASSUME NEW c \in Callers, Lost(c) PROVE TypeOK'
  <2>1. left' \in [Event -> Nat]
    BY <1>19, <1>e, SpendType DEF Lost
  <2>2. Moves(c, "failed") \/ Goes(c, Idle)
    BY <1>19 DEF Lost
  <2>3. op' \in [Callers -> Op]
    BY <1>i, <1>s, <2>2, GoesType, MovesType
  <2>4. token' \in [Tabs -> Ref]
    BY <1>19, ClientOf DEF Lost, TypeOK, Ref
  <2> QED
    BY <1>19, <2>1, <2>3, <2>4 DEF Lost, TypeOK
<1>20. ASSUME NEW u \in Users, BanBegin(u) PROVE TypeOK'
  <2>1. left' \in [Event -> Nat]
    BY <1>20, <1>e, SpendType DEF BanBegin
  <2>2. ban' \in [Users -> [open : BOOLEAN, snap : SUBSET Sessions]]
    BY <1>20, LiveType DEF BanBegin, TypeOK
  <2> QED
    BY <1>20, <2>1, <2>2 DEF BanBegin, TypeOK
<1>21. ASSUME NEW u \in Users, BanCommit(u) PROVE TypeOK'
  <2>1. sess' \in [Sessions -> SessionRow]
    BY <1>21, RevokedType DEF BanCommit
  <2>2. /\ ban' \in [Users -> [open : BOOLEAN, snap : SUBSET Sessions]]
        /\ account' \in [Users -> {"NONE", "ACTIVE", "SUSPENDED"}]
    BY <1>21 DEF BanCommit, TypeOK
  <2> QED
    BY <1>21, <2>1, <2>2 DEF BanCommit, TypeOK, SessionRow
<1>22. ASSUME NEW u \in Users, Unban(u) PROVE TypeOK'
  BY <1>22 DEF Unban, TypeOK
<1>23. ASSUME NEW s \in Sessions, Expire(s) \/ Age(s) PROVE TypeOK'
  <2>1. left' \in [Event -> Nat]
    BY <1>23, <1>e, SpendType DEF Expire, Age
  <2> QED
    BY <1>23, <2>1 DEF Expire, Age, TypeOK
<1>24. ASSUME NEW b \in Browsers, DropCookie(b) PROVE TypeOK'
  BY <1>24 DEF DropCookie, TypeOK, Ref
<1>25. CASE UNCHANGED vars
  BY <1>25 DEF vars, TypeOK
<1>26. ASSUME NEW c \in Callers, Progress(c) PROVE TypeOK'
  BY <1>26, <1>2, <1>4, <1>6, <1>7, <1>9, <1>10, <1>11, <1>12, <1>13, <1>14, <1>15, <1>16, <1>17, <1>18 DEF Progress
<1> QED
  BY <1>1, <1>3, <1>5, <1>8, <1>19, <1>20, <1>21, <1>22, <1>23, <1>24, <1>25, <1>26 DEF Next

-----------------------------------------------------------------------------
(* Sessions and open rotations *)

\* No rotation is opened: of those that are open, some may end.
NoNewRotation ==
    \A c \in Callers : op'[c].at = "rotating" => op[c].at = "rotating" /\ op'[c].tok = op[c].tok

SessionsInv == OneLivePerLogin /\ RootsExist /\ RotationsAreApart

LEMMA SameSessions ==
    ASSUME SessionsInv, UNCHANGED sess, NoNewRotation PROVE SessionsInv'
  BY DEF SessionsInv, OneLivePerLogin, RootsExist, RotationsAreApart, NoNewRotation

\* Sessions whose rows nobody holds are revoked.
LEMMA RevokeSessions ==
    ASSUME TypeOK, SessionsInv, NEW S \in SUBSET Sessions, \A s \in S : sess[s].state = "ACTIVE",
           Unlocked(S), sess' = Revoked(S), NoNewRotation
    PROVE  SessionsInv'
<1>1. sess \in [Sessions -> SessionRow]
  BY DEF TypeOK, SessionRow
<1>2. \A s \in Sessions :
        /\ sess'[s].root = sess[s].root
        /\ sess'[s].state = IF s \in S THEN "REVOKED" ELSE sess[s].state
  BY <1>1 DEF Revoked, SessionRow
<1>3. OneLivePerLogin'
  BY <1>2 DEF SessionsInv, OneLivePerLogin
<1>4. RootsExist'
  <2> SUFFICES ASSUME NEW s \in Sessions, sess'[s].state # "FREE"
               PROVE  sess'[s].root \in Sessions /\ sess'[sess'[s].root].state # "FREE"
    BY DEF RootsExist
  <2>1. sess[s].state # "FREE"
    BY <1>2
  <2> QED
    BY <1>2, <2>1 DEF SessionsInv, RootsExist
<1>5. RotationsAreApart'
  <2>1. \A c \in Callers : op[c].at = "rotating" => op[c].tok \notin S
    BY DEF Unlocked, Rotating
  <2> SUFFICES ASSUME NEW c \in Callers, op'[c].at = "rotating"
               PROVE  /\ op'[c].tok \in Sessions /\ sess'[op'[c].tok].state = "ACTIVE"
                      /\ \A d \in Callers : op'[d].at = "rotating" /\ op'[d].tok = op'[c].tok => d = c
    BY DEF RotationsAreApart
  <2>2. op[c].at = "rotating" /\ op'[c].tok = op[c].tok /\ RotationsAreApart
    BY DEF NoNewRotation, SessionsInv
  <2>3. \A d \in Callers : op'[d].at = "rotating" => op[d].at = "rotating" /\ op'[d].tok = op[d].tok
    BY DEF NoNewRotation
  <2>4. op[c].tok \in Sessions /\ sess[op[c].tok].state = "ACTIVE" /\ op[c].tok \notin S
    BY <2>1, <2>2 DEF RotationsAreApart
  <2>5. sess'[op[c].tok].state = "ACTIVE"
    BY <1>2, <2>4
  <2>6. \A d \in Callers : op[d].at = "rotating" /\ op[d].tok = op[c].tok => d = c
    BY <2>2 DEF RotationsAreApart
  <2> QED
    BY ONLY <2>2, <2>3, <2>4, <2>5, <2>6
<1> QED
  BY <1>3, <1>4, <1>5 DEF SessionsInv

\* The caller's own step may end its rotation, but opens none.
LEMMA GoesEnds ==
    ASSUME TypeOK, NEW c \in Callers, NEW o, o.at # "rotating", Goes(c, o) PROVE NoNewRotation
  BY DEF TypeOK, Goes, NoNewRotation
LEMMA MovesEnds ==
    ASSUME TypeOK, NEW c \in Callers, NEW at, at # "rotating", Moves(c, at) PROVE NoNewRotation
<1>1. op \in [Callers -> Op] /\ op' = [op EXCEPT ![c] = [op[c] EXCEPT !.at = at]]
  BY DEF TypeOK, Moves
<1>2. \A d \in Callers : op'[d] = IF d = c THEN [op[c] EXCEPT !.at = at] ELSE op[d]
  BY <1>1
<1>3. op[c] \in Op
  BY <1>1
<1>4. [op[c] EXCEPT !.at = at].at = at
  BY <1>3 DEF Op
<1> QED
  BY <1>2, <1>4 DEF NoNewRotation

\* A session taken from the free ones: none descends from it yet, and it is not
\* one a rotation holds.
LEMMA FreshFacts ==
    ASSUME TypeOK, SessionsInv, NEW n \in Fresh
    PROVE  /\ n \in Sessions /\ sess[n].state = "FREE"
           /\ \A s \in Sessions : sess[s].state # "FREE" => sess[s].root # n
           /\ \A c \in Callers : op[c].at = "rotating" => op[c].tok # n
<1>1. n \in Sessions /\ sess[n].state = "FREE"
  BY DEF Fresh, Free
<1> QED
  BY <1>1 DEF SessionsInv, RootsExist, RotationsAreApart

\* createTokenPair of register and login: the first session of a login.
LEMMA CreateSessionKeeps ==
    ASSUME TypeOK, SessionsInv, NEW c \in Callers, CreateSession(c) PROVE SessionsInv'
<1>1. PICK n \in Fresh : /\ sess' = [sess EXCEPT ![n] = Stored(n, UserFor(c), n)]
                         /\ Goes(c, [op[c] EXCEPT !.at = "answer", !.tok = n])
  BY DEF CreateSession
<1>2. /\ n \in Sessions /\ sess[n].state = "FREE"
      /\ \A s \in Sessions : sess[s].state # "FREE" => sess[s].root # n
      /\ \A d \in Callers : op[d].at = "rotating" => op[d].tok # n
  BY FreshFacts
<1>3. /\ sess'[n].state = "ACTIVE" /\ sess'[n].root = n
      /\ \A s \in Sessions : s # n => sess'[s] = sess[s]
  BY <1>1, <1>2 DEF TypeOK, Stored
<1>4. NoNewRotation
  <2>1. op[c] \in Op
    BY DEF TypeOK
  <2>2. [op[c] EXCEPT !.at = "answer", !.tok = n].at = "answer"
    BY <2>1 DEF Op
  <2> QED
    BY <1>1, <2>2, GoesEnds
<1>5. OneLivePerLogin'
  BY <1>2, <1>3 DEF SessionsInv, OneLivePerLogin
<1>6. RootsExist'
  BY <1>2, <1>3 DEF SessionsInv, RootsExist
<1>7. RotationsAreApart'
  BY <1>2, <1>3, <1>4 DEF SessionsInv, RotationsAreApart, NoNewRotation
<1> QED
  BY <1>5, <1>6, <1>7 DEF SessionsInv

\* rotateRefreshSessionOnce commits: the new session replaces the consumed one,
\* which was the only live session of its login.
LEMMA RotateCommitKeeps ==
    ASSUME TypeOK, SessionsInv, NEW c \in Callers, RotateCommit(c) PROVE SessionsInv'
<1>1. PICK s : s = op[c].tok
  OBVIOUS
<1>2. PICK n \in Fresh :
         /\ sess' = [sess EXCEPT ![s].state = "REVOKED", ![n] = Stored(n, sess[s].user, sess[s].root)]
         /\ Goes(c, [op[c] EXCEPT !.at = "answer", !.tok = n])
  BY <1>1 DEF RotateCommit, Consumed
<1>3. /\ s \in Sessions /\ sess[s].state = "ACTIVE" /\ op[c].at = "rotating"
      /\ \A d \in Callers : op[d].at = "rotating" /\ op[d].tok = s => d = c
  BY <1>1 DEF RotateCommit, SessionsInv, RotationsAreApart
<1>4. /\ n \in Sessions /\ sess[n].state = "FREE" /\ n # s
      /\ \A r \in Sessions : sess[r].state # "FREE" => sess[r].root # n
      /\ \A d \in Callers : op[d].at = "rotating" => op[d].tok # n
  BY <1>3, FreshFacts
<1>5. sess \in [Sessions -> SessionRow]
  BY DEF TypeOK, SessionRow
<1>6. /\ sess'[n].state = "ACTIVE" /\ sess'[n].root = sess[s].root
      /\ sess'[s].state = "REVOKED" /\ sess'[s].root = sess[s].root
      /\ \A r \in Sessions : r # n /\ r # s => sess'[r] = sess[r]
  BY <1>2, <1>3, <1>4, <1>5 DEF Stored, SessionRow
<1>7. NoNewRotation /\ op'[c].at # "rotating"
  <2>1. op[c] \in Op
    BY DEF TypeOK
  <2>2. [op[c] EXCEPT !.at = "answer", !.tok = n].at = "answer"
    BY <2>1 DEF Op
  <2>3. NoNewRotation
    BY <1>2, <2>2, GoesEnds
  <2> QED
    BY <1>2, <2>2, <2>3 DEF Goes, TypeOK
<1>8. OneLivePerLogin'
  <2>1. ASSUME NEW r \in Sessions, sess'[r].state = "ACTIVE", sess'[r].root = sess[s].root PROVE r = n
    <3>1. CASE r # n
      <4>1. r # s /\ sess[r].state = "ACTIVE" /\ sess[r].root = sess[s].root
        BY <1>6, <2>1, <3>1
      <4> QED
        BY <1>3, <4>1 DEF SessionsInv, OneLivePerLogin
    <3> QED
      BY <3>1
  <2> QED
    BY <1>6, <2>1 DEF SessionsInv, OneLivePerLogin
<1>9. RootsExist'
  <2>1. sess[s].root \in Sessions /\ sess[sess[s].root].state # "FREE"
    BY <1>3 DEF SessionsInv, RootsExist
  <2>2. \A r \in Sessions : sess[r].state # "FREE" => sess'[r].state # "FREE"
    BY <1>4, <1>6
  <2> QED
    BY <1>6, <2>1, <2>2 DEF SessionsInv, RootsExist
<1>10. RotationsAreApart'
  <2> SUFFICES ASSUME NEW d \in Callers, op'[d].at = "rotating"
               PROVE  /\ op'[d].tok \in Sessions /\ sess'[op'[d].tok].state = "ACTIVE"
                      /\ \A e \in Callers : op'[e].at = "rotating" /\ op'[e].tok = op'[d].tok => e = d
    BY DEF RotationsAreApart
  <2>1. op[d].at = "rotating" /\ op'[d].tok = op[d].tok /\ d # c
    BY <1>7 DEF NoNewRotation
  <2>2. op[d].tok \in Sessions /\ sess[op[d].tok].state = "ACTIVE" /\ op[d].tok # s /\ op[d].tok # n
    BY <1>3, <1>4, <2>1 DEF SessionsInv, RotationsAreApart
  <2>3. \A e \in Callers : op'[e].at = "rotating" => op[e].at = "rotating" /\ op'[e].tok = op[e].tok
    BY <1>7 DEF NoNewRotation
  <2> QED
    BY <1>6, <2>1, <2>2, <2>3 DEF SessionsInv, RotationsAreApart
<1> QED
  BY <1>8, <1>9, <1>10 DEF SessionsInv

\* The token is consumed: the session is live and its row is free.
LEMMA ConsumeKeeps ==
    ASSUME TypeOK, SessionsInv, NEW c \in Callers, Consume(c) PROVE SessionsInv'
<1>1. PICK s : s = op[c].tok
  OBVIOUS
<1>2. /\ s \in Sessions /\ sess[s].state = "ACTIVE" /\ sess' = sess
      /\ \A d \in Callers : op[d].at = "rotating" => op[d].tok # s
  BY <1>1 DEF Consume, Replayed, Unlocked, Rotating, TypeOK, Op, Ref
<1>3. op[c] \in Op /\ op' = [op EXCEPT ![c] = [op[c] EXCEPT !.at = "rotating"]] /\ op \in [Callers -> Op]
  BY DEF TypeOK, Consume, Moves
<1>4. op'[c].tok = s /\ \A d \in Callers : d # c => op'[d] = op[d]
  BY <1>1, <1>3 DEF Op
<1>5. RotationsAreApart'
  BY <1>2, <1>4 DEF SessionsInv, RotationsAreApart
<1> QED
  BY <1>2, <1>5 DEF SessionsInv, OneLivePerLogin, RootsExist

-----------------------------------------------------------------------------
(* Every step keeps the invariant *)

LEMMA RevocationKeeps ==
    ASSUME TypeOK, SessionsInv, NEW S, Unlocked(S), NoNewRotation,
           sess' = Revoked({s \in S : sess[s].state = "ACTIVE"}), S \in SUBSET Sessions
    PROVE  SessionsInv'
<1> DEFINE A == {s \in S : sess[s].state = "ACTIVE"}
<1>1. A \in SUBSET Sessions /\ Unlocked(A) /\ \A s \in A : sess[s].state = "ACTIVE"
  BY DEF Unlocked
<1>2. sess' = Revoked(A)
  OBVIOUS
<1> HIDE DEF A
<1> QED
  BY <1>1, <1>2, RevokeSessions

LEMMA SessionsStep == ASSUME TypeOK, SessionsInv, [Next]_vars PROVE SessionsInv'
<1> USE DEF client
<1>i. Idle.at # "rotating" /\ \A o \in Op : \A s : Resumed(o, s).at # "rotating"
  BY DEF Idle, Resumed
<1>o. \A c \in Callers : op[c] \in Op
  BY DEF TypeOK
<1>1. ASSUME NEW c \in Callers, RegisterCheck(c) PROVE SessionsInv'
  <2>1. NoNewRotation
    BY <1>1, GoesEnds DEF RegisterCheck, Idle
  <2> QED
    BY <1>1, <2>1, SameSessions DEF RegisterCheck
<1>2. ASSUME NEW c \in Callers, RegisterCommit(c) PROVE SessionsInv'
  <2>1. NoNewRotation
    BY <1>2, <1>i, GoesEnds, MovesEnds DEF RegisterCommit
  <2> QED
    BY <1>2, <2>1, SameSessions DEF RegisterCommit
<1>3. ASSUME NEW c \in Callers, LoginCheck(c) PROVE SessionsInv'
  <2>1. NoNewRotation
    BY <1>3, GoesEnds DEF LoginCheck, Idle
  <2> QED
    BY <1>3, <2>1, SameSessions DEF LoginCheck
<1>4. ASSUME NEW c \in Callers, NEW for, Call(c, for) PROVE SessionsInv'
  <2>1. NoNewRotation
    BY <1>4, GoesEnds DEF Call, Idle
  <2> QED
    BY <1>4, <2>1, SameSessions DEF Call
<1>5. ASSUME NEW c \in Callers, Serve(c) PROVE SessionsInv'
  <2>1. \A S : [op[c] EXCEPT !.at = "revoking", !.snap = S].at = "revoking"
    BY <1>o DEF Op
  <2>2. NoNewRotation
    BY <1>5, <1>i, <2>1, GoesEnds, MovesEnds DEF Serve
  <2> QED
    BY <1>5, <2>2, SameSessions DEF Serve
<1>6. ASSUME NEW c \in Callers, NEW o \in Op, RefreshSession(c, o) PROVE NoNewRotation
  <2>1. /\ [o EXCEPT !.at = "waiting"].at = "waiting"
        /\ \A s : [o EXCEPT !.at = "refresh", !.tok = s].at = "refresh"
    BY DEF Op
  <2> QED
    BY <1>6, <2>1, GoesEnds DEF RefreshSession
<1>7. ASSUME NEW c \in Callers, Denied(c) PROVE SessionsInv'
  <2>1. NoNewRotation
    BY <1>6, <1>7, <1>i, <1>o, GoesEnds DEF Denied
  <2> QED
    BY <1>7, <2>1, SameSessions DEF Denied
<1>8. ASSUME NEW c \in Callers, Restore(c) PROVE SessionsInv'
  <2>1. [Idle EXCEPT !.for = "restore"] \in Op
    BY IdleIsOp DEF Idle, Op, Purpose
  <2>2. NoNewRotation
    BY <1>6, <1>8, <2>1 DEF Restore
  <2> QED
    BY <1>8, <2>2, SameSessions DEF Restore
<1>9. ASSUME NEW c \in Callers, RefreshWithoutCookie(c) PROVE SessionsInv'
  <2>1. NoNewRotation
    BY <1>9, MovesEnds DEF RefreshWithoutCookie
  <2> QED
    BY <1>9, <2>1, SameSessions DEF RefreshWithoutCookie
<1>10. ASSUME NEW c \in Callers, RefuseRefresh(c) PROVE SessionsInv'
  <2>1. NoNewRotation
    BY <1>10, MovesEnds DEF RefuseRefresh
  <2>2. PICK S : S = Live(sess[op[c].tok].user)
    OBVIOUS
  <2>3. S \in SUBSET Sessions /\ (\A s \in S : sess[s].state = "ACTIVE") /\ Unlocked(S) /\ sess' = Revoked(S)
    BY <1>10, <2>2 DEF RefuseRefresh, Live
  <2> QED
    BY <2>1, <2>3, RevokeSessions
<1>11. ASSUME NEW c \in Callers, RefuseExpired(c) PROVE SessionsInv'
  <2>1. \A S : [op[c] EXCEPT !.at = "ousting", !.snap = S].at = "ousting"
    BY <1>o DEF Op
  <2>2. NoNewRotation
    BY <1>11, <2>1, GoesEnds DEF RefuseExpired
  <2> QED
    BY <1>11, <2>2, SameSessions DEF RefuseExpired
<1>12. ASSUME NEW c \in Callers, Revoke(c) PROVE SessionsInv'
  <2>1. NoNewRotation
    BY <1>12, MovesEnds DEF Revoke
  <2>2. op[c].snap \in SUBSET Sessions
    BY <1>o DEF Op
  <2> QED
    BY <1>12, <2>1, <2>2, RevocationKeeps DEF Revoke
<1>13. ASSUME NEW c \in Callers, SignedIn(c) PROVE SessionsInv'
  <2>1. NoNewRotation
    BY <1>13, <1>i, GoesEnds DEF SignedIn
  <2> QED
    BY <1>13, <2>1, SameSessions DEF SignedIn
<1>14. ASSUME NEW c \in Callers, Refreshed(c) PROVE SessionsInv'
  <2>1. NoNewRotation
    BY <1>14, <1>i, <1>o DEF Refreshed, NoNewRotation
  <2> QED
    BY <1>14, <2>1, SameSessions DEF Refreshed
<1>15. ASSUME NEW c \in Callers, Failed(c) PROVE SessionsInv'
  <2>1. NoNewRotation
    BY <1>15, <1>i DEF Failed, NoNewRotation
  <2> QED
    BY <1>15, <2>1, SameSessions DEF Failed
<1>16. ASSUME NEW c \in Callers, Bye(c) PROVE SessionsInv'
  <2>1. NoNewRotation
    BY <1>16, <1>i, GoesEnds DEF Bye
  <2> QED
    BY <1>16, <2>1, SameSessions DEF Bye
<1>17. ASSUME NEW c \in Callers, Lost(c) PROVE SessionsInv'
  <2>1. NoNewRotation
    BY <1>17, <1>i, GoesEnds, MovesEnds DEF Lost
  <2> QED
    BY <1>17, <2>1, SameSessions DEF Lost
<1>18. ASSUME NEW c \in Callers, Progress(c) PROVE SessionsInv'
  BY <1>2, <1>5, <1>7, <1>9, <1>10, <1>11, <1>12, <1>13, <1>14, <1>15, <1>16, <1>18,
     CreateSessionKeeps, RotateCommitKeeps, ConsumeKeeps DEF Progress
<1>19. ASSUME UNCHANGED <<sess, op>> PROVE SessionsInv'
  BY <1>19, SameSessions DEF NoNewRotation
<1>20. ASSUME NEW u \in Users, BanCommit(u) PROVE SessionsInv'
  <2>1. NoNewRotation /\ ban[u].snap \in SUBSET Sessions
    BY <1>20 DEF BanCommit, NoNewRotation, TypeOK
  <2> QED
    BY <1>20, <2>1, RevocationKeeps DEF BanCommit
<1>21. ASSUME \/ \E u \in Users : BanBegin(u) \/ Unban(u)
              \/ \E s \in Sessions : Expire(s) \/ Age(s)
              \/ \E b \in Browsers : DropCookie(b)
              \/ UNCHANGED vars
       PROVE  SessionsInv'
  BY <1>19, <1>21 DEF BanBegin, Unban, Expire, Age, DropCookie, vars
<1> QED
  BY <1>1, <1>3, <1>4, <1>8, <1>17, <1>18, <1>20, <1>21 DEF Next

\* Only a request and an answer carry a token for certain, and they are given one.
LEMMA TokensStep ==
    ASSUME TypeOK, SessionsInv, TokensNameSessions, [Next]_vars PROVE TokensNameSessions'
<1> USE DEF client
<1>o. \A c \in Callers : op[c] \in Op
  BY DEF TypeOK
<1>g. ASSUME NEW c \in Callers, NEW o, Goes(c, o), o.at \in {"request", "answer"} => o.tok \in Sessions
      PROVE  TokensNameSessions'
  BY <1>g DEF Goes, TypeOK, TokensNameSessions
<1>m. ASSUME NEW c \in Callers, NEW at, Moves(c, at), at \notin {"request", "answer"}
      PROVE  TokensNameSessions'
  <2>1. [op[c] EXCEPT !.at = at].at = at
    BY <1>o DEF Op
  <2>2. \A d \in Callers : op'[d] = IF d = c THEN [op[c] EXCEPT !.at = at] ELSE op[d]
    BY <1>m DEF Moves, TypeOK
  <2> QED
    BY <1>m, <2>1, <2>2 DEF TokensNameSessions
<1>i. Idle.at = "idle"
  BY DEF Idle
<1>1. ASSUME NEW c \in Callers, RegisterCheck(c) \/ LoginCheck(c) PROVE TokensNameSessions'
  BY <1>1, <1>g DEF RegisterCheck, LoginCheck, Idle
<1>2. ASSUME NEW c \in Callers, RegisterCommit(c) PROVE TokensNameSessions'
  BY <1>2, <1>g, <1>m, <1>i DEF RegisterCommit
<1>3. ASSUME NEW c \in Callers, NEW for, Call(c, for) PROVE TokensNameSessions'
  <2> DEFINE o == [Idle EXCEPT !.at = "request", !.for = for, !.tok = token[TabOf[c]]]
  <2>1. Goes(c, o) /\ token[TabOf[c]] \in Sessions
    BY <1>3, ClientOf DEF Call, TypeOK, Ref
  <2>2. o.tok \in Sessions
    BY <2>1 DEF Idle
  <2> HIDE DEF o
  <2> QED
    BY <1>g, <2>1, <2>2
<1>4. ASSUME NEW c \in Callers, Serve(c) PROVE TokensNameSessions'
  <2>1. \A S : [op[c] EXCEPT !.at = "revoking", !.snap = S].at = "revoking"
    BY <1>o DEF Op
  <2> QED
    BY <1>4, <1>g, <1>m, <1>i, <2>1 DEF Serve
<1>5. ASSUME NEW c \in Callers, NEW o \in Op, RefreshSession(c, o) PROVE TokensNameSessions'
  <2>1. /\ [o EXCEPT !.at = "waiting"].at = "waiting"
        /\ \A s : [o EXCEPT !.at = "refresh", !.tok = s].at = "refresh"
    BY DEF Op
  <2> QED
    BY <1>5, <1>g, <2>1 DEF RefreshSession
<1>6. ASSUME NEW c \in Callers, Denied(c) PROVE TokensNameSessions'
  BY <1>5, <1>6, <1>g, <1>i, <1>o DEF Denied
<1>7. ASSUME NEW c \in Callers, Restore(c) PROVE TokensNameSessions'
  <2>1. [Idle EXCEPT !.for = "restore"] \in Op
    BY IdleIsOp DEF Idle, Op, Purpose
  <2> QED
    BY <1>5, <1>7, <2>1 DEF Restore
<1>8. ASSUME NEW c \in Callers, CreateSession(c) \/ RotateCommit(c) PROVE TokensNameSessions'
  <2>1. PICK n \in Fresh : Goes(c, [op[c] EXCEPT !.at = "answer", !.tok = n])
    BY <1>8 DEF CreateSession, RotateCommit
  <2>2. n \in Sessions
    BY DEF Fresh, Free
  <2>3. [op[c] EXCEPT !.at = "answer", !.tok = n].tok = n
    BY <1>o DEF Op
  <2> QED
    BY <1>g, <2>1, <2>2, <2>3
<1>9. ASSUME NEW c \in Callers,
             RefreshWithoutCookie(c) \/ Consume(c) \/ RefuseRefresh(c) \/ Revoke(c)
      PROVE  TokensNameSessions'
  BY <1>9, <1>m DEF RefreshWithoutCookie, Consume, RefuseRefresh, Revoke
<1>10. ASSUME NEW c \in Callers, RefuseExpired(c) PROVE TokensNameSessions'
  <2>1. \A S : [op[c] EXCEPT !.at = "ousting", !.snap = S].at = "ousting"
    BY <1>o DEF Op
  <2> QED
    BY <1>10, <1>g, <2>1 DEF RefuseExpired
<1>11. ASSUME NEW c \in Callers, SignedIn(c) \/ Bye(c) PROVE TokensNameSessions'
  BY <1>11, <1>g, <1>i DEF SignedIn, Bye
<1>12. ASSUME NEW c \in Callers, Refreshed(c) PROVE TokensNameSessions'
  <2>1. op[c].tok \in Sessions
    BY <1>12 DEF Refreshed, TokensNameSessions
  <2>2. \A d \in Callers : LET o == Resumed(op[d], op[c].tok) IN o.at = "request" => o.tok \in Sessions
    BY <2>1 DEF Resumed, Idle
  <2>3. \A d \in Callers : Resumed(op[d], op[c].tok).at # "answer"
    BY DEF Resumed, Idle
  <2> QED
    BY <1>12, <2>2, <2>3 DEF Refreshed, TokensNameSessions
<1>13. ASSUME NEW c \in Callers, Failed(c) PROVE TokensNameSessions'
  BY <1>13, <1>i DEF Failed, TokensNameSessions
<1>14. ASSUME NEW c \in Callers, Lost(c) PROVE TokensNameSessions'
  BY <1>14, <1>g, <1>m, <1>i DEF Lost
<1>15. ASSUME NEW c \in Callers, Progress(c) PROVE TokensNameSessions'
  BY <1>2, <1>4, <1>6, <1>8, <1>9, <1>10, <1>11, <1>12, <1>13, <1>15 DEF Progress
<1>16. ASSUME \/ \E u \in Users : BanBegin(u) \/ BanCommit(u) \/ Unban(u)
              \/ \E s \in Sessions : Expire(s) \/ Age(s)
              \/ \E b \in Browsers : DropCookie(b)
              \/ UNCHANGED vars
       PROVE  TokensNameSessions'
  <2>1. op' = op
    BY <1>16 DEF BanBegin, BanCommit, Unban, Expire, Age, DropCookie, vars
  <2> QED
    BY <2>1 DEF TokensNameSessions
<1> QED
  BY <1>1, <1>3, <1>7, <1>14, <1>15, <1>16 DEF Next

\* Accounts, their wallets and their bans.
LEMMA AccountsStep ==
    ASSUME TypeOK, OneSignupBonus, BansKnowTheirUser, [Next]_vars
    PROVE  OneSignupBonus' /\ BansKnowTheirUser'
<1>1. ASSUME UNCHANGED <<account, wallets, ban>> PROVE OneSignupBonus' /\ BansKnowTheirUser'
  BY <1>1 DEF OneSignupBonus, BansKnowTheirUser
<1>2. ASSUME NEW c \in Callers, RegisterCommit(c) PROVE OneSignupBonus' /\ BansKnowTheirUser'
  <2>1. PICK u \in Users : u = UserFor(c)
    BY ClientOf
  <2>2. CASE account[u] = "NONE"
    <3>1. /\ account' = [account EXCEPT ![u] = "ACTIVE"] /\ wallets' = [wallets EXCEPT ![u] = wallets[u] + 1]
          /\ ban' = ban
      BY <1>2, <2>1, <2>2 DEF RegisterCommit, EmailFree
    <3>2. wallets[u] = 0
      BY <2>2 DEF OneSignupBonus
    <3>3. /\ account' [u] = "ACTIVE" /\ wallets'[u] = 1
          /\ \A v \in Users : v # u => account'[v] = account[v] /\ wallets'[v] = wallets[v]
      BY <3>1, <3>2 DEF TypeOK
    <3> QED
      BY <3>1, <3>3 DEF OneSignupBonus, BansKnowTheirUser
  <2>3. CASE account[u] # "NONE"
    BY <1>1, <1>2, <2>1, <2>3 DEF RegisterCommit, EmailFree
  <2> QED
    BY <2>2, <2>3
<1>3. ASSUME NEW u \in Users, BanBegin(u) PROVE OneSignupBonus' /\ BansKnowTheirUser'
  BY <1>3 DEF BanBegin, OneSignupBonus, BansKnowTheirUser, TypeOK
<1>4. ASSUME NEW u \in Users, BanCommit(u) PROVE OneSignupBonus' /\ BansKnowTheirUser'
  <2>1. account[u] # "NONE" /\ wallets' = wallets
    BY <1>4 DEF BanCommit, BansKnowTheirUser
  <2>2. \A v \in Users : account'[v] = IF v = u THEN "SUSPENDED" ELSE account[v]
    BY <1>4 DEF BanCommit, TypeOK
  <2>3. OneSignupBonus'
    BY <2>1, <2>2 DEF OneSignupBonus
  <2>4. \A v \in Users : ban'[v].open => ban[v].open
    BY <1>4 DEF BanCommit, TypeOK
  <2> QED
    BY <2>2, <2>3, <2>4 DEF BansKnowTheirUser
<1>5. ASSUME NEW u \in Users, Unban(u) PROVE OneSignupBonus' /\ BansKnowTheirUser'
  BY <1>5 DEF Unban, OneSignupBonus, BansKnowTheirUser, TypeOK
<1>6. ASSUME NEW c \in Callers, Progress(c) PROVE OneSignupBonus' /\ BansKnowTheirUser'
  BY <1>1, <1>2, <1>6 DEF Progress, CreateSession, Serve, Denied, RefreshWithoutCookie, Consume, RotateCommit,
     RefuseRefresh, RefuseExpired, Revoke, SignedIn, Refreshed, Failed, Bye
<1>7. ASSUME NEW c \in Callers, RegisterCheck(c) \/ LoginCheck(c) \/ Restore(c) \/ Lost(c) \/ \E for : Call(c, for)
      PROVE  OneSignupBonus' /\ BansKnowTheirUser'
  BY <1>1, <1>7 DEF RegisterCheck, LoginCheck, Restore, Lost, Call
<1>8. ASSUME \/ \E s \in Sessions : Expire(s) \/ Age(s)
             \/ \E b \in Browsers : DropCookie(b)
             \/ UNCHANGED vars
      PROVE  OneSignupBonus' /\ BansKnowTheirUser'
  BY <1>1, <1>8 DEF Expire, Age, DropCookie, vars
<1> QED
  BY <1>3, <1>4, <1>5, <1>6, <1>7, <1>8 DEF Next

LEMMA InitIInv == Init => IInv
<1> SUFFICES ASSUME Init PROVE IInv
  OBVIOUS
<1>1. \A s \in Sessions : sess[s].state = "FREE"
  BY DEF Init
<1>2. \A c \in Callers : op[c].at = "idle"
  BY IdleIsOp DEF Init
<1>3. OneLivePerLogin /\ RootsExist
  BY <1>1 DEF OneLivePerLogin, RootsExist
<1>4. RotationsAreApart /\ TokensNameSessions
  BY <1>2 DEF RotationsAreApart, TokensNameSessions
<1>5. OneSignupBonus /\ BansKnowTheirUser
  BY DEF Init, OneSignupBonus, BansKnowTheirUser
<1> QED
  BY <1>3, <1>4, <1>5, InitType DEF IInv

\* The inductive invariant of accounts and sessions: rotations are apart, sessions
\* descend from sessions, and what is open knows what it is about.
THEOREM AuthInvariant == Spec => []IInv
<1>1. Init => IInv
  BY InitIInv
<1>2. IInv /\ [Next]_vars => IInv'
  BY StepType, SessionsStep, TokensStep, AccountsStep DEF IInv, SessionsInv
<1> QED
  BY <1>1, <1>2, PTL DEF Spec

\* Refreshes, logouts and bans interleave as they may, from any number of tabs: a
\* login never has two sessions that still work.
THEOREM LoginsHaveOneSession == Spec => []OneLivePerLogin
<1>1. IInv => OneLivePerLogin
  BY DEF IInv
<1> QED
  BY <1>1, AuthInvariant, PTL

\* Concurrent registrations of one address open one wallet with one signup bonus.
THEOREM BonusIsGivenOnce == Spec => []OneSignupBonus
<1>1. IInv => OneSignupBonus
  BY DEF IInv
<1> QED
  BY <1>1, AuthInvariant, PTL
=============================================================================
