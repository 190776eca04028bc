----------------------------- MODULE AuthSessions -----------------------------
(***************************************************************************)
(* Accounts, sessions and the two tokens that name them: registration,     *)
(* login, refresh rotation, logout and ban on the server (modules/auth,    *)
(* common/guards, admin.service), and the browser's side of the exchange   *)
(* (api-client.ts, auth-store.ts, AuthProvider.tsx).                       *)
(*                                                                         *)
(* A refresh token and an access token are the id of their session: the    *)
(* server keeps one hash per session.  A caller is one of the things in a  *)
(* tab that may call the server at the same time (a query, the restoring   *)
(* provider, the socket bridge).  The tabs of a browser share its cookie,  *)
(* the callers of a tab its auth store and its refreshRequest promise.     *)
(*                                                                         *)
(* A rotation is a Serializable transaction.  It holds the lock of the     *)
(* session row from the update that consumes the token to its commit, so   *)
(* these are two actions.  Logout, logout-all and ban update sessions in   *)
(* READ COMMITTED statements that see the rows of the moment they start,   *)
(* wait for locked rows and then commit: also two actions.                 *)
(***************************************************************************)
EXTENDS Naturals, FiniteSets

CONSTANTS
    Users, Browsers, Tabs, Callers,
    UserOf,       \* the account a browser signs in to
    BrowserOf,    \* the browser of a tab
    TabOf,        \* the tab of a caller
    Sessions,     \* bound: session ids that may be generated, numbered
    Budget,       \* bounds: how often each event of Event may happen
    None          \* no session, no caller

Event == {"fault", "ban", "logout", "logoutAll", "expire", "age", "call"}

ASSUME AuthAssumption ==
    /\ UserOf \in [Browsers -> Users] /\ BrowserOf \in [Tabs -> Browsers]
    /\ TabOf \in [Callers -> Tabs] /\ Budget \in [Event -> Nat]
    /\ Sessions \subseteq Nat /\ None \notin Sessions /\ None \notin Callers

VARIABLES
    account,   \* users.status, NONE before registration
    wallets,   \* wallets opened for a user, each with its bonus ledger entry
    sess,      \* auth_sessions; root is the login a session descends from
    expired,   \* sessions whose expiresAt has passed
    aged,      \* sessions whose access token has expired
    cookie,    \* the refresh cookie of a browser
    token,     \* the access token in a tab's auth store
    refreshRequest,   \* the caller carrying a tab's shared refresh
    op,        \* what each caller has outstanding
    ban,       \* the ban transaction open for a user
    left       \* what is left of Budget

client == <<cookie, token, refreshRequest>>
vars == <<account, wallets, sess, expired, aged, client, op, ban, left>>

Ref     == Sessions \cup {None}
Purpose == {"none", "login", "register", "restore", "read", "logout", "logoutAll"}
Step    == {"idle", "registering", "entering", "request", "denied", "waiting", "refresh",
            "rotating", "revoking", "ousting", "answer", "failed", "bye"}
Op      == [at : Step, for : Purpose, tok : Ref, again : BOOLEAN, snap : SUBSET Sessions]
Idle    == [at |-> "idle", for |-> "none", tok |-> None, again |-> FALSE, snap |-> {}]

TypeOK ==
    /\ account \in [Users -> {"NONE", "ACTIVE", "SUSPENDED"}]
    /\ wallets \in [Users -> Nat]
    /\ sess \in [Sessions -> [user : Users \cup {None}, root : Ref,
                              state : {"FREE", "ACTIVE", "REVOKED"}]]
    /\ expired \subseteq Sessions /\ aged \subseteq Sessions
    /\ cookie \in [Browsers -> Ref] /\ token \in [Tabs -> Ref]
    /\ refreshRequest \in [Tabs -> Callers \cup {None}]
    /\ op \in [Callers -> Op]
    /\ ban \in [Users -> [open : BOOLEAN, snap : SUBSET Sessions]]
    /\ left \in [Event -> Nat]

Init ==
    /\ account = [u \in Users |-> "NONE"]
    /\ wallets = [u \in Users |-> 0]
    /\ sess = [s \in Sessions |-> [user |-> None, root |-> None, state |-> "FREE"]]
    /\ expired = {} /\ aged = {}
    /\ cookie = [b \in Browsers |-> None] /\ token = [t \in Tabs |-> None]
    /\ refreshRequest = [t \in Tabs |-> None]
    /\ op = [c \in Callers |-> Idle]
    /\ ban = [u \in Users |-> [open |-> FALSE, snap |-> {}]]
    /\ left = Budget

-----------------------------------------------------------------------------
(* Queries *)

BrowserFor(c) == BrowserOf[TabOf[c]]
UserFor(c)    == UserOf[BrowserFor(c)]
Live(u)       == {s \in Sessions : sess[s].state = "ACTIVE" /\ sess[s].user = u}
Rotating(s)   == \E c \in Callers : op[c].at = "rotating" /\ op[c].tok = s

UnlockedDirty(S) == TRUE
\* No transaction holds the row of a session.
Unlocked(S) == \A s \in S : ~ Rotating(s)
EmailUnchecked(u) == TRUE
\* No user owns the e-mail address (its unique index).
EmailFree(u) == account[u] = "NONE"
\* What the signature and the exp claim of a token of ours say.
AccessVerified(s)  == s \notin aged
ExpiredVerified(s) == s \in expired
\* authGuard: the token, its session and its user.
Admitted(s) ==
    /\ AccessVerified(s) /\ s \notin expired
    /\ sess[s].state = "ACTIVE" /\ account[sess[s].user] = "ACTIVE"
\* getRefreshReplayReason, and SESSION_NOT_FOUND.
Replayed(s) == sess[s].state # "ACTIVE" \/ s \in expired

Revoked(S) == [s \in Sessions |->
    IF s \in S THEN [sess[s] EXCEPT !.state = "REVOKED"] ELSE sess[s]]
\* crypto.randomUUID: an id no session has.  Which one makes no difference, so
\* they are numbered in the order they are generated.
Free  == {s \in Sessions : sess[s].state = "FREE"}
Fresh == {s \in Free : \A r \in Free : s <= r}
Stored(s, u, root) == [user |-> u, root |-> root, state |-> "ACTIVE"]

Spend(e) == left[e] > 0 /\ left' = [left EXCEPT ![e] = @ - 1]
Goes(c, o) == op' = [op EXCEPT ![c] = o]
Moves(c, at) == op' = [op EXCEPT ![c].at = at]

-----------------------------------------------------------------------------
(* Registration and login: AuthService.register, login, createTokenPair *)

RegisterCheck(c) ==
    /\ op[c] = Idle /\ token[TabOf[c]] = None /\ account[UserFor(c)] = "NONE"
    /\ Spend("call")
    /\ Goes(c, [Idle EXCEPT !.at = "registering", !.for = "register"])
    /\ UNCHANGED <<account, wallets, sess, expired, aged, client, ban>>

\* createUserWithInitialWallet, or the answer 409 on the unique index.
RegisterCommit(c) ==
    LET u == UserFor(c) IN
    /\ op[c].at = "registering"
    /\ IF EmailFree(u)
       THEN /\ account' = [account EXCEPT ![u] = "ACTIVE"]
            /\ wallets' = [wallets EXCEPT ![u] = @ + 1]
            /\ Moves(c, "entering")
       ELSE Goes(c, Idle) /\ UNCHANGED <<account, wallets>>
    /\ UNCHANGED <<sess, expired, aged, client, ban, left>>

\* The status is read, then the password hash is verified.
LoginCheck(c) ==
    /\ op[c] = Idle /\ token[TabOf[c]] = None /\ account[UserFor(c)] = "ACTIVE"
    /\ Spend("call")
    /\ Goes(c, [Idle EXCEPT !.at = "entering", !.for = "login"])
    /\ UNCHANGED <<account, wallets, sess, expired, aged, client, ban>>

CreateSession(c) ==
    /\ op[c].at = "entering"
    /\ \E s \in Fresh :
          /\ sess' = [sess EXCEPT ![s] = Stored(s, UserFor(c), s)]
          /\ Goes(c, [op[c] EXCEPT !.at = "answer", !.tok = s])
    /\ UNCHANGED <<account, wallets, expired, aged, client, ban, left>>

-----------------------------------------------------------------------------
(* Requests with an access token, and the refresh after a 401: request() *)

Call(c, for) ==
    /\ op[c] = Idle /\ token[TabOf[c]] # None
    /\ Spend(IF for = "read" THEN "call" ELSE for)
    /\ Goes(c, [Idle EXCEPT !.at = "request", !.for = for, !.tok = token[TabOf[c]]])
    /\ UNCHANGED <<account, wallets, sess, expired, aged, client, ban>>

\* authGuard; the rows an admitted logout or logoutAll will revoke.
Serve(c) ==
    /\ op[c].at = "request"
    /\ IF ~ Admitted(op[c].tok) THEN Moves(c, "denied")
       ELSE IF op[c].for = "read" THEN Goes(c, Idle)
       ELSE Goes(c, [op[c] EXCEPT !.at = "revoking",
                 !.snap = IF op[c].for = "logoutAll" THEN Live(UserFor(c)) ELSE {op[c].tok}])
    /\ UNCHANGED <<account, wallets, sess, expired, aged, client, ban, left>>

\* refreshSession: one refresh per tab, carried by the first caller that needs it.
Shared(t) == refreshRequest[t] # None
RefreshSession(c, o) ==
    LET t == TabOf[c] IN
    IF Shared(t)
    THEN Goes(c, [o EXCEPT !.at = "waiting"]) /\ UNCHANGED client
    ELSE /\ Goes(c, [o EXCEPT !.at = "refresh", !.tok = cookie[BrowserFor(c)]])
         /\ refreshRequest' = [refreshRequest EXCEPT ![t] = c]
         /\ UNCHANGED <<cookie, token>>

\* A second 401 is an error; ProfilePage clears the store when logout fails.
Denied(c) ==
    /\ op[c].at = "denied"
    /\ IF op[c].again
       THEN /\ Goes(c, Idle)
            /\ token' = [token EXCEPT ![TabOf[c]] = IF op[c].for = "read" THEN @ ELSE None]
            /\ UNCHANGED <<cookie, refreshRequest>>
       ELSE RefreshSession(c, op[c])
    /\ UNCHANGED <<account, wallets, sess, expired, aged, ban, left>>

\* restoreSession when a page loads without a token in memory.
Restore(c) ==
    /\ op[c] = Idle /\ token[TabOf[c]] = None /\ cookie[BrowserFor(c)] # None
    /\ Spend("call")
    /\ RefreshSession(c, [Idle EXCEPT !.for = "restore"])
    /\ UNCHANGED <<account, wallets, sess, expired, aged, ban>>

-----------------------------------------------------------------------------
(* The server's refresh: AuthService.refresh, rotateRefreshSessionOnce *)

\* No cookie: 401 and nothing else.
RefreshWithoutCookie(c) ==
    /\ op[c].at = "refresh" /\ op[c].tok = None
    /\ Moves(c, "failed")
    /\ UNCHANGED <<account, wallets, sess, expired, aged, client, ban, left>>

Consume(c) ==
    LET s == op[c].tok IN
    /\ op[c].at = "refresh" /\ s # None
    /\ ~ Replayed(s) /\ account[sess[s].user] = "ACTIVE" /\ Unlocked({s})
    /\ Moves(c, "rotating")
    /\ UNCHANGED <<account, wallets, sess, expired, aged, client, ban, left>>

\* What the committed rotation leaves of the consumed session.
Consumed(s) == "REVOKED"
RotateCommit(c) ==
    LET s == op[c].tok IN
    /\ op[c].at = "rotating"
    /\ \E n \in Fresh :
          /\ sess' = [sess EXCEPT ![s].state = Consumed(s),
                                  ![n] = Stored(n, sess[s].user, sess[s].root)]
          /\ Goes(c, [op[c] EXCEPT !.at = "answer", !.tok = n])
    /\ UNCHANGED <<account, wallets, expired, aged, client, ban, left>>

\* A replay or an inactive user.  The transaction that revokes the sessions
\* meets the lock of an open rotation, fails with P2034 and is run again.
RefuseRefresh(c) ==
    LET s == op[c].tok IN
    /\ op[c].at = "refresh" /\ s # None
    /\ Replayed(s) \/ account[sess[s].user] # "ACTIVE"
    /\ Unlocked(Live(sess[s].user))
    /\ sess' = Revoked(Live(sess[s].user))
    /\ Moves(c, "failed")
    /\ UNCHANGED <<account, wallets, expired, aged, client, ban, left>>

\* An expired token of ours: revokeAllSessions outside any transaction.
RefuseExpired(c) ==
    LET s == op[c].tok IN
    /\ op[c].at = "refresh" /\ s # None /\ ExpiredVerified(s)
    /\ Goes(c, [op[c] EXCEPT !.at = "ousting", !.snap = Live(sess[s].user)])
    /\ UNCHANGED <<account, wallets, sess, expired, aged, client, ban, left>>

\* updateMany over the rows a revocation saw, once none of them is locked.
Revoke(c) ==
    /\ op[c].at \in {"revoking", "ousting"} /\ Unlocked(op[c].snap)
    /\ sess' = Revoked({s \in op[c].snap : sess[s].state = "ACTIVE"})
    /\ Moves(c, IF op[c].at = "revoking" THEN "bye" ELSE "failed")
    /\ UNCHANGED <<account, wallets, expired, aged, client, ban, left>>

-----------------------------------------------------------------------------
(* The answer in the browser *)

JoinedAlone(c) == {c}
\* Callers that hang on the refresh c carries.
Joined(c) == {c} \cup {d \in Callers : TabOf[d] = TabOf[c] /\ op[d].at = "waiting"}
Resumed(o, s) ==
    IF o.for = "restore" THEN Idle
    ELSE [Idle EXCEPT !.at = "request", !.for = o.for, !.tok = s, !.again = TRUE]

\* The restoring provider is cancelled by a change of the stored token.
Applies(c) == \E d \in Joined(c) : op[d].for # "restore" \/ token[TabOf[c]] = None

\* Set-Cookie and setSession of register and login.
SignedIn(c) ==
    /\ op[c].at = "answer" /\ op[c].for \in {"login", "register"}
    /\ cookie' = [cookie EXCEPT ![BrowserFor(c)] = op[c].tok]
    /\ token' = [token EXCEPT ![TabOf[c]] = op[c].tok]
    /\ Goes(c, Idle)
    /\ UNCHANGED <<account, wallets, sess, expired, aged, refreshRequest, ban, left>>

\* The same after a refresh; waiting requests are sent again with the new token.
Refreshed(c) ==
    LET t == TabOf[c]  s == op[c].tok IN
    /\ op[c].at = "answer" /\ op[c].for \notin {"login", "register"}
    /\ cookie' = [cookie EXCEPT ![BrowserFor(c)] = s]
    /\ token' = [token EXCEPT ![t] = IF Applies(c) THEN s ELSE @]
    /\ op' = [d \in Callers |-> IF d \in Joined(c) THEN Resumed(op[d], s) ELSE op[d]]
    /\ refreshRequest' = [refreshRequest EXCEPT ![t] = None]
    /\ UNCHANGED <<account, wallets, sess, expired, aged, ban, left>>

\* The refresh failed: clearSessionAndRedirect.
Failed(c) ==
    /\ op[c].at = "failed"
    /\ token' = [token EXCEPT ![TabOf[c]] = IF Applies(c) THEN None ELSE @]
    /\ op' = [d \in Callers |-> IF d \in Joined(c) THEN Idle ELSE op[d]]
    /\ refreshRequest' = [refreshRequest EXCEPT ![TabOf[c]] = None]
    /\ UNCHANGED <<account, wallets, sess, expired, aged, cookie, ban, left>>

\* clearRefreshTokenCookie and clearSession.
Bye(c) ==
    /\ op[c].at = "bye"
    /\ cookie' = [cookie EXCEPT ![BrowserFor(c)] = None]
    /\ token' = [token EXCEPT ![TabOf[c]] = None]
    /\ Goes(c, Idle)
    /\ UNCHANGED <<account, wallets, sess, expired, aged, refreshRequest, ban, left>>

\* A request or its answer is lost, or the transaction fails twice.
Lost(c) ==
    /\ Spend("fault")
    /\ \/ /\ op[c].at \in {"refresh", "rotating", "answer"}
          /\ op[c].for \notin {"login", "register"}
          /\ Moves(c, "failed") /\ UNCHANGED token
       \/ /\ op[c].at = "answer" /\ op[c].for \in {"login", "register"}
          /\ Goes(c, Idle) /\ UNCHANGED token
       \/ /\ op[c].at = "bye"
          /\ Goes(c, Idle) /\ token' = [token EXCEPT ![TabOf[c]] = None]
    /\ UNCHANGED <<account, wallets, sess, expired, aged, cookie, refreshRequest, ban>>

-----------------------------------------------------------------------------
(* The administrator and the clock *)

BanBegin(u) ==
    /\ account[u] # "NONE" /\ ~ ban[u].open /\ Spend("ban")
    /\ ban' = [ban EXCEPT ![u] = [open |-> TRUE, snap |-> Live(u)]]
    /\ UNCHANGED <<account, wallets, sess, expired, aged, client, op>>

BanCommit(u) ==
    /\ ban[u].open /\ Unlocked(ban[u].snap)
    /\ account' = [account EXCEPT ![u] = "SUSPENDED"]
    /\ sess' = Revoked({s \in ban[u].snap : sess[s].state = "ACTIVE"})
    /\ ban' = [ban EXCEPT ![u] = [open |-> FALSE, snap |-> {}]]
    /\ UNCHANGED <<wallets, expired, aged, client, op, left>>

Unban(u) ==
    /\ account[u] = "SUSPENDED"
    /\ account' = [account EXCEPT ![u] = "ACTIVE"]
    /\ UNCHANGED <<wallets, sess, expired, aged, client, op, ban, left>>

\* expiresAt of a session, the expiry of its access token, maxAge of a cookie.
Expire(s) ==
    /\ sess[s].state # "FREE" /\ s \notin expired /\ Spend("expire")
    /\ expired' = expired \cup {s}
    /\ UNCHANGED <<account, wallets, sess, aged, client, op, ban>>

Age(s) ==
    /\ sess[s].state # "FREE" /\ s \notin aged /\ Spend("age")
    /\ aged' = aged \cup {s}
    /\ UNCHANGED <<account, wallets, sess, expired, client, op, ban>>

DropCookie(b) ==
    /\ cookie[b] \in expired
    /\ cookie' = [cookie EXCEPT ![b] = None]
    /\ UNCHANGED <<account, wallets, sess, expired, aged, token, refreshRequest, op, ban, left>>

-----------------------------------------------------------------------------
Progress(c) ==
    \/ RegisterCommit(c) \/ CreateSession(c) \/ Serve(c) \/ Denied(c)
    \/ RefreshWithoutCookie(c) \/ Consume(c) \/ RotateCommit(c)
    \/ RefuseRefresh(c) \/ RefuseExpired(c) \/ Revoke(c)
    \/ SignedIn(c) \/ Refreshed(c) \/ Failed(c) \/ Bye(c)

Next ==
    \/ \E c \in Callers :
          \/ RegisterCheck(c) \/ LoginCheck(c) \/ Restore(c) \/ Progress(c) \/ Lost(c)
          \/ \E for \in {"read", "logout", "logoutAll"} : Call(c, for)
    \/ \E u \in Users : BanBegin(u) \/ BanCommit(u) \/ Unban(u)
    \/ \E s \in Sessions : Expire(s) \/ Age(s)
    \/ \E b \in Browsers : DropCookie(b)

Spec == Init /\ [][Next]_vars

\* A request on the wire is answered, and its answer handled.
FairSpec == Spec /\ \A c \in Callers : WF_vars(Progress(c))

-----------------------------------------------------------------------------
(* Properties *)

\* A login has at most one session that still works: however refreshes, logouts
\* and bans interleave, rotateRefreshSessionOnce never leaves two.
OneLivePerLogin ==
    \A s, r \in Sessions :
        sess[s].state = "ACTIVE" /\ sess[r].state = "ACTIVE" /\ sess[s].root = sess[r].root => s = r

\* Concurrent registrations of one address open one wallet with one signup bonus.
OneSignupBonus == \A u \in Users : wallets[u] = IF account[u] = "NONE" THEN 0 ELSE 1

\* A signed-out answer is true of every login whose session it was asked to end.
SignedOut ==
    \A c \in Callers : op[c].at = "bye" =>
        \A s \in op[c].snap, r \in Sessions :
            sess[r].root = sess[s].root => sess[r].state # "ACTIVE"

\* Every caller gets its answer: no request waits for ever for a shared refresh
\* or for a row lock, whether the refresh succeeds, fails or is lost.
CallersReturn == \A c \in Callers : []<>(op[c].at = "idle")

-----------------------------------------------------------------------------
(* The inductive invariant behind them *)

\* A session descends from one that was created.
RootsExist ==
    \A s \in Sessions : sess[s].state # "FREE" =>
        sess[s].root \in Sessions /\ sess[sess[s].root].state # "FREE"

\* An open rotation holds an active session, and holds it alone: whatever ends
\* sessions waits for its row lock.
RotationsAreApart ==
    \A c \in Callers : op[c].at = "rotating" =>
        /\ op[c].tok \in Sessions /\ sess[op[c].tok].state = "ACTIVE"
        /\ \A d \in Callers : op[d].at = "rotating" /\ op[d].tok = op[c].tok => d = c

\* A request carries the access token of a session, a good answer a new one.
TokensNameSessions ==
    \A c \in Callers : op[c].at \in {"request", "answer"} => op[c].tok \in Sessions

BansKnowTheirUser == \A u \in Users : ban[u].open => account[u] # "NONE"

IInv ==
    /\ TypeOK
    /\ OneLivePerLogin /\ RootsExist /\ RotationsAreApart /\ TokensNameSessions
    /\ OneSignupBonus /\ BansKnowTheirUser
===============================================================================
