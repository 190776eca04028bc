--------------------------- MODULE MCAuthSessions ---------------------------
(* AuthSessions for TLC.  Users, browsers, tabs and callers are numbered; a  *)
(* caller without a tab of its own number uses the last one, and so on.      *)
EXTENDS AuthSessions

CONSTANTS Faults, Bans, Logouts, LogoutAlls, Expiries, Ages, Calls

At(n, S)    == IF n \in S THEN n ELSE Cardinality(S)
MCUserOf    == [b \in Browsers |-> At(b, Users)]
MCBrowserOf == [t \in Tabs |-> At(t, Browsers)]
MCTabOf     == [c \in Callers |-> At(c, Tabs)]
MCBudget    == [e \in Event |-> CASE e = "fault" -> Faults [] e = "ban" -> Bans
                   [] e = "logout" -> Logouts [] e = "logoutAll" -> LogoutAlls
                   [] e = "expire" -> Expiries [] e = "age" -> Ages [] e = "call" -> Calls]

\* Any two disturbances meet in one run: a failure, a ban, an expired session, a
\* logout of one device or of all.
Disturbed == {e \in Event \ {"age", "call"} : left[e] < Budget[e]}
TwoDisturbances == Cardinality(Disturbed) <= 2
=============================================================================
