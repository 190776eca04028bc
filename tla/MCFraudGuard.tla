---------------------------- MODULE MCFraudGuard ----------------------------
(* FraudGuard for TLC, with small scores and limits of one.  The users share  *)
(* one network and one device.                                                *)
EXTENDS FraudGuard, TLC

MCIP     == [u \in Players |-> "net"]
MCDevice == [u \in Players |-> "device"]
MCPoints == [sig \in Signal |-> IF sig \in {"timing", "device"} THEN 2 ELSE 1]

One(S) == {CHOOSE x \in S : TRUE}
Bettor == [users |-> One(Players), requests |-> One(Requests), kinds |-> {"bet"}, score |-> 1,
           clock |-> TRUE, fail |-> 0, control |-> 1, forget |-> 0]

\* A user near the block who bets again and again; two bets of a user at once;
\* logins of several users; two socket events at once, one of which fails.
MCScenarios == {
    Bettor,
    [Bettor EXCEPT !.requests = Requests, !.score = 0, !.clock = FALSE, !.control = 0],
    [Bettor EXCEPT !.users = Players, !.kinds = {"login"}, !.clock = FALSE, !.control = 0, !.forget = 1],
    [Bettor EXCEPT !.requests = Requests, !.kinds = {"socket"}, !.score = 0, !.clock = FALSE, !.fail = 1,
                   !.control = 0]}

\* Two bets at once, and one that fails.
TwoBets == {[Bettor EXCEPT !.requests = Requests, !.clock = FALSE, !.control = 0]}
OneFails == {[Bettor EXCEPT !.score = 2, !.clock = FALSE, !.fail = 1, !.control = 0]}
=============================================================================
