----------------------------- MODULE MCRealMoney -----------------------------
(* RealMoney for TLC.  Colours are not permuted: the result of a round is one. *)
EXTENDS RealMoney, TLC

CONSTANTS Main, FirstKey   \* a user and a bet key, the first of each

Symmetry == Permutations(Requests) \cup Permutations(BetKeys) \cup Permutations(WithdrawalKeys)
            \cup Permutations(DecisionKeys) \cup Permutations(Deposits) \cup Permutations(Users)

\* Every way to restrict a user is tried, one at a time.
OneRestriction ==
    \A u \in Users :
        Cardinality(standing[u].blocked) + Cardinality({x \in {"kyc", "self", "frozen"} :
            CASE x = "kyc"    -> ~standing[u].verified
              [] x = "self"   -> standing[u].excluded
              [] x = "frozen" -> ~wallet[u].active}) <= 1

Asking(op) == {q \in Requests : request[q] # None /\ request[q].op = op}
Keys == Placed \cup {request[q].key : q \in Asking("BET")}

\* What may complicate the one bet of a round: a second bet, a withdrawal, a force
\* operation, a fault, a restriction of the user, midnight.
Complications ==
    {x \in {"bet", "withdrawal", "force", "fault", "restriction", "midnight"} :
        CASE x = "bet" -> Cardinality(Keys) > 1
          [] x = "withdrawal" -> Asked \cup Asking("WITHDRAWAL") # {}
          [] x = "force" -> \/ \E p \in Admins : pc[p] # "idle"
                            \/ \E r \in Rounds : round[r].status = "CANCELLED"
          [] x = "fault" -> faults > 0
          [] x = "restriction" -> \E u \in Users : ~Eligible(u) \/ standing[u].blocked # {}
          [] x = "midnight" -> day > 0}

\* A deposit is named for its user, who needs one, and one of the keys is used first.
Named ==
    /\ \A e \in ledger : e.kind = "deposit" => e.ref = e.user
    /\ \A k \in Keys : k = FirstKey \/ FirstKey \in Keys

\* Two complications meet in one behaviour, of the scenarios' many.
TwoComplications == Named /\ OneRestriction /\ Cardinality(Complications) <= 2

Plain == [ops |-> {}, users |-> {Main}, askers |-> {}, bets |-> BetKeys, faults |-> 0, days |-> 0]

\* Two users' bets, force operations and faults; a bet, force operations, the
\* freeze switch and a withdrawal; bets and withdrawals under every restriction.
AllScenarios == {
    [Plain EXCEPT !.ops = {"stop", "result"}, !.users = Users, !.faults = 1],
    [Plain EXCEPT !.ops = {"stop", "result", "freeze", "withdraw"}, !.bets = {FirstKey},
                  !.askers = {Main}],
    [Plain EXCEPT !.ops = {"kyc", "risk", "limits", "withdraw"}, !.bets = {FirstKey},
                  !.askers = {Main}, !.days = 1]}

\* Nothing goes wrong; one thing does.
Calm   == {[Plain EXCEPT !.askers = {Main}]}
Faulty == {[Plain EXCEPT !.faults = 1]}
=============================================================================
