------------------------------ MODULE MCClientGame ----------------------------
(* Scenarios of ClientGame for TLC.  Often lists the drops, reloads, resyncs,   *)
(* pauses, stopped rounds and presses of the button a scenario allows.          *)
EXTENDS ClientGame

Often(d, r, s, p, c, a, n) ==
    [k \in Kinds |-> CASE k = "drop" -> d [] k = "reload" -> r [] k = "resync" -> s
                       [] k = "pause" -> p [] k = "cancel" -> c [] k = "abandon" -> a [] k = "press" -> n]

Base == [instances |-> {"api"}, engine |-> "api", laneCap |-> 2, rounds |-> 1, bets |-> 1, quantity |-> 1,
         storage |-> TRUE, topics |-> {}, queries |-> {"round"}, budget |-> Often(0, 0, 0, 0, 0, 0, 0)]

\* Copies of one outcome over two instances, beside the bet history.
Copies  == [Base EXCEPT !.instances = {"api", "peer"}, !.engine = "peer", !.topics = {"bets", "ack"},
                        !.queries = {"round", "bets"}, !.budget = Often(0, 0, 0, 0, 0, 0, 1)]
\* The same outcome before and after the page is loaded again.
Reloaded == [Base EXCEPT !.topics = {"bets"}, !.queries = {"round", "bets"}, !.budget = Often(0, 1, 0, 0, 1, 0, 1)]
\* Two presses of two bets each, over two rounds.
Presses == [Base EXCEPT !.rounds = 2, !.bets = 2, !.quantity = 2, !.topics = {"ack"},
                        !.budget = Often(0, 0, 0, 0, 0, 1, 2)]
\* Two rounds, one of them stopped, in copies that overtake each other.
Stopped == [Base EXCEPT !.instances = {"api", "peer"}, !.engine = "peer", !.laneCap = 1, !.rounds = 2, !.bets = 0,
                        !.topics = {"round"}, !.queries = {}, !.budget = Often(0, 0, 0, 0, 1, 0, 0)]
\* A pause, a stopped round and a lost connection against the page's round.
Pauses  == [Base EXCEPT !.laneCap = 1, !.bets = 0, !.topics = {"round", "control", "sync"},
                        !.budget = Often(1, 0, Forever, 1, 1, 0, 0)]
\* A bet, its outcome and a lost connection against the page's wallet.
Wallet  == [Base EXCEPT !.laneCap = 1, !.topics = {"wallet", "sync"}, !.queries = {"wallet"},
                        !.budget = Often(1, 0, Forever, 0, 0, 0, 1)]
Tab     == {Copies, Reloaded, Presses, Stopped, Pauses, Wallet}

\* A settlement whose event is lost, without session storage.
Told    == {[Base EXCEPT !.laneCap = 1, !.storage = FALSE, !.topics = {"bets"}, !.queries = {"round", "bets"},
                         !.budget = Often(1, 0, Forever, 0, 0, 0, 1)]}
\* The disagreements with the documents and messages.
Ended   == {Pauses}
Offline == {[Base EXCEPT !.laneCap = 3, !.topics = {"round", "sync", "ack"}, !.budget = Often(1, 0, 0, 0, 0, 0, 1)]}
Retried == {[Base EXCEPT !.laneCap = 3, !.bets = 2, !.topics = {"round", "sync", "ack"},
                         !.budget = Often(0, 0, 0, 0, 0, 0, 2)]}
====
