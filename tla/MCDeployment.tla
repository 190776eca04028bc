------------------------------ MODULE MCDeployment ---------------------------
(* Instances of Deployment for TLC: a first release checked out with CRLF line *)
(* ends, and a second one that edits its first migration, as                   *)
(* 20260609_add_wallet_transaction_balance_before.sql was, and adds a third.   *)
EXTENDS Deployment, TLC

Migration(n, b, e) == [name |-> n, body |-> b, eol |-> e]
FirstRelease  == <<Migration("m1", "wallets", "CRLF"), Migration("m2", "bets", "CRLF")>>
SecondRelease == <<Migration("m1", "wallets2", "LF"), Migration("m2", "bets", "LF"), Migration("m3", "rounds", "LF")>>
SlipRelease   == <<Migration("m1", "wallets", "LF"), Migration("m2", "bets2", "LF")>>

OneRelease    == ("first" :> FirstRelease)
TwoReleases   == OneRelease @@ ("second" :> SecondRelease)
ThreeReleases == TwoReleases @@ ("slip" :> SlipRelease)

KnownEdits == [r \in {"first", "second", "slip"} |->
                 IF r = "second" THEN {<<"m1", <<"wallets", "LF">>>>, <<"m1", <<"wallets", "CRLF">>>>} ELSE {}]

Fresh == [n \in Names |-> NoSum]
\* written by the runner of before migrationChecksum
RawRows == [Fresh EXCEPT !["00000000_init.sql"] = <<"init", "LF">>, !["m1"] = <<"wallets", "CRLF">>]
FreshOrOld == {Fresh, RawRows}
===============================================================================
