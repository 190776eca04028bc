----------------------------- MODULE MCRealtime -----------------------------
(* Realtime for TLC.  Tabs, users and instances are numbered: a tab is signed *)
(* in as the user of its number, or the last one, and so on.                  *)
EXTENDS Realtime, TLC

CONSTANTS Drops, Rotations, Ages, LogoutAlls, Bans, SignIns, SignOuts

At(n, S)  == IF n \in S THEN n ELSE Cardinality(S)
MCUserOf  == [c \in Tabs |-> At(c, Users)]
MCNodeOf  == [c \in Tabs |-> At(c, Nodes)]
MCBudget  == [e \in Event |-> CASE e = "drop" -> Drops [] e = "rotate" -> Rotations
                 [] e = "age" -> Ages [] e = "logoutAll" -> LogoutAlls
                 [] e = "ban" -> Bans [] e = "signIn" -> SignIns
                 [] e = "signOut" -> SignOuts]
Symmetry  == Permutations(Sockets)
=============================================================================
