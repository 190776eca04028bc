---------------------------- MODULE MCCoinWallet ----------------------------
(* CoinWallet for TLC: a bet's debit that one bonus covers once, a win, and    *)
(* adjustments in both directions, one of which no balance covers at first.    *)
EXTENDS CoinWallet, TLC

Move(u, t, d, n) == [user |-> u, type |-> t, direction |-> d, amount |-> n]
MCMovements ==
    UNION {{Move(u, "BET_DEBIT", "DEBIT", 2), Move(u, "BET_WIN_CREDIT", "CREDIT", 3),
            Move(u, "ADMIN_ADJUSTMENT", "DEBIT", 4), Move(u, "ADMIN_ADJUSTMENT", "CREDIT", 1)} : u \in Users}
Symmetry == Permutations(Calls) \cup Permutations(Keys)
=============================================================================
