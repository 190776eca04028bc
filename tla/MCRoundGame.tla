----------------------------- MODULE MCRoundGame -----------------------------
(* RoundGame for TLC: players, instances, keys and colours are interchangeable. *)
EXTENDS RoundGame, TLC

Symmetry == Permutations(Users) \cup Permutations(Engines)
            \cup Permutations(BetKeys) \cup Permutations(Colors)

\* Of the scheduler ticks and the forceResult request, any two overlap.
TwoAtWork == Cardinality({p \in Procs : pc[p] # "idle"}) <= 2
=============================================================================
