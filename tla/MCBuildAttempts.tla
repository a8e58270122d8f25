--------------------------- MODULE MCBuildAttempts ---------------------------
(* Instances of BuildAttempts for TLC: two processes, two recipes. *)
EXTENDS BuildAttempts, TLC

CONSTANTS p1, p2, r1, r2

MCProcs == {p1, p2}
MCRecipes == {r1, r2}
MCSymmetry == Permutations(MCProcs) \cup Permutations(MCRecipes)
=============================================================================
