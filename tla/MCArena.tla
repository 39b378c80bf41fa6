------------------------------- MODULE MCArena -------------------------------
(* Arena with interchangeable objects and guards.                           *)
EXTENDS Arena, TLC

CONSTANTS o1, o2, o3, g1, g2, g3
MCObj == {o1, o2, o3}
MCGuard == {g1, g2, g3}
Symmetry == Permutations(MCObj) \cup Permutations(MCGuard)
==============================================================================
