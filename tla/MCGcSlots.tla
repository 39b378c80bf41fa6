------------------------------ MODULE MCGcSlots ------------------------------
(* GcSlots with three values, which are interchangeable.                   *)
EXTENDS GcSlots, TLC

CONSTANTS v1, v2, v3

Symmetry == Permutations({v1, v2, v3})
=============================================================================
