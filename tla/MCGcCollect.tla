----------------------------- MODULE MCGcCollect -----------------------------
(* Instances of GcCollect for TLC.  Addresses are interchangeable, and so   *)
(* are contexts; the reduction is used where no liveness is checked.        *)
EXTENDS GcCollect, TLC

Symmetry == Permutations(Obj) \cup Permutations(Ctx)

AllOps == Operations
BuildOps == {"alloc", "store", "forget"}
ReadOps == {"load", "forget"}
LocalOps == {"alloc", "store", "load", "forget", "nil"}
=============================================================================
