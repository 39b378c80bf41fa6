---------------------------- MODULE MCGcHandshake ----------------------------
(* Instances of GcHandshake for TLC.  The contexts are interchangeable; the *)
(* reduction is used by the runs that check no liveness.                    *)
EXTENDS GcHandshake, TLC

Symmetry == Permutations(Ctx)

JoinCalls == {"join"}
MostCalls == {"join", "stop", "until"}
LateCalls == {"late", "join"}
=============================================================================
