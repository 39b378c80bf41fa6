---------------------------- MODULE MCCodegenPool ----------------------------
(* CodegenPool with every kind of failure.                                  *)
EXTENDS CodegenPool

AllFaults == {"ice", "write", "prelude"}
==============================================================================
