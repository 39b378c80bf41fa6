----------------------------- MODULE Rendezvous -----------------------------
(***************************************************************************)
(* What the handshake of the concurrent collector promises, with no lock,  *)
(* counter or condition variable in sight: the collector asks, every       *)
(* context that takes part answers that very question once, and only then  *)
(* does the collector go on.  GcHandshake is shown to implement this       *)
(* module; GcCollect builds the collection cycle on it.                    *)
(***************************************************************************)
EXTENDS Naturals

CONSTANT Ctx            \* the mutator contexts (GcContext)

VARIABLES
    asked,              \* a question is open: the collector is in handshake()
    pending             \* the contexts that have not answered it yet

rvVars == <<asked, pending>>

RvTypeOK == /\ asked \in BOOLEAN
            /\ pending \subseteq Ctx

RvInit == /\ asked = FALSE
          /\ pending = {}

(* The collector opens a question to the contexts of `who`.                *)
Ask(who) == /\ ~asked
            /\ asked' = TRUE
            /\ pending' = who

(* One context answers the open question, once.                            *)
Answer(c) == /\ c \in pending
             /\ pending' = pending \ {c}
             /\ UNCHANGED asked

(* The collector goes on: everybody has answered.                          *)
Proceed == /\ asked
           /\ pending = {}
           /\ asked' = FALSE
           /\ UNCHANGED pending

RvNext == \/ \E who \in SUBSET Ctx : Ask(who)
          \/ \E c \in Ctx : Answer(c)
          \/ Proceed

RvSafety == RvInit /\ [][RvNext]_rvVars
RvSpec == RvSafety /\ WF_rvVars((\E c \in Ctx : Answer(c)) \/ Proceed)
=============================================================================
