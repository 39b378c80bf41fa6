------------------------------ MODULE Compiler ------------------------------
(***************************************************************************)
(* The compiler from the parsed modules to the call of the code generator: *)
(* Driver, with the passes that main calls.                                *)
(***************************************************************************)
EXTENDS Driver, Binder, Typed, DeadCode, Closures, Effects, Reach

\* check_module for one declaration, whose Result nobody looks at
Checks(p, id) == NoPanic(CheckDeclare(p, id))

-----------------------------------------------------------------------------
(* Properties                                                              *)

\* A function in a method, without a class to reach the object of the method by
Selfless(s0, f) ==
    LET InMethod[k \in {0} \cup DOMAIN s0.closures] ==
            k # 0 /\ (s0.closures[k].parent_class # "" \/ InMethod[s0.closures[k].parent]) IN
    s0.funs[f].class = "" /\ InMethod[s0.funs[f].closure]

(* Each value has the type of the place that it goes to.                   *)
WellTyped == pass = "closures" => Misfits(s) = {}

(* Where dead code elimination loses something: it takes an `if' that may  *)
(* be passed over for one that never goes on, unless what is around it     *)
(* looks at its type (dead_code.rs:255-260); and of the call of a value it *)
(* keeps the arguments up to the dead one, but not the callee, which ran   *)
(* before them (elim_sequence).                                            *)
RECURSIVE HalfIf(_, _)
HalfIf(s0, id) ==
    LET n == s0.ast[id] IN
    n.k = "If" /\ Final(s0, n.a[2]) /\ (Len(n.a) = 2 \/ HalfIf(s0, n.a[3]))
LooksAtType == {"Block", "Declare", "If", "Loop", "WhileLoop", "FunDeclare", "Return", "Break"}
Loses(s0, id) ==
    LET n == s0.ast[id]
        kids == Elements(n.a) IN
    \/ n.k \notin LooksAtType /\ \E kid \in kids : HalfIf(s0, kid)
    \/ n.k = "ValCall" /\ ~Silent(s0, n.a[1]) /\ \E kid \in Elements(Tail(n.a)) : Final(s0, kid)

(* Dead code elimination removes nothing that runs, and lets nothing run   *)
(* that did not, in each function without a place where it Loses.          *)
SameEffects == pass = "closures" =>
    LET was == [s EXCEPT !.ast = before] IN
    \A f \in {g \in DOMAIN s.funs : s.funs[g].body # 0} :
        \/ Runs(was, s.funs[f].body) = Runs(s, s.funs[f].body)
        \/ \E id \in Below(was, s.funs[f].body) : Loses(was, id)

(* What a function reads that is not its own can be reached from `this'.   *)
ThisReaches == pass = "outputs" =>
    /\ \A f \in {g \in DOMAIN s.funs : s.funs[g].body # 0 /\ ~Selfless(s, g)} : UnreachedIn(s, f) = {}
    /\ \A c \in DOMAIN s.classes : UnreachedInClass(s, c) = {}
    /\ UnreachedInGlobals(s) = {}
=============================================================================
