--------------------------------- MODULE Db ---------------------------------
(***************************************************************************)
(* What the passes of the compiler share (poniescript-core/src/db.rs and   *)
(* the trees of build/build_expr.rs).  A state s holds                     *)
(*   ast         the arena of nodes [k, a, t, x]: kind, children, type,    *)
(*               and what else the kind needs                              *)
(*   vars        [t, readonly, class, fun, closure, init] for each         *)
(*   funs        [params, ret, sig, class, closure, body] for each         *)
(*   classes     [name, vars, funs, parent, inner, ...] for each           *)
(*   closures    [class, parent, parent_class] for each                    *)
(*   names       name_map: the functions, classes and variables that are   *)
(*               no locals, under the names on the path to them            *)
(*   globals, functions, top      the declarations of the modules: their   *)
(*               Declare, FunDeclare and ClassDeclare nodes                *)
(*   structs, imported            what the headers declare                 *)
(*   err         had_error of the running pass                             *)
(*   reported    db.errors is not empty                                    *)
(*   ice         the panic that ended the pass, or ""                      *)
(* and what the type checker has of its own:                               *)
(*   cls, ret, brk    current_class, return_types, break_exprs             *)
(*   ok, t            the Result of the last call: Ok with a type, or Err  *)
(***************************************************************************)
EXTENDS Sequences

Fields == {"ast", "vars", "funs", "classes", "closures", "names", "globals", "functions", "top", "structs",
           "imported", "err", "reported", "ice", "cls", "ret", "brk", "ok", "t"}

Is(t, constructor) == t[1] = constructor
Elements(ts) == {ts[i] : i \in DOMAIN ts}

\* Mutant: an error that is returned and not written down.
Unwritten(s) == [s EXCEPT !.err = TRUE]
Report(s) == [s EXCEPT !.err = TRUE, !.reported = TRUE]
Fail(s) == [Report(s) EXCEPT !.ok = FALSE]    \* type_error!
Panic(s, what) == [s EXCEPT !.ok = FALSE, !.ice = what]
Result(s, t) == [s EXCEPT !.t = t]
NoPanic(s) == [s EXCEPT !.ok = s.ice = ""]          \* `let _ = ...'

Then(s, Next(_)) == IF s.ok THEN Next(s) ELSE s
Require(s, condition) == IF condition THEN s ELSE Fail(s)

Node(k, a, t, x) == [k |-> k, a |-> a, t |-> t, x |-> x]
Put(s, node) == [s EXCEPT !.ast = Append(@, node)]
End(s) == Len(s.ast)
Kid(s, id, i) == s.ast[id].a[i]
SetType(s, id, t) == [s EXCEPT !.ast[id].t = t, !.t = t]
=============================================================================
