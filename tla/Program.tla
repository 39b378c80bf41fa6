------------------------------ MODULE Program ------------------------------
(***************************************************************************)
(* What the passes ask of the database (poniescript-core/src/db.rs) and of *)
(* the trees in it.                                                        *)
(***************************************************************************)
EXTENDS Types, SequencesExt

\* maybe_type_error!, and the panics inside of the rules for types
Computed(s, t, Next(_)) ==
    CASE t = TypeError -> Fail(s) [] t = Ice -> Panic(s, "vector") [] OTHER -> Next(s)

\* A tree of nodes that is put into the arena behind its first `base' nodes, with
\* the root last; Old stands for one that is there.
Old(id) == Node("Old", <<>>, Unassigned, id)
RECURSIVE Size(_)
Size(tree) == IF tree.k = "Old" THEN 0 ELSE FoldLeft(LAMBDA n, kid : n + Size(kid), 1, tree.a)
RECURSIVE Planted(_, _)
Planted(tree, base) ==
    LET Start(i) == FoldLeft(LAMBDA n, kid : n + Size(kid), base, SubSeq(tree.a, 1, i - 1))
        Root(i) == IF tree.a[i].k = "Old" THEN tree.a[i].x ELSE Start(i + 1) IN
    IF tree.k = "Old" THEN <<>>
    ELSE Append(FlattenSeq([i \in DOMAIN tree.a |-> Planted(tree.a[i], Start(i))]),
                [tree EXCEPT !.a = [i \in DOMAIN tree.a |-> Root(i)]])

Replace(s, id, tree) ==
    LET With(nodes) == [s EXCEPT !.ast = [s.ast EXCEPT ![id] = Last(nodes)] \o Front(nodes)] IN With(Planted(tree, End(s)))

----------------------------------------------------------------------------
(* The database *)

\* lookup_property: a variable of a class or of a class around it, or one that
\* was synthesized for the type
RECURSIVE Member(_, _, _, _)
Member(s, c, map, name) ==
    CASE name \in DOMAIN s.classes[c][map] -> s.classes[c][map][name]
      [] s.classes[c].parent = "" -> 0
      [] OTHER -> Member(s, s.classes[c].parent, map, name)

None == [var |-> 0, t |-> Unassigned, readonly |-> FALSE]
Synthesized(t, readonly) == [var |-> 0, t |-> t, readonly |-> readonly]
\* The place of a member of a tuple, or 0
TupleIndex(t, name) ==
    LET At(names) == SelectInSeq(names, LAMBDA n : n = name)
        i == IF IsNamedVec(t) THEN At(<<"0", "1", "2", "3">>) + At(<<"x", "y", "z", "w">>) ELSE At(<<"0", "1", "2", "3">>) IN
    IF i \in DOMAIN t[2] THEN i ELSE 0
LookupProperty(s, t, name) ==
    CASE Is(t, "class") /\ Member(s, t[2], "vars", name) # 0 ->
            LET v == Member(s, t[2], "vars", name) IN [var |-> v, t |-> Unassigned, readonly |-> s.vars[v].readonly]
      [] t[1] \in {"str", "strConst", "strBuf", "array", "dyn"} /\ name = "length" -> Synthesized(Integer, TRUE)
      [] Is(t, "tuple") /\ IsCgenSafe(t) /\ TupleIndex(t, name) # 0 -> Synthesized(t[2][TupleIndex(t, name)], FALSE)
      [] Is(t, "range") /\ IsCgenSafe(t) /\ name \in {"left", "right"} -> Synthesized(t[3], FALSE)
      [] OTHER -> None
PropertyType(s, p) == IF p.var # 0 THEN s.vars[p.var].t ELSE p.t
LookupMemberFn(s, t, name) == IF Is(t, "class") THEN Member(s, t[2], "funs", name) ELSE 0

\* lookup_builtin_method and BuiltinMethod::get_types, of those without a function as argument
BuiltinMethods(t) ==
    CASE Is(t, "dyn") -> [push |-> [params |-> <<t[2]>>, ret |-> Void]]
      [] Is(t, "option") -> [or_panic |-> [params |-> <<>>, ret |-> t[2]]]
      [] OTHER -> <<>>

Sig(s, f) == s.funs[f].sig
ParamTypes(s, f) == [i \in DOMAIN s.funs[f].params |-> s.vars[s.funs[f].params[i]].t]

\* Expr::typ
RECURSIVE TypeOf(_, _)
TypeOf(s, id) ==
    LET n == s.ast[id] IN
    CASE n.k = "Closure" -> TypeOf(s, n.a[1])
      [] n.k \in {"Break", "Continue", "Return"} -> Bottom
      [] n.k = "Variable" -> s.vars[n.x].t
      [] n.k = "Assign" -> s.vars[n.x.var].t
      [] n.k = "FunCall" -> s.funs[n.x.fun].ret
      [] n.k = "ValCall" -> n.x[3]
      [] n.k \in {"Comparison", "Logical", "BoolLiteral"} -> Bool
      [] n.k = "StrLiteral" -> StrConst
      [] n.k = "Str" -> StrBuf
      [] n.k \in {"ForLoop", "UnboundFunCapture", "BuiltinCapture"} -> Unassigned
      [] n.k = "Print" -> IF n.a = <<>> THEN Void ELSE TypeOf(s, n.a[1])
      [] n.k \in {"Get", "Set"} -> IF n.x.vars = <<>> THEN Unassigned ELSE PropertyType(s, n.x.vars[Len(n.x.vars)])
      [] n.k = "Declare" -> s.vars[n.x].t
      [] n.k = "ClassDeclare" -> Unassigned
      [] OTHER -> n.t
=============================================================================
