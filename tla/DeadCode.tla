------------------------------ MODULE DeadCode ------------------------------
(***************************************************************************)
(* Dead code elimination (poniescript-core/src/dead_code.rs).  Elim gives  *)
(* the node that takes the place of the node, and whether code after it is *)
(* dead.  In a block it is the type of a statement that says so.           *)
(***************************************************************************)
EXTENDS Program

Eliminated(s, id, dead) == [s |-> s, id |-> id, dead |-> dead]

RECURSIVE Elim(_, _)
InPlace(e, id, i) == [e EXCEPT !.s.ast[id].a[i] = e.id]
ElimKid(s, id, i) == InPlace(Elim(s, Kid(s, id, i)), id, i)
Unless(e, Rest(_)) == IF e.dead THEN e ELSE Rest(e.s)
As(e, id, dead) == Eliminated(e.s, id, dead)

\* The first child, then the second.  A dead first child takes the place of the
\* whole; a dead second one counts if it is always evaluated.
Second(e, id, always) == As(e, id, always /\ e.dead)
ElimPair(s, id, always) == Unless(ElimKid(s, id, 1), LAMBDA c : Second(ElimKid(c, id, 2), id, always))

ElimOnly(s, id) == Unless(ElimKid(s, id, 1), LAMBDA c : Eliminated(c, id, FALSE))

\* The children from..to up to a dead one, if there is one: e.n is its index.
DeadAt(k, i) == [s |-> k.s, n |-> IF k.dead THEN i ELSE 0]
FirstDead(s, id, from, to) ==
    FoldLeft(LAMBDA e, i : IF e.n > 0 THEN e ELSE DeadAt(ElimKid(e.s, id, i), i),
             [s |-> s, n |-> 0], [j \in 1..(to + 1 - from) |-> from + j - 1])

\* Mutant: what is evaluated before it is lost.
OnlyDead(e, id, from) ==
    IF e.n = 0 THEN Eliminated(e.s, id, FALSE)
    ELSE Eliminated([e.s EXCEPT !.ast[id] = Node("Block", <<@.a[e.n]>>, Bottom, 0)], id, TRUE)

\* elim_sequence: a block of what is evaluated
Evaluated(e, id, from) ==
    IF e.n = 0 THEN Eliminated(e.s, id, FALSE)
    ELSE Eliminated([e.s EXCEPT !.ast[id] = Node("Block", SubSeq(@.a, from, e.n), Bottom, 0)], id, TRUE)
ElimSequence(s, id, from, to) == Evaluated(FirstDead(s, id, from, to), id, from)

\* elim_stmt.  A declaration whose value never comes is replaced by the value.
NeverComes(e) == TypeOf(e.s, e.id) = Bottom
Declaration(e, id, i) ==
    IF NeverComes(e) THEN Eliminated([e.s EXCEPT !.ast[id].a[i] = e.id], id, TRUE) ELSE As(e, id, FALSE)
ElimStmt(s, id, i) ==
    LET n == s.ast[Kid(s, id, i)]
        Statement(e) == As(e, id, NeverComes(e)) IN
    CASE n.k = "Declare" /\ n.a = <<>> -> Eliminated(s, id, FALSE)
      [] n.k = "Declare" /\ n.a # <<>> -> Declaration(ElimKid(s, Kid(s, id, i), 1), id, i)
      [] OTHER -> Statement(ElimKid(s, id, i))

Shortened(e, id, i) == IF e.dead THEN [e EXCEPT !.s.ast[id].a = SubSeq(@, 1, i)] ELSE e
ElimBlock(s, id) ==
    FoldLeft(LAMBDA e, i : IF e.dead THEN e ELSE Shortened(ElimStmt(e.s, id, i), id, i),
             Eliminated(s, id, FALSE), [j \in DOMAIN s.ast[id].a |-> j])

\* A condition whose value never comes takes the place of the whole.
Conditional(e, Rest(_)) == IF NeverComes(e) THEN As(e, e.id, TRUE) ELSE Rest(e.s)
Otherwise(e, id) ==
    IF Len(e.s.ast[id].a) = 2 \/ ~e.dead THEN As(e, id, e.dead) ELSE Second(ElimKid(e.s, id, 3), id, TRUE)
ElimIf(s, id) == Conditional(ElimKid(s, id, 1), LAMBDA c : Otherwise(ElimKid(c, id, 2), id))
ElimWhile(s, id) == Conditional(ElimKid(s, id, 1), LAMBDA c : As(ElimKid(c, id, 2), id, FALSE))

\* Of a class only its own methods are visited.
ElimAll(s, ids) == FoldLeft(LAMBDA c, id : Elim(c, id).s, s, ids)

Elim(s, id) ==
    LET n == s.ast[id]
        last == Len(n.a)
        Value(dead) == IF n.a = <<>> THEN Eliminated(s, id, dead) ELSE As(ElimKid(s, id, 1), id, dead) IN
    CASE n.k \in {"Binary", "Comparison", "Set"} -> ElimPair(s, id, TRUE)
      [] n.k \in {"Logical", "OptionElse"} -> ElimPair(s, id, FALSE)
      [] n.k \in {"Assign", "Get", "Promote"} -> ElimOnly(s, id)
      [] n.k \in {"Closure", "Unary"} -> Second(ElimKid(s, id, 1), id, TRUE)
      [] n.k = "FunCall" -> ElimSequence(s, id, 1, IF n.x.object THEN last - 1 ELSE last)
      [] n.k \in {"ValCall", "BuiltinCall"} -> ElimSequence(s, id, 2, last)
      [] n.k = "New" -> ElimSequence(s, id, IF n.x.object THEN 2 ELSE 1, last)
      [] n.k \in {"Print", "Str", "ArrayLit", "MakeTuple"} -> ElimSequence(s, id, 1, last)
      [] n.k = "FunDeclare" -> Value(FALSE)
      [] n.k = "ClassDeclare" -> Eliminated(ElimAll(s, s.classes[n.x].methods), id, FALSE)
      [] n.k = "Block" -> ElimBlock(s, id)
      [] n.k = "If" -> ElimIf(s, id)
      [] n.k = "Loop" -> Value(n.t = Bottom)
      [] n.k = "WhileLoop" -> ElimWhile(s, id)
      [] n.k \in {"Break", "Continue", "Return"} -> Value(TRUE)
      [] OTHER -> Eliminated(s, id, FALSE)

\* Functions, then classes; the initializers of globals are left as they are.
EliminateDeadCode(s) == ElimAll(s, s.functions \o s.top)
=============================================================================
