------------------------------ MODULE Typecheck ------------------------------
(***************************************************************************)
(* The type checker (poniescript-core/src/typecheck.rs) on the trees that  *)
(* the binder leaves behind.  A call that returns early with `?' leaves    *)
(* what it has changed so far.                                             *)
(***************************************************************************)
EXTENDS Program

\* One walk for check_expr, promote_expr and the checks of declarations, which
\* call each other
RECURSIVE Visit(_, _, _)
Check(s, id, used) == Visit(s, id, <<"check", used>>)
PromoteExpr(s, id, to) == Visit(s, id, <<"promote", to>>)
CheckDeclare(s, id) == Visit(s, id, <<"declare">>)

CheckKid(s, id, i, used) == Check(s, Kid(s, id, i), used)
IsStmt(n) == n.k \in {"Declare", "ClassDeclare"}

----------------------------------------------------------------------------
(* Promotion: the types that were left open become what is wanted; what then *)
(* still differs is converted at run time by a Promote node.                 *)

\* really_do_promote_expr, on the i-th child of a node
Insert(p, id, i) == [p EXCEPT !.ast[id].a[i] = End(p)]
Converted(p, id, i, to, from) ==
    IF from = to THEN p
    ELSE Insert(Put(IF IsUnsynthesizable(to, from) THEN Report(p) ELSE p, Node("Promote", <<Kid(p, id, i)>>, to, 0)), id, i)
ReallyPromote(s, id, i, to) ==
    Then(PromoteExpr(s, Kid(s, id, i), to), LAMBDA p : Converted(p, id, i, to, TypeOf(p, Kid(p, id, i))))

\* promote_from_unassigned
Open(s, id, i) == PromoteTyFromUnassigned(TypeOf(s, Kid(s, id, i)))
PromoteFromUnassigned(s, id, i) ==
    Then(ReallyPromote(s, id, i, Open(s, id, i)), LAMBDA p : Result(p, Open(s, id, i)))

\* do_promote_expr
DoPromote(s, id, i, to) ==
    Then(ReallyPromote(s, id, i, IF to = Bottom THEN Open(s, id, i) ELSE to),
         LAMBDA p : IF to = Bottom THEN Result(p, Open(s, id, i)) ELSE p)

\* The children of a node, in order, each to the type it gets from To
PromoteAll(s, id, from, To(_, _)) ==
    FoldLeft(LAMBDA acc, i : Then(acc, LAMBDA c : DoPromote(c, id, i, To(c, i))),
             s, [j \in 1..(Len(s.ast[id].a) + 1 - from) |-> from + j - 1])

\* A node takes the incoming type, unless it has a concrete one.
Adopt(s, id, to) == IF IsNotConcrete(s.ast[id].t) THEN SetType(s, id, to) ELSE s

PromoteSide(s, id, i, lone) == DoPromote(s, id, i, IF lone THEN Open(s, id, i) ELSE s.ast[id].t)
PromoteBinary(s, id) ==
    LET l == TypeOf(s, Kid(s, id, 1))
        r == TypeOf(s, Kid(s, id, 2)) IN
    Then(PromoteSide(s, id, 1, IsScalar(l) /\ IsVec(r)), LAMBDA p : PromoteSide(p, id, 2, IsVec(l) /\ IsScalar(r)))

PromoteRange(s, id, to) ==
    IF IsNotConcrete(s.ast[id].t) /\ ~Is(to, "range") THEN Panic(s, "MakeRange")
    ELSE LET p == Adopt(s, id, to) IN PromoteAll(p, id, 1, LAMBDA c, i : p.ast[id].t[3])

\* Every break with a value is promoted to the incoming type, which need not be
\* the type of the loop.
PromoteLoop(s, id, to) ==
    FoldLeft(LAMBDA acc, b : Then(acc, LAMBDA c : IF c.ast[b].a = <<>> THEN c ELSE DoPromote(c, b, 1, to)),
             Adopt(s, id, to), s.ast[id].x)

RECURSIVE ElementType(_)
ElementType(t) == CASE t[1] \in {"array", "dyn"} -> t[2] [] Is(t, "option") -> ElementType(t[2]) [] OTHER -> Ice

\* Mutant: the elements are not promoted to the type of the array.
PromoteArrayOnly(s, id, to) == IF ElementType(to) = Ice THEN Panic(s, "ArrayLit") ELSE [s EXCEPT !.ast[id].t = to]

\* x holds elem_typ, t holds arr_typ
PromoteArray(s, id, to) ==
    LET elem == ElementType(to)
        open == IsNotConcrete(s.ast[id].x) \/ (Is(s.ast[id].t, "array") /\ Is(to, "dyn"))
        p == IF open THEN [s EXCEPT !.ast[id].x = elem, !.ast[id].t = to] ELSE s IN
    IF elem = Ice THEN Panic(s, "ArrayLit") ELSE PromoteAll(p, id, 1, LAMBDA c, i : p.ast[id].x)

PromoteIndex(s, id, to) ==
    LET arr == TypeOf(s, Kid(s, id, 1)) IN
    CASE ~IsNotConcrete(s.ast[id].t) -> s
      [] arr[1] \in {"array", "dyn"} -> DoPromote(SetType(s, id, to), id, 1, <<arr[1], to>>)
      [] OTHER -> Panic(s, "Index")

PromoteTuple(s, id, to) ==
    LET p == Adopt(s, id, to)
        own == p.ast[id].t IN
    IF ~Is(own, "tuple") \/ Len(own[2]) # Len(p.ast[id].a) THEN Panic(s, "MakeTuple")
    ELSE PromoteAll(p, id, 1, LAMBDA c, i : own[2][i])

PromoteBlock(s, id, to) ==
    LET n == Len(s.ast[id].a)
        Typed(p) == SetType(p, id, TypeOf(p, Kid(p, id, n))) IN
    IF n = 0 THEN s
    ELSE Then(IF IsStmt(s.ast[Kid(s, id, n)]) THEN s ELSE DoPromote(s, id, n, to), Typed)

\* infer_fun_type_through_promotion: what is declared must be what is wanted.
InferFun(s, id, to) ==
    LET f == s.ast[id].x
        params == s.funs[f].params
        Agrees(own, wanted) == IsNotConcrete(own) \/ own = wanted
        Typed(p) == [p EXCEPT !.ast[id].t = to, !.funs[f].sig = to, !.funs[f].ret = to[3],
            !.vars = [v \in DOMAIN @ |-> IF \E i \in DOMAIN params : params[i] = v
                THEN [@[v] EXCEPT !.t = to[2][CHOOSE i \in DOMAIN params : params[i] = v]] ELSE @[v]]] IN
    IF IsNotConcrete(to) \/ ~Is(to, "fun") THEN Fail(s)
    ELSE Then(Require(s, /\ Len(to[2]) = Len(params) /\ Agrees(s.funs[f].ret, to[3])
                         /\ \A i \in DOMAIN params : Agrees(s.vars[params[i]].t, to[2][i])), Typed)

\* A lambda whose type is open is checked only now; an error in it is reported,
\* and the promotion goes on.
PromoteFunDeclare(s, id, to) ==
    IF ~IsNotConcrete(Sig(s, s.ast[id].x)) THEN s
    ELSE NoPanic(Then(Then(InferFun(s, id, to), LAMBDA p : CheckDeclare(p, id)),
                      LAMBDA p : SetType(p, id, Sig(p, p.ast[id].x))))

PromoteNode(s, id, to) ==
    LET n == s.ast[id]
        adopted == Adopt(s, id, to) IN
    CASE n.k = "Closure" -> PromoteExpr(s, n.a[1], to)
      [] n.k = "Binary" -> PromoteBinary(adopted, id)
      [] n.k = "MakeRange" -> PromoteRange(s, id, to)
      [] n.k = "Unary" -> DoPromote(adopted, id, 1, adopted.ast[id].t)
      [] n.k = "OptionElse" ->
            PromoteAll(adopted, id, 1, LAMBDA c, i : IF i = 1 THEN Option(adopted.ast[id].t) ELSE adopted.ast[id].t)
      [] n.k = "Lerp" ->
            FoldLeft(LAMBDA acc, i : Then(acc, LAMBDA c : DoPromote(c, id, i, adopted.ast[id].t)), adopted, <<1, 2>>)
      [] n.k = "FunDeclare" -> PromoteFunDeclare(s, id, to)
      [] n.k = "NumLiteral" -> SetType(s, id, to)
      [] n.k = "Block" -> PromoteBlock(s, id, to)
      [] n.k = "If" -> PromoteAll(adopted, id, 2, LAMBDA c, i : adopted.ast[id].t)
      [] n.k = "Loop" -> PromoteLoop(s, id, to)
      [] n.k = "ArrayLit" -> PromoteArray(s, id, to)
      [] n.k = "Index" -> PromoteIndex(s, id, to)
      [] n.k = "MakeTuple" -> PromoteTuple(s, id, to)
      [] n.k = "Promote" -> SetType(s, id, to)
      [] n.k = "MakeSumType" -> IF Is(to, "option") THEN adopted ELSE Panic(s, "MakeSumType")
      [] n.k = "ForLoop" -> Panic(s, "ForLoop")
      [] OTHER -> s

----------------------------------------------------------------------------
(* Checking *)

\* The i-th child is checked and must fit where a value of type `to' goes: an
\* argument, a condition, an index, what is returned or assigned.
CheckInto(s, id, i, to) ==
    Then(CheckKid(s, id, i, TRUE), LAMBDA c :
        LET t == Assignable(to, c.t) IN
        Computed(c, t, LAMBDA d : Then(DoPromote(d, id, i, t), LAMBDA e : Result(e, t))))

\* The children from the first-th on, each into its place
CheckAllInto(s, id, first, places) ==
    FoldLeft(LAMBDA acc, i : Then(acc, LAMBDA c : CheckInto(c, id, first + i - 1, places[i])),
             s, [j \in DOMAIN places |-> j])

\* Two children and the type they meet in
CheckPair(s, id, used, bottomEats, Next(_, _)) ==
    Then(CheckKid(s, id, 1, used), LAMBDA l :
    Then(CheckKid(l, id, 2, used), LAMBDA r :
        LET t == Intersect(bottomEats, l.t, r.t) IN Computed(r, t, LAMBDA c : Next(c, t))))

Mixed(l, r) == (IsVec(l) /\ IsScalar(r)) \/ (IsScalar(l) /\ IsVec(r))
BinaryType(l, r) ==
    IF Mixed(l, r) THEN (IF IsVec(l) THEN ScalarTupleIntersect(r, l) ELSE ScalarTupleIntersect(l, r))
    ELSE Intersect(TRUE, l, r)
CheckBinary(s, id) ==
    LET Numeric(c, t, mixed) ==
            Computed(c, t, LAMBDA d : Then(Require(d, mixed \/ IsNumericOrVec(t)), LAMBDA e : SetType(e, id, t))) IN
    Then(CheckKid(s, id, 1, TRUE), LAMBDA l :
    Then(CheckKid(l, id, 2, TRUE), LAMBDA r : Numeric(r, BinaryType(l.t, r.t), Mixed(l.t, r.t))))

CheckUnary(s, id, used) ==
    Then(CheckKid(s, id, 1, used), LAMBDA c :
        Then(Require(c, IF s.ast[id].x = "not" THEN c.t = Bool ELSE IsNumericOrVec(c.t)),
             LAMBDA d : SetType(d, id, c.t)))

CheckMakeRange(s, id) ==
    CheckPair(s, id, TRUE, TRUE, LAMBDA c, t : SetType(c, id, RangeOf(s.ast[id].x, t)))

\* "If amount is not a bool, promote to float."
CheckLerp(s, id) ==
    CheckPair(s, id, TRUE, TRUE, LAMBDA c, t :
        Then(CheckKid(c, id, 3, TRUE), LAMBDA d :
            Then(IF d.t = Bool THEN d ELSE DoPromote(d, id, 3, Float), LAMBDA e : SetType(e, id, t))))

CheckArray(s, id) ==
    LET Elem(c, t) == Computed(c, t, LAMBDA d : Result(d, t))
        Meet(acc, i) == Then(acc, LAMBDA c : Then(CheckKid(c, id, i, TRUE), LAMBDA d :
                            Elem(d, IF i = 1 THEN d.t ELSE Intersect(TRUE, c.t, d.t))))
        Typed(c) == IF c.t # Unassigned THEN SetType(c, id, ArrayOf(c.t)) ELSE Result(c, s.ast[id].t) IN
    Then(FoldLeft(Meet, Result(s, Unassigned), [j \in DOMAIN s.ast[id].a |-> j]), LAMBDA c :
        Typed([c EXCEPT !.ast[id].x = c.t]))

CheckComparison(s, id) ==
    CheckPair(s, id, TRUE, TRUE, LAMBDA c, t :
        LET as == PromoteTyFromUnassigned(t) IN
        Then(PromoteAll([c EXCEPT !.ast[id].x = as], id, 1, LAMBDA d, i : as), LAMBDA e : Result(e, Bool)))

\* Both sides are checked before either is compared with bool.
CheckLogical(s, id) ==
    Then(CheckKid(s, id, 1, TRUE), LAMBDA l :
    Then(CheckKid(l, id, 2, TRUE), LAMBDA r :
        LET to == <<Assignable(Bool, l.t), Assignable(Bool, r.t)>> IN
        Then(Require(r, TypeError \notin Elements(to)), LAMBDA c :
            Then(PromoteAll(c, id, 1, LAMBDA d, i : to[i]), LAMBDA e : Result(e, Bool)))))

CheckIf(s, id, used) ==
    Then(CheckInto(s, id, 1, Bool), LAMBDA c :
    Then(CheckKid(c, id, 2, used), LAMBDA then :
        IF Len(s.ast[id].a) = 2 THEN SetType(then, id, Void)
        ELSE Then(CheckKid(then, id, 3, used), LAMBDA else :
            LET t == Intersect(FALSE, then.t, else.t) IN
            IF ~used THEN SetType(else, id, Void) ELSE Computed(else, t, LAMBDA d : SetType(d, id, t)))))

\* The breaks of the body are collected while it is checked; those of the loop
\* around it come back only if there is no error.
Collect(s, id, i, Next(_, _)) ==
    Then(CheckKid([s EXCEPT !.brk = <<>>], id, i, FALSE), LAMBDA c : Next([c EXCEPT !.brk = s.brk], c.brk))

CheckWhile(s, id, used) ==
    Then(Require(s, ~used), LAMBDA a :
    Then(CheckInto(a, id, 1, Bool), LAMBDA c :
        Collect(c, id, 2, LAMBDA d, breaks :
            Then(Require(d, \A i \in DOMAIN breaks : d.ast[breaks[i]].a = <<>>),
                 LAMBDA e : SetType([e EXCEPT !.ast[id].x = breaks], id, Void)))))

\* All breaks have a value, or none has: then the loop is void, or never ends.
CheckLoop(s, id) ==
    Collect(s, id, 1, LAMBDA c, breaks :
        LET Valued(b) == c.ast[b].a # <<>>
            valued == breaks # <<>> /\ Valued(breaks[1])
            Meet(t, b) == IF t = TypeError \/ ~Valued(b) THEN t ELSE Intersect(FALSE, t, TypeOf(c, Kid(c, b, 1)))
            t == IF valued THEN FoldLeft(Meet, TypeOf(c, Kid(c, breaks[1], 1)), Tail(breaks)) ELSE Unassigned IN
        IF t = TypeError \/ \E i \in DOMAIN breaks : Valued(breaks[i]) # valued THEN Fail(c)
        ELSE SetType([c EXCEPT !.ast[id].x = breaks], id,
                     IF valued THEN t ELSE IF breaks # <<>> THEN Void ELSE c.ast[id].t))

CheckBreak(s, id) ==
    Then(IF s.ast[id].a = <<>> THEN s ELSE CheckKid(s, id, 1, TRUE),
         LAMBDA c : Result([c EXCEPT !.brk = Append(@, id)], Bottom))

CheckReturn(s, id) ==
    LET want == s.ret[Len(s.ret)] IN
    IF s.ret = <<>> THEN Fail(s)
    ELSE Then(IF s.ast[id].a = <<>> THEN Require(s, want = Void) ELSE CheckInto(s, id, 1, want), LAMBDA c : Result(c, Bottom))

CheckOptionElse(s, id, used) ==
    Then(CheckKid(s, id, 1, used), LAMBDA v :
    Then(CheckKid(v, id, 2, used), LAMBDA o :
    Then(Require(o, Is(v.t, "option")), LAMBDA c :
        LET t == Intersect(FALSE, v.t[2], o.t) IN Computed(c, t, LAMBDA d : SetType(d, id, t)))))

IndexedType(t) ==
    CASE t[1] \in {"array", "dyn"} -> t[2] [] t \in {Str, StrBuf, StrConst} -> Integer [] OTHER -> TypeError

CheckIndex(s, id) ==
    Then(CheckKid(s, id, 1, TRUE), LAMBDA c :
        LET elem == IndexedType(c.t) IN
        Then(Require(c, elem # TypeError), LAMBDA d :
            Then(CheckInto(d, id, 2, Integer), LAMBDA e : SetType(e, id, elem))))

\* The children of SetIndex are the value, the index and the right-hand side,
\* which is checked before the index.
CheckSetIndex(s, id, used) ==
    Then(CheckKid(s, id, 1, used), LAMBDA c :
        LET elem == IndexedType(c.t) IN
        Then(Require(c, elem # TypeError), LAMBDA d :
        Then(CheckInto(d, id, 3, elem), LAMBDA e :
        Then(CheckInto(e, id, 2, Integer), LAMBDA f : SetType(f, id, elem)))))

\* check_assign: `declare' when the variable may get its type from the value,
\* `initial' when it may be readonly.  A wrong write to a readonly variable is
\* reported, and the check goes on.
CheckAssign(s, id, i, v, declare, initial) ==
    Then(CheckKid(s, id, i, TRUE), LAMBDA c :
        LET infer == declare /\ c.vars[v].t = Unassigned
            t == Assignable(c.vars[v].t, c.t)
            d == IF c.vars[v].readonly /\ ~initial THEN Report(c) ELSE c IN
        Computed(d, t, LAMBDA e :
        Then(Require(e, infer => ~(t \in {Void, Bottom} \/ IsNotConcrete(t))), LAMBDA f :
        Then(DoPromote(IF infer THEN [f EXCEPT !.vars[v].t = t] ELSE f, id, i, t), LAMBDA g : Result(g, t)))))

\* x += y is x = x + y, with a node of its own for each side.
Desugar(s, id, i, read) ==
    LET p == Put(s, read)
        q == Put(p, Node("Binary", <<End(p), Kid(s, id, i)>>, Unassigned, "+")) IN
    IF s.ast[id].x.op = "=" THEN s ELSE [q EXCEPT !.ast[id].a[i] = End(q), !.ast[id].x.op = "="]

CheckAssignment(s, id) ==
    LET v == s.ast[id].x.var IN
    CheckAssign(Desugar(s, id, 1, Node("Variable", <<>>, Unassigned, v)), id, 1, v, FALSE, FALSE)

\* check_stmt, on the i-th statement of a block.  A declaration has no value,
\* unless its value never comes.
NoValue == <<"none">>
CheckStmt(s, id, i, used) ==
    LET stmt == Kid(s, id, i)
        Valueless(c) == Result(c, IF c.t = Bottom THEN Bottom ELSE NoValue) IN
    IF IsStmt(s.ast[stmt]) THEN Then(CheckDeclare(s, stmt), Valueless)
    ELSE Then(Check(s, stmt, used), LAMBDA c : IF used THEN c ELSE PromoteFromUnassigned(c, id, i))

\* The Result of the last statement of a block without use is dropped.
CheckStmts(s, id, n) == FoldLeft(LAMBDA acc, i : Then(acc, LAMBDA c : CheckStmt(c, id, i, FALSE)), s, [j \in 1..n |-> j])
CheckBlock(s, id, used) ==
    LET n == Len(s.ast[id].a) IN
    CASE ~used /\ n = 0 -> SetType(s, id, Void)
      [] ~used /\ n > 0 -> Then(CheckStmts(s, id, n - 1), LAMBDA c :
            Then(NoPanic(CheckStmt(c, id, n, FALSE)), LAMBDA d : SetType(d, id, Void)))
      [] used /\ n = 0 -> Fail(s)
      [] used /\ n > 0 -> Then(CheckStmts(s, id, n - 1), LAMBDA c : Then(CheckStmt(c, id, n, TRUE), LAMBDA d :
            Then(Require(d, d.t # NoValue), LAMBDA e : SetType(e, id, e.t))))

\* The children in the given order, each as if assigned to nothing in particular
CheckPrinted(s, id, order) ==
    FoldLeft(LAMBDA acc, i : Then(acc, LAMBDA c : Then(CheckKid(c, id, i, TRUE), LAMBDA d : PromoteFromUnassigned(d, id, i))),
             s, order)

\* print() gives its first argument back, and checks it last.
CheckPrint(s, id) ==
    LET n == Len(s.ast[id].a) IN
    IF n = 0 THEN Result(s, Void) ELSE CheckPrinted(s, id, [j \in 1..n |-> IF j = n THEN 1 ELSE j + 1])

CheckStr(s, id) ==
    Then(CheckPrinted(s, id, [j \in DOMAIN s.ast[id].a |-> j]), LAMBDA c : Result(c, StrBuf))

\* The object of a method is checked again wherever the node around it is
\* replaced; an error in it does not stop the check.
CheckObject(s, id, i) == Then(NoPanic(CheckKid(s, id, i, TRUE)), LAMBDA c : PromoteFromUnassigned(c, id, i))

\* The object, when there is one, is the last child of a FunCall.
CheckFunCall(s, id) ==
    LET n == s.ast[id]
        arity == Len(s.funs[n.x.fun].params) IN
    Then(Require(s, Len(n.a) - (IF n.x.object THEN 1 ELSE 0) = arity), LAMBDA a :
    Then(CheckAllInto(a, id, 1, ParamTypes(s, n.x.fun)), LAMBDA c :
    Then(IF n.x.object THEN CheckObject(c, id, arity + 1) ELSE c, LAMBDA d : Result(d, d.funs[n.x.fun].ret))))

\* The object of a builtin is its first child.
CheckBuiltinCall(s, id) ==
    LET n == s.ast[id] IN
    Then(Require(s, Len(n.a) - 1 = Len(n.x.params)), LAMBDA a :
    Then(CheckAllInto(a, id, 2, n.x.params), LAMBDA c : SetType(c, id, n.x.ret)))

\* A call of a captured function is replaced by a FunCall or BuiltinCall, and
\* checked again as that.
CheckValCall(s, id, used) ==
    Then(CheckKid(s, id, 1, TRUE), LAMBDA c :
        LET args == Tail(c.ast[id].a)
            callee == c.ast[Kid(c, id, 1)]
            As(node) == Check([c EXCEPT !.ast[id] = node], id, used)
            t == Assignable(FunUnassigned, c.t) IN
        CASE callee.k = "FunCapture" ->
                As(Node("FunCall", args \o callee.a, Unassigned, [fun |-> callee.x, object |-> callee.a # <<>>]))
          [] callee.k = "BuiltinCapture" -> As(Node("BuiltinCall", callee.a \o args, Unassigned, callee.x))
          [] OTHER -> Computed(c, t, LAMBDA d : Then(DoPromote(d, id, 1, t), LAMBDA e :
                IF t = Bottom THEN Result(e, Bottom)
                ELSE Then(Require([e EXCEPT !.ast[id].x = t], Len(args) = Len(t[2])), LAMBDA f :
                     Then(CheckAllInto(f, id, 2, t[2]), LAMBDA g : Result(g, t[3]))))))

CheckFunCapture(s, id) ==
    Then(IF s.ast[id].a = <<>> THEN s ELSE CheckObject(s, id, 1), LAMBDA c : SetType(c, id, Sig(c, c.ast[id].x)))

\* A function whose type is open is checked when it is promoted.
CheckFunExpr(s, id) ==
    LET sig == Sig(s, s.ast[id].x) IN
    IF IsNotConcrete(sig) THEN Result(s, s.ast[id].t)
    ELSE Then(CheckDeclare(s, id), LAMBDA c : SetType(c, id, sig))

\* The children of New are the object of .new, if there is one, and the values
\* of the initializers, for the variables x.vars.
Inner(s, n, t) == Is(t, "class") /\ Len(n.x.names) = 1 /\ n.x.names[1] \in DOMAIN s.classes[t[2]].inner
CheckObjectOfNew(s, id, n) ==
    Then(CheckKid(s, id, 1, TRUE), LAMBDA c : Then(PromoteFromUnassigned(c, id, 1), LAMBDA d :
    Then(Require(d, Inner(d, n, d.t)), LAMBDA e :
        [e EXCEPT !.ast[id].t = Class(e.classes[e.t[2]].inner[n.x.names[1]])])))
OuterOf(class) == IF class.parent = "" THEN Unassigned ELSE Class(class.parent)
CheckInits(s, id, n, class) ==
    Then(FoldLeft(LAMBDA acc, i : Then(acc, LAMBDA c :
                        CheckAssign(c, id, IF n.x.object THEN i + 1 ELSE i, n.x.vars[i], FALSE, TRUE)),
                  Require(s, s.t = OuterOf(class)), [j \in DOMAIN n.x.vars |-> j]), LAMBDA c :
         Result(IF class.mandatory \subseteq Elements(n.x.vars) THEN c ELSE Report(c), c.ast[id].t))
CheckNew(s, id) ==
    LET n == s.ast[id] IN
    Then(IF n.x.object THEN CheckObjectOfNew(s, id, n) ELSE Result(s, Unassigned),
         LAMBDA p : CheckInits(p, id, n, p.classes[p.ast[id].t[2]]))

\* What the names of a chain stand for, each in the type of the one before
Properties(s, t, chain) ==
    LET found[i \in DOMAIN chain] == LookupProperty(s, IF i = 1 THEN t ELSE PropertyType(s, found[i - 1]), chain[i]) IN found
Found(props, n) == \A i \in 1..n : props[i] # None

\* The last name may be a method, which the node then captures.  Behind two
\* names or more, the length that the chain is cut to is taken from a chain that
\* was moved away already: the subtraction overflows.
CheckChain(s, id, used, chain, props) ==
    LET n == Len(chain)
        f == LookupMemberFn(s, IF n = 1 THEN s.t ELSE PropertyType(s, props[n - 1]), chain[n]) IN
    CASE Found(props, n) -> Result([s EXCEPT !.ast[id].x.vars = props], PropertyType(s, props[n]))
      [] ~Found(props, n) /\ Found(props, n - 1) /\ f # 0 ->
            IF n > 1 THEN Panic(s, "chain")
            ELSE Check([s EXCEPT !.ast[id] = Node("FunCapture", @.a, Unassigned, f)], id, used)
      [] OTHER -> Fail(s)
ChainOf(s, id) == s.ast[id].x.chain
CheckGet(s, id, used) ==
    Then(CheckKid(s, id, 1, TRUE), LAMBDA c : CheckChain(c, id, used, ChainOf(c, id), Properties(c, c.t, ChainOf(c, id))))

\* Writing through a value type writes to what holds it.
WritesReadonly(s, id, props) ==
    LET n == Len(props)
        lhs == s.ast[Kid(s, id, 1)]
        Value(i) == IsValueType(PropertyType(s, props[i])) IN
    \/ props[n].readonly
    \/ \E i \in 1..(n - 1) : props[i].readonly /\ \A j \in i..(n - 1) : Value(j)
    \/ /\ \A j \in 1..(n - 1) : Value(j)
       /\ lhs.k = "Variable" /\ s.vars[lhs.x].readonly /\ IsValueType(s.vars[lhs.x].t)

CheckWrite(s, id, chain, props) ==
    LET read == Node("Get", <<Kid(s, id, 1)>>, Unassigned, [chain |-> chain, vars |-> props])
        Written(c) == Desugar([c EXCEPT !.ast[id].x.vars = props], id, 2, read)
        Typed(c, t) == Then(CheckInto(c, id, 2, t), LAMBDA d : Result(d, t)) IN
    IF ~Found(props, Len(chain)) THEN Fail(s)
    ELSE Typed(Written(IF WritesReadonly(s, id, props) THEN Report(s) ELSE s), PropertyType(s, props[Len(chain)]))
CheckSet(s, id) ==
    Then(CheckKid(s, id, 1, TRUE), LAMBDA c : CheckWrite(c, id, ChainOf(c, id), Properties(c, c.t, ChainOf(c, id))))

\* A name behind an object: a method, a property or a builtin
CheckUnboundFunCapture(s, id, used) ==
    IF s.ast[id].a = <<>> THEN Fail(s)
    ELSE Then(CheckKid(s, id, 1, TRUE), LAMBDA c : Then(PromoteFromUnassigned(c, id, 1), LAMBDA d :
        LET name == d.ast[id].x
            f == LookupMemberFn(d, d.t, name)
            p == LookupProperty(d, d.t, name)
            As(k, x) == Check([d EXCEPT !.ast[id] = Node(k, d.ast[id].a, Unassigned, x)], id, used) IN
        CASE f # 0 -> As("FunCapture", f)
          [] f = 0 /\ p # None -> As("Get", [chain |-> <<name>>, vars |-> <<p>>])
          [] f = 0 /\ p = None /\ name \in DOMAIN BuiltinMethods(d.t) -> As("BuiltinCapture", BuiltinMethods(d.t)[name])
          [] OTHER -> Fail(d)))

CheckTuple(s, id, used) ==
    Then(FoldLeft(LAMBDA acc, i : Then(acc, LAMBDA c : Then(CheckKid(c, id, i, used),
                    LAMBDA d : Result(d, Tuple(Append(c.t[2], d.t))))),
                  Result(s, Tuple(<<>>)), [j \in DOMAIN s.ast[id].a |-> j]),
         LAMBDA c : SetType(c, id, c.t))

----------------------------------------------------------------------------
(* A for loop is replaced by a block, which is then checked.                 *)

Read(v) == Node("Variable", <<>>, Unassigned, v)
DeclareAs(v, value) == Node("Declare", <<value>>, Unassigned, v)

\* From one before the start to one before the end, because the step comes
\* first: `continue' would skip it at the end of the body.
RangeLoop(loop, local) ==
    LET Minus(op, l) == Node("Binary", <<l, Node("NumLiteral", <<>>, Integer, 0)>>, Integer, op)
        Edge(name) == Minus("-", Node("Get", <<Old(loop.a[1])>>, Unassigned,
                            [chain |-> <<name>>, vars |-> <<Synthesized(Integer, FALSE)>>]))
        body == Node("Block", <<Node("Assign", <<Minus("+", Read(local))>>, Unassigned, [var |-> local, op |-> "="]),
                                DeclareAs(loop.x.var, Read(local)), Old(loop.a[2])>>, Void, 0) IN
    Node("Block", <<DeclareAs(local, Edge("left")),
        Node("WhileLoop", <<Node("Comparison", <<Read(local), Edge("right")>>, Bool, Integer),
                            Node("Closure", <<body>>, Void, loop.x.closure)>>, Void, <<>>)>>, Void, 0)

FunLoop(loop, object, sig) ==
    LET call == Node("ValCall", <<Read(object)>>, Unassigned, sig)
        next == Node("OptionElse", <<call, Node("Break", <<>>, Bottom, 0)>>, sig[3][2], 0)
        body == Node("Block", <<DeclareAs(loop.x.var, next), Old(loop.a[2])>>, Void, 0) IN
    Node("Block", <<DeclareAs(object, Old(loop.a[1])),
        Node("Loop", <<Node("Closure", <<body>>, Void, loop.x.closure)>>, Void, <<>>)>>, Void, 0)

CheckFor(s, id, used) ==
    Then(CheckKid(s, id, 1, TRUE), LAMBDA c : Then(PromoteFromUnassigned(c, id, 1), LAMBDA d :
        LET n == d.ast[id]
            iter == d.t
            local == Len(d.vars) + 1
            own == d.vars[n.x.var]
            WithVar(t) == [d EXCEPT !.vars = Append(@, [own EXCEPT !.t = t, !.readonly = FALSE])] IN
        CASE Is(iter, "range") /\ iter[3] = Integer ->
                Check(Replace(WithVar(own.t), id, RangeLoop(n, local)), id, used)
          [] Is(iter, "fun") /\ iter[2] = <<>> /\ Is(iter[3], "option") ->
                Check(Replace(WithVar(iter), id, FunLoop(n, local, iter)), id, used)
          [] OTHER -> Fail(d)))

----------------------------------------------------------------------------

CheckExpr(s, id, used) ==
    LET n == s.ast[id] IN
    CASE n.k = "Closure" -> Then(CheckKid(s, id, 1, used), LAMBDA c : SetType(c, id, c.t))
      [] n.k = "Binary" -> CheckBinary(s, id)
      [] n.k = "MakeRange" -> CheckMakeRange(s, id)
      [] n.k = "Unary" -> CheckUnary(s, id, used)
      [] n.k = "Lerp" -> CheckLerp(s, id)
      [] n.k = "ArrayLit" -> CheckArray(s, id)
      [] n.k = "Comparison" -> CheckComparison(s, id)
      [] n.k = "Logical" -> CheckLogical(s, id)
      [] n.k = "If" -> CheckIf(s, id, used)
      [] n.k = "WhileLoop" -> CheckWhile(s, id, used)
      [] n.k = "Loop" -> CheckLoop(s, id)
      [] n.k = "Break" -> CheckBreak(s, id)
      [] n.k = "Return" -> CheckReturn(s, id)
      [] n.k = "OptionElse" -> CheckOptionElse(s, id, used)
      [] n.k = "Index" -> CheckIndex(s, id)
      [] n.k = "SetIndex" -> CheckSetIndex(s, id, used)
      [] n.k = "Assign" -> CheckAssignment(s, id)
      [] n.k = "Block" -> CheckBlock(s, id, used)
      [] n.k = "Print" -> CheckPrint(s, id)
      [] n.k = "Str" -> CheckStr(s, id)
      [] n.k = "FunCall" -> CheckFunCall(s, id)
      [] n.k = "BuiltinCall" -> CheckBuiltinCall(s, id)
      [] n.k = "ValCall" -> CheckValCall(s, id, used)
      [] n.k = "FunCapture" -> CheckFunCapture(s, id)
      [] n.k = "FunDeclare" -> CheckFunExpr(s, id)
      [] n.k = "New" -> CheckNew(s, id)
      [] n.k = "Get" -> CheckGet(s, id, used)
      [] n.k = "Set" -> CheckSet(s, id)
      [] n.k = "SelfVal" -> IF s.cls = Unassigned THEN Fail(s) ELSE SetType(s, id, s.cls)
      [] n.k = "UnboundFunCapture" -> CheckUnboundFunCapture(s, id, used)
      [] n.k = "MakeTuple" -> CheckTuple(s, id, used)
      [] n.k = "ForLoop" -> CheckFor(s, id, used)
      [] n.k = "Promote" -> Panic(s, "Promote")
      [] OTHER -> Result(s, TypeOf(s, id))    \* variables, literals, continue, nil

\* check_fun_declare: the value of the body counts unless the function returns
\* void.  An error leaves the return type on the stack.
CheckFunDeclare(s, id) ==
    LET ret == s.funs[s.ast[id].x].ret
        Body(c, t) == IF ret = Void THEN c ELSE Computed(c, t, LAMBDA d : DoPromote(d, id, 1, t)) IN
    Then(CheckKid([s EXCEPT !.ret = Append(@, ret)], id, 1, ret # Void),
         LAMBDA c : Body([c EXCEPT !.ret = Front(@)], Assignable(ret, c.t)))

\* check_class: an error leaves current_class as it is.
CheckClass(s, class) ==
    LET c == s.classes[class] IN
    Then(FoldLeft(LAMBDA acc, id : Then(acc, LAMBDA d : CheckDeclare(d, id)),
                  [s EXCEPT !.cls = Class(class)], c.inits \o c.methods \o c.nested),
         LAMBDA d : [d EXCEPT !.cls = s.cls])

CheckDeclaration(s, id) ==
    LET n == s.ast[id] IN
    CASE n.k = "FunDeclare" -> CheckFunDeclare(s, id)
      [] n.k = "ClassDeclare" -> Then(CheckClass(s, n.x), LAMBDA c : Result(c, NoValue))
      [] n.k = "Declare" /\ n.a = <<>> -> Result(s, s.vars[n.x].t)
      [] n.k = "Declare" /\ n.a # <<>> -> CheckAssign(s, id, 1, n.x, TRUE, TRUE)

Visit(s, id, how) ==
    CASE how[1] = "check" -> CheckExpr(s, id, how[2])
      [] how[1] = "promote" -> PromoteNode(s, id, how[2])
      [] how[1] = "declare" -> CheckDeclaration(s, id)

\* fix_fun_declare, for all functions, before anything else
FixFuns(s) == [s EXCEPT !.funs = [f \in DOMAIN @ |-> [@[f] EXCEPT !.sig = Fun(ParamTypes(s, f), s.funs[f].ret)]]]

=============================================================================
