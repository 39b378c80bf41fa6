----------------------------- MODULE MCCompiler -----------------------------
(* Programs for Compiler.  They share their declarations: two globals a and *)
(* b; a class A with the variables n and o, the method go and a class B     *)
(* inside of it with the variable m and the method up; functions f, with a  *)
(* parameter p, and k, with one of each type.  The bodies and initializers  *)
(* are the holes that a family of programs fills.                           *)
EXTENDS Compiler, TLC

N(k, a) == Node(k, a, Unassigned, 0)
Num == Node("NumLiteral", <<>>, AssumeInt, 0)
Flt == Node("NumLiteral", <<>>, AssumeFloat, 0)
Nil == Node("MakeSumType", <<>>, Option(Unassigned), 0)
True == N("BoolLiteral", <<>>)
StrL == N("StrLiteral", <<>>)
Blk(a) == N("Block", a)
Do(f, k, body) == Node("FunDeclare", <<Node("Closure", <<body>>, Unassigned, k)>>, Unassigned, f)
Local(v) == Node("Variable", <<>>, Unassigned, v)
Name(n) == Node("Unbound", <<>>, Unassigned, n)
Var(v, value) == Node("Declare", value, Unassigned, v)
Call(callee, args) == Node("ValCall", <<callee>> \o args, Unassigned, FunUnassigned)
CallName(n, args) == Call(Node("UnboundFunCapture", <<>>, Unassigned, n), args)
Method(object, n) == Call(Node("UnboundFunCapture", <<object>>, Unassigned, n), <<>>)
CallLocal(f, args) == Call(Node("FunCapture", <<>>, FunUnassigned, f), args)
Get(object, n) == Node("Get", <<object>>, Unassigned, [chain |-> <<n>>, vars |-> <<>>])
New(names, inits, values) ==
    Node("New", values, Unassigned, [object |-> FALSE, names |-> names, inits |-> inits, vars |-> <<>>])
NewA == New(<<"A">>, <<>>, <<>>)
Loop(body) == Node("Loop", <<body>>, Bottom, <<>>)
While(c, body) == Node("WhileLoop", <<c, body>>, Unassigned, <<>>)
In(k, body) == Node("Closure", <<body>>, Unassigned, k)
Sum(l, r) == Node("Binary", <<l, r>>, Unassigned, "+")
Arr(a) == Node("ArrayLit", a, Unassigned, Unassigned)
Set(object, n, value, op) == Node("Set", <<object, value>>, Unassigned, [chain |-> n, vars |-> <<>>, op |-> op])
Upto(l, r) == Node("MakeRange", <<l, r>>, Unassigned, "ie")
Return(a) == N("Return", a)
Break(a) == N("Break", a)
Show(label, a) == Node("Print", a, Unassigned, label)

\* Variables and functions
a == 1  b == 2  n == 3  o == 4  m == 5  p == 6  x == 7  y == 8  z == 9  q == 10  w == 11  l == 12  d == 13
f == 1  go == 2  up == 3  k == 4  ext == 5  h == 6  g == 7
A == Class("A")
ParamsOfK == <<Integer, Float, Str, A, Option(A), Tuple(<<Integer, Float>>), ArrayOf(Integer), Fun(<<Float>>, Str),
              Fun(<<>>, Option(A)), DynArrayOf(Float), Tuple(<<Float, Float>>)>>
K(i) == Local(d + i)
turn == d + Len(ParamsOfK) + 1
For(iter, body) == Node("ForLoop", <<iter, body>>, Unassigned, [var |-> turn, closure |-> 8])

V(t, fun, closure) == [t |-> t, readonly |-> FALSE, class |-> "", fun |-> fun, closure |-> closure, init |-> 0]
M(class) == [V(Integer, 0, 0) EXCEPT !.class = class]
F(params, ret, class, closure) ==
    [params |-> params, ret |-> ret, sig |-> FunUnassigned, class |-> class, closure |-> closure, body |-> 0]
C(parent, class) == [class |-> "", parent |-> parent, parent_class |-> class]
Entry(kind, id) == [k |-> kind, id |-> id]

\* The holes, and how they are filled if a family has nothing to say
Plain == [a |-> Num, b |-> Num, n |-> <<Num>>, o |-> <<Num>>, m |-> <<Num>>, f |-> Blk(<<Num>>), go |-> Blk(<<>>),
          up |-> Blk(<<>>), k |-> Blk(<<>>), t |-> Unassigned, inner |-> TRUE, nested |-> 0, hAt |-> 0, gAt |-> 0,
          ext |-> Float, q |-> Integer, ret |-> Integer]

\* Closures: 1 f, 2 a loop in f, 3 h, 4 go, 5 k, 6 up, 7 g, 8 a loop in k; h and g are in hAt and gAt.
Parsed(c) ==
    LET owner == IF c.hAt = 4 THEN go ELSE f
        trees == <<Var(a, <<c.a>>), Var(b, <<c.b>>), Var(n, c.n), Var(o, c.o), Var(m, c.m),
                   Do(f, 1, c.f), Do(go, 4, c.go), Do(up, 6, c.up), Do(k, 5, c.k),
                   Node("ClassDeclare", <<>>, Unassigned, "A"), Node("ClassDeclare", <<>>, Unassigned, "B")>>
        ast == Planted(N("", trees), 0)
        ids == ast[Len(ast)].a
        vars0 == <<V(Unassigned, 0, 0), V(Unassigned, 0, 0), M("A"), M("A"), M("B"), V(Integer, f, 1), V(Unassigned, f, 1),
                   V(Unassigned, f, 2), V(Unassigned, go, 4), V(c.q, h, 3), V(Unassigned, h, 3),
                   V(Unassigned, owner, c.hAt), V(c.t, k, 5)>> \o [i \in DOMAIN ParamsOfK |-> V(ParamsOfK[i], k, 5)] \o
                 <<V(Unassigned, k, 8)>>
        funs0 == <<F(<<p>>, Integer, "", 0), F(<<>>, Void, "A", 0), F(<<>>, Void, "B", 0),
                   F([i \in DOMAIN ParamsOfK |-> d + i], Void, "", 0), F(<<>>, c.ext, "", 0),
                   F(<<q>>, c.ret, "", c.hAt), F(<<>>, Integer, "", c.gAt)>>
        class == [vars |-> <<>>, funs |-> <<>>, inner |-> <<>>, parent |-> "", mandatory |-> {}, nested |-> <<>>]
        Valueless(vs) == {v \in vs : ast[ids[v]].a = <<>>} IN
    [ast |-> Front(ast),
     vars |-> [v \in DOMAIN vars0 |-> [vars0[v] EXCEPT !.init = IF v <= m THEN ids[v] ELSE 0]],
     funs |-> [i \in 1..(ext + c.nested) |->
        [funs0[i] EXCEPT !.body = IF i = ext THEN 0 ELSE LET id == CHOOSE j \in DOMAIN ast : ast[j].k = "FunDeclare" /\ ast[j].x = i IN ast[id].a[1]]],
     classes |-> "A" :> ([class EXCEPT !.vars = [n |-> n, o |-> o], !.funs = [go |-> go], !.inner = [B |-> "B"],
                             !.mandatory = Valueless({n, o}), !.nested = <<ids[11]>>]
                        @@ [name |-> "A", inits |-> <<ids[3], ids[4]>>, methods |-> <<ids[7]>>])
              @@ "B" :> ([class EXCEPT !.vars = [m |-> m], !.funs = [up |-> up], !.parent = IF c.inner THEN "A" ELSE "",
                             !.mandatory = Valueless({m})]
                        @@ [name |-> "B", inits |-> <<ids[5]>>, methods |-> <<ids[8]>>]),
     closures |-> <<C(0, ""), C(1, ""), C(c.hAt, ""), C(0, "A"), C(0, ""), C(0, "B"), C(c.gAt, ""), C(5, "")>>,
     names |-> <<"a">> :> Entry("var", a) @@ <<"b">> :> Entry("var", b) @@ <<"f">> :> Entry("fun", f)
            @@ <<"k">> :> Entry("fun", k) @@ <<"ext">> :> Entry("fun", ext) @@ <<"A">> :> Entry("class", "A") @@ <<"A", "n">> :> Entry("var", n)
            @@ <<"A", "o">> :> Entry("var", o) @@ <<"A", "go">> :> Entry("fun", go) @@ <<"A", "B">> :> Entry("class", "B")
            @@ <<"A", "B", "m">> :> Entry("var", m) @@ <<"A", "B", "up">> :> Entry("fun", up),
     structs |-> [S |-> "A"], imported |-> <<ext>>,
     globals |-> <<ids[1], ids[2]>>, functions |-> <<ids[6], ids[9]>>, top |-> <<ids[10]>>,
     err |-> FALSE, reported |-> FALSE, ice |-> "",
     cls |-> Unassigned, ret |-> <<>>, brk |-> <<>>, ok |-> TRUE, t |-> Unassigned]

Compile(c) == [program |-> c, mode |-> "compile", bind |-> <<>>, outputs |-> <<"exe">>, errors |-> FALSE]
JustCheck(c) == [Compile(c) EXCEPT !.mode = "check"]

-----------------------------------------------------------------------------

\* The order of initialization
Orders ==
    {[Plain EXCEPT !.a = e1, !.b = e2, !.f = body, !.n = e3, !.o = e4] :
        e1 \in {Num, Name("b"), CallName("f", <<Num>>), NewA}, e2 \in {Num, Name("a"), CallName("f", <<Num>>), NewA},
        body \in {Blk(<<Num>>), Blk(<<Name("a")>>), Blk(<<Name("b")>>)},
        e3 \in {<<Num>>, <<Name("o")>>, <<Name("b")>>, <<CallName("f", <<Num>>)>>}, e4 \in {<<Num>>, <<Name("n")>>, <<Name("a")>>}}

\* Names
Things == {Name(i) : i \in {"n", "m", "a", "c"}} \cup {CallName(i, <<>>) : i \in {"go", "up", "c"}} \cup
          {CallName("f", <<Num>>), NewA, New(<<"B">>, <<>>, <<>>), New(<<"A", "B">>, <<>>, <<>>), New(<<"A">>, <<"n">>, <<Num>>),
           New(<<"A">>, <<"m">>, <<Num>>), Method(NewA, "go"), N("SelfVal", <<>>)} \cup
          {Node("UnboundAssign", <<Num>>, Unassigned, [name |-> i, op |-> op]) : i \in {"n", "m", "a"}, op \in {"=", "+"}}
Namings == UNION {
    {[Plain EXCEPT !.go = Blk(<<e>>), !.inner = i], [Plain EXCEPT !.up = Blk(<<e>>), !.inner = i],
     [Plain EXCEPT !.k = Blk(<<e>>), !.inner = i], [Plain EXCEPT !.m = <<e>>, !.inner = i]} : e \in Things, i \in BOOLEAN}

\* Closures: h in f, in a loop of f or in go, with g in h or beside it
Reads(vs) == {Blk(<<Local(v)>>) : v \in vs} \cup {Blk(<<Sum(Local(v), Local(u))>>) : v \in vs, u \in vs}
Hold(fun, closure, body) == Var(l, <<Do(fun, closure, body)>>)
CallH == Call(Local(l), <<Num>>)
WithG(body) == Blk(<<Var(w, <<Num>>), Do(g, 7, body), CallLocal(g, <<>>)>>)
InF(body) == Blk(<<Var(x, <<Num>>), Hold(h, 3, body), CallH>>)
InLoop(body) == Blk(<<Var(x, <<Num>>), Loop(In(2, Blk(<<Var(y, <<Num>>), Hold(h, 3, body), Break(<<CallH>>)>>)))>>)
InGo(body) == Blk(<<Var(z, <<Num>>), Hold(h, 3, body), CallH>>)
Beside(body) == Blk(<<Var(x, <<Num>>), Do(h, 3, Blk(<<Local(x)>>)),
                      Loop(In(2, Blk(<<Var(y, <<Num>>), Do(g, 7, body), Break(<<CallLocal(h, <<Num>>)>>)>>)))>>)
ClosureTests ==
    {[Plain EXCEPT !.f = InF(body), !.nested = 1, !.hAt = 1] : body \in Reads({x, p, q})} \cup
    {[Plain EXCEPT !.f = InF(WithG(body)), !.nested = 2, !.hAt = 1, !.gAt = 3] : body \in Reads({x, p, q, w})} \cup
    {[Plain EXCEPT !.f = InLoop(body), !.nested = 1, !.hAt = 2] : body \in Reads({x, y, p, q})} \cup
    {[Plain EXCEPT !.f = InLoop(WithG(body)), !.nested = 2, !.hAt = 2, !.gAt = 3] : body \in Reads({x, y, q, w})} \cup
    {[Plain EXCEPT !.f = Beside(body), !.nested = 2, !.hAt = 1, !.gAt = 2] : body \in Reads({x, y, p})} \cup
    {[Plain EXCEPT !.go = InGo(Blk(<<Sum(Local(z), e)>>)), !.nested = 1, !.hAt = 4] :
        e \in {Local(z), Local(q), Name("n"), Name("a")}} \cup
    {[Plain EXCEPT !.go = InGo(WithG(Blk(<<Sum(e, e2)>>))), !.nested = 2, !.hAt = 4, !.gAt = 3] :
        e \in {Local(z), Local(q), Local(w), Name("n")}, e2 \in {Local(z), Name("o"), Local(w)}}

\* Types: a value for a variable of each type
Leaves == {Num, Flt, StrL, Nil, Return(<<>>)} \cup {K(i) : i \in 1..6}
Unaries == UNION {
    {e, Node("Unary", <<e>>, Unassigned, "-"), Node("Unary", <<e>>, Unassigned, "not"), Arr(<<e>>),
     N("Index", <<Arr(<<e>>), Num>>), Blk(<<e>>), CallName("f", <<e>>), Call(K(8), <<e>>), N("Str", <<e>>),
     New(<<"A">>, <<"n">>, <<e>>)} : e \in Leaves}
OneOf(e, e2) == Loop(In(8, Blk(<<N("If", <<True, Blk(<<Break(<<e>>)>>)>>), Break(<<e2>>)>>)))
Few == {Num, Flt, StrL, Nil, Return(<<>>), K(1), K(4), K(6)}
Binaries == UNION {
    {Sum(e, e2), N("If", <<True, Blk(<<e>>), Blk(<<e2>>)>>), N("OptionElse", <<e, e2>>), N("MakeTuple", <<e, e2>>),
     Arr(<<e, e2>>), Upto(e, e2), N("Comparison", <<e, e2>>), OneOf(e, e2)} : e \in Few, e2 \in Few}
VarTypes == {Unassigned, Integer, Float, StrBuf, A, Option(A), Tuple(<<Integer, Float>>), ArrayOf(Float), RangeOf("ie", Integer)}
Typings == {[Plain EXCEPT !.k = Blk(<<Var(d, <<e>>)>>), !.t = t] : e \in Unaries \cup Binaries, t \in VarTypes}

\* Properties, elements, loops and builtins
Values == {Num, Flt, StrL, Return(<<>>), K(1), K(4)}
Methods(e) ==
    {Call(Node("UnboundFunCapture", <<K(10)>>, Unassigned, "push"), <<e>>), Method(N("MakeTuple", <<e>>), "length"),
     Method(e, "length"), Method(e, "go"), Method(e, "n"), Node("UnboundFunCapture", <<K(4)>>, Unassigned, "go"),
     Method(K(5), "or_panic"), Call(Node("UnboundFunCapture", <<Method(K(5), "or_panic")>>, Unassigned, "n"), <<>>)}
Writes(e) ==
    {Set(K(4), <<"n">>, e, op) : op \in {"=", "+"}} \cup {Set(K(v), <<i>>, e, "=") : v \in {6, 11}, i \in {"0", "1", "2", "x"}} \cup
    {Set(K(3), <<"length">>, e, "="), Set(K(7), <<"length">>, e, "="), Set(Upto(K(1), K(1)), <<"left">>, e, "+"), Set(e, <<"n">>, e, "="),
     Get(e, "n"), Get(K(11), "y"), N("SetIndex", <<K(7), e, Num>>), N("SetIndex", <<K(10), Num, e>>), N("SetIndex", <<e, Num, e>>),
     N("Index", <<K(3), e>>), N("Lerp", <<e, K(6), Flt>>), N("Lerp", <<e, Num, e>>), CallName("ext", <<>>),
     Node("New", <<K(4)>>, Unassigned, [object |-> TRUE, names |-> <<"B">>, inits |-> <<>>, vars |-> <<>>])}
Fors(e) ==
    {For(i, Blk(<<e2>>)) : i \in {Upto(Num, e), K(9), e}, e2 \in {Show(1, <<Local(turn)>>), Break(<<>>), Break(<<e>>), N("Continue", <<>>), e}}
Uses == {[Plain EXCEPT !.k = Blk(<<e>>)] : e \in UNION {Methods(e) \cup Writes(e) \cup Fors(e) : e \in Values}} \cup
    {[Plain EXCEPT !.k = Blk(<<Var(d, <<e>>)>>), !.t = t] :
        e \in UNION {Methods(e) \cup Writes(e) : e \in {Num, K(4)}}, t \in {Unassigned, Integer, Float, Option(A)}}

\* Declared types, and functions whose types are open
Named == {<<"unbound", <<"A", "B">>>>, <<"unbound", <<"C">>>>, <<"struct", "S">>, <<"struct", "T">>}
Annotations ==
    {[Plain EXCEPT !.t = t, !.ext = u] : t \in {Integer, Fun(<<Integer>>, Option(<<"struct", "T">>))} \cup Named, u \in {Float} \cup Named}
Lambdas ==
    {[Plain EXCEPT !.k = Blk(<<Var(d, <<Do(h, 3, body)>>)>>), !.nested = 1, !.hAt = 5, !.t = t, !.q = q1, !.ret = r] :
        body \in {Blk(<<StrL>>), Blk(<<Local(q)>>), Blk(<<Return(<<StrL>>)>>)},
        t \in {Unassigned, Fun(<<Float>>, Str), Fun(<<>>, Str), Float}, q1 \in {Unassigned, Integer, Float}, r \in {Unassigned, Str, Void}}

\* Dead code
Parts == {Num, Return(<<>>), Show(1, <<Num>>), Blk(<<Show(2, <<Num>>), Return(<<>>)>>)}
Mixes == UNION {
    {Sum(e, e2), N("Comparison", <<e, e2>>), N("MakeTuple", <<e, e2>>), Arr(<<e, e2>>), Show(3, <<e, e2>>),
     N("Logical", <<N("Comparison", <<e, e>>), N("Comparison", <<e2, e2>>)>>),
     N("If", <<True, Blk(<<e>>), Blk(<<e2>>)>>), N("If", <<N("Comparison", <<e, Num>>), Blk(<<e2>>)>>),
     CallName("f", <<Sum(e, e2)>>), New(<<"A">>, <<"n", "o">>, <<e, e2>>),
     Loop(In(8, Blk(<<e, N("If", <<True, Blk(<<N("Break", <<>>)>>)>>), e2>>))),
     Loop(In(8, Blk(<<N("If", <<True, Blk(<<Break(<<>>)>>), Blk(<<e>>)>>), e2, N("Continue", <<>>), Show(4, <<Num>>)>>))),
     While(N("Comparison", <<e, Num>>), In(8, Blk(<<e2, Show(4, <<Num>>)>>)))} : e \in Parts, e2 \in Parts}
\* What may lose something, where it does and where it does not
Half == N("If", <<True, Blk(<<Return(<<>>)>>)>>)
HalfElse(e) == N("If", <<True, Blk(<<Return(<<>>)>>), N("If", <<True, Blk(<<e, Return(<<>>)>>)>>)>>)
Seen(e) == Blk(<<Show(7, <<Num>>), e>>)
Losses == {Blk(<<Half>>), Seen(Half), Show(3, <<Half>>), N("MakeTuple", <<Half, Show(1, <<Num>>)>>)} \cup UNION {
    {HalfElse(e), Show(3, <<HalfElse(e)>>), Call(Seen(K(8)), <<e>>), Call(K(8), <<Seen(e)>>),
     Set(Seen(K(4)), <<"n">>, e, "="), Set(e, <<"n">>, Seen(Num), "="),
     Call(Node("UnboundFunCapture", <<Seen(K(10))>>, Unassigned, "push"), <<e>>)} :
        e \in {Num, Flt, Return(<<>>), Blk(<<Show(2, <<Num>>), Return(<<>>)>>)}}
DeadCodes == UNION {
    {[Plain EXCEPT !.k = Blk(<<e, Show(5, <<Num>>)>>)], [Plain EXCEPT !.k = Blk(<<Var(d, <<e>>), Show(5, <<Num>>)>>)],
     [Plain EXCEPT !.k = Blk(<<N("If", <<True, Blk(<<e, Show(6, <<Num>>)>>), Blk(<<Return(<<>>)>>)>>), Show(5, <<Num>>)>>)]} : e \in Mixes \cup Losses}

\* The command line
Lines ==
    {[Compile(c) EXCEPT !.mode = mode, !.errors = errors, !.outputs = outputs, !.bind = names] :
        c \in {Plain, [Plain EXCEPT !.a = Name("c")], [Plain EXCEPT !.a = Nil], [Plain EXCEPT !.a = Name("b"), !.b = Name("a")]},
        mode \in {"compile", "check", "pretty", "test"}, errors \in BOOLEAN,
        outputs \in {<<>>, <<"c">>, <<"c", "c">>, <<"c", "o">>, <<"exe">>, <<"exe", "exe">>}, names \in {<<>>, <<"f">>, <<"f", "A">>}}

Programs == Lines \cup {Compile(c) : c \in ClosureTests \cup Namings} \cup
            {JustCheck(c) : c \in Orders \cup Typings \cup DeadCodes \cup Uses \cup Annotations \cup Lambdas}
=============================================================================
