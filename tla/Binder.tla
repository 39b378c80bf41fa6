------------------------------- MODULE Binder -------------------------------
(***************************************************************************)
(* The binder (poniescript-core/src/binder.rs): what a name stands for     *)
(* that is not a local.  A node it has resolved is replaced by what it     *)
(* stands for; one it has not, and the error, end the compilation later.   *)
(* Scopes are NameCheckers, the innermost first.                           *)
(***************************************************************************)
EXTENDS Program

Global == [path |-> <<>>, self |-> FALSE, bound |-> FALSE]
ClassScope(s, c, scopes) ==
    [path |-> Append(scopes[1].path, s.classes[c].name), self |-> TRUE, bound |-> s.classes[c].parent = ""]

NoEntry == [k |-> "none"]
\* lookup_full_name, in one scope after the other.  A class that is no @inner
\* class is an upper bound: what is found beyond it must belong to no class.
OwnerOf(s, e) ==
    CASE e.k = "var" -> s.vars[e.id].class [] e.k = "fun" -> s.funs[e.id].class [] OTHER -> s.classes[e.id].parent

\* Mutant: a class hides nothing of those around it.
ResolveAnywhere(s, scopes, name) ==
    LET i == SelectInSeq(scopes, LAMBDA scope : Append(scope.path, name) \in DOMAIN s.names)
        e == s.names[Append(scopes[i].path, name)] IN
    IF i = 0 THEN NoEntry ELSE [k |-> e.k, id |-> e.id, self |-> scopes[i].self, available |-> TRUE]

Resolve(s, scopes, name) ==
    LET i == SelectInSeq(scopes, LAMBDA scope : Append(scope.path, name) \in DOMAIN s.names)
        e == s.names[Append(scopes[i].path, name)]
        crossed == \E j \in 1..(i - 1) : scopes[j].bound IN
    IF i = 0 THEN NoEntry
    ELSE [k |-> e.k, id |-> e.id, self |-> scopes[i].self, available |-> ~(crossed /\ OwnerOf(s, e) # "")]

\* resolve_class_name, and the classes inside of it that follow: "" is none.
ClassAt(s, scopes, names) ==
    LET e == Resolve(s, scopes, names[1])
        Step(c, name) == IF c # "" /\ name \in DOMAIN s.classes[c].inner THEN s.classes[c].inner[name] ELSE "" IN
    IF e.k # "class" THEN "" ELSE FoldLeft(Step, e.id, Tail(names))

----------------------------------------------------------------------------
(* Types *)

RECURSIVE BoundType(_, _, _)        \* visit_type
BoundType(s, scopes, t) ==
    LET Inner(u) == BoundType(s, scopes, u)
        Each(ts) == [i \in DOMAIN ts |-> Inner(ts[i])] IN
    CASE Is(t, "unbound") -> LET c == ClassAt(s, scopes, t[2]) IN IF c = "" THEN t ELSE Class(c)
      [] Is(t, "struct") -> IF t[2] \in DOMAIN s.structs THEN Class(s.structs[t[2]]) ELSE t
      [] Is(t, "fun") -> Fun(Each(t[2]), Inner(t[3]))
      [] t[1] \in {"array", "dyn", "option"} -> <<t[1], Inner(t[2])>>
      [] Is(t, "tuple") -> Tuple(Each(t[2]))
      [] Is(t, "range") -> RangeOf(t[2], Inner(t[3]))
      [] OTHER -> t

RECURSIVE Mentions(_, _)
Mentions(t, kind) ==
    \/ Is(t, kind)
    \/ Is(t, "fun") /\ \E u \in Elements(t[2]) \cup {t[3]} : Mentions(u, kind)
    \/ t[1] \in {"array", "dyn", "option"} /\ Mentions(t[2], kind)
    \/ Is(t, "tuple") /\ \E u \in Elements(t[2]) : Mentions(u, kind)
    \/ Is(t, "range") /\ Mentions(t[3], kind)

\* An unknown name counts as an error of the pass.  An unknown C struct is only
\* reported.
Unknown(s, t) ==
    CASE Mentions(t, "unbound") -> Report(s)
      [] ~Mentions(t, "unbound") /\ Mentions(t, "struct") -> [s EXCEPT !.reported = TRUE]
      [] OTHER -> s

BindVarTo(s, v, t) == Unknown([s EXCEPT !.vars[v].t = t], t)
BindVar(s, scopes, v) == BindVarTo(s, v, BoundType(s, scopes, s.vars[v].t))

\* visit_function_id
BindRet(s, f, t) == Unknown([s EXCEPT !.funs[f].ret = t], t)
BindSig(s, scopes, f) ==
    BindRet(FoldLeft(LAMBDA c, v : BindVar(c, scopes, v), s, s.funs[f].params), f, BoundType(s, scopes, s.funs[f].ret))

----------------------------------------------------------------------------
(* Nodes *)

RECURSIVE Bind(_, _, _)
BindAll(s, scopes, ids) == FoldLeft(LAMBDA c, id : Bind(c, scopes, id), s, ids)

\* resolve_unbound and resolve_unbound_funcapture, of a name without an object.
\* A method that is found in a class gets self for its object.
BindName(s, scopes, id) ==
    LET e == Resolve(s, scopes, s.ast[id].x)
        self == Put(s, Node("SelfVal", <<>>, Unassigned, 0))
        c == IF e.self THEN self ELSE s
        object == IF e.self THEN <<End(self)>> ELSE <<>> IN
    CASE e = NoEntry -> Report(s)
      [] e.k = "class" -> IF s.ast[id].k = "Unbound" THEN Panic(s, "class") ELSE Report(s)
      [] e.k \in {"var", "fun"} /\ ~e.available -> Report(s)
      [] e.k = "var" /\ e.available -> [s EXCEPT !.ast[id] = Node("Variable", <<>>, Unassigned, e.id)]
      [] e.k = "fun" /\ e.available -> [c EXCEPT !.ast[id] = Node("FunCapture", object, FunUnassigned, e.id)]

BindAssign(s, scopes, id) ==
    LET n == s.ast[id]
        e == Resolve(s, scopes, n.x.name) IN
    IF e = NoEntry \/ e.k # "var" \/ ~e.available THEN Report(s)
    ELSE [s EXCEPT !.ast[id] = Node("Assign", n.a, Unassigned, [var |-> e.id, op |-> n.x.op])]

\* The class of .new depends on the type of the object, so the type checker
\* finds it: until then the initializers have no properties to belong to.
Initialized(s, id) ==
    LET n == s.ast[id]
        vars == [i \in DOMAIN n.x.inits |-> LookupProperty(s, n.t, n.x.inits[i]).var] IN
    IF 0 \in Elements(vars) THEN Report(s) ELSE [s EXCEPT !.ast[id].x.vars = vars]
Constructed(s, id, c) == IF c = "" THEN Report(s) ELSE [s EXCEPT !.ast[id].t = Class(c)]
BindNew(s, scopes, id) ==
    LET n == s.ast[id] IN
    IF ~n.x.object /\ Resolve(s, scopes, n.x.names[1]).k # "class" THEN Report(s)
    ELSE Initialized(BindAll(IF n.x.object THEN s ELSE Constructed(s, id, ClassAt(s, scopes, n.x.names)), scopes, n.a), id)

BindFun(s, scopes, id) == BindSig(BindAll(s, scopes, s.ast[id].a), scopes, s.ast[id].x)

BindClass(s, scopes, class) ==
    LET c == s.classes[class] IN BindAll(s, <<ClassScope(s, class, scopes)>> \o scopes, c.methods \o c.inits \o c.nested)

Bind(s, scopes, id) ==
    LET n == s.ast[id]
        Kids == BindAll(s, scopes, n.a) IN
    IF s.ice # "" THEN s ELSE
    CASE n.k \in {"Unbound", "UnboundFunCapture"} /\ n.a = <<>> -> BindName(s, scopes, id)
      [] n.k = "UnboundAssign" -> BindAssign(Kids, scopes, id)
      [] n.k = "New" -> BindNew(s, scopes, id)
      [] n.k = "FunDeclare" -> BindFun(s, scopes, id)
      [] n.k = "Declare" -> BindVar(Kids, scopes, n.x)
      [] n.k = "ForLoop" -> BindVar(Kids, scopes, n.x.var)
      [] n.k = "ClassDeclare" -> BindClass(s, scopes, n.x)
      [] OTHER -> Kids

\* visit_module: globals, then functions, then classes
BindModule(s) == BindAll(s, <<Global>>, s.globals \o s.functions \o s.top)

\* What was imported has types to bind, but its errors are not the pass's.
BindImported(s) == [FoldLeft(LAMBDA c, f : BindSig(c, <<Global>>, f), s, s.imported) EXCEPT !.err = s.err]

BindAllModules(s) == BindImported(BindModule(s))
=============================================================================
