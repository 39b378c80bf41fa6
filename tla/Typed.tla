-------------------------------- MODULE Typed --------------------------------
(***************************************************************************)
(* What the code generator relies on in a tree that the type checker has   *)
(* accepted (single_codegen.rs): the C it prints has no types to check.    *)
(***************************************************************************)
EXTENDS Typecheck

\* The nodes below a node
RECURSIVE Below(_, _)
Below(s, id) == {id} \cup UNION {Below(s, s.ast[id].a[i]) : i \in DOMAIN s.ast[id].a}

\* A value that never comes, and an option of a value type, which the code
\* generator does not know yet ("todo!"), have nowhere to go.
Never(t) == t = Bottom \/ (Is(t, "range") /\ t[3] = Bottom)
Unfinished(t) == Is(t, "option") /\ IsValueType(t[2])
\* A value that arrives has the type of its place.
Fits(s, id, i, t) == TypeOf(s, Kid(s, id, i)) = t \/ Never(TypeOf(s, Kid(s, id, i)))
FitAll(s, id, first, ts) == \A i \in DOMAIN ts : Fits(s, id, first + i - 1, ts[i])
FitEach(s, id, t) == \A i \in DOMAIN s.ast[id].a : Fits(s, id, i, t)

FitOperands(s, id) ==
    LET t == s.ast[id].t
        Lone(i, j) == IsScalar(TypeOf(s, Kid(s, id, i))) /\ IsVec(TypeOf(s, Kid(s, id, j))) IN
    \A i \in {1, 2} : Fits(s, id, i, t) \/ Lone(i, 3 - i)

\* Each value has the type of the place it goes to.
NodeFits(s, id) ==
    LET n == s.ast[id] IN
    CASE n.k = "Declare" -> n.a # <<>> => Fits(s, id, 1, s.vars[n.x].t)
      [] n.k = "Assign" -> Fits(s, id, 1, s.vars[n.x.var].t)
      [] n.k = "Set" -> Fits(s, id, 2, TypeOf(s, id))
      [] n.k = "SetIndex" -> Fits(s, id, 2, Integer) /\ Fits(s, id, 3, n.t)
      [] n.k = "Index" -> Fits(s, id, 2, Integer)
      [] n.k = "FunCall" -> FitAll(s, id, 1, ParamTypes(s, n.x.fun))
      [] n.k = "BuiltinCall" -> FitAll(s, id, 2, n.x.params)
      [] n.k = "ValCall" -> FitAll(s, id, 2, n.x[2])
      [] n.k = "New" -> FitAll(s, id, IF n.x.object THEN 2 ELSE 1, [i \in DOMAIN n.x.vars |-> s.vars[n.x.vars[i]].t])
      [] n.k = "Binary" -> FitOperands(s, id)
      [] n.k = "Unary" -> Fits(s, id, 1, n.t)
      [] n.k = "MakeRange" -> FitEach(s, id, n.t[3])
      [] n.k = "ArrayLit" -> FitEach(s, id, n.x)
      [] n.k = "MakeTuple" -> FitAll(s, id, 1, n.t[2])
      [] n.k = "Comparison" -> FitEach(s, id, n.x)
      [] n.k = "Logical" -> FitEach(s, id, Bool)
      [] n.k = "WhileLoop" -> Fits(s, id, 1, Bool)
      [] n.k = "If" -> /\ Fits(s, id, 1, Bool)
                       /\ n.t # Void => \A i \in {2, 3} : Fits(s, id, i, n.t)
      [] n.k = "OptionElse" -> Fits(s, id, 1, Option(n.t)) /\ Fits(s, id, 2, n.t)
      [] n.k = "Loop" -> \A i \in DOMAIN n.x : s.ast[n.x[i]].a # <<>> => Fits(s, n.x[i], 1, n.t)
      [] n.k = "NumLiteral" -> n.t \in {Integer, Float, Void} \/ Unfinished(n.t)    \* Void: nobody uses it
      [] n.k = "Promote" -> n.t = Void \/ Unfinished(n.t) \/ Promotes(n.t, TypeOf(s, n.a[1]))
      [] OTHER -> TRUE

\* Return belongs to the function around it.
RECURSIVE Returns(_, _)
Returns(s, id) ==
    CASE s.ast[id].k = "FunDeclare" -> {}
      [] s.ast[id].k = "Return" -> {id} \cup UNION {Returns(s, k) : k \in Elements(s.ast[id].a)}
      [] OTHER -> UNION {Returns(s, k) : k \in Elements(s.ast[id].a)}

FunFits(s, id) ==
    LET ret == s.funs[s.ast[id].x].ret IN
    /\ ret # Void => Fits(s, id, 1, ret)
    /\ \A r \in Returns(s, Kid(s, id, 1)) : s.ast[r].a # <<>> => Fits(s, r, 1, ret)

AllNodes(s) == UNION {Below(s, s.functions[i]) : i \in DOMAIN s.functions} \cup
               UNION {Below(s, s.globals[i]) : i \in DOMAIN s.globals} \cup
               UNION {UNION {Below(s, id) : id \in Elements(s.classes[c].inits) \cup Elements(s.classes[c].methods)} : c \in DOMAIN s.classes}

\* What gets all of its operands.  A loop whose value is converted is left out:
\* its breaks were converted before, to what the loop was wanted as.
Reached(s, id) ==
    CASE s.ast[id].k = "If" -> TRUE
      [] s.ast[id].k = "Loop" -> ~\E p \in DOMAIN s.ast : s.ast[p].k = "Promote" /\ s.ast[p].a = <<id>>
      [] OTHER -> \A i \in DOMAIN s.ast[id].a : ~Never(TypeOf(s, Kid(s, id, i)))
Misfits(s) == {id \in AllNodes(s) : \/ (Reached(s, id) /\ ~NodeFits(s, id))
                                   \/ (s.ast[id].k = "FunDeclare" /\ ~FunFits(s, id))}
=============================================================================
