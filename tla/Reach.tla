-------------------------------- MODULE Reach --------------------------------
(***************************************************************************)
(* How the C of a function gets at what is not its own (codegen/           *)
(* single_codegen.rs): everything goes through `this', whose class the     *)
(* code generator knows as the last of inside_class, and the parents.      *)
(***************************************************************************)
EXTENDS Program

\* get_class_list, get_class_list_class: outermost first
RECURSIVE ClassList(_, _)
ClassList(s, c) == IF c = "" THEN <<>> ELSE Append(ClassList(s, s.classes[c].parent), c)

This(inside) == IF inside = <<>> THEN "" ELSE Last(inside)

\* lookup_var_in_parent and find_function_depth: the number of parents between an
\* object and the class that the member belongs to; without one, a panic.
HasMember(s, t, class) == class = "" \/ ~Is(t, "class") \/ class \in Elements(ClassList(s, t[2]))

\* get_direct_var: a variable without an object is a local, a global or a member
\* of a class that the function is inside of.
Direct(s, f, inside, v) ==
    LET var == s.vars[v] IN IF var.class = "" THEN var.fun \in {0, f} ELSE var.class \in Elements(inside)

\* A chain of properties, each looked up in the type of the one before it
ChainFits(s, t, props) ==
    \A i \in DOMAIN props : props[i].var # 0 =>
        HasMember(s, IF i = 1 THEN t ELSE PropertyType(s, props[i - 1]), s.vars[props[i].var].class)

\* The object of a function is the last child.
Object(s, id) == s.ast[id].a[Len(s.ast[id].a)]

\* What the code that is printed for one node needs of `this'
Reaches(s, f, inside, id) ==
    LET n == s.ast[id] IN
    CASE n.k = "Variable" -> Direct(s, f, inside, n.x)
      [] n.k = "Assign" /\ s.vars[n.x.var].class # "" -> Direct(s, f, inside, n.x.var)
      [] n.k = "SelfVal" -> n.t[2] \in Elements(inside)
      [] n.k = "FunCall" /\ n.x.object -> HasMember(s, TypeOf(s, Object(s, id)), s.funs[n.x.fun].class)
      [] n.k = "FunCapture" /\ n.a # <<>> -> HasMember(s, TypeOf(s, n.a[1]), s.funs[n.x].class)
      [] n.k \in {"Get", "Set"} -> ChainFits(s, TypeOf(s, n.a[1]), n.x.vars)
      [] n.k = "FunDeclare" -> s.funs[n.x].class \in {"", This(inside)}
      [] n.k = "Closure" /\ s.closures[n.x].class # "" -> s.classes[s.closures[n.x].class].parent = This(inside)
      [] OTHER -> TRUE

\* The nodes of the C function of f that do not get at what they need.  A closure
\* with a class is allocated, and is `this' for what is inside of it.  Functions
\* inside of f become C functions of their own.
RECURSIVE Unreached(_, _, _, _)
Unreached(s, f, inside, id) ==
    LET n == s.ast[id]
        pushed == IF n.k = "Closure" /\ s.closures[n.x].class # "" THEN Append(inside, s.closures[n.x].class) ELSE inside
        kids == IF n.k \in {"FunDeclare", "ClassDeclare"} THEN {} ELSE Elements(n.a) IN
    (IF Reaches(s, f, inside, id) THEN {} ELSE {id}) \cup UNION {Unreached(s, f, pushed, k) : k \in kids}

UnreachedIn(s, f) == Unreached(s, f, ClassList(s, s.funs[f].class), s.funs[f].body)
UnreachedInClass(s, c) ==
    UNION {Unreached(s, 0, ClassList(s, c), s.ast[id].a[1]) : id \in {d \in Elements(s.classes[c].inits) : s.ast[d].a # <<>>}}
UnreachedInGlobals(s) == UNION {Unreached(s, 0, <<>>, s.ast[id].a[1]) : id \in Elements(s.globals)}
=============================================================================
