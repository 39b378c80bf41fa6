------------------------------ MODULE Closures ------------------------------
(***************************************************************************)
(* Closure conversion (poniescript-core/src/closure_convert.rs).  Every    *)
(* function and every loop body has a closure, which gets a class when a   *)
(* variable in it is read by another function; the variable becomes a      *)
(* field of that class, and functions inside become its methods.           *)
(***************************************************************************)
EXTENDS Program

\* maybe_convert_var and actually_convert_var: the class of a closure is named
\* after it.
ClosureClass(k) == "closure" \o ToString(k)
NewClosureClass == [name |-> "closure", vars |-> <<>>, funs |-> <<>>, inner |-> <<>>, parent |-> "",
                    mandatory |-> {}, inits |-> <<>>, methods |-> <<>>, nested |-> <<>>]

ConvertVar(s, fun, v) ==
    LET var == s.vars[v]
        class == ClosureClass(var.closure)
        made == IF s.closures[var.closure].class # "" THEN s
                ELSE [s EXCEPT !.classes = (class :> NewClosureClass) @@ @, !.closures[var.closure].class = class] IN
    IF var.fun \in {0, fun} \/ var.closure = 0 \/ var.class = class THEN s
    ELSE [made EXCEPT !.vars[v].class = class]

\* The walk over the trees.  Only a read counts; the object of .new is left out.
RECURSIVE Convert(_, _, _)
ConvertAll(s, fun, ids) == FoldLeft(LAMBDA c, id : Convert(c, fun, id), s, ids)
ConvertClass(s, fun, class) ==
    LET c == s.classes[class] IN ConvertAll(s, fun, c.methods \o c.nested \o c.inits)

Convert(s, fun, id) ==
    LET n == s.ast[id] IN
    CASE n.k = "Variable" -> ConvertVar(s, fun, n.x)
      [] n.k = "FunDeclare" -> ConvertAll(s, n.x, n.a)
      [] n.k = "ClassDeclare" -> ConvertClass(s, fun, n.x)
      [] n.k = "New" -> ConvertAll(s, fun, SubSeq(n.a, IF n.x.object THEN 2 ELSE 1, Len(n.a)))
      [] OTHER -> ConvertAll(s, fun, n.a)

----------------------------------------------------------------------------

\* identify_class_for_function_closure and identify_parent_class_for_closure:
\* the class of the closure or of the nearest one around it that has one.  Only
\* the second looks for the class that a method belongs to.
RECURSIVE ClassAround(_, _)
ClassAround(s, k) ==
    IF k = 0 THEN "" ELSE IF s.closures[k].class # "" THEN s.closures[k].class ELSE ClassAround(s, s.closures[k].parent)

RECURSIVE ParentClass(_, _, _)
ParentClass(s, k, first) ==
    LET c == s.closures[k] IN
    CASE k = 0 -> ""
      [] k # 0 /\ ~first /\ c.class # "" -> c.class
      [] k # 0 /\ (first \/ c.class = "") /\ c.parent_class # "" -> c.parent_class
      [] OTHER -> ParentClass(s, c.parent, FALSE)

WithClasses(s) ==
    [s EXCEPT !.classes = [class \in DOMAIN @ |->
                  IF \E k \in DOMAIN s.closures : s.closures[k].class = class
                  THEN [s.classes[class] EXCEPT !.parent = ParentClass(s, CHOOSE k \in DOMAIN s.closures : s.closures[k].class = class, TRUE)]
                  ELSE @[class]],
              !.funs = [f \in DOMAIN @ |->
                  IF @[f].closure = 0 THEN @[f] ELSE [s.funs[f] EXCEPT !.class = ClassAround(s, s.funs[f].closure)]]]

\* replace_vars: what names a function of a closure gets self for its object,
\* typed as the class of that function; the declaration of a captured variable
\* becomes a Set on self.  (Here those of one class share their self.)
Captures(s, f) == s.funs[f].closure # 0 /\ s.funs[f].class # ""
InClosure(s, v) == s.vars[v].fun # 0 /\ s.vars[v].class # ""
Itself(v) == [var |-> v, t |-> Unassigned, readonly |-> FALSE]
ReplaceVars(s) ==
    LET classes == SetToSeq(DOMAIN s.classes)
        selves == [i \in DOMAIN classes |-> Node("SelfVal", <<>>, Class(classes[i]), 0)]
        SelfOf(class) == End(s) + CHOOSE i \in DOMAIN classes : classes[i] = class
        Replaced(n) ==
            CASE n.k = "FunCapture" /\ Captures(s, n.x) -> [n EXCEPT !.a = <<SelfOf(s.funs[n.x].class)>>]
              [] n.k = "FunCall" /\ Captures(s, n.x.fun) ->
                    [n EXCEPT !.a = SubSeq(@, 1, Len(s.funs[n.x.fun].params)) \o <<SelfOf(s.funs[n.x.fun].class)>>,
                              !.x.object = TRUE]
              [] n.k = "Declare" /\ InClosure(s, n.x) ->
                    Node("Set", <<SelfOf(s.vars[n.x].class)>> \o n.a, s.vars[n.x].t,
                         [chain |-> <<>>, vars |-> <<Itself(n.x)>>, op |-> "="])
              [] OTHER -> n IN
    [s EXCEPT !.ast = [id \in DOMAIN @ |-> Replaced(@[id])] \o selves]

ConvertClosures(s) == ReplaceVars(WithClasses(ConvertAll(s, 0, s.functions \o s.top \o s.globals)))
=============================================================================
