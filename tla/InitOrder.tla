------------------------------ MODULE InitOrder ------------------------------
(***************************************************************************)
(* The order in which variables are initialized (init_ordering.rs, called  *)
(* by main): a depth-first search from each variable through the           *)
(* initializers, through the functions that they name and the classes that *)
(* they construct.  The globals are ordered first, and then the variables  *)
(* of each class.                                                          *)
(*   search.list    the class whose variables are ordered, "" for the      *)
(*                  globals; they are not in the database meanwhile        *)
(*   search.left    the classes that come later                            *)
(*   search.queue   the variables to start from                            *)
(*   search.ord     the order so far                                       *)
(*   search.map     the variables to order: is the search inside of it?    *)
(*   search.stack   what the search has still to do, the next thing first  *)
(***************************************************************************)
EXTENDS Db, Integers

VARIABLES s, search

Listed(db, list) == IF list = "" THEN db.globals ELSE db.classes[list].inits
WithList(db, list, declares) ==
    IF list = "" THEN [db EXCEPT !.globals = declares] ELSE [db EXCEPT !.classes[list].inits = declares]
Declared(db, declares) == [i \in DOMAIN declares |-> db.ast[declares[i]].x]
Declares(db, ord) == [i \in DOMAIN ord |-> db.vars[ord[i]].init]

\* <<>> for a variable without initializer
Initializer(db, v) == db.ast[db.vars[v].init].a

\* The values of .new, without the object
NewValues(n) == SubSeq(n.a, IF n.x.object THEN 2 ELSE 1, Len(n.a))

Item(do, at) == [do |-> do, at |-> at]
Each(do, ats) == [i \in DOMAIN ats |-> Item(do, ats[i])]
Doing(do) == search.stack # <<>> /\ Head(search.stack).do = do
At == Head(search.stack).at
Goes(items) == search' = [search EXCEPT !.stack = items \o Tail(@)] /\ UNCHANGED s

\* push_dfs: an entry stays TRUE until the search is over.
PushDfs(v, map, queue, stack) ==
    LET On(m, items) == search' = [search EXCEPT !.map = m, !.queue = queue, !.stack = items] IN
    \/ v \notin DOMAIN map /\ On(map, stack) /\ UNCHANGED s
    \/ v \in DOMAIN map /\ map[v] /\ On(map, stack) /\ s' = [s EXCEPT !.reported = TRUE]
    \/ /\ v \in DOMAIN map /\ ~map[v] /\ UNCHANGED s
       /\ On([map EXCEPT ![v] = TRUE], Each("visit", Initializer(s, v)) \o <<Item("push", v)>> \o stack)

\* topological_sort: what a search has ordered is nothing to the next ones.
Search ==
    /\ search.stack = <<>> /\ search.queue # <<>>
    /\ PushDfs(Head(search.queue), [w \in DOMAIN search.map \ Elements(search.ord) |-> search.map[w]],
               Tail(search.queue), <<>>)

VisitVariable == Doing("visit") /\ LET n == s.ast[At] IN
    n.k = "Variable" /\ PushDfs(n.x, search.map, search.queue, Tail(search.stack))

\* The search has no end if it comes to a function or a .new again and has entered
\* no variable since: nothing tells the code then that it was there.
Inside == LET stack == search.stack IN
    {stack[i].at : i \in {j \in DOMAIN stack : stack[j].do = "leave" /\ \A h \in 1..j : stack[h].do # "push"}}
Enter(x, items) ==
    \/ x \in Inside /\ s' = Panic(s, "stack overflow") /\ UNCHANGED search
    \/ x \notin Inside /\ Goes(items \o <<Item("leave", x)>>)

\* A function is visited where it is named, called or not, if there is source.
VisitFunCapture == Doing("visit") /\ LET n == s.ast[At] IN
    /\ n.k = "FunCapture"
    /\ \/ s.funs[n.x].body = 0 /\ Goes(<<>>)
       \/ s.funs[n.x].body # 0 /\ Enter(<<"fun", n.x>>, <<Item("visit", s.funs[n.x].body)>>)

\* Mutant: the initializers of the class are not visited.
VisitValues == Doing("visit") /\ LET n == s.ast[At] IN
    n.k = "New" /\ Goes(Each("visit", NewValues(n)))

\* The values, and then the initializers of the class.
VisitNew == Doing("visit") /\ LET n == s.ast[At] IN
    /\ n.k = "New"
    /\ Goes(Each("visit", NewValues(n)) \o (IF Is(n.t, "class") THEN <<Item("class", At)>> ELSE <<>>))

VisitOther == Doing("visit") /\ LET n == s.ast[At] IN
    n.k \notin {"Variable", "FunCapture", "New"} /\ Goes(Each("visit", n.a))

VisitClass == Doing("class") /\ LET inits == s.classes[s.ast[At].t[2]].inits IN
    Enter(<<"new", At>>, [i \in DOMAIN inits |-> Item("init", <<At, inits[i]>>)])

\* A variable that has got a value from .new is not initialized by the class.
VisitInit == Doing("init") /\ LET n == s.ast[At[1]] d == s.ast[At[2]] IN
    Goes(IF d.x \in Elements(n.x.vars) THEN <<>> ELSE Each("visit", d.a))

PushOrd == Doing("push") /\ UNCHANGED s
    /\ search' = [search EXCEPT !.ord = Append(@, At), !.stack = Tail(@)]

Leave == Doing("leave") /\ Goes(<<>>)

\* main takes each list out, and puts it back in its order.
Sort(db, list, left) ==
    LET queue == Declared(db, Listed(db, list)) IN
    /\ s' = WithList(db, list, <<>>)
    /\ search' = [list |-> list, left |-> left, queue |-> queue, ord |-> <<>>,
                  map |-> [v \in Elements(queue) |-> FALSE], stack |-> <<>>]
Sorted == search.stack = <<>> /\ search.queue = <<>>
PutBack == WithList(s, search.list, Declares(s, search.ord))

SortGlobals == Sort(s, "", DOMAIN s.classes)
SortClass == Sorted /\ \E c \in search.left : Sort(PutBack, c, search.left \ {c})

SortStep == \/ Search \/ VisitVariable \/ VisitFunCapture \/ VisitNew \/ VisitOther \/ VisitClass \/ VisitInit
            \/ PushOrd \/ Leave \/ SortClass

-----------------------------------------------------------------------------
(* What initialization needs                                               *)

\* The variables that a module or a class declares
Members(db, list) == {v \in DOMAIN db.vars : db.vars[v].class = list /\ db.vars[v].fun = 0 /\ db.vars[v].init # 0}

\* What runs when a node does: its children, the function that it names, and the
\* initializers of a new object of another class.  (The objects of .new and of
\* methods are not searched, and are left out here.)
Given(n) == Elements(n.x.vars)
Constructs(db, list, n) ==
    IF ~Is(n.t, "class") \/ n.t[2] = list THEN {}
    ELSE UNION {Elements(Initializer(db, v)) : v \in Members(db, n.t[2]) \ Given(n)}
Follows(db, list, id) ==
    LET n == db.ast[id] IN
    CASE n.k = "FunCapture" -> {db.funs[n.x].body} \ {0}
      [] n.k = "New" -> Elements(NewValues(n)) \cup Constructs(db, list, n)
      [] OTHER -> Elements(n.a)

\* All that runs for the initializer of v, and the variables that are read then
Running(db, list, v) ==
    LET grown[n \in Nat] ==
            IF n = 0 THEN Elements(Initializer(db, v))
            ELSE LET ids == grown[n - 1] IN ids \cup UNION {Follows(db, list, id) : id \in ids} IN
    grown[Len(db.ast)]
Needs(db, list, v) == {db.ast[id].x : id \in {i \in Running(db, list, v) : db.ast[i].k = "Variable"}}

\* The variables of the list are all there, each after those that it needs.
InOrderIn(db, list) ==
    LET order == Declared(db, Listed(db, list)) IN
    /\ Elements(order) = Members(db, list)
    /\ \A i, j \in DOMAIN order : order[j] \in Needs(db, list, order[i]) => j < i

\* What the search relies on.  The children of nodes, the functions and the classes
\* that they name are there, and a list has the Declares of what belongs in it.
Hangs(db, id) ==
    LET n == db.ast[id] IN
    /\ n.a \in Seq(DOMAIN db.ast)
    /\ n.k = "Variable" => n.a = <<>>
    /\ n.k = "FunCapture" => db.funs[n.x].body \in DOMAIN db.ast \cup {0}
    /\ n.k = "New" /\ Is(n.t, "class") => n.t[2] \in DOMAIN db.classes
Lists(db, list) ==
    LET declares == Listed(db, list) IN
    /\ declares \in Seq(DOMAIN db.ast)
    /\ Elements(Declared(db, declares)) = Members(db, list)
    /\ \A i \in DOMAIN declares : db.vars[db.ast[declares[i]].x].init = declares[i]
Sortable(db) ==
    /\ DOMAIN db = Fields /\ "" \notin DOMAIN db.classes
    /\ \A c \in DOMAIN db.classes : "inits" \in DOMAIN db.classes[c]
    /\ Len(db.ast) \in Nat /\ DOMAIN db.ast = 1..Len(db.ast)
    /\ \A id \in DOMAIN db.ast : Hangs(db, id)
    /\ \A list \in {""} \cup DOMAIN db.classes : Lists(db, list)
=============================================================================
