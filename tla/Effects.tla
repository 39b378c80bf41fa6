------------------------------ MODULE Effects ------------------------------
(***************************************************************************)
(* What a function does that can be seen: the runs of its body, as the     *)
(* labels of the prints on the way and how it ends.  Conditions may turn   *)
(* out either way and a loop is cut off after MaxTurns turns.  The order   *)
(* of evaluation is that of the C that single_codegen.rs prints.           *)
(***************************************************************************)
EXTENDS Program

CONSTANT MaxTurns

\* A run has seen the prints of `trace' and goes on with the value ("on") or
\* has ended otherwise.
On(trace) == [trace |-> trace, end |-> "on"]
Onward(runs, Rest(_)) ==
    UNION {IF r.end = "on" THEN {[u EXCEPT !.trace = r.trace \o @] : u \in Rest(r)} ELSE {r} : r \in runs}
Ending(runs, end) == Onward(runs, LAMBDA r : {[On(<<>>) EXCEPT !.end = end]})

RECURSIVE Runs(_, _)
RunsOf(s, ids) == FoldLeft(LAMBDA runs, id : Onward(runs, LAMBDA r : Runs(s, id)), {On(<<>>)}, ids)
Optionally(s, ids) == RunsOf(s, ids) \cup {On(<<>>)}

\* A loop, with a condition or without one
RECURSIVE Turns(_, _, _, _)
Turns(s, condition, body, n) ==
    LET Again(r) ==
            CASE r.end \in {"on", "continue"} -> Onward({On(r.trace)}, LAMBDA q : Turns(s, condition, body, n - 1))
              [] r.end = "break" -> {On(r.trace)}
              [] OTHER -> {r}
        over == IF condition = <<>> THEN {} ELSE {On(<<>>)} IN
    IF n = 0 THEN {[On(<<>>) EXCEPT !.end = "cut"]}
    ELSE Onward(RunsOf(s, condition), LAMBDA q : over \cup UNION {Again(r) : r \in Runs(s, body)})

Runs(s, id) ==
    LET n == s.ast[id]
        first == <<n.a[1]>> IN
    CASE n.k = "Print" -> Onward(RunsOf(s, n.a), LAMBDA r : {On(<<n.x>>)})
      [] n.k \in {"Logical", "OptionElse"} -> Onward(RunsOf(s, first), LAMBDA r : Optionally(s, Tail(n.a)))
      [] n.k = "If" -> Onward(RunsOf(s, first), LAMBDA r :
            Runs(s, n.a[2]) \cup (IF Len(n.a) = 3 THEN Runs(s, n.a[3]) ELSE {On(<<>>)}))
      [] n.k = "Loop" -> Turns(s, <<>>, n.a[1], MaxTurns)
      [] n.k = "WhileLoop" -> Turns(s, first, n.a[2], MaxTurns)
      [] n.k = "Return" -> Ending(RunsOf(s, n.a), "return")
      [] n.k = "Break" -> Ending(RunsOf(s, n.a), "break")
      [] n.k = "Continue" -> Ending(RunsOf(s, n.a), "continue")
      [] n.k = "Set" -> RunsOf(s, <<n.a[2], n.a[1]>>)
      [] n.k = "BuiltinCall" -> RunsOf(s, Tail(n.a) \o first)
      [] n.k \in {"FunDeclare", "ClassDeclare"} -> {On(<<>>)}
      [] OTHER -> RunsOf(s, n.a)

\* Nothing is seen of it, or nothing runs after it.
Silent(s, id) == Runs(s, id) = {On(<<>>)}
Final(s, id) == \A r \in Runs(s, id) : r.end # "on"
=============================================================================
