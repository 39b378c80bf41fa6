------------------------------- MODULE Driver -------------------------------
(***************************************************************************)
(* main (poniescript/src/main.rs) from the parsed modules to the call of   *)
(* the code generator: each pass is an action, the type checker one for    *)
(* each declaration, and the ordering of variables the steps of InitOrder. *)
(* What the other passes do to the database is a parameter; Compiler has   *)
(* the passes themselves.  An input is what the parser leaves behind, with *)
(* the command line:                                                       *)
(*   program   the modules: Database gives the state that they are parsed  *)
(*             to, with err (had_error of the running pass), reported      *)
(*             (db.errors is not empty) and ice (a panic) among its fields *)
(*   mode      compile, check, pretty (--pretty-print) or test             *)
(*   bind      the functions of --bind                                     *)
(*   outputs   the kinds of the output files (c, o, exe, so)               *)
(*   errors    a test that expects errors                                  *)
(***************************************************************************)
EXTENDS InitOrder

CONSTANTS
    Inputs, Database(_),
    DoBind(_), DoSignatures(_), DoCheck(_, _),   \* the passes; DoCheck takes a
    DoEliminate(_), DoConvert(_)                 \* declaration to check

\* The parser left no error: main ends if it did.
ASSUME DatabaseAssumption ==
    \A i \in Inputs : LET parsed == Database(i.program) IN ~parsed.err /\ ~parsed.reported /\ parsed.ice = ""

VARIABLES
    input,      \* the input (s, of InitOrder, is db and ast)
    pass,       \* the pass that comes next; "failed", "panic" and "done" at the end
    todo,       \* what the type checker has still to check
    exit,       \* <<the exit code>>, at the end
    before      \* the trees before dead code elimination

vars == <<input, s, search, pass, todo, exit, before>>

Init ==
    /\ input \in Inputs
    /\ s = Database(input.program) /\ search = <<>>
    /\ pass = "bind" /\ todo = <<>> /\ exit = <<>> /\ before = <<>>

\* exit(), which report_errors turns into a verdict on a test that expects errors
Exit(at, code) == pass' = at /\ exit' = <<code>> /\ UNCHANGED <<input, todo, before>>
ReportErrors(code) == \E c \in (IF input.mode = "test" /\ input.errors THEN {0, 15} ELSE {code}) : Exit("failed", c)
Go(next) == pass' = next /\ UNCHANGED <<input, exit>>

\* A pass that leaves t behind
Pass(t, failed, code, next) ==
    /\ s' = t
    /\ CASE t.ice # "" -> Exit("panic", 101)
         [] t.ice = "" /\ failed -> ReportErrors(code)
         [] OTHER -> Go(next) /\ UNCHANGED <<todo, before>>

BindPass ==
    /\ pass = "bind"
    /\ LET After(t) == Pass(t, t.err, 2, "order") IN After(DoBind(s))

OrderGlobals == pass = "order" /\ SortGlobals /\ Go("ordering") /\ UNCHANGED <<todo, before>>
OrderStep ==
    /\ pass = "ordering" /\ SortStep
    /\ IF s'.ice # "" THEN Exit("panic", 101) ELSE Go("ordering") /\ UNCHANGED <<todo, before>>

\* The result of this pass is in db.errors alone.
OrderEnd ==
    /\ pass = "ordering" /\ Sorted /\ search.left = {} /\ search' = <<>>
    /\ LET After(t) == Pass(t, t.reported, 3, "signatures") IN After(PutBack)

\* check_modules: all signatures, then globals, classes and functions.  An error
\* in one of them does not keep the others from being checked.
Signatures ==
    /\ pass = "signatures"
    /\ s' = DoSignatures([s EXCEPT !.err = FALSE])
    /\ todo' = s.globals \o s.top \o s.functions
    /\ Go("check") /\ UNCHANGED before

CheckPass ==
    /\ pass = "check" /\ todo # <<>>
    /\ s' = DoCheck(s, Head(todo))
    /\ IF s'.ice # "" THEN Exit("panic", 101) ELSE Go("check") /\ todo' = Tail(todo) /\ UNCHANGED before

\* handle_bound_functions stops at the first name that is no function.
BindsAll(names) == \A i \in DOMAIN names : <<names[i]>> \in DOMAIN s.names /\ s.names[<<names[i]>>].k = "fun"

\* Mutant: that pass is asked for its own result, as the others are.
CheckedOnce ==
    /\ pass = "check" /\ todo = <<>>
    /\ LET bound == IF BindsAll(input.bind) THEN s ELSE [s EXCEPT !.reported = TRUE] IN
        CASE s.err -> ReportErrors(4) /\ UNCHANGED s
          [] ~s.err /\ input.mode = "pretty" -> Exit("done", 0) /\ UNCHANGED s
          [] OTHER -> Pass(bound, bound.err, 4, "dead code")

Checked ==
    /\ pass = "check" /\ todo = <<>>
    /\ LET bound == IF BindsAll(input.bind) THEN s ELSE [s EXCEPT !.reported = TRUE] IN
        CASE s.err -> ReportErrors(4) /\ UNCHANGED s
          [] ~s.err /\ input.mode = "pretty" -> Exit("done", 0) /\ UNCHANGED s
          [] OTHER -> Pass(bound, bound.reported, 4, "dead code")

DeadCodePass ==
    /\ pass = "dead code"
    /\ s' = DoEliminate(s)
    /\ before' = s.ast
    /\ Go("closures") /\ UNCHANGED todo

\* The order of the value types comes between: its error, a cycle, does not arise, as
\* a type can only be made of types that are there before it.
ClosurePass ==
    /\ pass = "closures"
    /\ \/ input.mode = "check" /\ Exit("done", 0) /\ UNCHANGED s
       \/ input.mode # "check" /\ s' = DoConvert(s) /\ Go("outputs") /\ UNCHANGED <<todo, before>>

\* CompileOutputs::parse: C files or object files, or one executable or library.
Diverse(outputs) ==
    \/ outputs = <<>>
    \/ Len(outputs) > 1 /\ (outputs[1] \notin {"c", "o"} \/ \E i \in DOMAIN outputs : outputs[i] # outputs[1])

\* get_output: a file that cannot be created or a C compiler that does not start
\* ends it with 3, 4 or 5.
Outputs ==
    /\ pass = "outputs" /\ UNCHANGED s
    /\ CASE Diverse(input.outputs) -> Exit("no output", 5)
         [] ~Diverse(input.outputs) /\ input.mode = "test" /\ input.outputs[1] = "c" -> Exit("no output", 10)
         [] OTHER -> (\E code \in {3, 4, 5} : Exit("no output", code)) \/ (Go("generate") /\ UNCHANGED <<todo, before>>)

\* codegen, which panics if one of its threads does or, in codegen itself, at a tree
\* that it has no code for, and waiting for the C compiler
Generate ==
    /\ pass = "generate" /\ UNCHANGED s
    /\ \/ \E code \in {6, 12} : Exit("no output", code)
       \/ Exit("panic", 101)
       \/ input.mode = "test" /\ Go("test") /\ UNCHANGED <<todo, before>>
       \/ input.mode # "test" /\ Exit("done", 0)

\* A test that expects errors, and got none, has failed.
TestCompiled ==
    /\ pass = "test" /\ UNCHANGED s
    /\ \E code \in (IF input.errors THEN {15} ELSE {0, 11, 15, 101}) : Exit("done", code)

OtherPass == BindPass \/ Signatures \/ CheckPass \/ Checked \/ DeadCodePass \/ ClosurePass
             \/ Outputs \/ Generate \/ TestCompiled
Next == OrderGlobals \/ OrderStep \/ OrderEnd \/ (OtherPass /\ UNCHANGED search)

Spec == Init /\ [][Next]_vars

-----------------------------------------------------------------------------
(* Properties                                                              *)

(* No code is generated for a program with an error, though some errors    *)
(* are only written down in db.errors and the pass reports success; and    *)
(* whoever is stopped by a pass is told why.  Nor does anything go on with *)
(* what a panic left behind.                                               *)
StopsAtErrors ==
    /\ pass \in {"dead code", "closures", "outputs", "generate", "test"} => ~s.reported
    /\ pass = "done" /\ exit = <<0>> => ~s.reported
    /\ pass = "failed" => s.reported
    /\ s.ice # "" => pass = "panic"

(* Globals, and the variables of a class, are initialized after those that *)
(* their initializers read, themselves, through functions that they name   *)
(* or through the classes that they construct; and none of them is lost.   *)
InOrder == pass = "signatures" => \A list \in {""} \cup DOMAIN s.classes : InOrderIn(s, list)

(* What main expects of the passes that are parameters.  No error is       *)
(* forgotten, and a pass that returns had_error has written one down.  The *)
(* type checker, whose result is all that --pretty-print looks at, returns *)
(* it whenever it does.  The passes that have no result write down         *)
(* nothing, and neither they nor the pass over the signatures panic.  The  *)
(* binder leaves a database that can be sorted.                            *)
Reports ==
    /\ pass \notin {"order", "ordering"} => (s.reported \/ s'.err => s'.reported)
    /\ pass = "signatures" \/ (pass = "check" /\ todo # <<>>) => s'.err = s'.reported
    /\ pass \in {"dead code", "closures"} => s'.reported = s.reported
    /\ pass \in {"signatures", "dead code", "closures"} => s'.ice = s.ice
    /\ pass = "bind" /\ pass' = "order" => Sortable(s')
PassesReport == [][Reports]_vars
=============================================================================
