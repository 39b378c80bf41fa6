-------------------------------- MODULE Syntax --------------------------------
(***************************************************************************)
(* The first two passes of the compiler (poniescript/src/main.rs): the C   *)
(* headers that are imported (module Glue), then the sources (Parser).     *)
(***************************************************************************)
EXTENDS Parser

CONSTANTS
    Headers   \* see Glue

VARIABLES
    gHeader, gTok, gTaken, gStack, gDb, gError, gPc, gOpen,   \* see Glue
    phase,     \* where main() is, or the code it exited with
    brackets   \* history: the open brackets of the source, while it has no error

G == INSTANCE Glue

headerVars == <<gHeader, gTok, gTaken, gStack, gDb, gError, gPc, gOpen>>
syntaxVars == <<vars, headerVars, phase, brackets>>
----------------------------------------------------------------------------

SyntaxInit == Init /\ G!Init /\ phase = "main" /\ brackets = <<>>

\* do_c_modules: without an import there is nothing to do.
DoCModules ==
    /\ phase = "main"
    /\ phase' \in {"imports", "sources"}
    /\ UNCHANGED <<vars, headerVars, brackets>>

ParseImport == phase = "imports" /\ G!Next /\ UNCHANGED <<vars, phase, brackets>>

\* The first import decides: the others are not parsed.  A later pass does not
\* look at the parser of the header any more.
ImportDone ==
    /\ phase = "imports" /\ gPc = "done"
    /\ phase' = IF gError THEN "exit 7" ELSE "sources"
    /\ gHeader' = [kinds |-> {}, max |-> 0] /\ gTok' = "Eof" /\ gTaken' = 0 /\ gStack' = <<>> /\ gDb' = G!NoDeclarations
    /\ gError' = FALSE /\ gOpen' = <<>>
    /\ UNCHANGED <<vars, gPc, brackets>>

\* parse_module, for one source
ParseModule ==
    /\ phase = "sources" /\ Next
    /\ brackets' = CASE HadError' -> <<>>
                     [] ~HadError' /\ taken' # taken -> G!Nest(brackets, current'.typ)
                     [] OTHER -> brackets
    /\ UNCHANGED <<headerVars, phase>>

ParseAllModules ==
    /\ phase = "sources" /\ pc = "done"
    /\ phase' = IF HadError THEN "exit 1" ELSE "bind"
    /\ UNCHANGED <<vars, headerVars, brackets>>

SyntaxNext == DoCModules \/ ParseImport \/ ImportDone \/ ParseModule \/ ParseAllModules

\* One thread, which runs until main() returns.
SyntaxSpec == SyntaxInit /\ [][SyntaxNext]_syntaxVars /\ WF_syntaxVars(SyntaxNext)

----------------------------------------------------------------------------
(* Properties. *)

\* The parser of C headers keeps in step with their brackets: see Glue.
Aligned == G!Aligned

\* main goes on to the binder only with a source whose brackets pair: however
\* an error is recovered from, whatever messages the lexer's own errors hide,
\* and wherever a character that is no token looks like the end of the file,
\* had_error is set before the end.
AcceptsOnlyNested == phase = "bind" => brackets = <<>>

\* Recovery from errors skips tokens: whatever the sources, both parsers come
\* to their end, or to a panic of theirs.
ParsersEnd == <>(phase \notin {"main", "imports", "sources"} \/ gPc = "panic" \/ pc \in {"method", "infix", "ident"})

=============================================================================
