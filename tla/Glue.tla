-------------------------------- MODULE Glue --------------------------------
(***************************************************************************)
(* The parser for declarations in C headers                                *)
(* (poniescript-core/src/glue/parser.rs): it skips what it does not know   *)
(* and reads PS_VAR, PS_FUN and PS_CLASS.                                  *)
(*                                                                         *)
(* As in module Parser, gStack holds what the active functions still have  *)
(* to do.  A syntax error ends the parse: `?' reaches parse().  Names, the *)
(* types' names and doc comments are left out: a variable is a number.     *)
(***************************************************************************)
EXTENDS Naturals, Sequences, FiniteSets, SequencesExt

CONSTANTS
    Headers   \* BOUND: [kinds |-> a set of kinds of tokens, max |-> how many] for a header

VARIABLES
    gHeader,    \* the kinds and the number of tokens of this header
    gTok,       \* current
    gTaken,     \* tokens taken so far
    gStack,     \* what the active functions still have to do
    gDb,        \* what is declared so far: see NoDeclarations
    gError,     \* had_error
    gPc,        \* "start", "run", "done" or "panic"
    gOpen       \* the brackets taken and not closed; "bad" once they do not pair

gVars == <<gHeader, gTok, gTaken, gStack, gDb, gError, gPc, gOpen>>

\* vars: how many variables there are; classVars: those of the class being
\* parsed; ofClass: those that got a class; nested: did the body of a struct
\* contain a brace; unended: was a bracket closed before the semicolon of a
\* variable.
NoDeclarations == [vars |-> 0, classVars |-> {}, ofClass |-> {}, nested |-> FALSE, unended |-> FALSE]

gAt(t) == gTok = t
Kind == gStack[1][1]
Arg(i) == gStack[1][i + 1]
Calling(f) == gPc = "run" /\ gStack # <<>> /\ Kind = f

\* What a token of kind t does to the brackets that are open, and what taking
\* the current one does.
Closes == [RightParen |-> "LeftParen", RightBrace |-> "LeftBrace", RightSquare |-> "LeftSquare"]
Nest(open, t) ==
    IF open = <<"bad">> THEN open
    ELSE IF t \in Range(Closes) THEN Append(open, t)
    ELSE IF t \notin DOMAIN Closes THEN open
    ELSE IF open # <<>> /\ Last(open) = Closes[t] THEN Front(open)
    ELSE <<"bad">>
OpenAfter == Nest(gOpen, gTok)

\* advance
Advance ==
    /\ gTok' \in IF gAt("Eof") \/ gTaken = gHeader.max THEN {"Eof"} ELSE gHeader.kinds \cup {"Eof"}
    /\ gTaken' = IF gTok' = "Eof" THEN gHeader.max ELSE gTaken + 1
    /\ gOpen' = OpenAfter
    /\ UNCHANGED gHeader

KeepToken == UNCHANGED <<gHeader, gTok, gTaken, gOpen>>
Quiet == UNCHANGED <<gDb, gError, gPc>>
Then(steps) == gStack' = steps \o Tail(gStack)
Go(steps) == Then(steps) /\ KeepToken /\ Quiet
Eat(steps) == Then(steps) /\ Advance /\ Quiet
Tok(t) == <<"tok", t>>

\* parse_error! and Err: nothing catches it before parse(), which returns.
SyntaxError ==
    /\ gError' = TRUE
    /\ gPc' = "done"
    /\ gStack' = <<>>
    /\ KeepToken
    /\ UNCHANGED gDb

Expected ==
    /\ Calling("tok")
    /\ IF gAt(Arg(1)) THEN Eat(<<>>) ELSE SyntaxError

Maybe ==
    /\ Calling("maybe")
    /\ IF gAt(Arg(1)) THEN Eat(Arg(2)) ELSE Go(<<>>)

\* PS_XXX ( optional name )
Annotation(t) == <<Tok(t), Tok("LeftParen"), <<"maybe", "String", <<>>>>, Tok("RightParen")>>

\* top_level
TopLevel ==
    /\ Calling("topLevel")
    /\ \/ gAt("Eof") /\ gPc' = "done" /\ gStack' = <<>> /\ KeepToken /\ UNCHANGED <<gDb, gError>>
       \/ gAt("AnnotateVar") /\ Go(<<<<"var", FALSE>>, gStack[1]>>)
       \/ gAt("AnnotateFun") /\ Go(<<<<"fun">>, gStack[1]>>)
       \/ gAt("AnnotateClass") /\ Go(<<<<"class">>, gStack[1]>>)
       \* member() is todo!()
       \/ gAt("AnnotateMember") /\ gPc' = "panic" /\ KeepToken /\ UNCHANGED <<gStack, gDb, gError>>
       \/ /\ gTok \notin {"Eof", "AnnotateVar", "AnnotateFun", "AnnotateClass", "AnnotateMember"}
          /\ Eat(<<<<"ignore", gTok>>, gStack[1]>>)

\* var: at top level or in a class.  What follows the name is skipped.
Var ==
    /\ Calling("var")
    /\ Go(Annotation("AnnotateVar") \o <<<<"type">>, Tok("Identifier"), <<"eatUntil", "Semicolon">>, <<"newVar", Arg(1)>>>>)

\* new_var, and class() keeps the identity.
NewVar ==
    /\ Calling("newVar")
    /\ gDb' = [gDb EXCEPT !.vars = @ + 1, !.classVars = IF Arg(1) THEN @ \cup {gDb.vars + 1} ELSE @]
    /\ Then(<<>>)
    /\ KeepToken
    /\ UNCHANGED <<gError, gPc>>

\* c_type
Type ==
    /\ Calling("type")
    /\ \/ gAt("Struct") /\ Eat(<<Tok("Identifier"), Tok("Star")>>)
       \/ gAt("AnnotateOption") /\ Eat(<<Tok("LeftParen"), <<"type">>, Tok("RightParen")>>)
       \* a name of a type, ps_strbuf, or a name it does not know
       \/ gAt("Identifier") /\ \E rest \in {<<>>, <<Tok("Star")>>, <<<<"unknownType">>>>} : Eat(rest)
       \/ gTok \notin {"Struct", "AnnotateOption", "Identifier"} /\ SyntaxError

UnknownType == Calling("unknownType") /\ SyntaxError

\* class.  An opaque one ends with a semicolon.
Class ==
    /\ Calling("class")
    /\ Go(Annotation("AnnotateClass") \o <<Tok("Struct"), Tok("Identifier"), <<"classBody">>>>)

ClassBody ==
    /\ Calling("classBody")
    /\ IF gAt("Semicolon") THEN Eat(<<<<"classEnd">>>>)
       ELSE IF gAt("LeftBrace") THEN Eat(<<<<"members">>, Tok("RightBrace"), <<"classEnd">>>>)
       ELSE SyntaxError

\* Tokens are taken one by one up to the first closing brace.
Members ==
    /\ Calling("members")
    /\ IF gTok \in {"RightBrace", "Eof"} THEN Go(<<>>)
       ELSE IF gAt("AnnotateVar") THEN Go(<<<<"var", TRUE>>, gStack[1]>>)
       ELSE /\ Then(<<gStack[1]>>)
            /\ Advance
            /\ gDb' = [gDb EXCEPT !.nested = @ \/ gAt("LeftBrace")]
            /\ UNCHANGED <<gError, gPc>>

\* The class is made, and its variables get it.
ClassEnd ==
    /\ Calling("classEnd")
    /\ gDb' = [gDb EXCEPT !.ofClass = @ \cup gDb.classVars, !.classVars = {}]
    /\ Then(<<>>)
    /\ KeepToken
    /\ UNCHANGED <<gError, gPc>>

\* fun: the parameters are in PONI_ABI( ... ).  A body is skipped.
Fun ==
    /\ Calling("fun")
    /\ Go(Annotation("AnnotateFun") \o
          <<<<"type">>, Tok("Identifier"), Tok("LeftParen"), Tok("AnnotateAbi"), Tok("LeftParen"),
            <<"params">>, Tok("RightParen"), Tok("RightParen"), <<"funBody">>>>)

Params ==
    /\ Calling("params")
    /\ IF gTok \in {"RightParen", "Eof"} THEN Go(<<>>) ELSE Go(<<<<"type">>, Tok("Identifier"), <<"paramEnd">>, <<"params">>>>)

\* A parameter is a variable too.
ParamEnd ==
    /\ Calling("paramEnd")
    /\ IF gAt("RightParen") THEN Then(<<>>) ELSE Then(<<Tok("Comma")>>)
    /\ gDb' = [gDb EXCEPT !.vars = @ + 1]
    /\ KeepToken
    /\ UNCHANGED <<gError, gPc>>

FunBody ==
    /\ Calling("funBody")
    /\ IF gAt("Semicolon") THEN Eat(<<>>)
       ELSE IF gAt("LeftBrace") THEN Eat(<<<<"eatUntil", "RightBrace">>>>)
       ELSE SyntaxError

\* Mutant: what is skipped ends at the first closing bracket of its kind.
DoIgnore_Flat == Calling("ignore") /\ Go(<<>>)

\* eat_until, and ignore_until_rparen, _rsquare and _rbrace: everything up to
\* the token, brackets inside with what they contain.
EatUntil ==
    /\ Calling("eatUntil")
    /\ IF gTok \in {Arg(1), "Eof"} THEN Eat(<<>>)
       ELSE /\ Then(<<<<"ignore", gTok>>, gStack[1]>>)
            /\ Advance
            /\ gDb' = [gDb EXCEPT !.unended = @ \/ (Arg(1) = "Semicolon" /\ gTok \in DOMAIN Closes)]
            /\ UNCHANGED <<gError, gPc>>

\* do_ignore(a token already taken)
DoIgnore ==
    /\ Calling("ignore")
    /\ IF Arg(1) \in Range(Closes)
       THEN Go(<<<<"eatUntil", CHOOSE close \in DOMAIN Closes : Closes[close] = Arg(1)>>>>)
       ELSE Go(<<>>)

----------------------------------------------------------------------------

Init ==
    /\ gHeader = [kinds |-> {}, max |-> 0]
    /\ gTok = "Eof"
    /\ gTaken = 0
    /\ gStack = <<<<"topLevel">>>>
    /\ gDb = NoDeclarations
    /\ gError = FALSE
    /\ gPc = "start"
    /\ gOpen = <<>>

\* Parser::new takes the first token.
New ==
    /\ gPc = "start"
    /\ gPc' = "run"
    /\ gHeader' \in Headers
    /\ gTok' \in gHeader'.kinds \cup {"Eof"}
    /\ gTaken' = IF gTok' = "Eof" THEN gHeader'.max ELSE 1
    /\ UNCHANGED <<gStack, gDb, gError, gOpen>>

Next == New \/ Expected \/ Maybe \/ TopLevel \/ Var \/ NewVar \/ Type \/ UnknownType
            \/ Class \/ ClassBody \/ Members \/ ClassEnd
            \/ Fun \/ Params \/ ParamEnd \/ FunBody \/ EatUntil \/ DoIgnore

Spec == Init /\ [][Next]_gVars

----------------------------------------------------------------------------
(* Properties. *)

\* The skipping keeps in step with the brackets of a well-nested header: when
\* the parser looks for a declaration, every bracket it has taken is closed,
\* so that it never takes the inside of a body for one; and PS_VAR declares a
\* member exactly where it stands between the braces of a struct ("if we see a
\* PS_VAR it's a member variable").  A brace inside a struct breaks this, since
\* members are skipped token by token; and so does a variable without its
\* semicolon, since the brace that closes the struct is skipped with it.
Aligned ==
    gOpen # <<"bad">> /\ ~gDb.nested /\ ~gDb.unended =>
        /\ Calling("topLevel") /\ ~gAt("Eof") => gOpen = <<>>
        /\ Calling("var") => (Arg(1) <=> gOpen # <<>>)

=============================================================================
