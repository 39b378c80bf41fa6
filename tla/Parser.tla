------------------------------- MODULE Parser -------------------------------
(***************************************************************************)
(* The recursive-descent parser (poniescript-core/src/parser.rs), over     *)
(* tokens that the lexer hands out one at a time.                          *)
(*                                                                         *)
(* The call stack of the parser is the variable stack: the steps that its  *)
(* active functions still have to do, first one first.  A function of the  *)
(* code is an action that replaces its own entry by the entries of its     *)
(* body.  `?' is SyntaxError: it throws away every entry up to the nearest *)
(* block, which is the one place that catches, and with them the steps     *)
(* that would have put the parser's own state back.                        *)
(*                                                                         *)
(* A variable is represented by the number of functions it is written in,  *)
(* a closure by its depth in the chain of parents.  The values of literals,*)
(* locations and doc comments are left out.                                *)
(***************************************************************************)
EXTENDS Naturals, Sequences, FiniteSets, SequencesExt

CONSTANTS
    Name,        \* identifiers the source may use
    Generic,     \* those that name a type with one argument (Array, ...)
    Vocabularies,  \* BOUND: a source uses the tokens of one of these sets
    LexErrors,   \* kinds of tokens that may come with a lexer error
    MaxTokens    \* BOUND: tokens in a source

\* A token is [typ |-> its kind, lexeme |-> an identifier or NoLexeme].
NoLexeme == "-"
EofToken == [typ |-> "Eof", lexeme |-> NoLexeme]

ASSUME TokenAssumption ==
    /\ Generic \subseteq Name
    /\ \A t \in UNION Vocabularies :
          t.typ # "Eof" /\ t.lexeme \in Name \cup {NoLexeme}
    /\ MaxTokens \in Nat

VARIABLES
    tokens,      \* the vocabulary of this source
    current,     \* Parser::current, the token of lookahead
    taken,       \* tokens taken from the lexer so far, MaxTokens at the end of the file
    lexErr,      \* Lexer::had_error
    stack,       \* what the active functions still have to do
    env,         \* the fields of Parser that nest: see EmptyEnv
    err,         \* which errors there were: see NoErrors
    last,        \* kind of the expression parsed last
    pc           \* "run", "done", or where the parser panicked

vars == <<tokens, current, taken, lexErr, stack, env, err, last, pc>>

----------------------------------------------------------------------------
(* The parser's own state. *)

NoScope == [n \in Name |-> "None"]

EmptyEnv == [
    scopes    |-> <<>>,      \* scopes: innermost last
    globals   |-> NoScope,   \* global_scope
    fullNames |-> {},        \* Db::full_names, as <<scope name, name>>
    path      |-> <<>>,      \* scope_name
    closure   |-> 0,         \* depth of closure, 0 for None
    funVars   |-> {},        \* fun_vars
    inMember  |-> FALSE]     \* in_member_initializer

\* syntax and semantic: was there one; unwound: did one travel up by `?'.
NoErrors == [syntax |-> FALSE, unwound |-> FALSE, semantic |-> FALSE]

\* had_error
HadError == err.syntax \/ err.semantic

At(t) == current.typ = t
AtAny(ts) == current.typ \in ts
AssignOps == {"Equal", "PlusEqual", "MinusEqual", "StarEqual", "SlashEqual", "PercentEqual"}

\* next_token, of a source that uses ts: a token, with or without an error in
\* the lexer; the end of the file, which stays one; or a character that begins
\* no token, which the parser cannot tell from the end, though others follow.
NextToken(ts) ==
    \/ /\ taken < MaxTokens /\ current' \in ts
       /\ taken' = taken + 1
       /\ lexErr' \in IF current'.typ \in LexErrors THEN {lexErr, TRUE} ELSE {lexErr}
    \/ current' = EofToken /\ taken' = MaxTokens /\ UNCHANGED lexErr
    \/ taken < MaxTokens /\ current' = EofToken /\ taken' = taken + 1 /\ lexErr' = TRUE

\* advance
Advance == NextToken(tokens) /\ UNCHANGED tokens

KeepToken == UNCHANGED <<tokens, current, taken, lexErr>>

----------------------------------------------------------------------------
(* Entries of the stack, and how a function continues. *)

Kind == stack[1][1]
Arg(i) == stack[1][i + 1]
Calling(f) == pc = "run" /\ stack # <<>> /\ Kind = f

Then(steps) == stack' = steps \o Tail(stack)

Tok(t) == <<"tok", {t}>>                   \* expected!, expected_after!
SoftTok(t) == <<"softTok", t>>             \* expected_no_err!
Expr == <<"expression", 0>>                \* expression()
Become(e) == <<"become", e>>               \* the kind of the result
List(elem, close, comma) == <<"list", elem, close, comma>>
ExtendedAtom == <<<<"atom">>, <<"glom">>>>   \* extended_atom()

\* Mutant: the lexer's own error hides the failure with the message.
SyntaxErr_Suppressed == [err EXCEPT !.syntax = @ \/ ~lexErr]

\* parse_error!: the lexer's own error hides the message, which is left out here.
SyntaxErr == [err EXCEPT !.syntax = TRUE]

\* semantic_error_with!
SemanticErr == [err EXCEPT !.semantic = TRUE]

\* Err(SyntaxErr) travels up by `?' until a block catches it: the first error
\* there is tried again on the same token, the next one skips it.  Without a
\* block it reaches parse(), which goes on with the next declaration.
SyntaxError ==
    LET catches == {i \in DOMAIN stack : stack[i][1] = "stmts"}
        at == CHOOSE i \in catches : \A j \in catches : i <= j
    IN  /\ err' = [SyntaxErr EXCEPT !.unwound = TRUE]
        /\ IF catches = {}
           THEN stack' = <<>> /\ KeepToken
           ELSE /\ stack' = <<<<"stmts", TRUE, FALSE>>>> \o SubSeq(stack, at + 1, Len(stack))
                /\ IF stack[at][3] THEN Advance ELSE KeepToken
        /\ UNCHANGED <<env, last, pc>>

Quiet == UNCHANGED <<env, err, last, pc>>

\* Go on without, or after taking the current token.
Go(steps) == Then(steps) /\ KeepToken /\ Quiet
Eat(steps) == Then(steps) /\ Advance /\ Quiet

\* expected!(t), then steps
Expect(ts, steps) == IF AtAny(ts) THEN Eat(steps) ELSE SyntaxError

ExpectTok ==
    /\ Calling("tok")
    /\ Expect(Arg(1), <<>>)

ExpectSoftTok ==
    /\ Calling("softTok")
    /\ IF At(Arg(1)) THEN Eat(<<>>)
       ELSE /\ Then(<<>>)
            /\ err' = SyntaxErr
            /\ KeepToken
            /\ UNCHANGED <<env, last, pc>>

\* Elements up to the closing token.  A comma is "strict" (eat_comma) or
\* "loose" (match_(Comma)).
ListStep ==
    /\ Calling("list")
    /\ IF AtAny({Arg(2), "Eof"}) THEN Go(<<>>)
       ELSE Go(<<<<Arg(1), 0>>, <<"comma", Arg(2), Arg(3)>>, stack[1]>>)

Comma ==
    /\ Calling("comma")
    /\ IF At("Comma") THEN Eat(<<>>)
       ELSE IF Arg(2) = "loose" \/ AtAny({Arg(1), "Eof"}) THEN Go(<<>>)
       ELSE SyntaxError

SetLast ==
    /\ Calling("become")
    /\ last' = Arg(1)
    /\ Then(<<>>)
    /\ KeepToken
    /\ UNCHANGED <<env, err, pc>>

----------------------------------------------------------------------------
(* Names and scopes. *)

\* scope_put_entry: into the innermost scope; or, outside of all, into the
\* global names, where a second definition is an error.
PutEntry(e, name, entry, includeParser) ==
    IF e.scopes # <<>>
    THEN IF includeParser THEN [e EXCEPT !.scopes[Len(e.scopes)][name] = entry] ELSE e
    ELSE [e EXCEPT !.globals[name] = IF includeParser THEN entry ELSE @,
                   !.fullNames = @ \cup {<<e.path, name>>}]

Redefines(e, name) == e.scopes = <<>> /\ <<e.path, name>> \in e.fullNames

\* scope_lookup: the innermost scope that has the name; the global scope only
\* when there is no other.
Lookup(name) ==
    IF env.scopes = <<>> THEN env.globals[name]
    ELSE LET having == {i \in DOMAIN env.scopes : env.scopes[i][name] # "None"}
         IN  IF having = {} THEN "None"
             ELSE env.scopes[CHOOSE i \in having : \A j \in having : j <= i][name]

\* A step that changes env, and reports a semantic error if bad.
Change(steps, newEnv, bad) ==
    /\ Then(steps)
    /\ env' = newEnv
    /\ err' = IF bad THEN SemanticErr ELSE err
    /\ KeepToken
    /\ UNCHANGED <<last, pc>>

PopScope ==
    /\ Calling("popScope")
    /\ Change(<<>>, [env EXCEPT !.scopes = IF @ = <<>> THEN @ ELSE Front(@)], FALSE)

\* self.closure = Some(new closure), and back to the enclosing one.
EnterClosure(e) == [e EXCEPT !.closure = @ + 1]

LeaveClosure ==
    /\ Calling("leaveClosure")
    /\ Change(<<>>, [env EXCEPT !.closure = Arg(1)], FALSE)

\* Functions that are being parsed: a variable declared now belongs to the
\* innermost.
FunDepth == Cardinality({i \in DOMAIN stack : stack[i][1] = "funEnd"})

\* Mutant: the variable is put down for the function around this one.
NewVar_Outer(e, name, includeParser) ==
    PutEntry([e EXCEPT !.funVars = @ \cup {IF FunDepth = 0 THEN 0 ELSE FunDepth - 1}], name, "Var", includeParser)

\* new_var, fun_vars.push and scope_put_entry of a variable
NewVar(e, name, includeParser) ==
    PutEntry([e EXCEPT !.funVars = @ \cup {FunDepth}], name, "Var", includeParser)

Declare ==
    /\ Calling("declare")
    /\ Change(<<>>, NewVar(env, Arg(1), Arg(2)), Redefines(env, Arg(1)))

----------------------------------------------------------------------------
(* Expressions. *)

Expression ==
    /\ Calling("expression")
    /\ Go(ExtendedAtom \o <<<<"infix", Arg(1)>>>>)

\* peek_precedence: how an operator binds to its left; to its right it is one more.
Precedence ==
    CASE At("Else") -> 1
      [] At("Or") -> 3
      [] At("And") -> 5
      [] AtAny({"Less", "LessEqual", "Greater", "GreaterEqual", "EqualEqual", "BangEqual"}) -> 7
      [] AtAny({"DotDot", "EqualDotDotEqual", "DotDotEqual", "EqualDotDot"}) -> 9
      [] AtAny({"Plus", "Minus"}) -> 11
      [] AtAny({"Star", "Slash", "Percent"}) -> 13
      [] At("Dot") -> 15
      [] OTHER -> 0

\* expr_precedence and expr_infix: while an operator binds more tightly.  The
\* table has the dot, expr_infix has not (unreachable!()).
Infix ==
    /\ Calling("infix")
    /\ IF Arg(1) >= Precedence THEN Go(<<>>)
       ELSE IF At("Dot") THEN pc' = "infix" /\ KeepToken /\ UNCHANGED <<stack, env, err, last>>
       ELSE Eat(<<<<"expression", Precedence + 1>>, Become("Other"), stack[1]>>)

Literal == {"True", "False", "Nil", "StringSimple", "ColorLiteral", "Continue"}
Number == {"WholeNumber", "DecimalNumber"}
Unary == {"Plus", "Minus", "Not"}
Arguments(close) == <<List("expression", close, "loose"), SoftTok(close)>>

\* A self is refused in a member's initializer.
SelfVal ==
    /\ Then(<<Become("Other")>>)
    /\ Advance
    /\ err' = IF env.inMember THEN SemanticErr ELSE err
    /\ UNCHANGED <<env, last, pc>>

\* atom: one self-contained expression, by the token it begins with
Atom ==
    /\ Calling("atom")
    /\ \/ AtAny(Literal) /\ Eat(<<Become("Other")>>)
       \/ AtAny(Number) /\ Eat(<<<<"maybe", "Dot", <<<<"maybe", "WholeNumber", <<>>>>>>>>, Become("Other")>>)
       \/ AtAny(Unary) /\ Eat(ExtendedAtom \o <<Become("Other")>>)
       \/ At("KeySelf") /\ SelfVal
       \/ AtAny({"Print", "Str"}) /\ Eat(<<Tok("LeftParen"), <<"printArgs">>>>)
       \/ AtAny({"Return", "Break"}) /\ Eat(<<<<"jumpValue", At("Return")>>>>)
       \/ At("New") /\ Go(<<<<"new">>>>)
       \/ At("LeftSquare") /\ Eat(<<List("expression", "RightSquare", "strict"), Tok("RightSquare"), Become("Other")>>)
       \/ At("LeftParen") /\ Eat(<<Expr, <<"paren">>>>)
       \/ At("LeftBrace") /\ Go(<<<<"block">>>>)
       \/ At("Identifier") /\ Eat(<<<<"ident", current.lexeme>>>>)
       \/ At("If") /\ Eat(<<Expr, <<"ifBody">>>>)
       \/ At("Loop") /\ Eat(<<<<"loopBody">>>>)
       \/ At("While") /\ Eat(<<Expr, <<"loopBody">>>>)
       \/ At("For") /\ Go(<<<<"for">>>>)
       \/ AtAny({"Fun", "VerticalBar"}) /\ Go(<<<<"fun", FALSE, TRUE, At("VerticalBar")>>>>)
       \/ /\ ~AtAny(Literal \cup Number \cup Unary \cup {"KeySelf", "Print", "Str", "Return", "Break", "New",
                "LeftSquare", "LeftParen", "LeftBrace", "Identifier", "If", "Loop", "While", "For", "Fun", "VerticalBar"})
          /\ SyntaxError

\* match_(t), and the steps that follow if it is there
Maybe ==
    /\ Calling("maybe")
    /\ IF At(Arg(1)) THEN Eat(Arg(2)) ELSE Go(<<>>)

\* expr_print_or_str, after the parenthesis; without an argument it is an
\* error that does not stop the parser
PrintArgs ==
    /\ Calling("printArgs")
    /\ IF At("RightParen")
       THEN /\ Then(<<Become("Other")>>)
            /\ Advance
            /\ err' = SyntaxErr
            /\ UNCHANGED <<env, last, pc>>
       ELSE Go(<<List("expression", "RightParen", "loose"), Tok("RightParen"), Become("Other")>>)

\* What follows return (it leaves the token that ends it) or break.
JumpValue ==
    /\ Calling("jumpValue")
    /\ IF Arg(1) /\ AtAny({"Semicolon", "Comma", "RightParen", "RightBrace", "RightSquare"})
       THEN Go(<<Become("Other")>>)
       ELSE IF ~Arg(1) /\ At("Semicolon") THEN Eat(<<Become("Other")>>)
       ELSE Go(<<Expr, Tok("Semicolon"), Become("Other")>>)

\* After ( and an expression: a tuple, or the expression itself.
Paren ==
    /\ Calling("paren")
    /\ IF At("Comma")
       THEN Eat(<<List("expression", "RightParen", "strict"), SoftTok("RightParen"), Become("Other")>>)
       ELSE Go(<<SoftTok("RightParen")>>)

\* expr_ident: a call, an assignment (looked up before its right-hand side is
\* parsed), or the name alone.  No scope holds a class (todo!()).
Ident ==
    /\ Calling("ident")
    /\ IF At("LeftParen") THEN Eat(Arguments("RightParen") \o <<<<"callEnd", Arg(1), FALSE>>>>)
       ELSE IF Lookup(Arg(1)) = "Class" THEN pc' = "ident" /\ KeepToken /\ UNCHANGED <<stack, env, err, last>>
       ELSE IF AtAny(AssignOps) THEN Eat(<<Expr, <<"assigned", Lookup(Arg(1))>>>>)
       ELSE Go(<<Become("Other")>>)

Assigned ==
    /\ Calling("assigned")
    /\ Change(<<Become("Other")>>, env, Arg(1) = "Fun")

\* expr_call_finish: on an object the name is not looked up.
CallEnd ==
    /\ Calling("callEnd")
    /\ Change(<<Become("Other")>>, env, ~Arg(2) /\ Lookup(Arg(1)) = "Class")

\* extended_atom: calls, indices and members glued to an atom.  An assignment
\* ends it.
Glom ==
    /\ Calling("glom")
    /\ \/ At("LeftParen") /\ Eat(Arguments("RightParen") \o <<Become("Other"), <<"glom">>>>)
       \/ At("LeftSquare") /\ Eat(<<Expr, SoftTok("RightSquare"), <<"indexEnd">>>>)
       \/ At("Dot") /\ Eat(<<<<"member">>>>)
       \/ ~AtAny({"LeftParen", "LeftSquare", "Dot"}) /\ Go(<<>>)

IndexEnd ==
    /\ Calling("indexEnd")
    /\ IF At("Equal") THEN Eat(<<Expr, Become("Other")>>) ELSE Go(<<Become("Other"), <<"glom">>>>)

Member ==
    /\ Calling("member")
    /\ IF At("New") THEN Go(<<<<"new">>, <<"glom">>>>)
       ELSE IF AtAny({"Identifier", "WholeNumber"}) THEN Eat(<<<<"chainEnd", current.lexeme>>>>)
       ELSE SyntaxError

ChainEnd ==
    /\ Calling("chainEnd")
    /\ IF At("Dot") THEN Eat(<<<<"member">>>>)
       ELSE IF AtAny(AssignOps) THEN Eat(<<Expr, Become("Other")>>)
       ELSE IF At("LeftParen") THEN Eat(Arguments("RightParen") \o <<<<"callEnd", Arg(1), TRUE>>, <<"glom">>>>)
       ELSE Go(<<Become("Other"), <<"glom">>>>)

\* new_
New ==
    /\ Calling("new")
    /\ Expect({"New"}, <<Tok("Identifier"), <<"dotted">>, Tok("LeftBrace"),
                         List("newInit", "RightBrace", "strict"), Tok("RightBrace"), Become("Other")>>)

NewInit ==
    /\ Calling("newInit")
    /\ Go(<<Tok("Identifier"), Tok("Colon"), Expr>>)

\* The rest of a name with dots, in new_ and typ_prefix
Dotted ==
    /\ Calling("dotted")
    /\ IF At("Dot") THEN Eat(<<Tok("Identifier"), <<"dotted">>>>) ELSE Go(<<>>)

\* expr_if, after its condition
IfBody ==
    /\ Calling("ifBody")
    /\ IF At("LeftBrace") THEN Go(<<<<"block">>, <<"maybe", "Else", <<<<"elseBody">>>>>>, Become("Block")>>) ELSE SyntaxError

ElseBody ==
    /\ Calling("elseBody")
    /\ IF At("If") THEN Eat(<<Expr, <<"ifBody">>>>)
       ELSE IF At("LeftBrace") THEN Go(<<<<"block">>>>)
       ELSE SyntaxError

\* expr_loop, and expr_while after its condition: the block has a closure.
LoopBody ==
    /\ Calling("loopBody")
    /\ IF At("LeftBrace")
       THEN Change(<<<<"block">>, <<"leaveClosure", env.closure>>, Become("Block")>>, EnterClosure(env), FALSE)
       ELSE SyntaxError

\* expr_for: the closure is there from the beginning, the variable's scope
\* only around the block.
For ==
    /\ Calling("for")
    /\ Then(<<<<"forVar", env.closure>>>>)
    /\ Advance
    /\ env' = EnterClosure(env)
    /\ UNCHANGED <<err, last, pc>>

ForVar ==
    /\ Calling("forVar")
    /\ Expect({"Identifier"}, <<<<"maybe", "Colon", <<<<"typ", 0>>>>>>, Tok("In"), Expr,
                                <<"forBody", Arg(1), current.lexeme>>>>)

ForBody ==
    /\ Calling("forBody")
    /\ IF At("LeftBrace")
       THEN Change(<<<<"block">>, <<"popScope">>, <<"leaveClosure", Arg(1)>>, Become("Block")>>,
                   NewVar([env EXCEPT !.scopes = Append(@, NoScope)], Arg(2), TRUE), FALSE)
       ELSE SyntaxError

----------------------------------------------------------------------------
(* Types. *)

Typ ==
    /\ Calling("typ")
    /\ Go(<<<<"typPrefix">>, <<"maybe", "Question", <<>>>>>>)

\* typ_prefix takes its first token whatever it is.
TypPrefix ==
    /\ Calling("typPrefix")
    /\ \/ /\ At("Identifier")
          /\ IF current.lexeme \in Generic THEN Eat(<<Tok("LeftSquare"), <<"typ", 0>>, Tok("RightSquare")>>)
             ELSE Eat(<<<<"dotted">>>>)
       \/ /\ At("Fun")
          /\ Eat(<<<<"maybe", "Star", <<>>>>, Tok("LeftParen"), List("typ", "RightParen", "loose"),
                   Tok("RightParen"), <<"maybe", "RightArrow", <<<<"typ", 0>>>>>>>>)
       \/ At("LeftParen") /\ Eat(<<List("typ", "RightParen", "strict"), Tok("RightParen")>>)
       \/ ~AtAny({"Identifier", "Fun", "LeftParen"}) /\ Eat(<<<<"fail">>>>)

Fail == Calling("fail") /\ SyntaxError

----------------------------------------------------------------------------
(* Declarations, statements and blocks. *)

\* var_declaration(require_initializer, add_to_scope)
VarDeclaration ==
    /\ Calling("var")
    /\ Expect({"Var", "Let"}, <<<<"varName", Arg(1), Arg(2)>>>>)

VarName ==
    /\ Calling("varName")
    /\ Expect({"Identifier"}, <<<<"varType", Arg(1), Arg(2), current.lexeme>>>>)

VarType ==
    /\ Calling("varType")
    /\ LET Value(typed) == <<"varValue", Arg(1), Arg(2), Arg(3), typed>>
       IN  IF At("Colon") THEN Eat(<<<<"typ", 0>>, Value(TRUE)>>) ELSE Go(<<Value(FALSE)>>)

VarValue ==
    /\ Calling("varValue")
    /\ LET rest == <<Tok("Semicolon"), <<"declare", Arg(3), Arg(2)>>>>
       IN  IF Arg(1) \/ At("Equal") THEN Expect({"Equal"}, <<Expr>> \o rest)
           ELSE Change(rest, env, ~Arg(4))

Block ==
    /\ Calling("block")
    /\ IF At("LeftBrace")
       THEN /\ Then(<<<<"stmts", FALSE, FALSE>>, <<"popScope">>, Tok("RightBrace"), Become("Block")>>)
            /\ Advance
            /\ env' = [env EXCEPT !.scopes = Append(@, NoScope)]
            /\ UNCHANGED <<err, last, pc>>
       ELSE SyntaxError

\* Mutant: the block forgets that it tried again once.
Stmts_NoErrMode ==
    /\ Calling("stmts")
    /\ IF AtAny({"RightBrace", "Eof"}) THEN Go(<<>>)
       ELSE Go(<<<<"stmt">>, <<"stmts", FALSE, FALSE>>>>)

\* The loop of block.  Its first flag is in_err_mode, the second what it was
\* when the statement began: see SyntaxError.
Stmts ==
    /\ Calling("stmts")
    /\ IF AtAny({"RightBrace", "Eof"}) THEN Go(<<>>)
       ELSE Go(<<<<"stmt">>, <<"stmts", FALSE, Arg(1)>>>>)

Stmt ==
    /\ Calling("stmt")
    /\ IF AtAny({"Var", "Let"}) THEN Go(<<<<"var", TRUE, TRUE>>>>) ELSE Go(<<Expr, <<"stmtEnd">>>>)

\* A block, a named function and the last statement need no semicolon.
StmtEnd ==
    /\ Calling("stmtEnd")
    /\ IF last \in {"Block", "Fun"} \/ At("RightBrace") THEN Go(<<<<"maybe", "Semicolon", <<>>>>>>)
       ELSE Expect({"Semicolon"}, <<>>)

\* parameter(require_type)
Parameter ==
    /\ Calling("parameter")
    /\ Expect({"Identifier"}, <<Tok("Colon"), <<"typ", 0>>, <<"declare", current.lexeme, TRUE>>>>)

LambdaParameter ==
    /\ Calling("lambdaParameter")
    /\ Expect({"Identifier"}, <<<<"maybe", "Colon", <<<<"typ", 0>>>>>>, <<"declare", current.lexeme, TRUE>>>>)

\* fun_declaration(require_name, add_to_parser, parse_lambda), in the order of
\* its body: the keyword, the name, the parameters, the return type, the block
FunDeclaration ==
    /\ Calling("fun")
    /\ LET name == <<<<"funName", Arg(1), Arg(2), Arg(3)>>>>
       IN  IF Arg(3) THEN Go(name) ELSE Expect({"Fun"}, name)

\* push_name or push_name_anon.  A missing name is reported, and parsing goes on.
FunName ==
    /\ Calling("funName")
    /\ LET named == At("Identifier")
       IN  /\ Then(<<<<"funOpen", Arg(2), Arg(3), IF named THEN current.lexeme ELSE NoLexeme>>>>)
           /\ env' = [env EXCEPT !.path = Append(@, IF named THEN current.lexeme ELSE NoLexeme)]
           /\ err' = IF ~named /\ Arg(1) THEN SemanticErr ELSE err
           /\ IF named THEN Advance ELSE KeepToken
           /\ UNCHANGED <<last, pc>>

FunOpen ==
    /\ Calling("funOpen")
    /\ LET bar == IF Arg(2) THEN "VerticalBar" ELSE "RightParen"
           params == List(IF Arg(2) THEN "lambdaParameter" ELSE "parameter", bar, "strict")
       IN  IF At(IF Arg(2) THEN "VerticalBar" ELSE "LeftParen")
           THEN /\ Then(<<params, Tok(bar), <<"funReturn", Arg(2)>>,
                          <<"funEnd", Arg(1), Arg(3), env.closure, env.funVars>>>>)
                /\ Advance
                /\ env' = [EnterClosure(env) EXCEPT !.funVars = {}, !.scopes = Append(@, NoScope)]
                /\ UNCHANGED <<err, last, pc>>
           ELSE SyntaxError

\* With a return type a lambda needs a block too.
FunReturn ==
    /\ Calling("funReturn")
    /\ IF At("RightArrow") THEN Eat(<<<<"typ", 0>>, <<"funBody", FALSE>>>>) ELSE Go(<<<<"funBody", Arg(1)>>>>)

FunBody ==
    /\ Calling("funBody")
    /\ IF At("LeftBrace") THEN Go(<<<<"block">>>>)
       ELSE IF Arg(1) THEN Go(<<Expr>>)
       ELSE SyntaxError

\* pop_name.  Names are of one length: after an error truncate could cut one.
PopName(e) == [e EXCEPT !.path = IF @ = <<>> THEN @ ELSE Front(@)]

\* The scope, the closure, fun_vars and the scope name are put back; then the
\* function's name is entered where the function is.
FunEnd ==
    /\ Calling("funEnd")
    /\ LET named == Arg(2) # NoLexeme
           outer == PopName([env EXCEPT !.scopes = IF @ = <<>> THEN @ ELSE Front(@),
                                        !.closure = Arg(3), !.funVars = Arg(4)])
       IN  /\ Then(<<>>)
           /\ env' = IF named THEN PutEntry(outer, Arg(2), "Fun", Arg(1)) ELSE outer
           /\ err' = IF named /\ Redefines(outer, Arg(2)) THEN SemanticErr ELSE err
           /\ last' = IF named THEN "Fun" ELSE "Other"
           /\ KeepToken
           /\ UNCHANGED pc

\* class_declaration
ClassDeclaration ==
    /\ Calling("class")
    /\ Expect({"Class"}, <<<<"className">>>>)

ClassName ==
    /\ Calling("className")
    /\ IF At("Identifier")
       THEN /\ Then(<<Tok("LeftBrace"), <<"members">>, Tok("RightBrace"), <<"classEnd", current.lexeme>>>>)
            /\ Advance
            /\ env' = [env EXCEPT !.path = Append(@, current.lexeme)]
            /\ UNCHANGED <<err, last, pc>>
       ELSE SyntaxError

\* The loop over the members.  In a variable's initializer self is refused.
Members ==
    /\ Calling("members")
    /\ \/ At("Annotation") /\ Eat(<<<<"members">>>>)
       \/ /\ AtAny({"Var", "Let"})
          /\ Change(<<<<"var", FALSE, FALSE>>, <<"memberEnd", env.inMember>>, <<"members">>>>,
                    [env EXCEPT !.inMember = TRUE], FALSE)
       \/ At("Fun") /\ Go(<<<<"fun", TRUE, FALSE, FALSE>>, <<"methodEnd">>, <<"members">>>>)
       \/ At("Class") /\ Go(<<<<"class">>, <<"members">>>>)
       \/ At("RightBrace") /\ Go(<<>>)
       \/ ~AtAny({"Annotation", "Var", "Let", "Fun", "Class", "RightBrace"}) /\ SyntaxError

MemberEnd ==
    /\ Calling("memberEnd")
    /\ Change(<<>>, [env EXCEPT !.inMember = Arg(1)], FALSE)

\* fun_map.insert(name.unwrap(), ...)
MethodEnd ==
    /\ Calling("methodEnd")
    /\ IF last = "Fun" THEN Go(<<>>)
       ELSE pc' = "method" /\ KeepToken /\ UNCHANGED <<stack, env, err, last>>

ClassEnd ==
    /\ Calling("classEnd")
    /\ Change(<<>>, PutEntry(PopName(env), Arg(1), "Class", FALSE), Redefines(PopName(env), Arg(1)))

\* parse and parse_top_level
TopLevel ==
    /\ pc = "run" /\ stack = <<>> /\ ~At("Eof")
    /\ stack' = CASE AtAny({"Var", "Let"}) -> <<<<"var", TRUE, FALSE>>>>
                  [] At("Fun") -> <<<<"fun", TRUE, FALSE, FALSE>>>>
                  [] At("Class") -> <<<<"class">>>>
                  [] At("Annotation") -> <<>>
                  [] OTHER -> <<<<"fail">>>>
    /\ IF AtAny({"Var", "Let", "Fun", "Class"}) THEN KeepToken ELSE Advance
    /\ Quiet

Finish ==
    /\ pc = "run" /\ stack = <<>> /\ At("Eof")
    /\ pc' = "done"
    /\ KeepToken
    /\ UNCHANGED <<stack, env, err, last>>

----------------------------------------------------------------------------

Init ==
    /\ tokens = {}
    /\ current = EofToken
    /\ taken = 0
    /\ lexErr = FALSE
    /\ stack = <<>>
    /\ env = EmptyEnv
    /\ err = NoErrors
    /\ last = "Other"
    /\ pc = "start"

\* Parser::new takes the first token.
NewParser ==
    /\ pc = "start"
    /\ pc' = "run"
    /\ tokens' \in Vocabularies
    /\ NextToken(tokens')
    /\ UNCHANGED <<stack, env, err, last>>

Helpers == ExpectTok \/ ExpectSoftTok \/ ListStep \/ Comma \/ SetLast \/ Maybe \/ Fail \/ PopScope \/ LeaveClosure

Expressions ==
    \/ Expression \/ Infix \/ Atom \/ PrintArgs \/ JumpValue \/ Paren \/ Ident \/ Assigned \/ CallEnd
    \/ Glom \/ IndexEnd \/ Member \/ ChainEnd \/ New \/ NewInit \/ Dotted
    \/ IfBody \/ ElseBody \/ LoopBody \/ For \/ ForVar \/ ForBody

Declarations ==
    \/ Declare \/ VarDeclaration \/ VarName \/ VarType \/ VarValue
    \/ Block \/ Stmts \/ Stmt \/ StmtEnd \/ Parameter \/ LambdaParameter
    \/ FunDeclaration \/ FunName \/ FunOpen \/ FunReturn \/ FunBody \/ FunEnd
    \/ ClassDeclaration \/ ClassName \/ Members \/ MemberEnd \/ MethodEnd \/ ClassEnd

Next == NewParser \/ Helpers \/ Expressions \/ Typ \/ TypPrefix \/ Declarations \/ TopLevel \/ Finish

Spec == Init /\ [][Next]_vars

----------------------------------------------------------------------------
(* Properties. *)

Count(kinds) == Cardinality({i \in DOMAIN stack : stack[i][1] \in kinds})

\* The parser's own state matches what is being parsed, as long as no error
\* has travelled up: one scope per open block and function, the closure and
\* the scope name of the innermost construct, fun_vars only with variables of
\* the innermost function, in_member_initializer only inside one.  Whatever
\* errors there were, no scope is missing that something on the call stack
\* will pop.
Balanced ==
    /\ pc = "run" /\ ~err.unwound =>
        /\ Len(env.scopes) = Count({"popScope", "funEnd"})
        /\ env.closure = Count({"leaveClosure", "forVar", "forBody", "funEnd"})
        /\ Len(env.path) = Count({"funOpen", "funEnd", "classEnd"})
        /\ env.funVars \subseteq {FunDepth}
        /\ env.inMember = (Count({"memberEnd"}) > 0)
    /\ pc = "run" => Len(env.scopes) >= Count({"popScope", "funEnd"})

=============================================================================
