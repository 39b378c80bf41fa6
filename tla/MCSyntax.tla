------------------------------ MODULE MCSyntax ------------------------------
(* Sources for module Syntax.  Each vocabulary is enough to write the        *)
(* constructs of one part of the grammar.                                    *)
EXTENDS Syntax

T(kinds) == {[typ |-> k, lexeme |-> NoLexeme] : k \in kinds}
I(name) == [typ |-> "Identifier", lexeme |-> name]
Braces == {"LeftBrace", "RightBrace"}
Parens == {"LeftParen", "RightParen"}
Squares == {"LeftSquare", "RightSquare"}
Values == {"Let", "Equal"}

MCVocabularies == {
    \* members of classes
    T(Braces \cup {"Class", "Annotation", "Var", "KeySelf", "Equal", "Semicolon"}) \cup {I("x")},
    \* functions, methods and their names
    T(Braces \cup Parens \cup {"Class", "Fun", "Semicolon"}) \cup {I("x")},
    \* parameters
    T(Braces \cup Parens \cup {"Fun", "Colon", "Comma", "RightArrow"}) \cup {I("x")},
    \* lambdas
    T(Values \cup {"VerticalBar", "Colon", "Comma", "RightArrow", "LeftBrace", "Semicolon"}) \cup {I("x")},
    \* control flow
    T(Values \cup Braces \cup {"If", "Else", "While", "Loop"}) \cup {I("x")},
    T(Values \cup Braces \cup {"For", "In", "Return", "Break", "Semicolon"}) \cup {I("x")},
    \* operators and what is glued to an atom
    T(Values \cup Parens \cup {"Plus", "Star", "Dot", "WholeNumber", "Comma"}) \cup {I("x")},
    T(Values \cup Squares \cup Parens \cup {"Print", "StringSimple", "Dot", "New"}) \cup {I("x")},
    T(Values \cup Braces \cup {"New", "Dot", "Colon", "Comma"}) \cup {I("x")},
    \* types
    T(Parens \cup {"Let", "Colon", "Fun", "Star", "RightArrow", "Question", "Comma"}) \cup {I("x")},
    T(Values \cup Squares \cup {"Colon"}) \cup {I("x"), I("Array")}
    }

MCHeaders == {
    [max |-> 9, kinds |-> Braces \cup Parens \cup {"AnnotateVar", "AnnotateClass", "Identifier", "Struct", "Semicolon"}],
    [max |-> 8, kinds |-> Parens \cup Squares \cup
        {"AnnotateVar", "AnnotateMember", "AnnotateOption", "Struct", "Identifier", "Star", "String"}],
    [max |-> 11, kinds |-> Parens \cup {"AnnotateFun", "AnnotateAbi", "Identifier", "LeftBrace"}]
    }
=============================================================================
