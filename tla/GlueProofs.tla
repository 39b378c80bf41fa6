----------------------------- MODULE GlueProofs -----------------------------
(***************************************************************************)
(* The parser of C headers keeps in step with their brackets, for headers  *)
(* of any length over any kinds of tokens.                                 *)
(*                                                                         *)
(* What is open is related to what the active functions still have to do:  *)
(* each entry of the stack begins with some open brackets and leaves others*)
(* open, and the last one leaves none.                                     *)
(***************************************************************************)
EXTENDS Glue, SequenceTheorems, TLAPS

Opening == Range(Closes)
Kinds == {"Eof"} \cup UNION {h.kinds : h \in Headers}
Expectable == {"AnnotateVar", "AnnotateFun", "AnnotateClass", "AnnotateAbi", "LeftParen",
    "RightParen", "RightBrace", "Identifier", "Struct", "Star", "Comma"}
Functions1 == {"topLevel", "type", "unknownType", "class", "classBody", "members", "classEnd",
    "fun", "params", "paramEnd", "funBody"}

(* The entries of the stack.                                               *)
Entry ==
    {<<"tok", t>> : t \in Expectable} \cup {<<"maybe", "String", <<>>>>}
    \cup {<<"eatUntil", t>> : t \in {"Semicolon"} \cup DOMAIN Closes}
    \cup {<<"ignore", t>> : t \in Kinds}
    \cup {<<"var", b>> : b \in BOOLEAN} \cup {<<"newVar", b>> : b \in BOOLEAN}
    \cup {<<f>> : f \in Functions1}

(* Between the braces of a struct, in any parentheses and square brackets. *)
InStruct(a) == a # <<>> /\ a[1] = "LeftBrace" /\ \A i \in 2 .. Len(a) : a[i] # "LeftBrace"

Opens(e) == e[1] = "tok" /\ e[2] \in Opening
Ends(e) == e \in {<<"tok", "RightParen">>} \cup {<<"eatUntil", t>> : t \in DOMAIN Closes}
Skips(e) == e[1] = "ignore" /\ e[2] \in Opening

(* With a open before e, b is open after it.                               *)
Fits(e, a, b) ==
    IF Opens(e) THEN b = Append(a, e[2])
    ELSE IF Ends(e) THEN a = Append(b, Closes[e[2]])
    ELSE IF Skips(e) THEN a = Append(b, e[2])
    ELSE IF e = <<"tok", "RightBrace">> THEN InStruct(a) /\ b = <<>>
    ELSE IF e = <<"members">> THEN InStruct(a) /\ InStruct(b)
    ELSE /\ a = b
         /\ e[1] \in {"topLevel", "class", "classBody"} => a = <<>>
         /\ e[1] = "var" => (e[2] <=> a # <<>>)

(* The stack may begin with a open: some f tells what is open before each  *)
(* entry.  The members of a struct are followed by its closing brace.      *)
Along(stack, a) ==
    \E f \in [1 .. Len(stack) + 1 -> Seq(Opening)] :
        /\ f[1] = a /\ f[Len(stack) + 1] = <<>>
        /\ \A i \in 1 .. Len(stack) :
              /\ Fits(stack[i], f[i], f[i + 1])
              /\ stack[i] = <<"members">> =>
                    i + 1 \in 1 .. Len(stack) /\ stack[i + 1] = <<"tok", "RightBrace">>

Declarations == [vars : Nat, classVars : SUBSET Nat, ofClass : SUBSET Nat, nested : BOOLEAN, unended : BOOLEAN]

(* A variable is parsed as soon as it is met: nothing is above its entry.  *)
Below == {e \in Entry : e[1] # "var"}

Types ==
    /\ gStack \in Seq(Entry)
    /\ gStack # <<>> => Tail(gStack) \in Seq(Below)
    /\ gTok \in Kinds
    /\ gHeader.kinds \subseteq Kinds
    /\ gDb \in Declarations
    /\ gOpen \in Seq(Opening) \/ gOpen = <<"bad">>

(* A header that nests, and is not at its end.                             *)
Sane == gOpen # <<"bad">> /\ ~gDb.nested /\ ~gDb.unended /\ gTok # "Eof"

Inv ==
    /\ Types
    /\ gPc = "start" => gStack = <<<<"topLevel">>>> /\ gOpen = <<>>
    /\ Calling("var") => gTok = "AnnotateVar"
    /\ gPc = "run" /\ Sane => Along(gStack, gOpen)

-----------------------------------------------------------------------------
(* Sequences of open brackets                                              *)

LEMMA Brackets ==
    /\ DOMAIN Closes = {"RightParen", "RightBrace", "RightSquare"}
    /\ Closes["RightParen"] = "LeftParen" /\ Closes["RightBrace"] = "LeftBrace"
    /\ Closes["RightSquare"] = "LeftSquare"
    /\ Opening = {"LeftParen", "LeftBrace", "LeftSquare"}
BY DEF Closes, Opening, Range

(* Last and Front take back what Append does.                              *)
LEMMA Appended ==
    ASSUME NEW b \in Seq(Opening), NEW x \in Opening
    PROVE  /\ Append(b, x) \in Seq(Opening)
           /\ Append(b, x) # <<>>
           /\ Last(Append(b, x)) = x
           /\ Front(Append(b, x)) = b
           /\ Append(b, x) # <<"bad">>
<1>1. Append(b, x) \in Seq(Opening) /\ Len(Append(b, x)) = Len(b) + 1 /\ Append(b, x)[Len(b) + 1] = x
  OBVIOUS
<1>2. Append(b, x)[Len(Append(b, x))] \in Opening
  BY <1>1
<1>3. "bad" \notin Opening
  BY Brackets
<1>4. Append(b, x) # <<"bad">>
  <2>1. <<"bad">>[Len(<<"bad">>)] = "bad"
    OBVIOUS
  <2> QED BY <2>1, <1>2, <1>3
<1>5. Front(Append(b, x)) = b
  <2>1. Front(Append(b, x)) = SubSeq(Append(b, x), 1, Len(b))
    BY <1>1 DEF Front
  <2>2. SubSeq(Append(b, x), 1, Len(b)) \in Seq(Opening) /\ Len(SubSeq(Append(b, x), 1, Len(b))) = Len(b)
        /\ \A i \in 1 .. Len(b) : SubSeq(Append(b, x), 1, Len(b))[i] = b[i]
    BY <1>1
  <2> QED BY <2>1, <2>2, SeqEqual
<1> QED BY <1>1, <1>4, <1>5 DEF Last

(* Taking a token: what is open after it.                                  *)
LEMMA Taking ==
    ASSUME gOpen \in Seq(Opening)
    PROVE  /\ gTok \in Opening => OpenAfter = Append(gOpen, gTok)
           /\ gTok \notin Opening /\ gTok \notin DOMAIN Closes => OpenAfter = gOpen
           /\ gTok \in DOMAIN Closes /\ (gOpen = <<>> \/ Last(gOpen) # Closes[gTok]) => OpenAfter = <<"bad">>
           /\ gTok \in DOMAIN Closes /\ gOpen # <<>> /\ Last(gOpen) = Closes[gTok] => OpenAfter = Front(gOpen)
<1>1. "bad" \notin Opening /\ Opening \cap DOMAIN Closes = {}
  BY Brackets
<1>2. gOpen # <<"bad">>
  BY <1>1
<1> QED BY <1>1, <1>2 DEF OpenAfter, Nest, Opening

(* A struct's own brace is the one that is left when it closes.            *)
LEMMA StructClosed ==
    ASSUME NEW a \in Seq(Opening), InStruct(a), Last(a) = "LeftBrace"
    PROVE  Front(a) = <<>>
<1>1. Len(a) \in Nat \ {0} /\ a[Len(a)] = "LeftBrace"
  BY DEF InStruct, Last
<1>2. Len(a) = 1
  BY <1>1 DEF InStruct
<1> QED BY <1>2, SubSeqEmpty DEF Front

(* What is open in a struct stays open under a parenthesis.                *)
LEMMA StructGrows ==
    ASSUME NEW a \in Seq(Opening), InStruct(a), NEW x \in Opening, x # "LeftBrace"
    PROVE  InStruct(Append(a, x))
BY DEF InStruct

(* Taking one entry off the stack, or putting one on it.                   *)
LEMMA Popped ==
    ASSUME NEW s \in Seq(Entry), s # <<>>, NEW a, Along(s, a)
    PROVE  \E b \in Seq(Opening) :
              /\ a \in Seq(Opening)
              /\ Fits(s[1], a, b)
              /\ Along(Tail(s), b)
              /\ s[1] = <<"members">> => Tail(s) # <<>> /\ Tail(s)[1] = <<"tok", "RightBrace">>
<1>1. PICK f \in [1 .. Len(s) + 1 -> Seq(Opening)] :
          /\ f[1] = a /\ f[Len(s) + 1] = <<>>
          /\ \A i \in 1 .. Len(s) :
                /\ Fits(s[i], f[i], f[i + 1])
                /\ s[i] = <<"members">> => i + 1 \in 1 .. Len(s) /\ s[i + 1] = <<"tok", "RightBrace">>
  BY DEF Along
<1> DEFINE t == Tail(s)
           g == [i \in 1 .. Len(t) + 1 |-> f[i + 1]]
<1>2. /\ Len(s) \in Nat \ {0} /\ t \in Seq(Entry) /\ Len(t) = Len(s) - 1
      /\ \A i \in 1 .. Len(t) : t[i] = s[i + 1]
  BY HeadTailProperties
<1> HIDE DEF t
<1>3. /\ g \in [1 .. Len(t) + 1 -> Seq(Opening)] /\ g[1] = f[2] /\ g[Len(t) + 1] = <<>>
      /\ \A i \in 1 .. Len(t) : g[i] = f[i + 1] /\ g[i + 1] = f[i + 2]
  BY <1>1, <1>2
<1>4. \A i \in 1 .. Len(t) :
          /\ Fits(t[i], g[i], g[i + 1])
          /\ t[i] = <<"members">> => i + 1 \in 1 .. Len(t) /\ t[i + 1] = <<"tok", "RightBrace">>
  <2> SUFFICES ASSUME NEW i \in 1 .. Len(t)
               PROVE  /\ Fits(t[i], g[i], g[i + 1])
                      /\ t[i] = <<"members">> => i + 1 \in 1 .. Len(t) /\ t[i + 1] = <<"tok", "RightBrace">>
    OBVIOUS
  <2>1. i + 1 \in 1 .. Len(s) /\ t[i] = s[i + 1] /\ g[i] = f[i + 1] /\ g[i + 1] = f[(i + 1) + 1]
    BY <1>2, <1>3
  <2>2. Fits(t[i], g[i], g[i + 1])
    BY <1>1, <2>1
  <2>3. t[i] = <<"members">> => (i + 1) + 1 \in 1 .. Len(s) /\ s[(i + 1) + 1] = <<"tok", "RightBrace">>
    BY <1>1, <2>1
  <2>4. t[i] = <<"members">> => i + 1 \in 1 .. Len(t) /\ t[i + 1] = s[(i + 1) + 1]
    BY <1>2, <2>3
  <2> QED BY <2>2, <2>3, <2>4
<1>5. Along(t, f[2])
  BY <1>3, <1>4 DEF Along
<1>6. f[2] \in Seq(Opening) /\ a \in Seq(Opening) /\ Fits(s[1], a, f[2])
  <2>1. 1 \in 1 .. Len(s) /\ 1 + 1 = 2 /\ 1 \in 1 .. Len(s) + 1 /\ 2 \in 1 .. Len(s) + 1
    BY <1>2
  <2>2. Fits(s[1], f[1], f[1 + 1])
    BY <1>1, <2>1, Zenon
  <2> QED BY <1>1, <2>1, <2>2
<1>7. s[1] = <<"members">> => t # <<>> /\ t[1] = <<"tok", "RightBrace">>
  <2>1. s[1] = <<"members">> => 1 + 1 \in 1 .. Len(s) /\ s[1 + 1] = <<"tok", "RightBrace">>
    <3>1. 1 \in 1 .. Len(s)
      BY <1>2
    <3> QED BY <1>1, <3>1, Zenon
  <2>2. s[1] = <<"members">> => 1 \in 1 .. Len(t)
    BY <1>2, <2>1
  <2>3. s[1] = <<"members">> => t[1] = s[1 + 1]
    BY <1>2, <2>2
  <2>4. 1 \in 1 .. Len(t) => t # <<>>
    BY <1>2
  <2> QED BY <2>1, <2>2, <2>3, <2>4
<1> QED BY <1>5, <1>6, <1>7 DEF t

LEMMA Pushed ==
    ASSUME NEW s \in Seq(Entry), NEW p \in Seq(Entry), NEW g \in [1 .. Len(p) + 1 -> Seq(Opening)],
           Along(s, g[Len(p) + 1]),
           \A i \in 1 .. Len(p) : Fits(p[i], g[i], g[i + 1]),
           \A i \in 1 .. Len(p) : p[i] = <<"members">> =>
               IF i < Len(p) THEN p[i + 1] = <<"tok", "RightBrace">>
               ELSE s # <<>> /\ s[1] = <<"tok", "RightBrace">>
    PROVE  p \o s \in Seq(Entry) /\ Along(p \o s, g[1])
<1>1. PICK f \in [1 .. Len(s) + 1 -> Seq(Opening)] :
          /\ f[1] = g[Len(p) + 1] /\ f[Len(s) + 1] = <<>>
          /\ \A i \in 1 .. Len(s) :
                /\ Fits(s[i], f[i], f[i + 1])
                /\ s[i] = <<"members">> => i + 1 \in 1 .. Len(s) /\ s[i + 1] = <<"tok", "RightBrace">>
  BY DEF Along
<1> DEFINE t == p \o s
           n == Len(p)
           h == [i \in 1 .. Len(t) + 1 |-> IF i <= n THEN g[i] ELSE f[i - n]]
<1>2. /\ n = Len(p) /\ n \in Nat /\ Len(s) \in Nat /\ t \in Seq(Entry) /\ Len(t) = n + Len(s)
      /\ \A i \in 1 .. Len(t) : t[i] = IF i <= n THEN p[i] ELSE s[i - n]
  BY ConcatProperties
<1> HIDE DEF t, n
<1>3. /\ h \in [1 .. Len(t) + 1 -> Seq(Opening)]
      /\ \A i \in 1 .. n + 1 : h[i] = g[i]
      /\ \A i \in n + 1 .. Len(t) + 1 : h[i] = f[i - n]
  <2>1. \A i \in 1 .. Len(t) + 1 : i > n => i - n \in 1 .. Len(s) + 1
    BY <1>2
  <2>2. \A i \in 1 .. Len(t) + 1 : i <= n => i \in 1 .. n + 1
    BY <1>2
  <2>3. h \in [1 .. Len(t) + 1 -> Seq(Opening)]
    BY <1>2, <2>1, <2>2
  <2>4. (n + 1) - n = 1 /\ n + 1 \in 1 .. Len(t) + 1
    BY <1>2
  <2>5. h[n + 1] = g[n + 1]
    BY <1>1, <1>2, <2>4
  <2>6. \A i \in 1 .. n : h[i] = g[i]
    BY <1>2
  <2>7. \A i \in 1 .. n + 1 : i \in 1 .. n \/ i = n + 1
    BY <1>2
  <2>8. \A i \in n + 1 .. Len(t) + 1 : h[i] = f[i - n]
    BY <1>2
  <2> QED BY <2>3, <2>5, <2>6, <2>7, <2>8
<1> HIDE DEF h
<1>4. h[1] = g[1] /\ h[Len(t) + 1] = <<>>
  <2>1. 1 \in 1 .. n + 1 /\ Len(t) + 1 \in n + 1 .. Len(t) + 1 /\ (Len(t) + 1) - n = Len(s) + 1
    BY <1>2
  <2> QED BY <1>1, <1>3, <2>1
<1>5. ASSUME NEW i \in 1 .. Len(t)
      PROVE  /\ Fits(t[i], h[i], h[i + 1])
             /\ t[i] = <<"members">> => i + 1 \in 1 .. Len(t) /\ t[i + 1] = <<"tok", "RightBrace">>
  <2>1. CASE i <= n
    <3>1. i \in 1 .. n /\ i \in 1 .. n + 1 /\ i + 1 \in 1 .. n + 1 /\ t[i] = p[i]
      <4>1. n \in Nat /\ Len(s) \in Nat /\ Len(t) = n + Len(s)
        BY <1>2
      <4>2. t[i] = p[i]
        BY <1>2, <2>1
      <4> QED BY <2>1, <4>1, <4>2
    <3>2. Fits(t[i], h[i], h[i + 1])
      BY <1>2, <1>3, <3>1
    <3>3. CASE i < n
      <4>1. i + 1 \in 1 .. Len(t) /\ t[i + 1] = p[i + 1]
        BY <1>2, <3>3
      <4> QED BY <1>2, <3>1, <3>2, <3>3, <4>1
    <3>4. CASE i = n
      <4>1. s # <<>> => 1 \in 1 .. Len(s)
        BY <1>2
      <4>2. s # <<>> => n + 1 \in 1 .. Len(t) /\ t[n + 1] = s[1]
        <5>1. s # <<>> => n + 1 \in 1 .. Len(t) /\ ~(n + 1 <= n) /\ (n + 1) - n = 1
          BY <1>2, <4>1
        <5> QED BY <1>2, <5>1
      <4>3. t[i] = <<"members">> => s # <<>> /\ s[1] = <<"tok", "RightBrace">>
        <5>1. i \in 1 .. Len(p) /\ ~(i < Len(p)) /\ t[i] = p[i]
          BY <1>2, <3>1, <3>4
        <5> QED BY <5>1
      <4> QED BY <3>2, <3>4, <4>2, <4>3
    <3> QED BY <1>2, <2>1, <3>3, <3>4
  <2>2. CASE i > n
    <3>1. /\ i - n \in 1 .. Len(s) /\ t[i] = s[i - n]
          /\ h[i] = f[i - n] /\ h[i + 1] = f[(i - n) + 1]
      <4>1. i \in n + 1 .. Len(t) + 1 /\ i + 1 \in n + 1 .. Len(t) + 1 /\ (i + 1) - n = (i - n) + 1
        BY <1>2, <2>2
      <4>2. t[i] = s[i - n]
        BY <1>2, <2>2
      <4>3. i - n \in 1 .. Len(s)
        BY <1>2, <2>2
      <4>4. h[i] = f[i - n] /\ h[i + 1] = f[(i + 1) - n]
        BY <1>3, <4>1
      <4> QED BY <4>1, <4>2, <4>3, <4>4
    <3>2. Fits(t[i], h[i], h[i + 1])
      BY <1>1, <3>1
    <3>3. t[i] = <<"members">> => (i - n) + 1 \in 1 .. Len(s) /\ s[(i - n) + 1] = <<"tok", "RightBrace">>
      BY <1>1, <3>1
    <3>4. (i - n) + 1 \in 1 .. Len(s) => i + 1 \in 1 .. Len(t) /\ t[i + 1] = s[(i - n) + 1]
      <4>1. (i + 1) - n = (i - n) + 1 /\ ~(i + 1 <= n)
        BY <1>2, <2>2
      <4>2. (i - n) + 1 \in 1 .. Len(s) => i + 1 \in 1 .. Len(t)
        <5>1. n \in Nat /\ Len(s) \in Nat /\ Len(t) = n + Len(s)
          BY <1>2
        <5> QED BY <5>1
      <4>3. i + 1 \in 1 .. Len(t) => t[i + 1] = s[(i + 1) - n]
        BY <1>2, <4>1
      <4> QED BY <4>1, <4>2, <4>3
    <3> QED BY <3>2, <3>3, <3>4
  <2> QED BY <1>2, <2>1, <2>2
<1>6. Along(t, h[1])
  BY <1>3, <1>4, <1>5 DEF Along
<1> QED BY <1>2, <1>4, <1>6 DEF t, n

(* Steps that neither open nor close anything.                             *)
Plain ==
    {<<"tok", t>> : t \in Expectable \ {"LeftParen", "RightParen", "RightBrace"}}
    \cup {<<"maybe", "String", <<>>>>, <<"eatUntil", "Semicolon">>}
    \cup {<<"newVar", b>> : b \in BOOLEAN}
    \cup {<<f>> : f \in Functions1 \ {"topLevel", "class", "classBody", "members"}}

LEMMA PlainFits ==
    ASSUME NEW e \in Plain, NEW a
    PROVE  e \in Below /\ Fits(e, a, a) /\ e # <<"members">>
<1>1. e \in Below /\ e # <<"members">>
  BY Brackets DEF Plain, Below, Entry, Functions1, Expectable
<1>2. ~Opens(e) /\ ~Ends(e) /\ ~Skips(e) /\ e # <<"tok", "RightBrace">>
      /\ e[1] \notin {"topLevel", "class", "classBody", "var"}
  BY Brackets DEF Plain, Opens, Ends, Skips, Functions1, Expectable
<1> QED BY <1>1, <1>2 DEF Fits

LEMMA EntriesBelow == Below \subseteq Entry /\ Plain \subseteq Below
BY PlainFits DEF Below

LEMMA PushedSame ==
    ASSUME NEW s \in Seq(Entry), NEW a \in Seq(Opening), Along(s, a), NEW p \in Seq(Entry),
           \A i \in 1 .. Len(p) : Fits(p[i], a, a) /\ p[i] # <<"members">>
    PROVE  p \o s \in Seq(Entry) /\ Along(p \o s, a)
<1> DEFINE g == [i \in 1 .. Len(p) + 1 |-> a]
<1>1. Len(p) \in Nat
  OBVIOUS
<1>2. /\ g \in [1 .. Len(p) + 1 -> Seq(Opening)] /\ g[1] = a /\ g[Len(p) + 1] = a
      /\ \A i \in 1 .. Len(p) : g[i] = a /\ g[i + 1] = a
  BY <1>1
<1> HIDE DEF g
<1>3. \A i \in 1 .. Len(p) : Fits(p[i], g[i], g[i + 1]) /\ p[i] # <<"members">>
  BY <1>2
<1> QED BY <1>1, <1>2, <1>3, Pushed

LEMMA PushedPlain ==
    ASSUME NEW s \in Seq(Entry), NEW a \in Seq(Opening), Along(s, a), NEW p \in Seq(Plain)
    PROVE  p \o s \in Seq(Entry) /\ Along(p \o s, a)
<1>1. p \in Seq(Entry)
  BY EntriesBelow, SeqMonotonic
<1>2. \A i \in 1 .. Len(p) : Fits(p[i], a, a) /\ p[i] # <<"members">>
  <2>1. \A i \in 1 .. Len(p) : p[i] \in Plain
    OBVIOUS
  <2> QED BY <2>1, PlainFits, Zenon
<1> QED BY <1>1, <1>2, PushedSame

(* PS_XXX (...)                                                            *)
LEMMA PushedAnnotation ==
    ASSUME NEW s \in Seq(Entry), NEW a \in Seq(Opening), Along(s, a),
           NEW t \in {"AnnotateVar", "AnnotateClass", "AnnotateFun"}
    PROVE  Annotation(t) \o s \in Seq(Entry) /\ Along(Annotation(t) \o s, a)
<1> DEFINE p == <<<<"tok", t>>, <<"tok", "LeftParen">>, <<"maybe", "String", <<>>>>, <<"tok", "RightParen">>>>
           x == Append(a, "LeftParen")
           g == <<a, a, x, x, a>>
<1>1. p \in Seq(Entry) /\ Len(p) = 4 /\ Annotation(t) = p
  BY DEF Entry, Expectable, Annotation, Tok
<1>2. g \in [1 .. 5 -> Seq(Opening)] /\ x \in Seq(Opening)
  <2>1. x \in Seq(Opening)
    BY Appended, Brackets
  <2> HIDE DEF x
  <2>2. g \in Seq(Seq(Opening)) /\ Len(g) = 5
    BY <2>1
  <2> QED BY <2>1, <2>2, LenProperties
<1>3. /\ Fits(<<"tok", t>>, a, a) /\ Fits(<<"maybe", "String", <<>>>>, x, x)
      /\ Fits(<<"tok", "LeftParen">>, a, x) /\ Fits(<<"tok", "RightParen">>, x, a)
  BY PlainFits, Brackets DEF Plain, Expectable, Fits, Opens, Ends, Skips
<1>4. \A i \in 1 .. Len(p) : Fits(p[i], g[i], g[i + 1]) /\ p[i] # <<"members">>
  <2>1. Fits(p[1], g[1], g[2]) /\ Fits(p[2], g[2], g[3]) /\ Fits(p[3], g[3], g[4]) /\ Fits(p[4], g[4], g[5])
    BY <1>3
  <2>2. \A i \in 1 .. 4 : p[i] # <<"members">>
    OBVIOUS
  <2> HIDE DEF p, g
  <2> QED BY <1>1, <2>1, <2>2
<1>5. g[1] = a /\ g[5] = a
  OBVIOUS
<1>6. g \in [1 .. Len(p) + 1 -> Seq(Opening)] /\ Along(s, g[Len(p) + 1])
  BY <1>1, <1>2, <1>5
<1> HIDE DEF p, g
<1> QED BY <1>1, <1>4, <1>5, <1>6, Pushed

(* A sequence that begins with e and goes on as q.                         *)
LEMMA Joined ==
    ASSUME NEW p \in Seq(Entry), NEW q \in Seq(Entry), NEW e \in Entry, NEW s \in Seq(Entry),
           Len(p) = Len(q) + 1, p[1] = e, \A i \in 1 .. Len(q) : p[i + 1] = q[i]
    PROVE  p \o s = <<e>> \o (q \o s)
<1>1. <<e>> \in Seq(Entry) /\ Len(<<e>>) = 1 /\ <<e>>[1] = e
  OBVIOUS
<1>2. /\ <<e>> \o q \in Seq(Entry) /\ Len(<<e>> \o q) = Len(p)
      /\ \A i \in 1 .. Len(p) : (<<e>> \o q)[i] = IF i <= 1 THEN e ELSE q[i - 1]
  BY <1>1, ConcatProperties
<1>3. \A i \in 1 .. Len(p) : (<<e>> \o q)[i] = p[i]
  <2> SUFFICES ASSUME NEW i \in 1 .. Len(p) PROVE (<<e>> \o q)[i] = p[i]
    OBVIOUS
  <2>1. CASE i = 1
    BY <1>2, <2>1
  <2>2. CASE i # 1
    <3>1. i - 1 \in 1 .. Len(q) /\ (i - 1) + 1 = i
      BY <2>2
    <3>2. p[(i - 1) + 1] = q[i - 1]
      BY <3>1
    <3> QED BY <1>2, <2>2, <3>1, <3>2
  <2> QED BY <2>1, <2>2
<1>4. p = <<e>> \o q
  BY <1>2, <1>3, SeqEqual
<1> QED BY <1>1, <1>4, ConcatAssociative

LEMMA Two ==
    ASSUME NEW s \in Seq(Entry), NEW e1 \in Entry, NEW e2 \in Entry
    PROVE  <<e1, e2>> \o s = <<e1>> \o (<<e2>> \o s)
<1>1. /\ <<e1, e2>> \in Seq(Entry) /\ <<e2>> \in Seq(Entry)
      /\ Len(<<e1, e2>>) = Len(<<e2>>) + 1 /\ <<e1, e2>>[1] = e1
      /\ \A i \in 1 .. Len(<<e2>>) : <<e1, e2>>[i + 1] = <<e2>>[i]
  OBVIOUS
<1> QED BY <1>1, Joined

-----------------------------------------------------------------------------
(* The steps                                                               *)

(* What does not declare a variable or a class, and what may come of the   *)
(* two things that are remembered of a header that is not in order.        *)
DbStep == gDb' \in Declarations /\ (gDb.nested => gDb'.nested) /\ (gDb.unended => gDb'.unended)

LEMMA TokenTypes ==
    ASSUME Types, Advance \/ KeepToken
    PROVE  /\ gTok' \in Kinds /\ gHeader'.kinds \subseteq Kinds
           /\ gOpen' \in Seq(Opening) \/ gOpen' = <<"bad">>
           /\ gTok' # "Eof" => gTok # "Eof"
           /\ gOpen' # <<"bad">> => gOpen # <<"bad">> /\ gOpen \in Seq(Opening)
<1>1. CASE KeepToken
  BY <1>1 DEF KeepToken, Types
<1>2. CASE Advance
  <2>1. gTok' \in Kinds /\ gHeader'.kinds \subseteq Kinds /\ (gTok' # "Eof" => gTok # "Eof")
    BY <1>2 DEF Advance, Types, Kinds, gAt
  <2>2. gOpen' = OpenAfter
    BY <1>2 DEF Advance
  <2>3. CASE gOpen = <<"bad">>
    BY <2>1, <2>2, <2>3 DEF OpenAfter, Nest
  <2>4. CASE gOpen \in Seq(Opening)
    <3>1. gOpen # <<"bad">>
      BY <2>4, Brackets
    <3>2. CASE gTok \in Opening
      BY <2>1, <2>2, <2>4, <3>1, <3>2, Taking, Appended
    <3>3. CASE gTok \in DOMAIN Closes /\ gOpen # <<>>
      <4>1. Front(gOpen) \in Seq(Opening)
        BY <2>4, <3>3 DEF Front
      <4> QED BY <2>1, <2>2, <2>4, <3>1, <3>3, <4>1, Taking
    <3>4. CASE gTok \in DOMAIN Closes /\ gOpen = <<>>
      BY <2>1, <2>2, <2>4, <3>1, <3>4, Taking
    <3>5. CASE gTok \notin Opening /\ gTok \notin DOMAIN Closes
      BY <2>1, <2>2, <2>4, <3>1, <3>5, Taking
    <3> QED BY <3>2, <3>3, <3>4, <3>5
  <2> QED BY <2>3, <2>4 DEF Types
<1> QED BY <1>1, <1>2

(* After a step that puts p in the place of the first entry, it is enough  *)
(* to look at the brackets of a header that is in order.                   *)
LEMMA Continues ==
    ASSUME Inv, gPc = "run", gStack # <<>>,
           NEW p \in Seq(Below), Then(p), Advance \/ KeepToken, DbStep, gPc' = gPc,
           Sane /\ Sane' => Along(p \o Tail(gStack), gOpen')
    PROVE  Inv'
<1>1. Tail(gStack) \in Seq(Below) /\ p \o Tail(gStack) \in Seq(Below) /\ gStack' = p \o Tail(gStack)
  BY ConcatProperties DEF Inv, Types, Then
<1>2. gStack' \in Seq(Below) /\ gStack' \in Seq(Entry)
  BY <1>1, EntriesBelow, SeqMonotonic
<1>3. gStack' # <<>> => Tail(gStack') \in Seq(Below) /\ gStack'[1] \in Below
  BY <1>2
<1>4. Types'
  BY <1>2, <1>3, TokenTypes DEF Inv, Types, DbStep
<1>5. ~Calling("var")'
  BY <1>3 DEF Calling, Kind, Below
<1>6. Sane' => Sane
  BY TokenTypes DEF Inv, Types, Sane, DbStep, Declarations
<1> QED BY <1>1, <1>4, <1>5, <1>6 DEF Inv

(* The parser stops.                                                       *)
LEMMA Stops ==
    ASSUME Inv, gPc' \in {"done", "panic"}, KeepToken, gStack' = gStack \/ gStack' = <<>>, UNCHANGED gDb
    PROVE  Inv'
<1>1. CASE gStack' = gStack
  BY <1>1 DEF Inv, Types, KeepToken, Calling
<1>2. CASE gStack' = <<>>
  BY <1>2 DEF Inv, Types, KeepToken, Calling
<1> QED BY <1>1, <1>2

(* What is known when the function of the first entry runs.                *)
LEMMA Runs ==
    ASSUME Inv, gPc = "run", gStack # <<>>
    PROVE  /\ gStack[1] \in Entry /\ Tail(gStack) \in Seq(Below) /\ Tail(gStack) \in Seq(Entry)
           /\ Sane => /\ gOpen \in Seq(Opening)
                      /\ \E b \in Seq(Opening) :
                            /\ Fits(gStack[1], gOpen, b)
                            /\ Along(Tail(gStack), b)
                            /\ gStack[1] = <<"members">> =>
                                  Tail(gStack) # <<>> /\ Tail(gStack)[1] = <<"tok", "RightBrace">>
<1>1. gStack[1] \in Entry /\ Tail(gStack) \in Seq(Below) /\ Tail(gStack) \in Seq(Entry)
  BY EntriesBelow, SeqMonotonic DEF Inv, Types
<1>2. Sane => Along(gStack, gOpen)
  BY DEF Inv
<1>3. gStack \in Seq(Entry)
  BY DEF Inv, Types
<1> QED BY <1>1, <1>2, <1>3, Popped

(* The same when a variable is met.                                        *)
LEMMA ContinuesVar ==
    ASSUME Inv, gPc = "run", gStack # <<>>, NEW b \in BOOLEAN, gStack[1] \in Below,
           Go(<<<<"var", b>>, gStack[1]>>), gTok = "AnnotateVar",
           Sane => Along(<<<<"var", b>>, gStack[1]>> \o Tail(gStack), gOpen)
    PROVE  Inv'
<1> DEFINE v == <<"var", b>>
<1>1. Tail(gStack) \in Seq(Below) /\ gStack' = <<v, gStack[1]>> \o Tail(gStack)
  BY Runs DEF Go, Then
<1>2. v \in Entry /\ gStack[1] \in Entry
  BY EntriesBelow DEF Entry
<1> HIDE DEF v
<1>3. <<v, gStack[1]>> \in Seq(Entry) /\ <<gStack[1]>> \in Seq(Below)
  BY <1>2
<1>4. gStack' \in Seq(Entry)
  BY <1>1, <1>3, ConcatProperties, Runs
<1>5. Tail(gStack') = <<gStack[1]>> \o Tail(gStack)
  <2>1. <<gStack[1]>> \o Tail(gStack) \in Seq(Entry) /\ gStack' = <<v>> \o (<<gStack[1]>> \o Tail(gStack))
    BY <1>1, <1>2, <1>3, Two, Runs, EntriesBelow
  <2> DEFINE w == <<gStack[1]>> \o Tail(gStack)
  <2> HIDE DEF w
  <2>2. Tail(<<v>> \o w) = w
    BY <1>2, <2>1 DEF w
  <2> QED BY <2>1, <2>2 DEF w
<1>6. Tail(gStack') \in Seq(Below)
  BY <1>1, <1>3, <1>5, ConcatProperties
<1>7. Types'
  BY <1>4, <1>6 DEF Inv, Types, Go, KeepToken, Quiet
<1>8. gTok' = "AnnotateVar" /\ (Sane' <=> Sane) /\ gOpen' = gOpen /\ gPc' = gPc
  BY DEF Go, KeepToken, Quiet, Sane
<1> QED BY <1>1, <1>7, <1>8 DEF Inv, v

(* An entry after which as much is open as before it.                      *)
Neutral(e) == ~Opens(e) /\ ~Ends(e) /\ ~Skips(e) /\ e # <<"tok", "RightBrace">> /\ e # <<"members">>

LEMMA NeutralStep ==
    ASSUME Inv, gPc = "run", gStack # <<>>, Neutral(gStack[1]),
           NEW p \in Seq(Plain), Then(p), DbStep, gPc' = gPc,
           KeepToken \/ (Advance /\ gTok \notin Opening /\ gTok \notin DOMAIN Closes)
    PROVE  Inv'
<1>1. p \in Seq(Below)
  BY EntriesBelow, SeqMonotonic
<1>2. ASSUME Sane, Sane' PROVE Along(p \o Tail(gStack), gOpen')
  <2>1. gOpen \in Seq(Opening) /\ Along(Tail(gStack), gOpen) /\ Tail(gStack) \in Seq(Entry)
    BY <1>2, Runs DEF Neutral, Fits
  <2>2. gOpen' = gOpen
    BY <2>1, Taking DEF KeepToken, Advance
  <2> QED BY <2>1, <2>2, PushedPlain
<1> QED BY <1>1, <1>2, Continues

LEMMA QuietStep == Quiet /\ Types => DbStep /\ gPc' = gPc
BY DEF Quiet, DbStep, Types

LEMMA ExpectedKeeps == ASSUME Inv, Expected PROVE Inv'
<1>1. gPc = "run" /\ gStack # <<>> /\ gStack[1][1] = "tok"
  BY DEF Expected, Calling, Kind
<1> DEFINE t == gStack[1][2]
<1>2. gStack[1] = <<"tok", t>> /\ t \in Expectable
  BY <1>1, Runs DEF Entry, Functions1
<1>3. CASE gTok # t
  BY <1>3, Stops DEF Expected, Arg, gAt, SyntaxError
<1>4. CASE gTok = t
  <2>1. Then(<<>>) /\ Advance /\ DbStep /\ gPc' = gPc
    BY <1>4, QuietStep DEF Expected, Arg, gAt, Eat, Inv
  <2>2. <<>> \in Seq(Below) /\ <<>> \o Tail(gStack) = Tail(gStack)
    BY <1>1, Runs
  <2>3. ASSUME Sane, Sane' PROVE Along(Tail(gStack), gOpen')
    <3>1. PICK b \in Seq(Opening) : gOpen \in Seq(Opening) /\ Fits(<<"tok", t>>, gOpen, b) /\ Along(Tail(gStack), b)
      BY <1>1, <1>2, <2>3, Runs
    <3>2. gOpen' = OpenAfter /\ OpenAfter # <<"bad">>
      BY <2>1, <2>3 DEF Advance, Sane
    <3>3. CASE t = "LeftParen"
      BY <1>4, <3>1, <3>2, <3>3, Taking, Brackets DEF Fits, Opens
    <3>4. CASE t = "RightParen"
      <4>1. gOpen = Append(b, "LeftParen")
        BY <3>1, <3>4, Brackets DEF Fits, Opens, Ends
      <4> QED BY <1>4, <3>1, <3>2, <3>4, <4>1, Taking, Appended, Brackets
    <3>5. CASE t = "RightBrace"
      <4>1. InStruct(gOpen) /\ b = <<>>
        BY <3>1, <3>5, Brackets DEF Fits, Opens, Ends, Skips
      <4>2. Last(gOpen) = "LeftBrace" /\ OpenAfter = Front(gOpen)
        BY <1>4, <3>1, <3>2, <3>5, <4>1, Taking, Brackets DEF InStruct
      <4> QED BY <3>1, <3>2, <4>1, <4>2, StructClosed
    <3>6. CASE t \notin {"LeftParen", "RightParen", "RightBrace"}
      <4>1. gOpen = b /\ t \notin Opening /\ t \notin DOMAIN Closes
        BY <1>2, <3>1, <3>6, Brackets DEF Fits, Opens, Ends, Skips, Expectable
      <4> QED BY <1>4, <3>1, <3>2, <4>1, Taking
    <3> QED BY <3>3, <3>4, <3>5, <3>6
  <2> QED BY <1>1, <2>1, <2>2, <2>3, Continues
<1> QED BY <1>3, <1>4

LEMMA MaybeKeeps == ASSUME Inv, Maybe PROVE Inv'
<1>1. gPc = "run" /\ gStack # <<>> /\ gStack[1][1] = "maybe"
  BY DEF Maybe, Calling, Kind
<1>2. gStack[1] = <<"maybe", "String", <<>>>>
  BY <1>1, Runs DEF Entry, Functions1
<1>3. Neutral(gStack[1])
  BY <1>2 DEF Neutral, Opens, Ends, Skips
<1>4. Then(<<>>) /\ Quiet /\ (KeepToken \/ (Advance /\ gTok = "String"))
  <2>1. gStack[1][2] = "String" /\ gStack[1][3] = <<>>
    BY <1>2
  <2>2. Arg(1) = "String" /\ Arg(2) = <<>>
    BY <2>1 DEF Arg
  <2>3. (gTok = "String" /\ Eat(Arg(2))) \/ Go(<<>>)
    BY <2>2 DEF Maybe, gAt
  <2> QED BY <2>2, <2>3 DEF Go, Eat, Then
<1>5. <<>> \in Seq(Plain) /\ (gTok = "String" => gTok \notin Opening /\ gTok \notin DOMAIN Closes)
  BY Brackets
<1> QED BY <1>1, <1>3, <1>4, <1>5, QuietStep, NeutralStep DEF Inv

(* The functions that neither open nor close anything themselves.          *)
LEMMA PlainNeutral ==
    ASSUME NEW e \in Entry, \/ e[1] \in Functions1 \ {"members"}
                            \/ e[1] \in {"var", "newVar"}
                            \/ e = <<"eatUntil", "Semicolon">>
    PROVE  Neutral(e)
BY Brackets DEF Neutral, Opens, Ends, Skips, Functions1, Entry

LEMMA NewVarKeeps == ASSUME Inv, NewVar PROVE Inv'
<1>1. gPc = "run" /\ gStack # <<>> /\ gStack[1][1] = "newVar" /\ Then(<<>>) /\ KeepToken /\ gPc' = gPc
  BY DEF NewVar, Calling, Kind
<1>2. DbStep
  <2>1. gDb \in Declarations
    BY DEF Inv, Types
  <2>2. gDb.vars + 1 \in Nat /\ gDb.classVars \subseteq Nat /\ gDb.ofClass \subseteq Nat
    BY <2>1 DEF Declarations
  <2>3. (IF Arg(1) THEN gDb.classVars \cup {gDb.vars + 1} ELSE gDb.classVars) \in SUBSET Nat
    BY <2>2
  <2>4. gDb' = [gDb EXCEPT !.vars = gDb.vars + 1,
                           !.classVars = IF Arg(1) THEN gDb.classVars \cup {gDb.vars + 1} ELSE gDb.classVars]
    BY DEF NewVar
  <2> DEFINE c == IF Arg(1) THEN gDb.classVars \cup {gDb.vars + 1} ELSE gDb.classVars
  <2> HIDE DEF c
  <2>5. c \in SUBSET Nat /\ gDb' = [gDb EXCEPT !.vars = gDb.vars + 1, !.classVars = c]
    BY <2>3, <2>4 DEF c
  <2> QED BY <2>1, <2>2, <2>5 DEF DbStep, Declarations
<1>3. Neutral(gStack[1])
  BY <1>1, Runs, PlainNeutral
<1> DEFINE p == <<>>
<1>4. p \in Seq(Plain) /\ Then(p)
  BY <1>1
<1> HIDE DEF p
<1> QED BY <1>1, <1>2, <1>3, <1>4, NeutralStep

LEMMA TypeKeeps == ASSUME Inv, Type PROVE Inv'
<1>1. gPc = "run" /\ gStack # <<>> /\ gStack[1][1] = "type"
  BY DEF Type, Calling, Kind
<1>2. Neutral(gStack[1])
  BY <1>1, Runs, PlainNeutral DEF Functions1
<1>3. ASSUME NEW p \in {<<Tok("Identifier"), Tok("Star")>>, <<>>, <<Tok("Star")>>, <<<<"unknownType">>>>},
             gAt("Struct") \/ gAt("Identifier"), Eat(p)
      PROVE  Inv'
  <2>1. p \in Seq(Plain)
    <3>1. Tok("Identifier") \in Plain /\ Tok("Star") \in Plain /\ <<"unknownType">> \in Plain
      BY DEF Plain, Tok, Expectable, Functions1
    <3> HIDE DEF Plain
    <3>2. <<Tok("Identifier"), Tok("Star")>> \in Seq(Plain) /\ <<>> \in Seq(Plain)
          /\ <<Tok("Star")>> \in Seq(Plain) /\ <<<<"unknownType">>>> \in Seq(Plain)
      BY <3>1
    <3> QED BY <3>2
  <2>2. gTok \notin Opening /\ gTok \notin DOMAIN Closes
    BY <1>3, Brackets DEF gAt
  <2>3. Then(p) /\ Advance /\ DbStep /\ gPc' = gPc
    BY <1>3, QuietStep DEF Eat, Inv
  <2> QED BY <1>1, <1>2, <2>1, <2>2, <2>3, NeutralStep
<1>4. ASSUME gAt("AnnotateOption"), Eat(<<Tok("LeftParen"), <<"type">>, Tok("RightParen")>>)
      PROVE  Inv'
  <2> DEFINE p == <<<<"tok", "LeftParen">>, <<"type">>, <<"tok", "RightParen">>>>
  <2>1. p \in Seq(Entry) /\ Len(p) = 3 /\ p \in Seq(Below)
    BY DEF Entry, Below, Expectable, Functions1
  <2>2. Then(p) /\ Advance /\ DbStep /\ gPc' = gPc
    BY <1>4, QuietStep DEF Eat, Inv, Tok
  <2>3. ASSUME Sane, Sane' PROVE Along(p \o Tail(gStack), gOpen')
    <3>1. gOpen \in Seq(Opening) /\ Along(Tail(gStack), gOpen) /\ Tail(gStack) \in Seq(Entry)
      BY <1>1, <1>2, <2>3, Runs DEF Neutral, Fits
    <3>2. gOpen' = gOpen
      BY <1>4, <2>2, <3>1, Taking, Brackets DEF Advance, gAt
    <3> DEFINE x == Append(gOpen, "LeftParen")
               g == <<gOpen, x, x, gOpen>>
    <3>3. x \in Seq(Opening)
      BY <3>1, Appended, Brackets
    <3>4. g \in [1 .. 4 -> Seq(Opening)] /\ g[1] = gOpen /\ g[4] = gOpen
      <4> HIDE DEF x
      <4>1. g \in Seq(Seq(Opening)) /\ Len(g) = 4
        BY <3>1, <3>3
      <4> QED BY <4>1, LenProperties
    <3>5. Fits(<<"tok", "LeftParen">>, gOpen, x) /\ Fits(<<"type">>, x, x) /\ Fits(<<"tok", "RightParen">>, x, gOpen)
      BY PlainFits, Brackets DEF Plain, Expectable, Functions1, Fits, Opens, Ends, Skips
    <3>6. \A i \in 1 .. Len(p) : Fits(p[i], g[i], g[i + 1]) /\ p[i] # <<"members">>
      <4>1. Fits(p[1], g[1], g[2]) /\ Fits(p[2], g[2], g[3]) /\ Fits(p[3], g[3], g[4])
        BY <3>5
      <4>2. \A i \in 1 .. 3 : p[i] # <<"members">>
        OBVIOUS
      <4> HIDE DEF p, g
      <4> QED BY <2>1, <4>1, <4>2
    <3>7. g \in [1 .. Len(p) + 1 -> Seq(Opening)] /\ Along(Tail(gStack), g[Len(p) + 1])
      BY <2>1, <3>1, <3>4
    <3> HIDE DEF p, g
    <3> QED BY <2>1, <3>1, <3>2, <3>4, <3>6, <3>7, Pushed
  <2> HIDE DEF p
  <2> QED BY <1>1, <2>1, <2>2, <2>3, Continues
<1>5. CASE SyntaxError
  BY <1>5, Stops DEF SyntaxError
<1> QED BY <1>3, <1>4, <1>5 DEF Type

LEMMA UnknownTypeKeeps == ASSUME Inv, UnknownType PROVE Inv'
BY Stops DEF UnknownType, SyntaxError

(* PS_VAR: from its entry to those of its annotation.                      *)
LEMMA VarKeeps == ASSUME Inv, Var PROVE Inv'
<1>1. gPc = "run" /\ gStack # <<>> /\ gStack[1][1] = "var" /\ KeepToken /\ Quiet
  BY DEF Var, Calling, Kind, Go
<1>2. gStack[1][2] \in BOOLEAN /\ Neutral(gStack[1])
  <2>1. gStack[1][2] \in BOOLEAN
    BY <1>1, Runs DEF Entry, Functions1
  <2> QED BY <1>1, <2>1, Runs, PlainNeutral
<1> DEFINE q == <<<<"type">>, <<"tok", "Identifier">>, <<"eatUntil", "Semicolon">>, <<"newVar", gStack[1][2]>>>>
           p == Annotation("AnnotateVar") \o q
<1>3. q \in Seq(Plain) /\ q \in Seq(Below)
  <2>1. q \in Seq(Plain)
    BY <1>2 DEF Plain, Expectable, Functions1
  <2> QED BY <2>1, EntriesBelow, SeqMonotonic
<1>4. Annotation("AnnotateVar") \in Seq(Below) /\ p \in Seq(Below)
  <2>1. Annotation("AnnotateVar") \in Seq(Below)
    BY DEF Annotation, Tok, Below, Entry, Expectable
  <2> QED BY <1>3, <2>1, ConcatProperties
<1>5. Then(p)
  BY DEF Var, Go, Tok, Arg
<1> HIDE DEF q
<1>6. ASSUME Sane PROVE Along(p \o Tail(gStack), gOpen)
  <2>1. gOpen \in Seq(Opening) /\ Along(Tail(gStack), gOpen) /\ Tail(gStack) \in Seq(Entry)
    BY <1>1, <1>2, <1>6, Runs DEF Neutral, Fits
  <2>2. q \o Tail(gStack) \in Seq(Entry) /\ Along(q \o Tail(gStack), gOpen)
    BY <1>3, <2>1, PushedPlain
  <2>3. Along(Annotation("AnnotateVar") \o (q \o Tail(gStack)), gOpen)
    BY <2>1, <2>2, PushedAnnotation
  <2>4. Annotation("AnnotateVar") \in Seq(Entry) /\ q \in Seq(Entry)
    BY <1>3, <1>4, EntriesBelow, SeqMonotonic
  <2> DEFINE ann == Annotation("AnnotateVar")
             rest == Tail(gStack)
  <2>6. ann \in Seq(Entry) /\ rest \in Seq(Entry)
    BY <2>1, <2>4
  <2> HIDE DEF ann, rest
  <2>5. (ann \o q) \o rest = ann \o (q \o rest)
    BY <2>6, <2>4, ConcatAssociative
  <2> QED BY <2>3, <2>5 DEF p, ann, rest
<1> HIDE DEF p
<1>7. gOpen' = gOpen /\ DbStep /\ gPc' = gPc
  BY <1>1, QuietStep DEF KeepToken, Inv
<1> QED BY <1>1, <1>4, <1>5, <1>6, <1>7, Continues

(* A class begins where nothing is open.                                   *)
LEMMA ClassKeeps == ASSUME Inv, Class PROVE Inv'
<1>1. gPc = "run" /\ gStack # <<>> /\ gStack[1][1] = "class" /\ KeepToken /\ Quiet
  BY DEF Class, Calling, Kind, Go
<1> DEFINE q == <<<<"tok", "Struct">>, <<"tok", "Identifier">>, <<"classBody">>>>
           p == Annotation("AnnotateClass") \o q
<1>2. q \in Seq(Below) /\ Len(q) = 3 /\ q[1] = <<"tok", "Struct">> /\ q[2] = <<"tok", "Identifier">> /\ q[3] = <<"classBody">>
  BY DEF Below, Entry, Expectable, Functions1
<1>3. Annotation("AnnotateClass") \in Seq(Below)
  BY DEF Annotation, Tok, Below, Entry, Expectable
<1>4. Then(p)
  BY DEF Class, Go, Tok
<1> HIDE DEF q
<1>5. p \in Seq(Below)
  BY <1>2, <1>3, ConcatProperties
<1>6. ASSUME Sane PROVE Along(p \o Tail(gStack), gOpen)
  <2>1. gOpen = <<>> /\ Along(Tail(gStack), <<>>) /\ Tail(gStack) \in Seq(Entry)
    BY <1>1, <1>6, Runs, PlainNeutral DEF Neutral, Fits, Functions1
  <2>2. \A i \in 1 .. Len(q) : Fits(q[i], <<>>, <<>>) /\ q[i] # <<"members">>
    <3>1. Fits(q[1], <<>>, <<>>) /\ Fits(q[2], <<>>, <<>>) /\ Fits(q[3], <<>>, <<>>)
      BY <1>2, PlainFits, Brackets DEF Plain, Expectable, Fits, Opens, Ends, Skips
    <3>2. q[1] # <<"members">> /\ q[2] # <<"members">> /\ q[3] # <<"members">>
      BY <1>2
    <3> QED BY <1>2, <3>1, <3>2
  <2> DEFINE ann == Annotation("AnnotateClass")
             rest == Tail(gStack)
             none == <<>>
  <2>3. ann \in Seq(Entry) /\ rest \in Seq(Entry) /\ q \in Seq(Entry) /\ none \in Seq(Opening)
    BY <1>2, <1>3, <2>1, EntriesBelow, SeqMonotonic
  <2>4. Along(rest, none) /\ \A i \in 1 .. Len(q) : Fits(q[i], none, none) /\ q[i] # <<"members">>
    BY <2>1, <2>2
  <2> HIDE DEF none, rest
  <2>5. q \o rest \in Seq(Entry) /\ Along(q \o rest, none)
    BY <2>3, <2>4, PushedSame
  <2>6. Along(ann \o (q \o rest), none)
    BY <2>3, <2>5, PushedAnnotation
  <2> HIDE DEF ann
  <2>7. (ann \o q) \o rest = ann \o (q \o rest)
    BY <2>3, ConcatAssociative
  <2> QED BY <2>1, <2>6, <2>7 DEF p, ann, rest, none
<1> HIDE DEF p
<1>7. gOpen' = gOpen /\ DbStep /\ gPc' = gPc
  BY <1>1, QuietStep DEF KeepToken, Inv
<1> QED BY <1>1, <1>4, <1>5, <1>6, <1>7, Continues

LEMMA ClassBodyKeeps == ASSUME Inv, ClassBody PROVE Inv'
<1>1. gPc = "run" /\ gStack # <<>> /\ gStack[1][1] = "classBody"
  BY DEF ClassBody, Calling, Kind
<1>2. CASE gTok = "Semicolon"
  <2> DEFINE p == <<<<"classEnd">>>>
  <2>1. Then(p) /\ Advance /\ DbStep /\ gPc' = gPc
    BY <1>2, QuietStep DEF ClassBody, gAt, Eat, Inv
  <2>2. p \in Seq(Plain)
    <3>1. <<"classEnd">> \in Plain
      BY DEF Plain, Functions1
    <3> QED BY <3>1
  <2>3. Neutral(gStack[1]) /\ gTok \notin Opening /\ gTok \notin DOMAIN Closes
    BY <1>1, <1>2, Runs, PlainNeutral, Brackets DEF Functions1
  <2> HIDE DEF p
  <2> QED BY <1>1, <2>1, <2>2, <2>3, NeutralStep
<1>3. CASE gTok = "LeftBrace"
  <2> DEFINE p == <<<<"members">>, <<"tok", "RightBrace">>, <<"classEnd">>>>
  <2>1. Then(p) /\ Advance /\ DbStep /\ gPc' = gPc
    BY <1>3, QuietStep DEF ClassBody, gAt, Eat, Inv, Tok
  <2>2. /\ p \in Seq(Below) /\ p \in Seq(Entry) /\ Len(p) = 3
        /\ p[1] = <<"members">> /\ p[2] = <<"tok", "RightBrace">> /\ p[3] = <<"classEnd">>
    BY DEF Below, Entry, Expectable, Functions1
  <2> HIDE DEF p
  <2>3. ASSUME Sane PROVE Along(p \o Tail(gStack), gOpen')
    <3>1. gOpen = <<>> /\ gOpen \in Seq(Opening) /\ Along(Tail(gStack), <<>>) /\ Tail(gStack) \in Seq(Entry)
      BY <1>1, <2>3, Runs, PlainNeutral DEF Neutral, Fits, Functions1
    <3> DEFINE none == <<>>
               x == <<"LeftBrace">>
               g == <<x, x, none, none>>
    <3>2. gOpen' = x
      BY <1>3, <2>1, <3>1, Taking, Brackets DEF Advance
    <3>3. x \in Seq(Opening) /\ none \in Seq(Opening) /\ InStruct(x)
      BY Brackets DEF InStruct
    <3>4. g \in [1 .. 4 -> Seq(Opening)] /\ g[1] = x /\ g[2] = x /\ g[3] = none /\ g[4] = none
      <4> HIDE DEF x, none
      <4>1. g \in Seq(Seq(Opening)) /\ Len(g) = 4
        BY <3>3
      <4> QED BY <4>1, LenProperties
    <3>5. Fits(<<"members">>, x, x) /\ Fits(<<"tok", "RightBrace">>, x, none) /\ Fits(<<"classEnd">>, none, none)
      BY <3>3, PlainFits, Brackets DEF Plain, Functions1, Fits, Opens, Ends, Skips
    <3>6. Along(Tail(gStack), none)
      BY <3>1
    <3> HIDE DEF x, none, g
    <3>7. \A i \in 1 .. Len(p) : Fits(p[i], g[i], g[i + 1])
      <4>1. Fits(p[1], g[1], g[2]) /\ Fits(p[2], g[2], g[3]) /\ Fits(p[3], g[3], g[4])
        BY <2>2, <3>4, <3>5
      <4> QED BY <2>2, <4>1
    <3>8. \A i \in 1 .. Len(p) : p[i] = <<"members">> => i < Len(p) /\ p[i + 1] = <<"tok", "RightBrace">>
      BY <2>2
    <3>9. g \in [1 .. Len(p) + 1 -> Seq(Opening)] /\ Along(Tail(gStack), g[Len(p) + 1])
      BY <2>2, <3>4, <3>6
    <3> QED BY <2>2, <3>1, <3>2, <3>4, <3>7, <3>8, <3>9, Pushed
  <2> QED BY <1>1, <2>1, <2>2, <2>3, Continues
<1>4. CASE gTok \notin {"Semicolon", "LeftBrace"}
  BY <1>4, Stops DEF ClassBody, gAt, SyntaxError
<1> QED BY <1>2, <1>3, <1>4

(* What is open in a struct while its members are skipped.                 *)
LEMMA StructStays ==
    ASSUME gOpen \in Seq(Opening), InStruct(gOpen), gTok \notin {"LeftBrace", "RightBrace"}, OpenAfter # <<"bad">>
    PROVE  OpenAfter \in Seq(Opening) /\ InStruct(OpenAfter)
<1>1. CASE gTok \in Opening
  BY <1>1, Taking, Appended, StructGrows
<1>2. CASE gTok \in DOMAIN Closes
  <2>1. OpenAfter = Front(gOpen) /\ Last(gOpen) = Closes[gTok] /\ Closes[gTok] # "LeftBrace"
    BY <1>2, Taking, Brackets
  <2>2. Len(gOpen) \in Nat /\ Len(gOpen) > 1
    BY <2>1 DEF InStruct, Last
  <2>3. /\ Front(gOpen) \in Seq(Opening) /\ Len(Front(gOpen)) = Len(gOpen) - 1
        /\ \A i \in 1 .. Len(gOpen) - 1 : Front(gOpen)[i] = gOpen[i]
    BY <2>2 DEF Front
  <2> DEFINE fr == Front(gOpen)
  <2> HIDE DEF fr
  <2>4. fr # <<>> /\ fr[1] = gOpen[1] /\ \A i \in 2 .. Len(fr) : fr[i] = gOpen[i] /\ i \in 2 .. Len(gOpen)
    BY <2>2, <2>3 DEF fr
  <2>5. InStruct(fr)
    BY <2>4 DEF InStruct
  <2> QED BY <2>1, <2>3, <2>5 DEF fr
<1>3. CASE gTok \notin Opening /\ gTok \notin DOMAIN Closes
  BY <1>3, Taking
<1> QED BY <1>1, <1>2, <1>3

LEMMA HeadAndTail ==
    ASSUME NEW S, NEW s \in Seq(S), s # <<>>
    PROVE  /\ s[1] \in S /\ <<s[1]>> \in Seq(S) /\ Len(<<s[1]>>) = 1 /\ <<s[1]>>[1] = s[1]
           /\ Tail(s) \in Seq(S) /\ <<s[1]>> \o Tail(s) = s
<1>1. Len(s) \in Nat \ {0}
  OBVIOUS
<1>2. s[1] \in S /\ <<s[1]>> \in Seq(S) /\ Tail(s) \in Seq(S)
  BY <1>1
<1>3. CASE Len(s) = 1
  <2>1. Tail(s) = <<>> /\ Len(<<s[1]>>) = 1 /\ \A i \in 1 .. 1 : <<s[1]>>[i] = s[i]
    <3>1. Tail(s) = SubSeq(s, 2, 1)
      BY <1>3, TailIsSubSeq
    <3> QED BY <1>2, <3>1, SubSeqEmpty
  <2>2. <<s[1]>> = s
    BY <1>2, <1>3, <2>1, SeqEqual
  <2> DEFINE h == <<s[1]>>
  <2> HIDE DEF h
  <2>3. h \in Seq(S) /\ h \o <<>> = h
    BY <1>2, ConcatEmptySeq DEF h
  <2> QED BY <1>2, <2>1, <2>2, <2>3 DEF h
<1>4. CASE Len(s) > 1
  <2>1. Tail(s) = SubSeq(s, 2, Len(s)) /\ s = SubSeq(s, 1, Len(s))
    BY <1>1, TailIsSubSeq, SubSeqFull
  <2>2. 1 \in 1 .. Len(s) /\ Len(s) \in 1 .. Len(s) /\ 1 + 1 = 2
    BY <1>1
  <2>3. SubSeq(s, 1, Len(s)) = <<s[1]>> \o SubSeq(s, 1 + 1, Len(s))
    BY <2>2, SubSeqRecursiveFirst
  <2> QED BY <1>2, <2>1, <2>2, <2>3
<1> QED BY <1>1, <1>3, <1>4

(* Before the closing brace of a struct, its parentheses do not matter.    *)
LEMMA StructEnds ==
    ASSUME NEW s \in Seq(Entry), s # <<>>, s[1] = <<"tok", "RightBrace">>, NEW b, Along(s, b),
           NEW a \in Seq(Opening), InStruct(a)
    PROVE  Along(s, a)
<1>1. PICK c \in Seq(Opening) : Fits(s[1], b, c) /\ Along(Tail(s), c)
  BY Popped
<1>2. c = <<>>
  BY <1>1, Brackets DEF Fits, Opens, Ends, Skips
<1> DEFINE p == <<s[1]>>
           g == <<a, c>>
<1>3. Fits(s[1], a, c)
  BY <1>2, Brackets DEF Fits, Opens, Ends, Skips
<1>4. p \in Seq(Entry) /\ Len(p) = 1 /\ p[1] = s[1] /\ Tail(s) \in Seq(Entry) /\ p \o Tail(s) = s
  BY HeadAndTail
<1>5. g \in [1 .. 2 -> Seq(Opening)] /\ g[1] = a /\ g[2] = c
  <2>1. g \in Seq(Seq(Opening)) /\ Len(g) = 2
    OBVIOUS
  <2> QED BY <2>1, LenProperties
<1> HIDE DEF p, g
<1>6. \A i \in 1 .. Len(p) : Fits(p[i], g[i], g[i + 1]) /\ p[i] # <<"members">>
  <2>1. Fits(p[1], g[1], g[2]) /\ p[1] # <<"members">>
    BY <1>3, <1>4, <1>5
  <2>2. \A i \in 1 .. Len(p) : i = 1
    BY <1>4
  <2>3. 1 + 1 = 2
    OBVIOUS
  <2> QED BY <2>1, <2>2, <2>3, Zenon
<1>7. g \in [1 .. Len(p) + 1 -> Seq(Opening)] /\ Along(Tail(s), g[Len(p) + 1])
  BY <1>1, <1>4, <1>5
<1>8. Along(p \o Tail(s), g[1])
  BY <1>4, <1>6, <1>7, Pushed
<1> QED BY <1>4, <1>5, <1>8

(* e is put back on the stack, under another entry.                        *)
LEMMA PushedBack ==
    ASSUME NEW s \in Seq(Entry), NEW d \in Entry, NEW e \in Entry,
           NEW a \in Seq(Opening), NEW b \in Seq(Opening), NEW c \in Seq(Opening),
           Along(s, c), Fits(d, a, b), Fits(e, b, c), d # <<"members">>,
           e = <<"members">> => s # <<>> /\ s[1] = <<"tok", "RightBrace">>
    PROVE  Along(<<d, e>> \o s, a)
<1> DEFINE p == <<d, e>>
           g == <<a, b, c>>
<1>1. p \in Seq(Entry) /\ Len(p) = 2 /\ p[1] = d /\ p[2] = e
  OBVIOUS
<1>2. g \in [1 .. 3 -> Seq(Opening)] /\ g[1] = a /\ g[2] = b /\ g[3] = c
  <2>1. g \in Seq(Seq(Opening)) /\ Len(g) = 3
    OBVIOUS
  <2> QED BY <2>1, LenProperties
<1> HIDE DEF p, g
<1>3. \A i \in 1 .. Len(p) : Fits(p[i], g[i], g[i + 1])
  <2>1. Fits(p[1], g[1], g[2]) /\ Fits(p[2], g[2], g[3])
    BY <1>1, <1>2
  <2> QED BY <1>1, <2>1
<1>4. \A i \in 1 .. Len(p) : p[i] = <<"members">> => i = 2 /\ e = <<"members">>
  <2>1. \A i \in 1 .. Len(p) : i = 1 \/ i = 2
    BY <1>1
  <2> QED BY <1>1, <2>1, Zenon
<1>5. g \in [1 .. Len(p) + 1 -> Seq(Opening)] /\ Along(s, g[Len(p) + 1])
  BY <1>1, <1>2
<1>6. Along(p \o s, g[1])
  <2>1. \A i \in 1 .. Len(p) : p[i] = <<"members">> =>
            IF i < Len(p) THEN p[i + 1] = <<"tok", "RightBrace">>
            ELSE s # <<>> /\ s[1] = <<"tok", "RightBrace">>
    <3>1. ~(2 < Len(p))
      BY <1>1
    <3> QED BY <1>4, <3>1
  <2> QED BY <1>1, <1>3, <1>5, <2>1, Pushed
<1> QED BY <1>2, <1>6 DEF p

LEMMA MembersKeeps == ASSUME Inv, Members PROVE Inv'
<1>1. gPc = "run" /\ gStack # <<>> /\ gStack[1] = <<"members">>
  BY Runs DEF Members, Calling, Kind, Entry, Functions1
<1>2. ASSUME Sane
      PROVE  /\ gOpen \in Seq(Opening) /\ InStruct(gOpen)
             /\ Tail(gStack) # <<>> /\ Tail(gStack)[1] = <<"tok", "RightBrace">>
             /\ \E b \in Seq(Opening) : InStruct(b) /\ Along(Tail(gStack), b)
  <2>1. /\ gOpen \in Seq(Opening)
        /\ \E b \in Seq(Opening) :
              /\ Fits(<<"members">>, gOpen, b)
              /\ Along(Tail(gStack), b)
              /\ Tail(gStack) # <<>> /\ Tail(gStack)[1] = <<"tok", "RightBrace">>
    BY <1>1, <1>2, Runs
  <2>2. \A b : Fits(<<"members">>, gOpen, b) => InStruct(gOpen) /\ InStruct(b)
    BY Brackets DEF Fits, Opens, Ends, Skips
  <2> QED BY <2>1, <2>2
<1>3. Tail(gStack) \in Seq(Below) /\ Tail(gStack) \in Seq(Entry) /\ <<"members">> \in Below /\ <<"members">> \in Entry
  BY <1>1, Runs DEF Below, Entry, Functions1
<1>4. CASE gTok \in {"RightBrace", "Eof"}
  <2> DEFINE p == <<>>
  <2>1. Then(p) /\ KeepToken /\ DbStep /\ gPc' = gPc
    BY <1>4, QuietStep DEF Members, Go, Inv
  <2>2. p \in Seq(Below) /\ p \o Tail(gStack) = Tail(gStack)
    BY <1>3
  <2>3. ASSUME Sane PROVE Along(Tail(gStack), gOpen')
    BY <1>2, <1>3, <2>1, <2>3, StructEnds DEF KeepToken
  <2> HIDE DEF p
  <2> QED BY <1>1, <2>1, <2>2, <2>3, Continues
<1>5. CASE gTok = "AnnotateVar"
  <2>1. Go(<<<<"var", TRUE>>, gStack[1]>>)
    BY <1>5 DEF Members, gAt
  <2>2. ASSUME Sane PROVE Along(<<<<"var", TRUE>>, gStack[1]>> \o Tail(gStack), gOpen)
    <3>1. PICK b \in Seq(Opening) : InStruct(b) /\ Along(Tail(gStack), b)
      BY <1>2, <2>2
    <3>2. Fits(<<"var", TRUE>>, gOpen, gOpen) /\ Fits(<<"members">>, gOpen, b)
      BY <1>2, <2>2, <3>1, Brackets DEF Fits, Opens, Ends, Skips, InStruct
    <3>3. <<"var", TRUE>> \in Entry /\ <<"var", TRUE>> # <<"members">>
      BY DEF Entry
    <3> QED BY <1>1, <1>2, <1>3, <2>2, <3>1, <3>2, <3>3, PushedBack
  <2> QED BY <1>1, <1>3, <1>5, <2>1, <2>2, ContinuesVar
<1>6. CASE gTok \notin {"RightBrace", "Eof", "AnnotateVar"}
  <2> DEFINE p == <<gStack[1]>>
  <2>1. Then(p) /\ Advance /\ gPc' = gPc /\ gDb' = [gDb EXCEPT !.nested = @ \/ gAt("LeftBrace")]
    BY <1>6 DEF Members, gAt
  <2>2. DbStep /\ (gTok = "LeftBrace" => gDb'.nested)
    BY <2>1 DEF DbStep, Declarations, Inv, Types, gAt
  <2>3. p \in Seq(Below)
    BY <1>1, <1>3
  <2>4. ASSUME Sane, Sane' PROVE Along(p \o Tail(gStack), gOpen')
    <3>1. PICK b \in Seq(Opening) : InStruct(b) /\ Along(Tail(gStack), b)
      BY <1>2, <2>4
    <3>2. gOpen' = OpenAfter /\ OpenAfter # <<"bad">> /\ gTok # "LeftBrace"
      BY <2>1, <2>2, <2>4 DEF Advance, Sane
    <3>3. gOpen' \in Seq(Opening) /\ InStruct(gOpen')
      BY <1>2, <1>6, <2>4, <3>2, StructStays
    <3> DEFINE a == gOpen'
               g == <<a, b>>
               s == Tail(gStack)
    <3>4. Fits(<<"members">>, a, b)
      BY <3>1, <3>3, Brackets DEF Fits, Opens, Ends, Skips
    <3>5. a \in Seq(Opening) /\ s \in Seq(Entry) /\ s # <<>> /\ s[1] = <<"tok", "RightBrace">> /\ Along(s, b)
      BY <1>2, <1>3, <2>4, <3>1, <3>3
    <3>6. p \in Seq(Entry) /\ Len(p) = 1 /\ p[1] = <<"members">>
      BY <1>1, <1>3
    <3> HIDE DEF a, s, p
    <3>7. g \in [1 .. 2 -> Seq(Opening)] /\ g[1] = a /\ g[2] = b
      <4>1. g \in Seq(Seq(Opening)) /\ Len(g) = 2
        BY <3>5
      <4> QED BY <4>1, LenProperties
    <3> HIDE DEF g
    <3>8. \A i \in 1 .. Len(p) : Fits(p[i], g[i], g[i + 1]) /\ ~(i < Len(p))
      <4>1. Fits(p[1], g[1], g[2])
        BY <3>4, <3>6, <3>7
      <4> QED BY <3>6, <4>1
    <3>9. g \in [1 .. Len(p) + 1 -> Seq(Opening)] /\ Along(s, g[Len(p) + 1])
      BY <3>5, <3>6, <3>7
    <3>10. Along(p \o s, g[1])
      BY <3>5, <3>6, <3>8, <3>9, Pushed
    <3> QED BY <3>7, <3>10 DEF a, s
  <2> HIDE DEF p
  <2> QED BY <1>1, <2>1, <2>2, <2>3, <2>4, Continues
<1> QED BY <1>4, <1>5, <1>6

LEMMA ClassEndKeeps == ASSUME Inv, ClassEnd PROVE Inv'
<1>1. gPc = "run" /\ gStack # <<>> /\ gStack[1][1] = "classEnd" /\ KeepToken /\ gPc' = gPc
  BY DEF ClassEnd, Calling, Kind
<1>2. DbStep
  <2>1. gDb \in Declarations /\ gDb' = [gDb EXCEPT !.ofClass = gDb.ofClass \cup gDb.classVars, !.classVars = {}]
    BY DEF ClassEnd, Inv, Types
  <2>2. gDb.ofClass \cup gDb.classVars \in SUBSET Nat
    BY <2>1 DEF Declarations
  <2> DEFINE c == gDb.ofClass \cup gDb.classVars
  <2> HIDE DEF c
  <2>3. c \in SUBSET Nat /\ gDb' = [gDb EXCEPT !.ofClass = c, !.classVars = {}]
    BY <2>1, <2>2 DEF c
  <2> QED BY <2>1, <2>3 DEF DbStep, Declarations
<1>3. Neutral(gStack[1])
  BY <1>1, Runs, PlainNeutral DEF Functions1
<1> DEFINE p == <<>>
<1>4. p \in Seq(Plain) /\ Then(p)
  BY DEF ClassEnd
<1> HIDE DEF p
<1> QED BY <1>1, <1>2, <1>3, <1>4, NeutralStep

(* PS_FUN: the parentheses of its parameters are in those of PONI_ABI.     *)
LEMMA FunKeeps == ASSUME Inv, Fun PROVE Inv'
<1>1. gPc = "run" /\ gStack # <<>> /\ gStack[1][1] = "fun" /\ KeepToken /\ Quiet
  BY DEF Fun, Calling, Kind, Go
<1> DEFINE q == <<<<"type">>, <<"tok", "Identifier">>, <<"tok", "LeftParen">>, <<"tok", "AnnotateAbi">>,
                  <<"tok", "LeftParen">>, <<"params">>, <<"tok", "RightParen">>, <<"tok", "RightParen">>,
                  <<"funBody">>>>
           p == Annotation("AnnotateFun") \o q
<1>2. /\ <<"type">> \in Below /\ <<"tok", "Identifier">> \in Below /\ <<"tok", "LeftParen">> \in Below
      /\ <<"tok", "AnnotateAbi">> \in Below /\ <<"params">> \in Below /\ <<"tok", "RightParen">> \in Below
      /\ <<"funBody">> \in Below
  BY DEF Below, Entry, Expectable, Functions1
<1>3. q \in Seq(Below) /\ q \in Seq(Entry) /\ Len(q) = 9
  <2> HIDE DEF Below
  <2>1. q \in Seq(Below) /\ Len(q) = 9
    BY <1>2
  <2> HIDE DEF q
  <2> QED BY <2>1, EntriesBelow, SeqMonotonic
<1>4. Annotation("AnnotateFun") \in Seq(Below)
  BY DEF Annotation, Tok, Below, Entry, Expectable
<1>5. Then(p)
  BY DEF Fun, Go, Tok
<1>6. ASSUME Sane PROVE Along(p \o Tail(gStack), gOpen)
  <2> DEFINE ann == Annotation("AnnotateFun")
             rest == Tail(gStack)
             a == gOpen
             x == Append(a, "LeftParen")
             y == Append(x, "LeftParen")
             g == <<a, a, a, x, x, y, y, x, a, a>>
  <2>1. a \in Seq(Opening) /\ Along(rest, a) /\ rest \in Seq(Entry) /\ ann \in Seq(Entry)
    BY <1>1, <1>4, <1>6, Runs, PlainNeutral, EntriesBelow, SeqMonotonic DEF Neutral, Fits, Functions1
  <2> HIDE DEF a, rest, ann
  <2>2. x \in Seq(Opening) /\ y \in Seq(Opening)
    BY <2>1, Appended, Brackets
  <2>3. /\ \A z : /\ Fits(<<"type">>, z, z) /\ Fits(<<"tok", "Identifier">>, z, z)
                  /\ Fits(<<"tok", "AnnotateAbi">>, z, z) /\ Fits(<<"params">>, z, z)
                  /\ Fits(<<"funBody">>, z, z)
        /\ \A z : /\ Fits(<<"tok", "LeftParen">>, z, Append(z, "LeftParen"))
                  /\ Fits(<<"tok", "RightParen">>, Append(z, "LeftParen"), z)
    BY PlainFits, Brackets DEF Plain, Expectable, Functions1, Fits, Opens, Ends, Skips
  <2>4. /\ Fits(<<"type">>, a, a) /\ Fits(<<"tok", "Identifier">>, a, a) /\ Fits(<<"funBody">>, a, a)
        /\ Fits(<<"tok", "AnnotateAbi">>, x, x) /\ Fits(<<"params">>, y, y)
        /\ Fits(<<"tok", "LeftParen">>, a, x) /\ Fits(<<"tok", "LeftParen">>, x, y)
        /\ Fits(<<"tok", "RightParen">>, y, x) /\ Fits(<<"tok", "RightParen">>, x, a)
    BY <2>3
  <2> HIDE DEF x, y
  <2>5. g \in Seq(Seq(Opening)) /\ Len(g) = 10 /\ g[1] = a /\ g[10] = a
    BY <2>1, <2>2
  <2>6. g \in [1 .. 10 -> Seq(Opening)]
    BY <2>5, LenProperties
  <2>7. /\ Fits(q[1], g[1], g[2]) /\ Fits(q[2], g[2], g[3]) /\ Fits(q[3], g[3], g[4])
        /\ Fits(q[4], g[4], g[5]) /\ Fits(q[5], g[5], g[6]) /\ Fits(q[6], g[6], g[7])
        /\ Fits(q[7], g[7], g[8]) /\ Fits(q[8], g[8], g[9]) /\ Fits(q[9], g[9], g[10])
    BY <2>4
  <2>8. \A i \in 1 .. 9 : q[i] # <<"members">>
    OBVIOUS
  <2> HIDE DEF g, q
  <2>9. \A i \in 1 .. Len(q) : Fits(q[i], g[i], g[i + 1]) /\ q[i] # <<"members">>
    BY <1>3, <2>7, <2>8
  <2>10. g \in [1 .. Len(q) + 1 -> Seq(Opening)] /\ Along(rest, g[Len(q) + 1])
    BY <1>3, <2>1, <2>5, <2>6
  <2>11. q \o rest \in Seq(Entry) /\ Along(q \o rest, a)
    BY <1>3, <2>1, <2>5, <2>9, <2>10, Pushed
  <2>12. Along(Annotation("AnnotateFun") \o (q \o rest), a)
    BY <2>1, <2>11, PushedAnnotation
  <2>13. (ann \o q) \o rest = ann \o (q \o rest)
    BY <1>3, <2>1, ConcatAssociative
  <2> QED BY <2>12, <2>13 DEF ann, rest, a
<1> HIDE DEF q
<1>7. p \in Seq(Below)
  BY <1>3, <1>4, ConcatProperties
<1>8. gOpen' = gOpen /\ DbStep /\ gPc' = gPc
  BY <1>1, QuietStep DEF KeepToken, Inv
<1> HIDE DEF p
<1> QED BY <1>1, <1>5, <1>6, <1>7, <1>8, Continues

LEMMA ParamsKeeps == ASSUME Inv, Params PROVE Inv'
<1>1. gPc = "run" /\ gStack # <<>> /\ gStack[1][1] = "params" /\ Neutral(gStack[1])
  BY Runs, PlainNeutral DEF Params, Calling, Kind, Functions1
<1> DEFINE none == <<>>
           p == <<<<"type">>, <<"tok", "Identifier">>, <<"paramEnd">>, <<"params">>>>
<1>2. KeepToken /\ Quiet /\ (Then(none) \/ Then(p))
  BY DEF Params, Go, Tok
<1>3. none \in Seq(Plain) /\ p \in Seq(Plain)
  <2>1. <<"type">> \in Plain /\ <<"tok", "Identifier">> \in Plain /\ <<"paramEnd">> \in Plain /\ <<"params">> \in Plain
    BY DEF Plain, Expectable, Functions1
  <2> HIDE DEF Plain
  <2> QED BY <2>1
<1>4. DbStep /\ gPc' = gPc
  BY <1>2, QuietStep DEF Inv
<1> HIDE DEF none, p
<1> QED BY <1>1, <1>2, <1>3, <1>4, NeutralStep

LEMMA ParamEndKeeps == ASSUME Inv, ParamEnd PROVE Inv'
<1>1. gPc = "run" /\ gStack # <<>> /\ gStack[1][1] = "paramEnd" /\ Neutral(gStack[1])
  BY Runs, PlainNeutral DEF ParamEnd, Calling, Kind, Functions1
<1> DEFINE none == <<>>
           p == <<<<"tok", "Comma">>>>
<1>2. KeepToken /\ gPc' = gPc /\ (Then(none) \/ Then(p))
  BY DEF ParamEnd, Tok
<1>3. none \in Seq(Plain) /\ p \in Seq(Plain)
  <2>1. <<"tok", "Comma">> \in Plain
    BY DEF Plain, Expectable
  <2> HIDE DEF Plain
  <2> QED BY <2>1
<1>4. DbStep
  <2>1. gDb \in Declarations /\ gDb' = [gDb EXCEPT !.vars = gDb.vars + 1]
    BY DEF ParamEnd, Inv, Types
  <2> QED BY <2>1 DEF DbStep, Declarations
<1> HIDE DEF none, p
<1> QED BY <1>1, <1>2, <1>3, <1>4, NeutralStep

(* A body is skipped up to the brace that closes it.                       *)
LEMMA FunBodyKeeps == ASSUME Inv, FunBody PROVE Inv'
<1>1. gPc = "run" /\ gStack # <<>> /\ gStack[1][1] = "funBody" /\ Neutral(gStack[1])
  BY Runs, PlainNeutral DEF FunBody, Calling, Kind, Functions1
<1>2. CASE gTok = "Semicolon"
  <2> DEFINE p == <<>>
  <2>1. Then(p) /\ Advance /\ DbStep /\ gPc' = gPc
    BY <1>2, QuietStep DEF FunBody, gAt, Eat, Inv
  <2>2. p \in Seq(Plain) /\ gTok \notin Opening /\ gTok \notin DOMAIN Closes
    BY <1>2, Brackets
  <2> HIDE DEF p
  <2> QED BY <1>1, <2>1, <2>2, NeutralStep
<1>3. CASE gTok = "LeftBrace"
  <2> DEFINE p == <<<<"eatUntil", "RightBrace">>>>
  <2>1. Then(p) /\ Advance /\ DbStep /\ gPc' = gPc
    BY <1>3, QuietStep DEF FunBody, gAt, Eat, Inv
  <2>2. p \in Seq(Below) /\ p \in Seq(Entry) /\ Len(p) = 1 /\ p[1] = <<"eatUntil", "RightBrace">>
    BY Brackets DEF Below, Entry
  <2>3. ASSUME Sane, Sane' PROVE Along(p \o Tail(gStack), gOpen')
    <3> DEFINE a == gOpen
               s == Tail(gStack)
               x == Append(a, "LeftBrace")
               g == <<x, a>>
    <3>1. a \in Seq(Opening) /\ Along(s, a) /\ s \in Seq(Entry)
      BY <1>1, <2>3, Runs DEF Neutral, Fits
    <3>2. gOpen' = x /\ x \in Seq(Opening)
      BY <1>3, <2>1, <3>1, Taking, Brackets, Appended DEF Advance
    <3>3. Fits(<<"eatUntil", "RightBrace">>, x, a)
      BY Brackets DEF Fits, Opens, Ends
    <3> HIDE DEF a, x, s, p
    <3>4. g \in [1 .. 2 -> Seq(Opening)] /\ g[1] = x /\ g[2] = a
      <4>1. g \in Seq(Seq(Opening)) /\ Len(g) = 2
        BY <3>1, <3>2
      <4> QED BY <4>1, LenProperties
    <3> HIDE DEF g
    <3>5. \A i \in 1 .. Len(p) : Fits(p[i], g[i], g[i + 1]) /\ p[i] # <<"members">>
      <4>1. Fits(p[1], g[1], g[2]) /\ p[1] # <<"members">>
        BY <2>2, <3>3, <3>4
      <4>2. 1 + 1 = 2 /\ \A i \in 1 .. Len(p) : i = 1
        BY <2>2
      <4> QED BY <4>1, <4>2, Zenon
    <3>6. g \in [1 .. Len(p) + 1 -> Seq(Opening)] /\ Along(s, g[Len(p) + 1])
      BY <2>2, <3>1, <3>4
    <3> QED BY <2>2, <3>1, <3>2, <3>4, <3>5, <3>6, Pushed DEF s
  <2> HIDE DEF p
  <2> QED BY <1>1, <2>1, <2>2, <2>3, Continues
<1>4. CASE gTok \notin {"Semicolon", "LeftBrace"}
  BY <1>4, Stops DEF FunBody, gAt, SyntaxError
<1> QED BY <1>2, <1>3, <1>4

(* What is open after a token that is put on the stack to be skipped.      *)
LEMMA Ignored ==
    ASSUME gOpen \in Seq(Opening), OpenAfter # <<"bad">>, gTok \notin DOMAIN Closes
    PROVE  OpenAfter \in Seq(Opening) /\ Fits(<<"ignore", gTok>>, OpenAfter, gOpen)
<1>1. <<"ignore", gTok>> # <<"tok", "RightParen">> /\ <<"ignore", gTok>> # <<"tok", "RightBrace">>
      /\ <<"ignore", gTok>> # <<"members">>
  OBVIOUS
<1>2. ~Opens(<<"ignore", gTok>>) /\ ~Ends(<<"ignore", gTok>>)
      /\ (Skips(<<"ignore", gTok>>) <=> gTok \in Opening)
  BY Brackets DEF Opens, Ends, Skips
<1>3. CASE gTok \in Opening
  BY <1>2, <1>3, Taking, Appended DEF Fits
<1>4. CASE gTok \notin Opening
  BY <1>1, <1>2, <1>4, Taking DEF Fits
<1> QED BY <1>3, <1>4

LEMMA EatUntilKeeps == ASSUME Inv, EatUntil PROVE Inv'
<1> DEFINE t == gStack[1][2]
           e == <<"eatUntil", t>>
<1>1. gPc = "run" /\ gStack # <<>> /\ gStack[1] = e /\ t \in {"Semicolon"} \cup DOMAIN Closes
  BY Runs DEF EatUntil, Calling, Kind, Entry, Functions1
<1>2. Advance /\ gPc' = gPc
  BY DEF EatUntil, Eat, Quiet
<1>3. e \in Below /\ e \in Entry /\ Tail(gStack) \in Seq(Entry)
  <2>1. gStack[1] \in Entry /\ gStack[1][1] = "eatUntil"
    BY <1>1, Runs
  <2> QED BY <1>1, <2>1, Runs DEF Below
<1>4. ASSUME Sane
      PROVE  /\ gOpen \in Seq(Opening)
             /\ \E b \in Seq(Opening) :
                   /\ Along(Tail(gStack), b) /\ Fits(e, gOpen, b)
                   /\ IF t = "Semicolon" THEN b = gOpen ELSE gOpen = Append(b, Closes[t])
  <2>1. gOpen \in Seq(Opening) /\ \E b \in Seq(Opening) : Along(Tail(gStack), b) /\ Fits(e, gOpen, b)
    BY <1>1, <1>4, Runs
  <2>2. \A b : Fits(e, gOpen, b) => IF t = "Semicolon" THEN b = gOpen ELSE gOpen = Append(b, Closes[t])
    BY <1>1, Brackets DEF Fits, Opens, Ends, Skips
  <2> QED BY <2>1, <2>2
<1>5. CASE gTok \in {t, "Eof"}
  <2> DEFINE p == <<>>
  <2>1. Then(p) /\ DbStep
    BY <1>5, QuietStep DEF EatUntil, Arg, Eat, Inv
  <2>2. p \in Seq(Below) /\ p \o Tail(gStack) = Tail(gStack)
    BY <1>3
  <2>3. ASSUME Sane, Sane' PROVE Along(Tail(gStack), gOpen')
    <3>1. PICK b \in Seq(Opening) :
              /\ Along(Tail(gStack), b)
              /\ IF t = "Semicolon" THEN b = gOpen ELSE gOpen = Append(b, Closes[t])
      BY <1>4, <2>3
    <3>2. gTok = t /\ gOpen' = OpenAfter
      BY <1>2, <1>5, <2>3 DEF Sane, Advance
    <3>3. CASE t = "Semicolon"
      BY <1>4, <2>3, <3>1, <3>2, <3>3, Taking, Brackets
    <3>4. CASE t # "Semicolon"
      <4>1. t \in DOMAIN Closes /\ Closes[t] \in Opening /\ gOpen = Append(b, Closes[t])
        BY <1>1, <3>1, <3>4, Brackets
      <4>2. gOpen' = b
        BY <1>4, <2>3, <3>2, <4>1, Taking, Appended
      <4> QED BY <3>1, <4>2
    <3> QED BY <3>3, <3>4
  <2> HIDE DEF p
  <2> QED BY <1>1, <1>2, <2>1, <2>2, <2>3, Continues
<1>6. CASE gTok \notin {t, "Eof"}
  <2> DEFINE d == <<"ignore", gTok>>
             p == <<d, e>>
  <2>1. Then(p) /\ gDb' = [gDb EXCEPT !.unended = @ \/ (t = "Semicolon" /\ gTok \in DOMAIN Closes)]
    BY <1>1, <1>6 DEF EatUntil, Arg
  <2>2. DbStep /\ (t = "Semicolon" /\ gTok \in DOMAIN Closes => gDb'.unended)
    BY <2>1 DEF DbStep, Declarations, Inv, Types
  <2>3. d \in Below /\ d \in Entry /\ d # <<"members">> /\ e # <<"members">>
    BY DEF Inv, Types, Below, Entry
  <2>4. p \in Seq(Below)
    BY <1>3, <2>3
  <2>5. ASSUME Sane, Sane' PROVE Along(p \o Tail(gStack), gOpen')
    <3>1. PICK b \in Seq(Opening) :
              /\ Along(Tail(gStack), b) /\ Fits(e, gOpen, b)
              /\ IF t = "Semicolon" THEN b = gOpen ELSE gOpen = Append(b, Closes[t])
      BY <1>4, <2>5
    <3>2. gOpen' = OpenAfter /\ OpenAfter # <<"bad">> /\ gOpen \in Seq(Opening)
      BY <1>2, <1>4, <2>5 DEF Sane, Advance
    <3>3. gTok \notin DOMAIN Closes
      <4>1. CASE t = "Semicolon"
        BY <2>2, <2>5, <4>1 DEF Sane
      <4>2. CASE t # "Semicolon"
        <5>1. t \in DOMAIN Closes /\ Closes[t] \in Opening /\ Last(gOpen) = Closes[t]
          <6>1. t \in DOMAIN Closes /\ gOpen = Append(b, Closes[t])
            BY <1>1, <3>1, <4>2
          <6>2. Closes[t] \in Opening
            BY <6>1, Brackets
          <6> QED BY <6>1, <6>2, Appended
        <5>2. gTok \in DOMAIN Closes => Last(gOpen) # Closes[gTok]
          BY <1>6, <5>1, Brackets
        <5> QED BY <3>2, <5>2, Taking
      <4> QED BY <4>1, <4>2
    <3>4. gOpen' \in Seq(Opening) /\ Fits(d, gOpen', gOpen)
      BY <3>2, <3>3, Ignored
    <3> HIDE DEF d, e
    <3> QED BY <1>3, <2>3, <3>1, <3>2, <3>4, PushedBack
  <2> HIDE DEF p
  <2> QED BY <1>1, <1>2, <2>1, <2>2, <2>4, <2>5, Continues
<1> QED BY <1>5, <1>6

LEMMA DoIgnoreKeeps == ASSUME Inv, DoIgnore PROVE Inv'
<1> DEFINE t == gStack[1][2]
<1>1. gPc = "run" /\ gStack # <<>> /\ gStack[1] = <<"ignore", t>> /\ KeepToken /\ Quiet
  BY Runs DEF DoIgnore, Calling, Kind, Entry, Functions1, Go
<1>2. DbStep /\ gPc' = gPc /\ gOpen' = gOpen
  BY <1>1, QuietStep DEF Inv, KeepToken
<1>3. CASE t \notin Opening
  <2> DEFINE p == <<>>
  <2>1. Then(p)
    BY <1>3 DEF DoIgnore, Arg, Go, Opening
  <2>2. Neutral(gStack[1])
    BY <1>1, <1>3, Brackets DEF Neutral, Opens, Ends, Skips
  <2>3. p \in Seq(Plain)
    OBVIOUS
  <2> HIDE DEF p
  <2> QED BY <1>1, <1>2, <2>1, <2>2, <2>3, NeutralStep
<1>4. CASE t \in Opening
  <2> DEFINE close == CHOOSE c \in DOMAIN Closes : Closes[c] = t
             e == <<"eatUntil", close>>
             p == <<e>>
  <2>1. close \in DOMAIN Closes /\ Closes[close] = t
    <3>1. \E c \in DOMAIN Closes : Closes[c] = t
      BY <1>4, Brackets
    <3> QED BY <3>1
  <2>2. Then(p)
    BY <1>4 DEF DoIgnore, Arg, Go, Opening
  <2> HIDE DEF close
  <2>3. e \in Below /\ e \in Entry /\ e # <<"members">>
    BY <2>1 DEF Below, Entry
  <2>4. p \in Seq(Below) /\ p \in Seq(Entry) /\ Len(p) = 1 /\ p[1] = e
    BY <2>3
  <2>5. ASSUME Sane PROVE Along(p \o Tail(gStack), gOpen)
    <3>1. PICK b \in Seq(Opening) : gOpen \in Seq(Opening) /\ Fits(<<"ignore", t>>, gOpen, b) /\ Along(Tail(gStack), b)
      BY <1>1, <2>5, Runs
    <3>2. gOpen = Append(b, t)
      BY <1>4, <3>1, Brackets DEF Fits, Opens, Ends, Skips
    <3>3. Fits(e, gOpen, b)
      BY <2>1, <3>2, Brackets DEF Fits, Opens, Ends
    <3> DEFINE a == gOpen
               s == Tail(gStack)
               g == <<a, b>>
    <3>4. a \in Seq(Opening) /\ Fits(e, a, b) /\ s \in Seq(Entry) /\ Along(s, b)
      BY <1>1, <3>1, <3>3, Runs
    <3> HIDE DEF a, s, e, p
    <3>5. g \in [1 .. 2 -> Seq(Opening)] /\ g[1] = a /\ g[2] = b
      <4>1. g \in Seq(Seq(Opening)) /\ Len(g) = 2
        BY <3>4
      <4> QED BY <4>1, LenProperties
    <3> HIDE DEF g
    <3>6. \A i \in 1 .. Len(p) : Fits(p[i], g[i], g[i + 1]) /\ p[i] # <<"members">>
      <4>1. Fits(p[1], g[1], g[2]) /\ p[1] # <<"members">>
        BY <2>3, <2>4, <3>4, <3>5
      <4>2. 1 + 1 = 2 /\ \A i \in 1 .. Len(p) : i = 1
        BY <2>4
      <4> QED BY <4>1, <4>2, Zenon
    <3>7. g \in [1 .. Len(p) + 1 -> Seq(Opening)] /\ Along(s, g[Len(p) + 1])
      BY <2>4, <3>4, <3>5
    <3>8. Along(p \o s, g[1])
      BY <2>4, <3>4, <3>6, <3>7, Pushed
    <3> QED BY <3>5, <3>8 DEF a, s
  <2> HIDE DEF p
  <2> QED BY <1>1, <1>2, <2>2, <2>4, <2>5, Continues
<1> QED BY <1>3, <1>4

LEMMA TopLevelKeeps == ASSUME Inv, TopLevel PROVE Inv'
<1> DEFINE top == <<"topLevel">>
           s == Tail(gStack)
           none == <<>>
<1>1. gPc = "run" /\ gStack # <<>> /\ gStack[1] = top
  BY Runs DEF TopLevel, Calling, Kind, Entry, Functions1
<1>2. top \in Below /\ top \in Entry /\ s \in Seq(Entry) /\ none \in Seq(Opening)
  BY <1>1, Runs DEF Below, Entry, Functions1
<1>3. Sane => gOpen = none /\ Along(s, none)
  BY <1>1, Runs, PlainNeutral DEF Neutral, Fits, Functions1
<1>4. Fits(top, none, none) /\ top # <<"members">>
  BY Brackets DEF Fits, Opens, Ends, Skips
<1>5. CASE gTok = "Eof" /\ gPc' = "done" /\ gStack' = <<>> /\ KeepToken /\ UNCHANGED <<gDb, gError>>
  BY <1>5, Stops
<1>6. CASE gTok = "AnnotateVar" /\ Go(<<<<"var", FALSE>>, gStack[1]>>)
  <2>1. <<"var", FALSE>> \in Entry /\ Fits(<<"var", FALSE>>, none, none) /\ <<"var", FALSE>> # <<"members">>
    BY Brackets DEF Entry, Fits, Opens, Ends, Skips
  <2>2. Sane => Along(<<<<"var", FALSE>>, top>> \o s, gOpen)
    <3> HIDE DEF top, s, none
    <3> QED BY <1>2, <1>3, <1>4, <2>1, PushedBack
  <2> QED BY <1>1, <1>2, <1>6, <2>2, ContinuesVar
<1>7. ASSUME NEW d \in {<<"fun">>, <<"class">>}, Go(<<d, gStack[1]>>) PROVE Inv'
  <2> DEFINE p == <<d, top>>
  <2>1. d \in Below /\ d \in Entry /\ d # <<"members">> /\ Fits(d, none, none)
    BY Brackets DEF Below, Entry, Functions1, Fits, Opens, Ends, Skips
  <2>2. Then(p) /\ KeepToken /\ DbStep /\ gPc' = gPc /\ gOpen' = gOpen
    BY <1>1, <1>7, QuietStep DEF Go, Inv, KeepToken
  <2>3. p \in Seq(Below)
    BY <1>2, <2>1
  <2>4. Sane => Along(p \o s, gOpen')
    <3> HIDE DEF top, s, none
    <3> QED BY <1>2, <1>3, <1>4, <2>1, <2>2, PushedBack
  <2> HIDE DEF p
  <2> QED BY <1>1, <2>2, <2>3, <2>4, Continues
<1>8. CASE gPc' = "panic" /\ KeepToken /\ UNCHANGED <<gStack, gDb, gError>>
  BY <1>8, Stops
<1>9. ASSUME gTok # "Eof", Eat(<<<<"ignore", gTok>>, gStack[1]>>) PROVE Inv'
  <2> DEFINE d == <<"ignore", gTok>>
             p == <<d, top>>
  <2>1. Then(p) /\ Advance /\ DbStep /\ gPc' = gPc
    BY <1>1, <1>9, QuietStep DEF Eat, Inv
  <2>2. d \in Below /\ d \in Entry /\ d # <<"members">>
    BY DEF Inv, Types, Below, Entry
  <2>3. p \in Seq(Below)
    BY <1>2, <2>2
  <2>4. ASSUME Sane, Sane' PROVE Along(p \o s, gOpen')
    <3>1. gOpen = none /\ Along(s, none) /\ gOpen' = OpenAfter /\ OpenAfter # <<"bad">> /\ gOpen \in Seq(Opening)
      BY <1>2, <1>3, <2>1, <2>4 DEF Sane, Advance
    <3>2. gTok \notin DOMAIN Closes
      BY <3>1, Taking
    <3>3. gOpen' \in Seq(Opening) /\ Fits(d, gOpen', none)
      BY <3>1, <3>2, Ignored
    <3> HIDE DEF d, top, s, none
    <3> QED BY <1>2, <1>4, <2>2, <3>1, <3>3, PushedBack
  <2> HIDE DEF p
  <2> QED BY <1>1, <2>1, <2>3, <2>4, Continues
<1> QED BY <1>5, <1>6, <1>7, <1>8, <1>9 DEF TopLevel, gAt

LEMMA NewKeeps == ASSUME Inv, New PROVE Inv'
<1>1. gStack = <<<<"topLevel">>>> /\ gStack' = gStack /\ gOpen = <<>> /\ gOpen' = <<>> /\ gDb' = gDb /\ gPc' = "run"
  BY DEF New, Inv
<1>2. gTok' \in Kinds /\ gHeader'.kinds \subseteq Kinds
  BY DEF New, Kinds
<1>3. Types'
  BY <1>1, <1>2 DEF Inv, Types
<1>4. ~Calling("var")'
  BY <1>1 DEF Calling, Kind
<1>5. Along(gStack, gOpen)
  <2> DEFINE f == [i \in 1 .. 2 |-> <<>>]
             s == <<<<"topLevel">>>>
  <2>1. Fits(<<"topLevel">>, <<>>, <<>>) /\ <<"topLevel">> # <<"members">>
    BY Brackets DEF Fits, Opens, Ends, Skips
  <2>2. f \in [1 .. 2 -> Seq(Opening)] /\ f[1] = <<>> /\ f[2] = <<>>
    OBVIOUS
  <2>3. Len(s) = 1 /\ s[1] = <<"topLevel">>
    OBVIOUS
  <2> HIDE DEF f, s
  <2>4. \A i \in 1 .. Len(s) : Fits(s[i], f[i], f[i + 1]) /\ s[i] # <<"members">>
    <3>1. 1 + 1 = 2 /\ \A i \in 1 .. Len(s) : i = 1
      BY <2>3
    <3> QED BY <2>1, <2>2, <2>3, <3>1, Zenon
  <2>5. f \in [1 .. Len(s) + 1 -> Seq(Opening)] /\ f[1] = <<>> /\ f[Len(s) + 1] = <<>>
    BY <2>2, <2>3
  <2>6. Along(s, <<>>)
    BY <2>4, <2>5 DEF Along
  <2> QED BY <1>1, <2>6 DEF s
<1> QED BY <1>1, <1>3, <1>4, <1>5 DEF Inv

-----------------------------------------------------------------------------
(* The theorems                                                            *)

(* A header's parser starts with nothing open and all still to do.        *)
THEOREM InitInv == Init => Inv
<1> SUFFICES ASSUME Init PROVE Inv
  OBVIOUS
<1>1. gStack = <<<<"topLevel">>>> /\ <<"topLevel">> \in Entry /\ gPc = "start" /\ gOpen = <<>>
  BY DEF Init, Entry, Functions1
<1>2. gStack \in Seq(Entry) /\ Tail(gStack) = <<>> /\ Tail(gStack) \in Seq(Below)
  BY <1>1
<1>3. gTok \in Kinds /\ gHeader.kinds \subseteq Kinds /\ gOpen \in Seq(Opening)
  BY DEF Init, Kinds
<1>4. gDb \in Declarations
  BY DEF Init, NoDeclarations, Declarations
<1> QED BY <1>1, <1>2, <1>3, <1>4 DEF Inv, Types, Calling

(* Every step keeps each entry of the call stack in step with what will be *)
(* open when it is reached (glue/parser.rs).                               *)
THEOREM NextInv == Inv /\ [Next]_gVars => Inv'
<1> SUFFICES ASSUME Inv, [Next]_gVars PROVE Inv'
  OBVIOUS
<1>1. CASE UNCHANGED gVars
  BY <1>1 DEF gVars, Inv, Types, Sane, Calling, Kind
<1>2. CASE Next
  BY <1>2, NewKeeps, ExpectedKeeps, MaybeKeeps, TopLevelKeeps, VarKeeps, NewVarKeeps, TypeKeeps,
     UnknownTypeKeeps, ClassKeeps, ClassBodyKeeps, MembersKeeps, ClassEndKeeps, FunKeeps,
     ParamsKeeps, ParamEndKeeps, FunBodyKeeps, EatUntilKeeps, DoIgnoreKeeps
     DEF Next
<1> QED BY <1>1, <1>2

(* Where a declaration is looked for, all brackets are closed, and PS_VAR  *)
(* declares a member exactly inside a struct (parser.rs: top_level, var    *)
(* and class).                                                             *)
THEOREM InvAligned == Inv => Aligned
<1> SUFFICES ASSUME Inv, gOpen # <<"bad">>, ~gDb.nested, ~gDb.unended
             PROVE  /\ Calling("topLevel") /\ ~gAt("Eof") => gOpen = <<>>
                    /\ Calling("var") => (Arg(1) <=> gOpen # <<>>)
  BY DEF Aligned
<1>1. ASSUME Calling("topLevel"), ~gAt("Eof") PROVE gOpen = <<>>
  <2>1. Sane /\ gPc = "run" /\ gStack # <<>> /\ gStack[1][1] = "topLevel"
    BY <1>1 DEF Calling, Kind, Sane, gAt
  <2> QED BY <2>1, Runs, PlainNeutral DEF Neutral, Fits, Functions1
<1>2. ASSUME Calling("var") PROVE Arg(1) <=> gOpen # <<>>
  <2>1. Sane /\ gPc = "run" /\ gStack # <<>> /\ gStack[1][1] = "var"
    BY <1>2 DEF Calling, Kind, Sane, Inv
  <2>2. Neutral(gStack[1])
    BY <2>1, Runs, PlainNeutral
  <2>3. PICK b \in Seq(Opening) : Fits(gStack[1], gOpen, b)
    BY <2>1, Runs
  <2>4. gStack[1][2] <=> gOpen # <<>>
    BY <2>1, <2>2, <2>3 DEF Neutral, Fits
  <2> QED BY <2>4 DEF Arg
<1> QED BY <1>1, <1>2

(* Whatever the header, and whichever errors it has, the parser is in step *)
(* with its brackets where a declaration is looked for.                    *)
THEOREM GlueAligned == Spec => []Aligned
<1>1. Spec => []Inv
  BY InitInv, NextInv, PTL DEF Spec
<1> QED BY <1>1, InvAligned, PTL
=============================================================================
