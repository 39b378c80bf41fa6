---------------------------- MODULE SyntaxProofs ----------------------------
(***************************************************************************)
(* The front end of the compiler, for sources and headers of any length:   *)
(* the parser's own state matches what is being parsed (Balanced), and the *)
(* parser of C headers keeps in step with their brackets (Aligned, from    *)
(* GlueProofs).                                                            *)
(*                                                                         *)
(* Balanced counts the entries of the call stack that will put something   *)
(* back.  It is not inductive as it stands: LeaveClosure, FunEnd and       *)
(* MemberEnd restore what their entry of the stack was given, so the       *)
(* invariant also says of every such entry that what it was given is right *)
(* for the entries under it (Saved), and that what is handed on to be done *)
(* later (the option of "maybe", the element of "list") is not one of them *)
(* (Sound).  An entry that neither puts anything back nor is counted is    *)
(* Plain: most actions replace one plain entry by others, and one lemma    *)
(* (GoOn) serves them all.                                                 *)
(***************************************************************************)
EXTENDS Syntax, FiniteSetTheorems, SequenceTheorems, WellFoundedInduction, TLAPS

GP == INSTANCE GlueProofs

(* The entries that put back a scope, a closure, the scope name or         *)
(* in_member_initializer.                                                  *)
Scopes == {"popScope", "funEnd"}
Closures == {"leaveClosure", "forVar", "forBody", "funEnd"}
Names == {"funOpen", "funEnd", "classEnd"}
Tracked == Scopes \cup Closures \cup Names \cup {"memberEnd"}

(* How many entries of a stack are of some kinds.                          *)
CountIn(kinds, s) == Cardinality({i \in DOMAIN s : s[i][1] \in kinds})

(* What an entry will put back is right for the entries after it.          *)
PutsBack(e, rest) ==
    /\ e[1] \in {"leaveClosure", "forVar", "forBody"} => e[2] = CountIn(Closures, rest)
    /\ e[1] = "funEnd" => e[4] = CountIn(Closures, rest) /\ e[5] \subseteq {CountIn({"funEnd"}, rest)}
    /\ e[1] = "memberEnd" => e[2] = (CountIn({"memberEnd"}, rest) > 0)

Saved(s) == \A i \in 1 .. Len(s) : PutsBack(s[i], SubSeq(s, i + 1, Len(s)))

Agrees(s) ==
    /\ Len(env.scopes) = CountIn(Scopes, s)
    /\ env.closure = CountIn(Closures, s)
    /\ Len(env.path) = CountIn(Names, s)
    /\ env.funVars \subseteq {CountIn({"funEnd"}, s)}
    /\ env.inMember = (CountIn({"memberEnd"}, s) > 0)
    /\ Saved(s)

(* The kinds of steps that never put anything back.                        *)
PlainKinds == {"tok", "softTok", "expression", "become", "comma", "infix", "atom", "glom", "printArgs",
    "jumpValue", "paren", "ident", "assigned", "callEnd", "indexEnd", "member", "chainEnd", "new", "newInit",
    "dotted", "ifBody", "elseBody", "loopBody", "for", "typ", "typPrefix", "fail", "var", "varName", "varType",
    "varValue", "declare", "block", "stmts", "stmt", "stmtEnd", "parameter", "lambdaParameter", "fun", "funName",
    "funReturn", "funBody", "class", "className", "members", "methodEnd"}

(* The steps of the options that are there to be looked for.               *)
Optional == {<<>>, <<<<"maybe", "WholeNumber", <<>>>>>>, <<<<"elseBody">>>>, <<<<"typ", 0>>>>}
Sound(e) ==
    /\ e[1] = "maybe" => e[3] \in Optional
    /\ e[1] = "list" => e[2] \in PlainKinds

-----------------------------------------------------------------------------
(* Sequences, and how many of their entries are of some kinds              *)

IsSequence(s) == \E D : s \in Seq(D)

LEMMA SequenceFacts ==
    ASSUME NEW s, IsSequence(s)
    PROVE  /\ Len(s) \in Nat /\ DOMAIN s = 1 .. Len(s)
           /\ (s = <<>> <=> Len(s) = 0)
           /\ \A x : /\ IsSequence(Append(s, x)) /\ Len(Append(s, x)) = Len(s) + 1
           /\ s # <<>> => IsSequence(Front(s)) /\ Len(Front(s)) = Len(s) - 1
           /\ s # <<>> => /\ IsSequence(Tail(s)) /\ Len(Tail(s)) = Len(s) - 1
                          /\ \A i \in 1 .. Len(s) - 1 : Tail(s)[i] = s[i + 1]
<1>1. PICK D : s \in Seq(D)
  BY DEF IsSequence
<1>2. Len(s) \in Nat /\ DOMAIN s = 1 .. Len(s) /\ (s = <<>> <=> Len(s) = 0)
  BY <1>1
<1>3. ASSUME NEW x PROVE IsSequence(Append(s, x)) /\ Len(Append(s, x)) = Len(s) + 1
  <2>1. s \in Seq(D \cup {x})
    BY <1>1, SeqMonotonic
  <2>2. Append(s, x) \in Seq(D \cup {x}) /\ Len(Append(s, x)) = Len(s) + 1
    BY <2>1
  <2> QED BY <2>2 DEF IsSequence
<1>4. ASSUME s # <<>> PROVE IsSequence(Front(s)) /\ Len(Front(s)) = Len(s) - 1
  <2>1. Front(s) \in Seq(D) /\ Len(Front(s)) = Len(s) - 1
    BY <1>1, <1>2, <1>4 DEF Front
  <2> QED BY <2>1 DEF IsSequence
<1>5. ASSUME s # <<>>
      PROVE  /\ IsSequence(Tail(s)) /\ Len(Tail(s)) = Len(s) - 1
             /\ \A i \in 1 .. Len(s) - 1 : Tail(s)[i] = s[i + 1]
  <2>1. Tail(s) \in Seq(D) /\ Len(Tail(s)) = Len(s) - 1 /\ \A i \in 1 .. Len(Tail(s)) : Tail(s)[i] = s[i + 1]
    BY <1>1, <1>5, HeadTailProperties
  <2> QED BY <2>1 DEF IsSequence
<1> QED BY <1>2, <1>3, <1>4, <1>5

LEMMA Concatenated ==
    ASSUME NEW p, IsSequence(p), NEW s, IsSequence(s)
    PROVE  /\ IsSequence(p \o s) /\ Len(p \o s) = Len(p) + Len(s)
           /\ \A i \in 1 .. Len(p) : (p \o s)[i] = p[i]
           /\ \A i \in 1 .. Len(s) : (p \o s)[Len(p) + i] = s[i]
<1>1. PICK D, E : p \in Seq(D) /\ s \in Seq(E)
  BY DEF IsSequence
<1>2. p \in Seq(D \cup E) /\ s \in Seq(D \cup E)
  BY <1>1, SeqMonotonic
<1>3. Len(p) \in Nat /\ Len(s) \in Nat
  BY <1>1
<1>4. /\ p \o s \in Seq(D \cup E) /\ Len(p \o s) = Len(p) + Len(s)
      /\ \A i \in 1 .. Len(p) + Len(s) : (p \o s)[i] = IF i <= Len(p) THEN p[i] ELSE s[i - Len(p)]
  BY <1>2, ConcatProperties
<1>5. \A i \in 1 .. Len(p) : (p \o s)[i] = p[i]
  BY <1>3, <1>4
<1>6. ASSUME NEW i \in 1 .. Len(s) PROVE (p \o s)[Len(p) + i] = s[i]
  <2>1. Len(p) + i \in 1 .. Len(p) + Len(s) /\ ~(Len(p) + i <= Len(p)) /\ (Len(p) + i) - Len(p) = i
    BY <1>3
  <2> QED BY <1>4, <2>1
<1> QED BY <1>4, <1>5, <1>6 DEF IsSequence

(* Two sequences with the same entries.                                    *)
LEMMA SameEntries ==
    ASSUME NEW s, IsSequence(s), NEW t, IsSequence(t), Len(s) = Len(t),
           \A i \in 1 .. Len(s) : s[i] = t[i]
    PROVE  s = t
<1>1. PICK D, E : s \in Seq(D) /\ t \in Seq(E)
  BY DEF IsSequence
<1>2. s \in Seq(D \cup E) /\ t \in Seq(D \cup E)
  BY <1>1, SeqMonotonic
<1> QED BY <1>2, SeqEqual

After(n, K, t) == {i \in DOMAIN t : i > n /\ t[i][1] \in K}

(* The entries of t after the first n are those of s.                      *)
LEMMA Shifted ==
    ASSUME NEW s, IsSequence(s), NEW t, IsSequence(t), NEW n \in Nat, Len(t) = n + Len(s),
           \A i \in 1 .. Len(s) : t[n + i] = s[i], NEW K
    PROVE  /\ IsFiniteSet(After(n, K, t))
           /\ Cardinality(After(n, K, t)) = CountIn(K, s)
           /\ CountIn(K, s) \in Nat
<1> DEFINE A == {i \in DOMAIN s : s[i][1] \in K}
           B == {i \in DOMAIN t : i > n /\ t[i][1] \in K}
           f == [i \in A |-> n + i]
<1>1. Len(s) \in Nat /\ DOMAIN s = 1 .. Len(s) /\ DOMAIN t = 1 .. n + Len(s)
  BY SequenceFacts
<1>2. IsFiniteSet(A) /\ Cardinality(A) \in Nat
  <2>1. IsFiniteSet(1 .. Len(s)) /\ A \in SUBSET (1 .. Len(s))
    BY <1>1, FS_Interval
  <2> QED BY <2>1, FS_Subset, FS_CardinalityType
<1>3. ASSUME NEW i \in A PROVE n + i \in B
  <2>1. i \in 1 .. Len(s) /\ s[i][1] \in K /\ t[n + i] = s[i]
    BY <1>1, <1>3
  <2>2. n + i \in 1 .. n + Len(s) /\ n + i > n
    BY <1>1, <2>1
  <2> QED BY <1>1, <2>1, <2>2
<1>4. ASSUME NEW j \in B PROVE j - n \in A /\ n + (j - n) = j
  <2>1. j \in 1 .. n + Len(s) /\ j > n /\ t[j][1] \in K
    BY <1>1, <1>4
  <2>2. j - n \in 1 .. Len(s) /\ n + (j - n) = j
    BY <1>1, <2>1
  <2>3. t[j] = s[j - n]
    BY <2>2
  <2> QED BY <1>1, <2>1, <2>2, <2>3
<1>5. f \in Bijection(A, B)
  <2>1. f \in [A -> B]
    BY <1>3
  <2>2. \A i, j \in A : f[i] = f[j] => i = j
    <3>1. \A i \in A : i \in Nat /\ f[i] = n + i
      BY <1>1
    <3> QED BY <3>1
  <2>3. \A j \in B : \E i \in A : f[i] = j
    BY <1>4
  <2> HIDE DEF A, B, f
  <2> QED BY <2>1, <2>2, <2>3 DEF Bijection, Injection, Surjection, IsInjective
<1>6. ExistsBijection(A, B)
  BY <1>5 DEF ExistsBijection
<1> HIDE DEF A, B
<1>7. IsFiniteSet(B) /\ Cardinality(B) = Cardinality(A)
  BY <1>2, <1>6, FS_Bijection
<1> QED BY <1>2, <1>7 DEF A, B, CountIn, After

(* One entry more.                                                         *)
LEMMA CountCons ==
    ASSUME NEW s, IsSequence(s), NEW e, NEW K
    PROVE  /\ CountIn(K, <<e>> \o s) = IF e[1] \in K THEN CountIn(K, s) + 1 ELSE CountIn(K, s)
           /\ CountIn(K, s) \in Nat /\ IsSequence(<<e>> \o s)
<1> DEFINE t == <<e>> \o s
           B == After(1, K, t)
           C == {i \in DOMAIN t : t[i][1] \in K}
<1>1. <<e>> \in Seq({e}) /\ IsSequence(<<e>>) /\ Len(<<e>>) = 1 /\ <<e>>[1] = e
  <2>1. <<e>> \in Seq({e}) /\ Len(<<e>>) = 1 /\ <<e>>[1] = e
    OBVIOUS
  <2> QED BY <2>1 DEF IsSequence
<1>2. IsSequence(t) /\ Len(t) = 1 + Len(s) /\ t[1] = e /\ \A i \in 1 .. Len(s) : t[1 + i] = s[i]
  BY <1>1, Concatenated
<1> HIDE DEF t
<1>3. IsFiniteSet(B) /\ Cardinality(B) = CountIn(K, s) /\ CountIn(K, s) \in Nat
  BY <1>2, Shifted
<1>4. DOMAIN t = 1 .. Len(t) /\ Len(s) \in Nat
  BY <1>2, SequenceFacts
<1>5. C = IF e[1] \in K THEN B \cup {1} ELSE B
  BY <1>2, <1>4 DEF After
<1>6. 1 \notin B
  BY DEF After
<1> HIDE DEF B, C
<1>7. Cardinality(C) = IF e[1] \in K THEN CountIn(K, s) + 1 ELSE CountIn(K, s)
  BY <1>3, <1>5, <1>6, FS_AddElement
<1> QED BY <1>2, <1>3, <1>7 DEF CountIn, C, t

LEMMA CountEmpty == \A K : CountIn(K, <<>>) = 0
<1>1. \A K : {i \in DOMAIN <<>> : <<>>[i][1] \in K} = {}
  OBVIOUS
<1> QED BY <1>1, FS_EmptySet DEF CountIn

LEMMA SubSeqShifted ==
    ASSUME NEW s, IsSequence(s), NEW t, IsSequence(t), NEW n \in Nat, Len(t) = n + Len(s),
           \A i \in 1 .. Len(s) : t[n + i] = s[i], NEW i \in 0 .. Len(s)
    PROVE  SubSeq(t, (n + i) + 1, Len(t)) = SubSeq(s, i + 1, Len(s))
<1>1. PICK D, E : s \in Seq(D) /\ t \in Seq(E)
  BY DEF IsSequence
<1>2. Len(s) \in Nat /\ Len(t) \in Nat /\ DOMAIN s = 1 .. Len(s) /\ DOMAIN t = 1 .. Len(t)
  BY <1>1
<1>3. /\ SubSeq(s, i + 1, Len(s)) \in Seq(D) /\ Len(SubSeq(s, i + 1, Len(s))) = Len(s) - i
      /\ \A j \in 1 .. Len(s) - i : SubSeq(s, i + 1, Len(s))[j] = s[i + j]
  <2>1. \A j \in i + 1 .. Len(s) : s[j] \in D
    BY <1>1, <1>2
  <2>2. i + 1 \in Int /\ Len(s) \in Int
    BY <1>2
  <2>3. /\ SubSeq(s, i + 1, Len(s)) \in Seq(D)
        /\ Len(SubSeq(s, i + 1, Len(s))) = IF i + 1 <= Len(s) THEN Len(s) - (i + 1) + 1 ELSE 0
        /\ \A j \in 1 .. Len(s) - (i + 1) + 1 : SubSeq(s, i + 1, Len(s))[j] = s[(i + 1) + j - 1]
    BY <2>1, <2>2, SubSeqProperties
  <2>4. Len(s) - (i + 1) + 1 = Len(s) - i /\ (~(i + 1 <= Len(s)) => Len(s) - i = 0)
    <3> DEFINE l == Len(s)
    <3>1. l \in Int /\ i \in Int /\ i <= l
      BY <1>2
    <3> HIDE DEF l
    <3>2. l - (i + 1) + 1 = l - i /\ (~(i + 1 <= l) => l - i = 0)
      BY <3>1
    <3> QED BY <3>2 DEF l
  <2>5. \A j \in 1 .. Len(s) - i : (i + 1) + j - 1 = i + j
    <3> SUFFICES ASSUME NEW j \in 1 .. Len(s) - i PROVE (i + 1) + j - 1 = i + j
      OBVIOUS
    <3>1. i \in Int /\ j \in Int
      BY <1>2
    <3> QED BY <3>1
  <2> QED BY <2>3, <2>4, <2>5
<1>4. /\ SubSeq(t, (n + i) + 1, Len(t)) \in Seq(E) /\ Len(SubSeq(t, (n + i) + 1, Len(t))) = Len(s) - i
      /\ \A j \in 1 .. Len(s) - i : SubSeq(t, (n + i) + 1, Len(t))[j] = t[(n + i) + j]
  <2>1. \A j \in (n + i) + 1 .. Len(t) : t[j] \in E
    BY <1>1, <1>2
  <2>2. (n + i) + 1 \in Int /\ Len(t) \in Int
    BY <1>2
  <2>3. /\ SubSeq(t, (n + i) + 1, Len(t)) \in Seq(E)
        /\ Len(SubSeq(t, (n + i) + 1, Len(t))) = IF (n + i) + 1 <= Len(t) THEN Len(t) - ((n + i) + 1) + 1 ELSE 0
        /\ \A j \in 1 .. Len(t) - ((n + i) + 1) + 1 : SubSeq(t, (n + i) + 1, Len(t))[j] = t[((n + i) + 1) + j - 1]
    <3> DEFINE m == (n + i) + 1
               l == Len(t)
    <3>1. m \in Int /\ l \in Int /\ \A j \in m .. l : t[j] \in E
      BY <2>1, <2>2
    <3> HIDE DEF m, l
    <3>2. /\ SubSeq(t, m, l) \in Seq(E) /\ Len(SubSeq(t, m, l)) = IF m <= l THEN l - m + 1 ELSE 0
          /\ \A j \in 1 .. l - m + 1 : SubSeq(t, m, l)[j] = t[m + j - 1]
      BY <3>1, SubSeqProperties
    <3> QED BY <3>2 DEF m, l
  <2>4. Len(t) - ((n + i) + 1) + 1 = Len(s) - i /\ (~((n + i) + 1 <= Len(t)) => Len(s) - i = 0)
    <3> DEFINE l == Len(s)
    <3>1. l \in Int /\ i \in Int /\ n \in Int /\ i <= l /\ Len(t) = n + l
      BY <1>2
    <3> HIDE DEF l
    <3>2. (n + l) - ((n + i) + 1) + 1 = l - i /\ (~((n + i) + 1 <= n + l) => l - i = 0)
      BY <3>1
    <3> QED BY <3>1, <3>2 DEF l
  <2>5. \A j \in 1 .. Len(s) - i : ((n + i) + 1) + j - 1 = (n + i) + j
    <3> SUFFICES ASSUME NEW j \in 1 .. Len(s) - i PROVE ((n + i) + 1) + j - 1 = (n + i) + j
      OBVIOUS
    <3>1. n \in Int /\ i \in Int /\ j \in Int
      BY <1>2
    <3> QED BY <3>1
  <2> QED BY <2>3, <2>4, <2>5
<1>5. \A j \in 1 .. Len(s) - i : t[(n + i) + j] = s[i + j]
  <2>1. \A j \in 1 .. Len(s) - i : i + j \in 1 .. Len(s) /\ (n + i) + j = n + (i + j)
    BY <1>2
  <2> QED BY <2>1
<1>6. IsSequence(SubSeq(s, i + 1, Len(s))) /\ IsSequence(SubSeq(t, (n + i) + 1, Len(t)))
  BY <1>3, <1>4 DEF IsSequence
<1> QED BY <1>3, <1>4, <1>5, <1>6, SameEntries

LEMMA FromStart == ASSUME NEW s, IsSequence(s) PROVE SubSeq(s, 1, Len(s)) = s
<1>1. PICK D : s \in Seq(D)
  BY DEF IsSequence
<1> QED BY <1>1, SubSeqFull

(* A sequence is its first entry and the others.                           *)
LEMMA HeadAndTail ==
    ASSUME NEW s, IsSequence(s), s # <<>>
    PROVE  IsSequence(Tail(s)) /\ s = <<s[1]>> \o Tail(s)
<1> DEFINE h == <<s[1]>>
           r == Tail(s)
<1>1. h \in Seq({s[1]}) /\ Len(h) = 1 /\ h[1] = s[1]
  OBVIOUS
<1>2. IsSequence(h)
  BY <1>1 DEF IsSequence
<1>3. IsSequence(r) /\ Len(r) = Len(s) - 1 /\ Len(s) \in Nat /\ \A i \in 1 .. Len(s) - 1 : r[i] = s[i + 1]
  BY SequenceFacts
<1> HIDE DEF h, r
<1>4. /\ IsSequence(h \o r) /\ Len(h \o r) = Len(s) /\ (h \o r)[1] = s[1]
      /\ \A i \in 1 .. Len(s) - 1 : (h \o r)[1 + i] = s[i + 1]
  <2>1. /\ IsSequence(h \o r) /\ Len(h \o r) = 1 + Len(r)
        /\ \A i \in 1 .. 1 : (h \o r)[i] = h[i]
        /\ \A i \in 1 .. Len(r) : (h \o r)[1 + i] = r[i]
    BY <1>1, <1>2, <1>3, Concatenated
  <2> QED BY <1>1, <1>3, <2>1
<1>5. ASSUME NEW i \in 1 .. Len(s) PROVE (h \o r)[i] = s[i]
  <2>1. CASE i = 1
    BY <1>4, <2>1
  <2>2. CASE i # 1
    <3>1. i - 1 \in 1 .. Len(s) - 1 /\ 1 + (i - 1) = i /\ (i - 1) + 1 = i
      BY <1>3, <2>2
    <3> QED BY <1>4, <3>1
  <2> QED BY <2>1, <2>2
<1>6. h \o r = s
  BY <1>4, <1>5, SameEntries
<1> QED BY <1>3, <1>6 DEF h, r

-----------------------------------------------------------------------------
(* What the entries put back                                               *)

LEMMA SavedCons ==
    ASSUME NEW s, IsSequence(s), NEW e
    PROVE  Saved(<<e>> \o s) <=> Saved(s) /\ PutsBack(e, s)
<1> DEFINE h == <<e>>
           t == h \o s
<1>1. h \in Seq({e}) /\ Len(h) = 1 /\ h[1] = e
  OBVIOUS
<1>2. IsSequence(h)
  BY <1>1 DEF IsSequence
<1> HIDE DEF h
<1>3. IsSequence(t) /\ Len(t) = 1 + Len(s) /\ t[1] = e /\ \A i \in 1 .. Len(s) : t[1 + i] = s[i]
  BY <1>1, <1>2, Concatenated
<1>4. Len(s) \in Nat
  BY SequenceFacts
<1> HIDE DEF t
<1>5. \A i \in 0 .. Len(s) : SubSeq(t, (1 + i) + 1, Len(t)) = SubSeq(s, i + 1, Len(s))
  BY <1>3, SubSeqShifted
<1>6. SubSeq(t, 1 + 1, Len(t)) = s
  <2>1. 0 \in 0 .. Len(s) /\ 1 + 0 = 1 /\ 0 + 1 = 1
    BY <1>4
  <2>2. SubSeq(t, (1 + 0) + 1, Len(t)) = SubSeq(s, 0 + 1, Len(s))
    BY <1>5, <2>1
  <2> QED BY <2>1, <2>2, FromStart
<1>7. ASSUME Saved(t) PROVE Saved(s) /\ PutsBack(e, s)
  <2>1. 1 \in 1 .. Len(t)
    BY <1>3, <1>4
  <2>2. PutsBack(e, s)
    BY <1>3, <1>6, <1>7, <2>1 DEF Saved
  <2>3. ASSUME NEW i \in 1 .. Len(s) PROVE PutsBack(s[i], SubSeq(s, i + 1, Len(s)))
    <3>1. 1 + i \in 1 .. Len(t) /\ i \in 0 .. Len(s)
      BY <1>3, <1>4
    <3>2. PutsBack(t[1 + i], SubSeq(t, (1 + i) + 1, Len(t)))
      BY <1>7, <3>1 DEF Saved
    <3> QED BY <1>3, <1>5, <3>1, <3>2
  <2> QED BY <2>2, <2>3 DEF Saved
<1>8. ASSUME Saved(s), PutsBack(e, s) PROVE Saved(t)
  <2> SUFFICES ASSUME NEW i \in 1 .. Len(t) PROVE PutsBack(t[i], SubSeq(t, i + 1, Len(t)))
    BY DEF Saved
  <2>1. CASE i = 1
    BY <1>3, <1>6, <1>8, <2>1
  <2>2. CASE i # 1
    <3>1. i - 1 \in 1 .. Len(s) /\ i - 1 \in 0 .. Len(s) /\ 1 + (i - 1) = i
      BY <1>3, <1>4, <2>2
    <3>2. PutsBack(s[i - 1], SubSeq(s, (i - 1) + 1, Len(s)))
      BY <1>8, <3>1 DEF Saved
    <3>3. t[1 + (i - 1)] = s[i - 1] /\ SubSeq(t, (1 + (i - 1)) + 1, Len(t)) = SubSeq(s, (i - 1) + 1, Len(s))
      BY <1>3, <1>5, <3>1
    <3> QED BY <3>1, <3>2, <3>3
  <2> QED BY <2>1, <2>2
<1> QED BY <1>7, <1>8 DEF h, t

(* Steps that neither put anything back nor are counted.                   *)
Plain(e) == e[1] \notin Tracked /\ Sound(e)
PlainSteps(p) == \E D : p \in Seq(D) /\ \A e \in D : Plain(e)

LEMMA PlainFacts ==
    ASSUME NEW p, PlainSteps(p)
    PROVE  IsSequence(p) /\ \A i \in 1 .. Len(p) : Plain(p[i])
<1>1. PICK D : p \in Seq(D) /\ \A e \in D : Plain(e)
  BY DEF PlainSteps
<1>2. \A i \in 1 .. Len(p) : p[i] \in D
  BY <1>1
<1> QED BY <1>1, <1>2 DEF IsSequence

LEMMA PlainPushed ==
    ASSUME NEW p, PlainSteps(p), NEW s, IsSequence(s)
    PROVE  /\ IsSequence(p \o s)
           /\ \A K \in SUBSET Tracked : CountIn(K, p \o s) = CountIn(K, s)
           /\ Saved(s) => Saved(p \o s)
           /\ (\A i \in 1 .. Len(s) : Sound(s[i])) => \A i \in 1 .. Len(p \o s) : Sound((p \o s)[i])
<1> DEFINE t == p \o s
           n == Len(p)
<1>1. IsSequence(p) /\ n \in Nat /\ Len(s) \in Nat /\ \A i \in 1 .. n : Plain(p[i])
  BY PlainFacts, SequenceFacts
<1>2. /\ IsSequence(t) /\ Len(t) = n + Len(s)
      /\ \A i \in 1 .. n : t[i] = p[i]
      /\ \A i \in 1 .. Len(s) : t[n + i] = s[i]
  BY <1>1, Concatenated
<1> HIDE DEF t, n
<1>3. \A i \in 1 .. Len(t) : IF i <= n THEN i \in 1 .. n ELSE i - n \in 1 .. Len(s) /\ n + (i - n) = i
  BY <1>1, <1>2
<1>4. DOMAIN t = 1 .. Len(t)
  BY <1>2, SequenceFacts
<1>5. ASSUME NEW K \in SUBSET Tracked PROVE CountIn(K, t) = CountIn(K, s)
  <2>1. \A i \in 1 .. n : t[i][1] \notin K
    BY <1>1, <1>2 DEF Plain
  <2>2. {i \in DOMAIN t : t[i][1] \in K} = After(n, K, t)
    <3>1. \A i \in DOMAIN t : t[i][1] \in K => i > n
      BY <1>1, <1>3, <1>4, <2>1
    <3> QED BY <3>1 DEF After
  <2>3. Cardinality(After(n, K, t)) = CountIn(K, s)
    BY <1>1, <1>2, Shifted
  <2> QED BY <2>2, <2>3 DEF CountIn
<1>6. ASSUME Saved(s) PROVE Saved(t)
  <2> SUFFICES ASSUME NEW i \in 1 .. Len(t) PROVE PutsBack(t[i], SubSeq(t, i + 1, Len(t)))
    BY DEF Saved
  <2>1. CASE i <= n
    <3>1. t[i][1] \notin Tracked
      BY <1>1, <1>2, <1>3, <2>1 DEF Plain
    <3> QED BY <3>1 DEF PutsBack, Tracked, Closures, Scopes, Names
  <2>2. CASE ~(i <= n)
    <3>1. i - n \in 1 .. Len(s) /\ i - n \in 0 .. Len(s) /\ n + (i - n) = i
      BY <1>1, <1>3, <2>2
    <3>2. SubSeq(t, (n + (i - n)) + 1, Len(t)) = SubSeq(s, (i - n) + 1, Len(s))
      BY <1>1, <1>2, <3>1, SubSeqShifted
    <3>3. t[n + (i - n)] = s[i - n]
      BY <1>2, <3>1
    <3>4. PutsBack(s[i - n], SubSeq(s, (i - n) + 1, Len(s)))
      BY <1>6, <3>1 DEF Saved
    <3> QED BY <3>1, <3>2, <3>3, <3>4
  <2> QED BY <2>1, <2>2
<1>7. ASSUME \A i \in 1 .. Len(s) : Sound(s[i]), NEW i \in 1 .. Len(t) PROVE Sound(t[i])
  <2>1. CASE i <= n
    BY <1>1, <1>2, <1>3, <2>1 DEF Plain
  <2>2. CASE ~(i <= n)
    <3>1. i - n \in 1 .. Len(s) /\ n + (i - n) = i
      BY <1>3, <2>2
    <3>2. t[n + (i - n)] = s[i - n]
      BY <1>2, <3>1
    <3> QED BY <1>7, <3>1, <3>2
  <2> QED BY <2>1, <2>2
<1> QED BY <1>2, <1>5, <1>6, <1>7 DEF t

LEMMA PlainEntries ==
    /\ \A k \in PlainKinds : /\ Plain(<<k>>)
                             /\ \A x : Plain(<<k, x>>)
                             /\ \A x, y : Plain(<<k, x, y>>)
                             /\ \A x, y, z : Plain(<<k, x, y, z>>)
                             /\ \A x, y, z, w : Plain(<<k, x, y, z, w>>)
    /\ \A t : \A o \in Optional : Plain(<<"maybe", t, o>>)
    /\ \A k \in PlainKinds : \A t, c : Plain(List(k, t, c))
    /\ \A t : Plain(Tok(t)) /\ Plain(SoftTok(t)) /\ Plain(Become(t))
    /\ Plain(Expr)
<1>1. PlainKinds \cap Tracked = {} /\ "maybe" \notin PlainKinds \cup Tracked /\ "list" \notin PlainKinds \cup Tracked
  BY DEF PlainKinds, Tracked, Scopes, Closures, Names
<1>2. "tok" \in PlainKinds /\ "softTok" \in PlainKinds /\ "become" \in PlainKinds /\ "expression" \in PlainKinds
  BY DEF PlainKinds
<1>3. ASSUME NEW e, e[1] \in PlainKinds PROVE Plain(e)
  BY <1>1, <1>3 DEF Plain, Sound
<1>4. ASSUME NEW k \in PlainKinds
      PROVE  /\ Plain(<<k>>)
             /\ \A x : Plain(<<k, x>>)
             /\ \A x, y : Plain(<<k, x, y>>)
             /\ \A x, y, z : Plain(<<k, x, y, z>>)
             /\ \A x, y, z, w : Plain(<<k, x, y, z, w>>)
  <2>1. /\ <<k>>[1] = k
        /\ \A x : <<k, x>>[1] = k
        /\ \A x, y : <<k, x, y>>[1] = k
        /\ \A x, y, z : <<k, x, y, z>>[1] = k
        /\ \A x, y, z, w : <<k, x, y, z, w>>[1] = k
    OBVIOUS
  <2> QED BY <1>3, <2>1, Zenon
<1>5. ASSUME NEW t, NEW o \in Optional PROVE Plain(<<"maybe", t, o>>)
  <2>1. <<"maybe", t, o>>[1] = "maybe" /\ <<"maybe", t, o>>[3] = o
    OBVIOUS
  <2> QED BY <1>1, <2>1 DEF Plain, Sound
<1>6. ASSUME NEW k \in PlainKinds, NEW t, NEW c PROVE Plain(List(k, t, c))
  <2>1. List(k, t, c)[1] = "list" /\ List(k, t, c)[2] = k
    BY DEF List
  <2> QED BY <1>1, <2>1 DEF Plain, Sound
<1>7. \A t : Plain(Tok(t)) /\ Plain(SoftTok(t)) /\ Plain(Become(t))
  BY <1>2, <1>4 DEF Tok, SoftTok, Become
<1>8. Plain(Expr)
  BY <1>2, <1>4 DEF Expr
<1> QED BY <1>4, <1>5, <1>6, <1>7, <1>8

LEMMA OfPlain == ASSUME NEW p, NEW D, p \in Seq(D), \A e \in D : Plain(e) PROVE PlainSteps(p)
BY DEF PlainSteps

LEMMA PlainLists ==
    /\ PlainSteps(<<>>)
    /\ \A a : Plain(a) => PlainSteps(<<a>>)
    /\ \A a, b : Plain(a) /\ Plain(b) => PlainSteps(<<a, b>>)
    /\ \A a, b, c : Plain(a) /\ Plain(b) /\ Plain(c) => PlainSteps(<<a, b, c>>)
    /\ \A a, b, c, d : Plain(a) /\ Plain(b) /\ Plain(c) /\ Plain(d) => PlainSteps(<<a, b, c, d>>)
    /\ \A a, b, c, d, e : Plain(a) /\ Plain(b) /\ Plain(c) /\ Plain(d) /\ Plain(e) => PlainSteps(<<a, b, c, d, e>>)
    /\ \A a, b, c, d, e, f : Plain(a) /\ Plain(b) /\ Plain(c) /\ Plain(d) /\ Plain(e) /\ Plain(f)
          => PlainSteps(<<a, b, c, d, e, f>>)
<1>1. PlainSteps(<<>>)
  <2> DEFINE D == {}
  <2>1. <<>> \in Seq(D) /\ \A x \in D : Plain(x)
    OBVIOUS
  <2> HIDE DEF D
  <2> QED BY <2>1, OfPlain
<1>2. ASSUME NEW a, Plain(a) PROVE PlainSteps(<<a>>)
  <2> DEFINE D == {a}
  <2>1. <<a>> \in Seq(D) /\ \A x \in D : Plain(x)
    BY <1>2
  <2> HIDE DEF D
  <2> QED BY <2>1, OfPlain
<1>3. ASSUME NEW a, NEW b, Plain(a), Plain(b) PROVE PlainSteps(<<a, b>>)
  <2> DEFINE D == {a, b}
  <2>1. <<a, b>> \in Seq(D) /\ \A x \in D : Plain(x)
    BY <1>3
  <2> HIDE DEF D
  <2> QED BY <2>1, OfPlain
<1>4. ASSUME NEW a, NEW b, NEW c, Plain(a), Plain(b), Plain(c) PROVE PlainSteps(<<a, b, c>>)
  <2> DEFINE D == {a, b, c}
  <2>1. <<a, b, c>> \in Seq(D) /\ \A x \in D : Plain(x)
    BY <1>4
  <2> HIDE DEF D
  <2> QED BY <2>1, OfPlain
<1>5. ASSUME NEW a, NEW b, NEW c, NEW d, Plain(a), Plain(b), Plain(c), Plain(d) PROVE PlainSteps(<<a, b, c, d>>)
  <2> DEFINE D == {a, b, c, d}
  <2>1. <<a, b, c, d>> \in Seq(D) /\ \A x \in D : Plain(x)
    BY <1>5
  <2> HIDE DEF D
  <2> QED BY <2>1, OfPlain
<1>6. ASSUME NEW a, NEW b, NEW c, NEW d, NEW e, Plain(a), Plain(b), Plain(c), Plain(d), Plain(e)
      PROVE  PlainSteps(<<a, b, c, d, e>>)
  <2> DEFINE D == {a, b, c, d, e}
  <2>1. <<a, b, c, d, e>> \in Seq(D) /\ \A x \in D : Plain(x)
    BY <1>6
  <2> HIDE DEF D
  <2> QED BY <2>1, OfPlain
<1>7. ASSUME NEW a, NEW b, NEW c, NEW d, NEW e, NEW f, Plain(a), Plain(b), Plain(c), Plain(d), Plain(e), Plain(f)
      PROVE  PlainSteps(<<a, b, c, d, e, f>>)
  <2> DEFINE D == {a, b, c, d, e, f}
  <2>1. <<a, b, c, d, e, f>> \in Seq(D) /\ \A x \in D : Plain(x)
    BY <1>7
  <2> HIDE DEF D
  <2> QED BY <2>1, OfPlain
<1> QED BY <1>1, <1>2, <1>3, <1>4, <1>5, <1>6, <1>7

LEMMA PlainJoined ==
    ASSUME NEW p, PlainSteps(p), NEW q, PlainSteps(q)
    PROVE  PlainSteps(p \o q)
<1>1. PICK D, E : p \in Seq(D) /\ q \in Seq(E) /\ (\A e \in D : Plain(e)) /\ (\A e \in E : Plain(e))
  BY DEF PlainSteps
<1>2. p \in Seq(D \cup E) /\ q \in Seq(D \cup E)
  BY <1>1, SeqMonotonic
<1>3. p \o q \in Seq(D \cup E)
  BY <1>2, ConcatProperties
<1>4. \A e \in D \cup E : Plain(e)
  BY <1>1
<1> QED BY <1>3, <1>4 DEF PlainSteps

(* What the options and the elements of a list put on the stack.           *)
LEMMA PlainOptional == \A o \in Optional : PlainSteps(o)
<1>1. Plain(<<"maybe", "WholeNumber", <<>>>>)
  BY PlainEntries DEF Optional
<1>2. Plain(<<"elseBody">>) /\ Plain(<<"typ", 0>>)
  <2>1. "elseBody" \in PlainKinds /\ "typ" \in PlainKinds
    BY DEF PlainKinds
  <2> QED BY <2>1, PlainEntries
<1>3. PlainSteps(<<>>) /\ PlainSteps(<<<<"maybe", "WholeNumber", <<>>>>>>) /\ PlainSteps(<<<<"elseBody">>>>)
      /\ PlainSteps(<<<<"typ", 0>>>>)
  BY <1>1, <1>2, PlainLists
<1> QED BY <1>3 DEF Optional

-----------------------------------------------------------------------------
(* The inductive invariant                                                 *)

Shape ==
    /\ IsSequence(stack) /\ \A i \in 1 .. Len(stack) : Sound(stack[i])
    /\ DOMAIN env = DOMAIN EmptyEnv
    /\ IsSequence(env.scopes) /\ IsSequence(env.path)

Errors ==
    /\ err \in [syntax : BOOLEAN, unwound : BOOLEAN, semantic : BOOLEAN]
    /\ pc = "start" => ~HadError

Inv ==
    /\ Shape
    /\ Errors
    /\ ~err.unwound => Agrees(stack)
    /\ Len(env.scopes) >= CountIn(Scopes, stack)

(* The errors of a step.                                                   *)
ErrorStep ==
    /\ Advance \/ KeepToken
    /\ err' \in {err, SyntaxErr, SemanticErr, [SyntaxErr EXCEPT !.unwound = TRUE]}
    /\ pc' # "start"

LEMMA ErrorsKept == ASSUME Errors, ErrorStep PROVE Errors' /\ (~err'.unwound => ~err.unwound)
<1>1. CASE err' = err
  BY <1>1 DEF Errors, ErrorStep
<1>2. CASE err' = SyntaxErr
  BY <1>2 DEF Errors, ErrorStep, SyntaxErr
<1>3. CASE err' = SemanticErr
  BY <1>3 DEF Errors, ErrorStep, SemanticErr
<1>4. CASE err' = [SyntaxErr EXCEPT !.unwound = TRUE]
  BY <1>4 DEF Errors, ErrorStep, SyntaxErr
<1> QED BY <1>1, <1>2, <1>3, <1>4 DEF ErrorStep

(* The stack under its first entry.                                        *)
LEMMA Popped ==
    ASSUME Inv, stack # <<>>
    PROVE  /\ IsSequence(Tail(stack)) /\ Sound(stack[1])
           /\ \A i \in 1 .. Len(Tail(stack)) : Sound(Tail(stack)[i])
           /\ \A K : /\ CountIn(K, Tail(stack)) \in Nat
                     /\ CountIn(K, stack) = IF stack[1][1] \in K THEN CountIn(K, Tail(stack)) + 1
                                            ELSE CountIn(K, Tail(stack))
           /\ ~err.unwound => Saved(Tail(stack)) /\ PutsBack(stack[1], Tail(stack))
<1> DEFINE r == Tail(stack)
<1>1. IsSequence(stack) /\ \A i \in 1 .. Len(stack) : Sound(stack[i])
  BY DEF Inv, Shape
<1>2. IsSequence(r) /\ stack = <<stack[1]>> \o r
  BY <1>1, HeadAndTail
<1>3. Len(stack) \in Nat /\ Len(r) = Len(stack) - 1 /\ \A i \in 1 .. Len(stack) - 1 : r[i] = stack[i + 1]
  BY <1>1, SequenceFacts
<1>4. Len(stack) # 0
  BY <1>1, SequenceFacts
<1> HIDE DEF r
<1>5. Sound(stack[1]) /\ \A i \in 1 .. Len(r) : Sound(r[i])
  <2>1. 1 \in 1 .. Len(stack) /\ \A i \in 1 .. Len(r) : i + 1 \in 1 .. Len(stack) /\ r[i] = stack[i + 1]
    BY <1>3, <1>4
  <2> QED BY <1>1, <2>1
<1>6. \A K : /\ CountIn(K, r) \in Nat
             /\ CountIn(K, stack) = IF stack[1][1] \in K THEN CountIn(K, r) + 1 ELSE CountIn(K, r)
  <2> DEFINE e == stack[1]
  <2>1. stack = <<e>> \o r
    BY <1>2
  <2> HIDE DEF e
  <2>2. \A K : /\ CountIn(K, r) \in Nat
               /\ CountIn(K, <<e>> \o r) = IF e[1] \in K THEN CountIn(K, r) + 1 ELSE CountIn(K, r)
    BY <1>2, CountCons
  <2> QED BY <2>1, <2>2 DEF e
<1>7. ASSUME ~err.unwound PROVE Saved(r) /\ PutsBack(stack[1], r)
  <2>1. Saved(stack)
    BY <1>7 DEF Inv, Agrees
  <2> QED BY <1>2, <2>1, SavedCons
<1> QED BY <1>2, <1>5, <1>6, <1>7 DEF r

LEMMA CountSuffix ==
    ASSUME NEW s, IsSequence(s), NEW n \in 0 .. Len(s), NEW K
    PROVE  LET r == SubSeq(s, n + 1, Len(s))
           IN  /\ IsSequence(r) /\ Len(r) = Len(s) - n
               /\ \A i \in 1 .. Len(s) - n : r[i] = s[n + i]
               /\ CountIn(K, r) \in Nat /\ CountIn(K, s) \in Nat /\ CountIn(K, r) <= CountIn(K, s)
<1> DEFINE r == SubSeq(s, n + 1, Len(s))
           A == {i \in DOMAIN s : s[i][1] \in K}
<1>1. PICK D : s \in Seq(D)
  BY DEF IsSequence
<1>2. Len(s) \in Nat /\ DOMAIN s = 1 .. Len(s) /\ n \in Nat /\ n <= Len(s)
  BY <1>1
<1>3. r \in Seq(D) /\ Len(r) = Len(s) - n /\ \A i \in 1 .. Len(s) - n : r[i] = s[n + i]
  <2> DEFINE m == n + 1
             l == Len(s)
  <2>1. m \in Int /\ l \in Int /\ \A j \in m .. l : s[j] \in D
    BY <1>1, <1>2
  <2> HIDE DEF m, l
  <2>2. /\ SubSeq(s, m, l) \in Seq(D) /\ Len(SubSeq(s, m, l)) = IF m <= l THEN l - m + 1 ELSE 0
        /\ \A j \in 1 .. l - m + 1 : SubSeq(s, m, l)[j] = s[m + j - 1]
    BY <2>1, SubSeqProperties
  <2>3. l \in Nat /\ n \in Nat /\ n <= l /\ m = n + 1
    BY <1>2 DEF l, m
  <2>4. l - m + 1 = l - n /\ (~(m <= l) => l - n = 0)
    BY <2>3
  <2>5. \A j \in 1 .. l - n : m + j - 1 = n + j
    BY <2>3
  <2>6. SubSeq(s, m, l) \in Seq(D) /\ Len(SubSeq(s, m, l)) = l - n /\ \A j \in 1 .. l - n : SubSeq(s, m, l)[j] = s[n + j]
    BY <2>2, <2>4, <2>5
  <2> QED BY <2>6 DEF l, m
<1> HIDE DEF r
<1>4. IsSequence(r)
  BY <1>3 DEF IsSequence
<1>5. Len(s) = n + Len(r) /\ Len(r) \in Nat /\ \A i \in 1 .. Len(r) : s[n + i] = r[i]
  BY <1>2, <1>3
<1>6. Cardinality(After(n, K, s)) = CountIn(K, r) /\ CountIn(K, r) \in Nat
  BY <1>2, <1>4, <1>5, Shifted
<1>7. IsFiniteSet(A)
  <2>1. IsFiniteSet(1 .. Len(s)) /\ A \in SUBSET (1 .. Len(s))
    BY <1>2, FS_Interval
  <2> QED BY <2>1, FS_Subset
<1>8. After(n, K, s) \in SUBSET A
  BY DEF After
<1> HIDE DEF A
<1>9. Cardinality(After(n, K, s)) <= Cardinality(A) /\ Cardinality(A) \in Nat
  BY <1>7, <1>8, FS_Subset, FS_CardinalityType
<1>10. Cardinality(A) = CountIn(K, s)
  BY DEF A, CountIn
<1> QED BY <1>3, <1>4, <1>6, <1>9, <1>10 DEF r

-----------------------------------------------------------------------------
(* The steps that leave the nesting alone                                  *)

(* e nests as env does, with a variable of the innermost function more.    *)
NestsAlike(e) ==
    /\ DOMAIN e = DOMAIN env
    /\ IsSequence(e.scopes) /\ Len(e.scopes) = Len(env.scopes)
    /\ IsSequence(e.path) /\ Len(e.path) = Len(env.path)
    /\ e.closure = env.closure
    /\ e.inMember = env.inMember
    /\ e.funVars \subseteq env.funVars \cup {CountIn({"funEnd"}, stack)}

LEMMA NestsAsIs == Inv => NestsAlike(env)
BY DEF Inv, Shape, NestsAlike

LEMMA KindsTracked ==
    /\ Scopes \in SUBSET Tracked /\ Closures \in SUBSET Tracked /\ Names \in SUBSET Tracked
    /\ {"memberEnd"} \in SUBSET Tracked /\ {"funEnd"} \in SUBSET Tracked
BY DEF Tracked, Scopes, Closures, Names

(* A function that continues with plain steps.                             *)
LEMMA PlainKeeps ==
    ASSUME Inv, stack # <<>>, stack[1][1] \notin Tracked, NEW p, PlainSteps(p), Then(p),
           ErrorStep, NestsAlike(env')
    PROVE  Inv'
<1> DEFINE r == Tail(stack)
           t == p \o r
<1>1. /\ IsSequence(r) /\ \A i \in 1 .. Len(r) : Sound(r[i])
      /\ \A K \in SUBSET Tracked : CountIn(K, r) \in Nat /\ CountIn(K, stack) = CountIn(K, r)
      /\ ~err.unwound => Saved(r)
  <2>1. \A K \in SUBSET Tracked : stack[1][1] \notin K
    OBVIOUS
  <2> QED BY <2>1, Popped
<1> HIDE DEF r
<1>2. /\ IsSequence(t) /\ \A i \in 1 .. Len(t) : Sound(t[i])
      /\ \A K \in SUBSET Tracked : CountIn(K, t) = CountIn(K, r)
      /\ Saved(r) => Saved(t)
  BY <1>1, PlainPushed
<1>3. stack' = t
  BY DEF Then, r
<1> HIDE DEF t
<1>4. \A K \in SUBSET Tracked : CountIn(K, t) = CountIn(K, stack)
  BY <1>1, <1>2
<1>5. Shape'
  BY <1>2, <1>3 DEF Inv, Shape, NestsAlike
<1>6. Errors' /\ (~err'.unwound => ~err.unwound)
  BY ErrorsKept DEF Inv
<1>7. /\ CountIn(Scopes, stack') = CountIn(Scopes, stack) /\ CountIn(Closures, stack') = CountIn(Closures, stack)
      /\ CountIn(Names, stack') = CountIn(Names, stack)
      /\ CountIn({"memberEnd"}, stack') = CountIn({"memberEnd"}, stack)
      /\ CountIn({"funEnd"}, stack') = CountIn({"funEnd"}, stack)
  BY <1>3, <1>4, KindsTracked
<1>8. Len(env'.scopes) >= CountIn(Scopes, stack')
  BY <1>7 DEF Inv, NestsAlike
<1>9. ASSUME ~err'.unwound PROVE Agrees(stack)'
  <2>1. Agrees(stack) /\ Saved(stack')
    BY <1>1, <1>2, <1>3, <1>6, <1>9 DEF Inv
  <2>2. /\ Len(env'.scopes) = CountIn(Scopes, stack') /\ env'.closure = CountIn(Closures, stack')
        /\ Len(env'.path) = CountIn(Names, stack') /\ env'.inMember = (CountIn({"memberEnd"}, stack') > 0)
        /\ env'.funVars \subseteq {CountIn({"funEnd"}, stack')}
    BY <1>7, <2>1 DEF Agrees, NestsAlike
  <2> QED BY <2>1, <2>2 DEF Agrees
<1> QED BY <1>5, <1>6, <1>8, <1>9 DEF Inv

LEMMA GoKeeps ==
    ASSUME Inv, pc = "run", stack # <<>>, stack[1][1] \notin Tracked, NEW p, PlainSteps(p),
           Then(p), Advance \/ KeepToken, err' \in {err, SyntaxErr, SemanticErr}, UNCHANGED <<env, pc>>
    PROVE  Inv'
<1>1. ErrorStep
  BY DEF ErrorStep
<1>2. NestsAlike(env')
  BY NestsAsIs DEF NestsAlike
<1> QED BY <1>1, <1>2, PlainKeeps

LEMMA Smallest == ASSUME NEW A \in SUBSET Nat, A # {} PROVE \E i \in A : \A j \in A : i <= j
<1>1. PICK i \in A : \A j \in A : ~(<<j, i>> \in OpToRel(<, Nat))
  BY WFMin, NatLessThanWellFounded
<1>2. \A j \in A : ~(j < i)
  BY <1>1 DEF OpToRel
<1> QED BY <1>2

(* An error travels up to a block: less is left to be popped.              *)
LEMMA SyntaxErrorKeeps == ASSUME Inv, pc = "run", SyntaxError PROVE Inv'
<1>1. /\ err' = [SyntaxErr EXCEPT !.unwound = TRUE] /\ env' = env /\ pc' = pc /\ (Advance \/ KeepToken)
      /\ \/ stack' = <<>>
         \/ \E n \in DOMAIN stack : stack' = <<<<"stmts", TRUE, FALSE>>>> \o SubSeq(stack, n + 1, Len(stack))
  <2> DEFINE catches == {i \in DOMAIN stack : stack[i][1] = "stmts"}
             at == CHOOSE i \in catches : \A j \in catches : i <= j
  <2>1. /\ err' = [SyntaxErr EXCEPT !.unwound = TRUE]
        /\ IF catches = {}
           THEN stack' = <<>> /\ KeepToken
           ELSE /\ stack' = <<<<"stmts", TRUE, FALSE>>>> \o SubSeq(stack, at + 1, Len(stack))
                /\ IF stack[at][3] THEN Advance ELSE KeepToken
        /\ UNCHANGED <<env, last, pc>>
    BY DEF SyntaxError
  <2>2. ASSUME catches # {} PROVE at \in DOMAIN stack
    <3>1. catches \in SUBSET Nat
      BY SequenceFacts DEF Inv, Shape
    <3>2. \E i \in catches : \A j \in catches : i <= j
      BY <2>2, <3>1, Smallest
    <3> QED BY <3>2
  <2> HIDE DEF catches, at
  <2> QED BY <2>1, <2>2
<1>2. ErrorStep
  BY <1>1 DEF ErrorStep
<1>3. Errors' /\ err'.unwound
  <2>1. err'.unwound
    BY <1>1 DEF Inv, Errors, SyntaxErr
  <2> QED BY <1>2, <2>1, ErrorsKept DEF Inv
<1>4. CountIn(Scopes, stack) \in Nat /\ Len(env.scopes) \in Nat
  <2>1. 0 \in 0 .. Len(stack)
    BY SequenceFacts DEF Inv, Shape
  <2> QED BY <2>1, CountSuffix, SequenceFacts DEF Inv, Shape
<1>5. CASE stack' = <<>>
  <2>1. IsSequence(<<>>) /\ \A i \in 1 .. Len(<<>>) : Sound(<<>>[i])
    <3>1. <<>> \in Seq({})
      OBVIOUS
    <3> QED BY <3>1 DEF IsSequence
  <2>2. CountIn(Scopes, stack') = 0
    BY <1>5, CountEmpty
  <2> QED BY <1>1, <1>3, <1>4, <1>5, <2>1, <2>2 DEF Inv, Shape
<1>6. ASSUME NEW n \in DOMAIN stack, stack' = <<<<"stmts", TRUE, FALSE>>>> \o SubSeq(stack, n + 1, Len(stack))
      PROVE  Inv'
  <2> DEFINE r == SubSeq(stack, n + 1, Len(stack))
             e == <<"stmts", TRUE, FALSE>>
  <2>1. IsSequence(stack) /\ n \in 0 .. Len(stack)
    BY SequenceFacts DEF Inv, Shape
  <2>2. /\ IsSequence(r) /\ Len(r) = Len(stack) - n
        /\ \A i \in 1 .. Len(stack) - n : r[i] = stack[n + i]
        /\ CountIn(Scopes, r) \in Nat /\ CountIn(Scopes, r) <= CountIn(Scopes, stack)
    BY <2>1, CountSuffix
  <2>3. \A i \in 1 .. Len(r) : Sound(r[i])
    <3>1. \A i \in 1 .. Len(stack) - n : n + i \in 1 .. Len(stack)
      BY <2>1, SequenceFacts
    <3> QED BY <2>2, <3>1 DEF Inv, Shape
  <2>4. PlainSteps(<<e>>)
    <3>1. "stmts" \in PlainKinds
      BY DEF PlainKinds
    <3> QED BY <3>1, PlainEntries, PlainLists
  <2> HIDE DEF r, e
  <2>5. stack' = <<e>> \o r
    BY <1>6 DEF r, e
  <2>6. /\ IsSequence(stack') /\ (\A i \in 1 .. Len(stack') : Sound(stack'[i]))
        /\ CountIn(Scopes, stack') = CountIn(Scopes, r)
    BY <2>2, <2>3, <2>4, <2>5, PlainPushed, KindsTracked
  <2> QED BY <1>1, <1>3, <1>4, <2>2, <2>6 DEF Inv, Shape
<1> QED BY <1>1, <1>5, <1>6

(* The parser panics, or is at its end.                                    *)
LEMMA StopKeeps ==
    ASSUME Inv, pc' # "start", KeepToken, UNCHANGED <<stack, env, err>>
    PROVE  Inv'
<1>1. ErrorStep
  BY DEF ErrorStep
<1>2. Errors' /\ (~err'.unwound => ~err.unwound)
  BY <1>1, ErrorsKept DEF Inv
<1> QED BY <1>2 DEF Inv, Shape, Agrees


-----------------------------------------------------------------------------
(* The actions that call and return from plain functions                   *)

(* How an action of a plain function continues.                            *)
LEMMA GoOn ==
    ASSUME Inv, NEW f, Calling(f), f \notin Tracked
    PROVE  /\ \A p : PlainSteps(p) /\ Go(p) => Inv'
           /\ \A p : PlainSteps(p) /\ Eat(p) => Inv'
           /\ \A ts, p : PlainSteps(p) /\ Expect(ts, p) => Inv'
           /\ \A p, bad : PlainSteps(p) /\ Change(p, env, bad) => Inv'
           /\ SyntaxError => Inv'
<1>1. pc = "run" /\ stack # <<>> /\ stack[1][1] \notin Tracked
  BY DEF Calling, Kind
<1>2. SyntaxError => Inv'
  BY <1>1, SyntaxErrorKeeps
<1>3. ASSUME NEW p, PlainSteps(p), Go(p) PROVE Inv'
  BY <1>1, <1>3, GoKeeps DEF Go, Quiet
<1>4. ASSUME NEW p, PlainSteps(p), Eat(p) PROVE Inv'
  BY <1>1, <1>4, GoKeeps DEF Eat, Quiet
<1>5. ASSUME NEW ts, NEW p, PlainSteps(p), Expect(ts, p) PROVE Inv'
  BY <1>2, <1>4, <1>5 DEF Expect
<1>6. ASSUME NEW p, NEW bad, PlainSteps(p), Change(p, env, bad) PROVE Inv'
  BY <1>1, <1>6, GoKeeps DEF Change
<1> QED BY <1>2, <1>3, <1>4, <1>5, <1>6

LEMMA Untracked == \A k \in PlainKinds \cup {"maybe", "list"} : k \notin Tracked
BY DEF PlainKinds, Tracked, Scopes, Closures, Names

LEMMA ExpectTokKeeps == ASSUME Inv, ExpectTok PROVE Inv'
<1>1. Calling("tok") /\ "tok" \notin Tracked /\ Expect(Arg(1), <<>>)
  BY Untracked DEF ExpectTok, PlainKinds
<1> QED BY <1>1, GoOn, PlainLists

LEMMA ExpectSoftTokKeeps == ASSUME Inv, ExpectSoftTok PROVE Inv'
<1>1. Calling("softTok") /\ "softTok" \notin Tracked
  BY Untracked DEF ExpectSoftTok, PlainKinds
<1>2. CASE Eat(<<>>)
  BY <1>1, <1>2, GoOn, PlainLists
<1>3. CASE Then(<<>>) /\ err' = SyntaxErr /\ KeepToken /\ UNCHANGED <<env, last, pc>>
  BY <1>1, <1>3, GoKeeps, PlainLists DEF Calling, Kind
<1> QED BY <1>2, <1>3 DEF ExpectSoftTok

LEMMA ListStepKeeps == ASSUME Inv, ListStep PROVE Inv'
<1>1. Calling("list") /\ "list" \notin Tracked
  BY Untracked DEF ListStep
<1>2. CASE Go(<<>>)
  BY <1>1, <1>2, GoOn, PlainLists
<1>3. CASE Go(<<<<Arg(1), 0>>, <<"comma", Arg(2), Arg(3)>>, stack[1]>>)
  <2>1. Sound(stack[1]) /\ stack[1][1] = "list"
    BY <1>1, Popped DEF Calling, Kind
  <2>2. Plain(stack[1])
    BY <1>1, <2>1 DEF Plain
  <2>3. Plain(<<Arg(1), 0>>)
    <3> DEFINE a == Arg(1)
    <3>1. a \in PlainKinds
      BY <2>1 DEF Sound, Arg
    <3> HIDE DEF a
    <3>2. Plain(<<a, 0>>)
      BY <3>1, PlainEntries
    <3> QED BY <3>2 DEF a
  <2>4. "comma" \in PlainKinds
    BY DEF PlainKinds
  <2>5. Plain(<<"comma", Arg(2), Arg(3)>>)
    BY <2>4, PlainEntries
  <2>6. PlainSteps(<<<<Arg(1), 0>>, <<"comma", Arg(2), Arg(3)>>, stack[1]>>)
    BY <2>2, <2>3, <2>5, PlainLists
  <2> QED BY <1>1, <1>3, <2>6, GoOn
<1> QED BY <1>2, <1>3 DEF ListStep

LEMMA CommaKeeps == ASSUME Inv, Comma PROVE Inv'
<1>1. Calling("comma") /\ "comma" \notin Tracked
  BY Untracked DEF Comma, PlainKinds
<1>2. Eat(<<>>) \/ Go(<<>>) \/ SyntaxError
  BY DEF Comma
<1> QED BY <1>1, <1>2, GoOn, PlainLists

LEMMA SetLastKeeps == ASSUME Inv, SetLast PROVE Inv'
<1>1. Calling("become") /\ "become" \notin Tracked
  BY Untracked DEF SetLast, PlainKinds
<1> QED BY <1>1, GoKeeps, PlainLists DEF SetLast, Calling, Kind

LEMMA MaybeKeeps == ASSUME Inv, Maybe PROVE Inv'
<1>1. Calling("maybe") /\ "maybe" \notin Tracked /\ (Eat(Arg(2)) \/ Go(<<>>))
  BY Untracked DEF Maybe
<1>2. PlainSteps(Arg(2))
  <2>1. Arg(2) \in Optional
    BY <1>1, Popped DEF Calling, Kind, Arg, Sound
  <2> QED BY <2>1, PlainOptional
<1> QED BY <1>1, <1>2, GoOn, PlainLists

LEMMA FailKeeps == ASSUME Inv, Fail PROVE Inv'
BY SyntaxErrorKeeps DEF Fail, Calling

LEMMA JumpValueKeeps == ASSUME Inv, JumpValue PROVE Inv'
<1>1. Calling("jumpValue") /\ "jumpValue" \notin Tracked
  BY Untracked DEF JumpValue, PlainKinds
<1>2. \/ Go(<<Become("Other")>>)
      \/ Eat(<<Become("Other")>>)
      \/ Go(<<Expr, Tok("Semicolon"), Become("Other")>>)
  BY DEF JumpValue
<1>3. PlainSteps(<<Become("Other")>>)
  BY PlainEntries, PlainLists
<1>4. PlainSteps(<<Expr, Tok("Semicolon"), Become("Other")>>)
  BY PlainEntries, PlainLists
<1> QED BY <1>1, <1>2, <1>3, <1>4, GoOn

LEMMA ParenKeeps == ASSUME Inv, Paren PROVE Inv'
<1>1. Calling("paren") /\ "paren" \notin Tracked
  BY Untracked DEF Paren, PlainKinds
<1>2. \/ Eat(<<List("expression", "RightParen", "strict"), SoftTok("RightParen"), Become("Other")>>)
      \/ Go(<<SoftTok("RightParen")>>)
  BY DEF Paren
<1>3. PlainSteps(<<List("expression", "RightParen", "strict"), SoftTok("RightParen"), Become("Other")>>)
  <2>1. "expression" \in PlainKinds
    BY DEF PlainKinds
  <2>2. Plain(List("expression", "RightParen", "strict")) /\ Plain(SoftTok("RightParen")) /\ Plain(Become("Other"))
    BY <2>1, PlainEntries
  <2> QED BY <2>2, PlainLists
<1>4. PlainSteps(<<SoftTok("RightParen")>>)
  BY PlainEntries, PlainLists
<1> QED BY <1>1, <1>2, <1>3, <1>4, GoOn

LEMMA AssignedKeeps == ASSUME Inv, Assigned PROVE Inv'
<1>1. Calling("assigned") /\ "assigned" \notin Tracked
  BY Untracked DEF Assigned, PlainKinds
<1>2. Change(<<Become("Other")>>, env, Arg(1) = "Fun")
  BY DEF Assigned
<1>3. PlainSteps(<<Become("Other")>>)
  BY PlainEntries, PlainLists
<1> QED BY <1>1, <1>2, <1>3, GoOn

LEMMA CallEndKeeps == ASSUME Inv, CallEnd PROVE Inv'
<1>1. Calling("callEnd") /\ "callEnd" \notin Tracked
  BY Untracked DEF CallEnd, PlainKinds
<1>2. Change(<<Become("Other")>>, env, ~Arg(2) /\ Lookup(Arg(1)) = "Class")
  BY DEF CallEnd
<1>3. PlainSteps(<<Become("Other")>>)
  BY PlainEntries, PlainLists
<1> QED BY <1>1, <1>2, <1>3, GoOn

LEMMA IndexEndKeeps == ASSUME Inv, IndexEnd PROVE Inv'
<1>1. Calling("indexEnd") /\ "indexEnd" \notin Tracked
  BY Untracked DEF IndexEnd, PlainKinds
<1>2. \/ Eat(<<Expr, Become("Other")>>)
      \/ Go(<<Become("Other"), <<"glom">>>>)
  BY DEF IndexEnd
<1>3. PlainSteps(<<Expr, Become("Other")>>)
  BY PlainEntries, PlainLists
<1>4. PlainSteps(<<Become("Other"), <<"glom">>>>)
  <2>1. "glom" \in PlainKinds
    BY DEF PlainKinds
  <2>2. Plain(Become("Other")) /\ Plain(<<"glom">>)
    BY <2>1, PlainEntries
  <2> QED BY <2>2, PlainLists
<1> QED BY <1>1, <1>2, <1>3, <1>4, GoOn

LEMMA MemberKeeps == ASSUME Inv, Member PROVE Inv'
<1>1. Calling("member") /\ "member" \notin Tracked
  BY Untracked DEF Member, PlainKinds
<1>2. \/ Go(<<<<"new">>, <<"glom">>>>)
      \/ Eat(<<<<"chainEnd", current.lexeme>>>>)
      \/ SyntaxError
  BY DEF Member
<1>3. PlainSteps(<<<<"new">>, <<"glom">>>>)
  <2>1. "glom" \in PlainKinds /\ "new" \in PlainKinds
    BY DEF PlainKinds
  <2>2. Plain(<<"new">>) /\ Plain(<<"glom">>)
    BY <2>1, PlainEntries
  <2> QED BY <2>2, PlainLists
<1>4. PlainSteps(<<<<"chainEnd", current.lexeme>>>>)
  <2>1. "chainEnd" \in PlainKinds
    BY DEF PlainKinds
  <2>2. Plain(<<"chainEnd", current.lexeme>>)
    BY <2>1, PlainEntries
  <2> QED BY <2>2, PlainLists
<1> QED BY <1>1, <1>2, <1>3, <1>4, GoOn

LEMMA NewKeeps == ASSUME Inv, New PROVE Inv'
<1>1. Calling("new") /\ "new" \notin Tracked
  BY Untracked DEF New, PlainKinds
<1>2. Expect({"New"}, <<Tok("Identifier"), <<"dotted">>, Tok("LeftBrace"), List("newInit", "RightBrace", "strict"), Tok("RightBrace"), Become("Other")>>)
  BY DEF New
<1>3. PlainSteps(<<Tok("Identifier"), <<"dotted">>, Tok("LeftBrace"), List("newInit", "RightBrace", "strict"), Tok("RightBrace"), Become("Other")>>)
  <2>1. "dotted" \in PlainKinds /\ "newInit" \in PlainKinds
    BY DEF PlainKinds
  <2>2. Plain(Tok("Identifier")) /\ Plain(<<"dotted">>) /\ Plain(Tok("LeftBrace")) /\ Plain(List("newInit", "RightBrace", "strict")) /\ Plain(Tok("RightBrace")) /\ Plain(Become("Other"))
    BY <2>1, PlainEntries
  <2> QED BY <2>2, PlainLists
<1> QED BY <1>1, <1>2, <1>3, GoOn

LEMMA NewInitKeeps == ASSUME Inv, NewInit PROVE Inv'
<1>1. Calling("newInit") /\ "newInit" \notin Tracked
  BY Untracked DEF NewInit, PlainKinds
<1>2. Go(<<Tok("Identifier"), Tok("Colon"), Expr>>)
  BY DEF NewInit
<1>3. PlainSteps(<<Tok("Identifier"), Tok("Colon"), Expr>>)
  BY PlainEntries, PlainLists
<1> QED BY <1>1, <1>2, <1>3, GoOn

LEMMA DottedKeeps == ASSUME Inv, Dotted PROVE Inv'
<1>1. Calling("dotted") /\ "dotted" \notin Tracked
  BY Untracked DEF Dotted, PlainKinds
<1>2. \/ Eat(<<Tok("Identifier"), <<"dotted">>>>)
      \/ Go(<<>>)
  BY DEF Dotted
<1>3. PlainSteps(<<Tok("Identifier"), <<"dotted">>>>)
  <2>1. "dotted" \in PlainKinds
    BY DEF PlainKinds
  <2>2. Plain(Tok("Identifier")) /\ Plain(<<"dotted">>)
    BY <2>1, PlainEntries
  <2> QED BY <2>2, PlainLists
<1>4. PlainSteps(<<>>)
  BY PlainLists
<1> QED BY <1>1, <1>2, <1>3, <1>4, GoOn

LEMMA IfBodyKeeps == ASSUME Inv, IfBody PROVE Inv'
<1>1. Calling("ifBody") /\ "ifBody" \notin Tracked
  BY Untracked DEF IfBody, PlainKinds
<1>2. \/ Go(<<<<"block">>, <<"maybe", "Else", <<<<"elseBody">>>>>>, Become("Block")>>)
      \/ SyntaxError
  BY DEF IfBody
<1>3. PlainSteps(<<<<"block">>, <<"maybe", "Else", <<<<"elseBody">>>>>>, Become("Block")>>)
  <2>1. "block" \in PlainKinds /\ "elseBody" \in PlainKinds
    BY DEF PlainKinds
  <2>2. <<<<"elseBody">>>> \in Optional
    BY DEF Optional
  <2>3. Plain(<<"block">>) /\ Plain(<<"maybe", "Else", <<<<"elseBody">>>>>>) /\ Plain(Become("Block"))
    BY <2>1, <2>2, PlainEntries
  <2> QED BY <2>3, PlainLists
<1> QED BY <1>1, <1>2, <1>3, GoOn

LEMMA ElseBodyKeeps == ASSUME Inv, ElseBody PROVE Inv'
<1>1. Calling("elseBody") /\ "elseBody" \notin Tracked
  BY Untracked DEF ElseBody, PlainKinds
<1>2. \/ Eat(<<Expr, <<"ifBody">>>>)
      \/ Go(<<<<"block">>>>)
      \/ SyntaxError
  BY DEF ElseBody
<1>3. PlainSteps(<<Expr, <<"ifBody">>>>)
  <2>1. "ifBody" \in PlainKinds
    BY DEF PlainKinds
  <2>2. Plain(Expr) /\ Plain(<<"ifBody">>)
    BY <2>1, PlainEntries
  <2> QED BY <2>2, PlainLists
<1>4. PlainSteps(<<<<"block">>>>)
  <2>1. "block" \in PlainKinds
    BY DEF PlainKinds
  <2>2. Plain(<<"block">>)
    BY <2>1, PlainEntries
  <2> QED BY <2>2, PlainLists
<1> QED BY <1>1, <1>2, <1>3, <1>4, GoOn

LEMMA TypKeeps == ASSUME Inv, Typ PROVE Inv'
<1>1. Calling("typ") /\ "typ" \notin Tracked
  BY Untracked DEF Typ, PlainKinds
<1>2. Go(<<<<"typPrefix">>, <<"maybe", "Question", <<>>>>>>)
  BY DEF Typ
<1>3. PlainSteps(<<<<"typPrefix">>, <<"maybe", "Question", <<>>>>>>)
  <2>1. "typPrefix" \in PlainKinds
    BY DEF PlainKinds
  <2>2. <<>> \in Optional
    BY DEF Optional
  <2>3. Plain(<<"typPrefix">>) /\ Plain(<<"maybe", "Question", <<>>>>)
    BY <2>1, <2>2, PlainEntries
  <2> QED BY <2>3, PlainLists
<1> QED BY <1>1, <1>2, <1>3, GoOn

LEMMA TypPrefixKeeps == ASSUME Inv, TypPrefix PROVE Inv'
<1>1. Calling("typPrefix") /\ "typPrefix" \notin Tracked
  BY Untracked DEF TypPrefix, PlainKinds
<1>2. \/ Eat(<<Tok("LeftSquare"), <<"typ", 0>>, Tok("RightSquare")>>)
      \/ Eat(<<<<"dotted">>>>)
      \/ Eat(<<<<"maybe", "Star", <<>>>>, Tok("LeftParen"), List("typ", "RightParen", "loose"), Tok("RightParen"), <<"maybe", "RightArrow", <<<<"typ", 0>>>>>>>>)
      \/ Eat(<<List("typ", "RightParen", "strict"), Tok("RightParen")>>)
      \/ Eat(<<<<"fail">>>>)
  BY DEF TypPrefix
<1>3. PlainSteps(<<Tok("LeftSquare"), <<"typ", 0>>, Tok("RightSquare")>>)
  <2>1. "typ" \in PlainKinds
    BY DEF PlainKinds
  <2>2. Plain(Tok("LeftSquare")) /\ Plain(<<"typ", 0>>) /\ Plain(Tok("RightSquare"))
    BY <2>1, PlainEntries
  <2> QED BY <2>2, PlainLists
<1>4. PlainSteps(<<<<"dotted">>>>)
  <2>1. "dotted" \in PlainKinds
    BY DEF PlainKinds
  <2>2. Plain(<<"dotted">>)
    BY <2>1, PlainEntries
  <2> QED BY <2>2, PlainLists
<1>5. PlainSteps(<<<<"maybe", "Star", <<>>>>, Tok("LeftParen"), List("typ", "RightParen", "loose"), Tok("RightParen"), <<"maybe", "RightArrow", <<<<"typ", 0>>>>>>>>)
  <2>1. "typ" \in PlainKinds
    BY DEF PlainKinds
  <2>2. <<>> \in Optional /\ <<<<"typ", 0>>>> \in Optional
    BY DEF Optional
  <2>3. Plain(<<"maybe", "Star", <<>>>>) /\ Plain(Tok("LeftParen")) /\ Plain(List("typ", "RightParen", "loose")) /\ Plain(Tok("RightParen")) /\ Plain(<<"maybe", "RightArrow", <<<<"typ", 0>>>>>>)
    BY <2>1, <2>2, PlainEntries
  <2> QED BY <2>3, PlainLists
<1>6. PlainSteps(<<List("typ", "RightParen", "strict"), Tok("RightParen")>>)
  <2>1. "typ" \in PlainKinds
    BY DEF PlainKinds
  <2>2. Plain(List("typ", "RightParen", "strict")) /\ Plain(Tok("RightParen"))
    BY <2>1, PlainEntries
  <2> QED BY <2>2, PlainLists
<1>7. PlainSteps(<<<<"fail">>>>)
  <2>1. "fail" \in PlainKinds
    BY DEF PlainKinds
  <2>2. Plain(<<"fail">>)
    BY <2>1, PlainEntries
  <2> QED BY <2>2, PlainLists
<1> QED BY <1>1, <1>2, <1>3, <1>4, <1>5, <1>6, <1>7, GoOn

LEMMA VarDeclarationKeeps == ASSUME Inv, VarDeclaration PROVE Inv'
<1>1. Calling("var") /\ "var" \notin Tracked
  BY Untracked DEF VarDeclaration, PlainKinds
<1>2. Expect({"Var", "Let"}, <<<<"varName", Arg(1), Arg(2)>>>>)
  BY DEF VarDeclaration
<1>3. PlainSteps(<<<<"varName", Arg(1), Arg(2)>>>>)
  <2>1. "varName" \in PlainKinds
    BY DEF PlainKinds
  <2>2. Plain(<<"varName", Arg(1), Arg(2)>>)
    BY <2>1, PlainEntries
  <2> QED BY <2>2, PlainLists
<1> QED BY <1>1, <1>2, <1>3, GoOn

LEMMA VarNameKeeps == ASSUME Inv, VarName PROVE Inv'
<1>1. Calling("varName") /\ "varName" \notin Tracked
  BY Untracked DEF VarName, PlainKinds
<1>2. Expect({"Identifier"}, <<<<"varType", Arg(1), Arg(2), current.lexeme>>>>)
  BY DEF VarName
<1>3. PlainSteps(<<<<"varType", Arg(1), Arg(2), current.lexeme>>>>)
  <2>1. "varType" \in PlainKinds
    BY DEF PlainKinds
  <2>2. Plain(<<"varType", Arg(1), Arg(2), current.lexeme>>)
    BY <2>1, PlainEntries
  <2> QED BY <2>2, PlainLists
<1> QED BY <1>1, <1>2, <1>3, GoOn

LEMMA VarTypeKeeps == ASSUME Inv, VarType PROVE Inv'
<1>1. Calling("varType") /\ "varType" \notin Tracked
  BY Untracked DEF VarType, PlainKinds
<1>2. \/ Eat(<<<<"typ", 0>>, <<"varValue", Arg(1), Arg(2), Arg(3), TRUE>>>>)
      \/ Go(<<<<"varValue", Arg(1), Arg(2), Arg(3), FALSE>>>>)
  BY DEF VarType
<1>3. PlainSteps(<<<<"typ", 0>>, <<"varValue", Arg(1), Arg(2), Arg(3), TRUE>>>>)
  <2>1. "typ" \in PlainKinds /\ "varValue" \in PlainKinds
    BY DEF PlainKinds
  <2>2. Plain(<<"typ", 0>>) /\ Plain(<<"varValue", Arg(1), Arg(2), Arg(3), TRUE>>)
    BY <2>1, PlainEntries
  <2> QED BY <2>2, PlainLists
<1>4. PlainSteps(<<<<"varValue", Arg(1), Arg(2), Arg(3), FALSE>>>>)
  <2>1. "varValue" \in PlainKinds
    BY DEF PlainKinds
  <2>2. Plain(<<"varValue", Arg(1), Arg(2), Arg(3), FALSE>>)
    BY <2>1, PlainEntries
  <2> QED BY <2>2, PlainLists
<1> QED BY <1>1, <1>2, <1>3, <1>4, GoOn

LEMMA StmtsKeeps == ASSUME Inv, Stmts PROVE Inv'
<1>1. Calling("stmts") /\ "stmts" \notin Tracked
  BY Untracked DEF Stmts, PlainKinds
<1>2. \/ Go(<<>>)
      \/ Go(<<<<"stmt">>, <<"stmts", FALSE, Arg(1)>>>>)
  BY DEF Stmts
<1>3. PlainSteps(<<>>)
  BY PlainLists
<1>4. PlainSteps(<<<<"stmt">>, <<"stmts", FALSE, Arg(1)>>>>)
  <2>1. "stmt" \in PlainKinds /\ "stmts" \in PlainKinds
    BY DEF PlainKinds
  <2>2. Plain(<<"stmt">>) /\ Plain(<<"stmts", FALSE, Arg(1)>>)
    BY <2>1, PlainEntries
  <2> QED BY <2>2, PlainLists
<1> QED BY <1>1, <1>2, <1>3, <1>4, GoOn

LEMMA StmtKeeps == ASSUME Inv, Stmt PROVE Inv'
<1>1. Calling("stmt") /\ "stmt" \notin Tracked
  BY Untracked DEF Stmt, PlainKinds
<1>2. \/ Go(<<<<"var", TRUE, TRUE>>>>)
      \/ Go(<<Expr, <<"stmtEnd">>>>)
  BY DEF Stmt
<1>3. PlainSteps(<<<<"var", TRUE, TRUE>>>>)
  <2>1. "var" \in PlainKinds
    BY DEF PlainKinds
  <2>2. Plain(<<"var", TRUE, TRUE>>)
    BY <2>1, PlainEntries
  <2> QED BY <2>2, PlainLists
<1>4. PlainSteps(<<Expr, <<"stmtEnd">>>>)
  <2>1. "stmtEnd" \in PlainKinds
    BY DEF PlainKinds
  <2>2. Plain(Expr) /\ Plain(<<"stmtEnd">>)
    BY <2>1, PlainEntries
  <2> QED BY <2>2, PlainLists
<1> QED BY <1>1, <1>2, <1>3, <1>4, GoOn

LEMMA StmtEndKeeps == ASSUME Inv, StmtEnd PROVE Inv'
<1>1. Calling("stmtEnd") /\ "stmtEnd" \notin Tracked
  BY Untracked DEF StmtEnd, PlainKinds
<1>2. \/ Go(<<<<"maybe", "Semicolon", <<>>>>>>)
      \/ Expect({"Semicolon"}, <<>>)
  BY DEF StmtEnd
<1>3. PlainSteps(<<<<"maybe", "Semicolon", <<>>>>>>)
  <2>1. <<>> \in Optional
    BY DEF Optional
  <2>2. Plain(<<"maybe", "Semicolon", <<>>>>)
    BY <2>1, PlainEntries
  <2> QED BY <2>2, PlainLists
<1>4. PlainSteps(<<>>)
  BY PlainLists
<1> QED BY <1>1, <1>2, <1>3, <1>4, GoOn

LEMMA ParameterKeeps == ASSUME Inv, Parameter PROVE Inv'
<1>1. Calling("parameter") /\ "parameter" \notin Tracked
  BY Untracked DEF Parameter, PlainKinds
<1>2. Expect({"Identifier"}, <<Tok("Colon"), <<"typ", 0>>, <<"declare", current.lexeme, TRUE>>>>)
  BY DEF Parameter
<1>3. PlainSteps(<<Tok("Colon"), <<"typ", 0>>, <<"declare", current.lexeme, TRUE>>>>)
  <2>1. "declare" \in PlainKinds /\ "typ" \in PlainKinds
    BY DEF PlainKinds
  <2>2. Plain(Tok("Colon")) /\ Plain(<<"typ", 0>>) /\ Plain(<<"declare", current.lexeme, TRUE>>)
    BY <2>1, PlainEntries
  <2> QED BY <2>2, PlainLists
<1> QED BY <1>1, <1>2, <1>3, GoOn

LEMMA LambdaParameterKeeps == ASSUME Inv, LambdaParameter PROVE Inv'
<1>1. Calling("lambdaParameter") /\ "lambdaParameter" \notin Tracked
  BY Untracked DEF LambdaParameter, PlainKinds
<1>2. Expect({"Identifier"}, <<<<"maybe", "Colon", <<<<"typ", 0>>>>>>, <<"declare", current.lexeme, TRUE>>>>)
  BY DEF LambdaParameter
<1>3. PlainSteps(<<<<"maybe", "Colon", <<<<"typ", 0>>>>>>, <<"declare", current.lexeme, TRUE>>>>)
  <2>1. "declare" \in PlainKinds /\ "typ" \in PlainKinds
    BY DEF PlainKinds
  <2>2. <<<<"typ", 0>>>> \in Optional
    BY DEF Optional
  <2>3. Plain(<<"maybe", "Colon", <<<<"typ", 0>>>>>>) /\ Plain(<<"declare", current.lexeme, TRUE>>)
    BY <2>1, <2>2, PlainEntries
  <2> QED BY <2>3, PlainLists
<1> QED BY <1>1, <1>2, <1>3, GoOn

LEMMA FunDeclarationKeeps == ASSUME Inv, FunDeclaration PROVE Inv'
<1>1. Calling("fun") /\ "fun" \notin Tracked
  BY Untracked DEF FunDeclaration, PlainKinds
<1>2. \/ Go(<<<<"funName", Arg(1), Arg(2), Arg(3)>>>>)
      \/ Expect({"Fun"}, <<<<"funName", Arg(1), Arg(2), Arg(3)>>>>)
  BY DEF FunDeclaration
<1>3. PlainSteps(<<<<"funName", Arg(1), Arg(2), Arg(3)>>>>)
  <2>1. "funName" \in PlainKinds
    BY DEF PlainKinds
  <2>2. Plain(<<"funName", Arg(1), Arg(2), Arg(3)>>)
    BY <2>1, PlainEntries
  <2> QED BY <2>2, PlainLists
<1> QED BY <1>1, <1>2, <1>3, GoOn

LEMMA FunReturnKeeps == ASSUME Inv, FunReturn PROVE Inv'
<1>1. Calling("funReturn") /\ "funReturn" \notin Tracked
  BY Untracked DEF FunReturn, PlainKinds
<1>2. \/ Eat(<<<<"typ", 0>>, <<"funBody", FALSE>>>>)
      \/ Go(<<<<"funBody", Arg(1)>>>>)
  BY DEF FunReturn
<1>3. PlainSteps(<<<<"typ", 0>>, <<"funBody", FALSE>>>>)
  <2>1. "funBody" \in PlainKinds /\ "typ" \in PlainKinds
    BY DEF PlainKinds
  <2>2. Plain(<<"typ", 0>>) /\ Plain(<<"funBody", FALSE>>)
    BY <2>1, PlainEntries
  <2> QED BY <2>2, PlainLists
<1>4. PlainSteps(<<<<"funBody", Arg(1)>>>>)
  <2>1. "funBody" \in PlainKinds
    BY DEF PlainKinds
  <2>2. Plain(<<"funBody", Arg(1)>>)
    BY <2>1, PlainEntries
  <2> QED BY <2>2, PlainLists
<1> QED BY <1>1, <1>2, <1>3, <1>4, GoOn

LEMMA FunBodyKeeps == ASSUME Inv, FunBody PROVE Inv'
<1>1. Calling("funBody") /\ "funBody" \notin Tracked
  BY Untracked DEF FunBody, PlainKinds
<1>2. \/ Go(<<<<"block">>>>)
      \/ Go(<<Expr>>)
      \/ SyntaxError
  BY DEF FunBody
<1>3. PlainSteps(<<<<"block">>>>)
  <2>1. "block" \in PlainKinds
    BY DEF PlainKinds
  <2>2. Plain(<<"block">>)
    BY <2>1, PlainEntries
  <2> QED BY <2>2, PlainLists
<1>4. PlainSteps(<<Expr>>)
  BY PlainEntries, PlainLists
<1> QED BY <1>1, <1>2, <1>3, <1>4, GoOn

LEMMA ClassDeclarationKeeps == ASSUME Inv, ClassDeclaration PROVE Inv'
<1>1. Calling("class") /\ "class" \notin Tracked
  BY Untracked DEF ClassDeclaration, PlainKinds
<1>2. Expect({"Class"}, <<<<"className">>>>)
  BY DEF ClassDeclaration
<1>3. PlainSteps(<<<<"className">>>>)
  <2>1. "className" \in PlainKinds
    BY DEF PlainKinds
  <2>2. Plain(<<"className">>)
    BY <2>1, PlainEntries
  <2> QED BY <2>2, PlainLists
<1> QED BY <1>1, <1>2, <1>3, GoOn

LEMMA PlainCalls ==
    /\ PlainSteps(ExtendedAtom)
    /\ \A close : PlainSteps(Arguments(close))
<1>1. "atom" \in PlainKinds /\ "glom" \in PlainKinds /\ "expression" \in PlainKinds
  BY DEF PlainKinds
<1>2. Plain(<<"atom">>) /\ Plain(<<"glom">>)
  BY <1>1, PlainEntries
<1>3. ASSUME NEW close PROVE Plain(List("expression", close, "loose")) /\ Plain(SoftTok(close))
  BY <1>1, PlainEntries
<1> QED BY <1>2, <1>3, PlainLists DEF ExtendedAtom, Arguments

LEMMA ExpressionKeeps == ASSUME Inv, Expression PROVE Inv'
<1>1. Calling("expression") /\ "expression" \notin Tracked
  BY Untracked DEF Expression, PlainKinds
<1>2. Go(ExtendedAtom \o <<<<"infix", Arg(1)>>>>)
  BY DEF Expression
<1>3. PlainSteps(<<<<"infix", Arg(1)>>>>)
  <2>1. "infix" \in PlainKinds
    BY DEF PlainKinds
  <2> QED BY <2>1, PlainEntries, PlainLists
<1>4. PlainSteps(ExtendedAtom \o <<<<"infix", Arg(1)>>>>)
  BY <1>3, PlainCalls, PlainJoined
<1> QED BY <1>1, <1>2, <1>4, GoOn

LEMMA InfixKeeps == ASSUME Inv, Infix PROVE Inv'
<1>1. Calling("infix") /\ "infix" \notin Tracked
  BY Untracked DEF Infix, PlainKinds
<1>2. \/ Go(<<>>)
      \/ pc' = "infix" /\ KeepToken /\ UNCHANGED <<stack, env, err>>
      \/ Eat(<<<<"expression", Precedence + 1>>, Become("Other"), stack[1]>>)
  BY DEF Infix
<1>3. PlainSteps(<<<<"expression", Precedence + 1>>, Become("Other"), stack[1]>>)
  <2>1. "expression" \in PlainKinds
    BY DEF PlainKinds
  <2>2. Plain(<<"expression", Precedence + 1>>) /\ Plain(Become("Other"))
    BY <2>1, PlainEntries
  <2>3. Plain(stack[1])
    <3>1. Sound(stack[1]) /\ stack[1][1] = "infix"
      BY <1>1, Popped DEF Calling, Kind
    <3> QED BY <1>1, <3>1 DEF Plain
  <2> QED BY <2>2, <2>3, PlainLists
<1>4. PlainSteps(<<>>)
  BY PlainLists
<1>5. ASSUME pc' = "infix", KeepToken, UNCHANGED <<stack, env, err>> PROVE Inv'
  BY <1>5, StopKeeps
<1> QED BY <1>1, <1>2, <1>3, <1>4, <1>5, GoOn

LEMMA PrintArgsKeeps == ASSUME Inv, PrintArgs PROVE Inv'
<1>1. Calling("printArgs") /\ "printArgs" \notin Tracked
  BY Untracked DEF PrintArgs, PlainKinds
<1>2. PlainSteps(<<Become("Other")>>)
  BY PlainEntries, PlainLists
<1>3. PlainSteps(<<List("expression", "RightParen", "loose"), Tok("RightParen"), Become("Other")>>)
  <2>1. "expression" \in PlainKinds
    BY DEF PlainKinds
  <2>2. Plain(List("expression", "RightParen", "loose")) /\ Plain(Tok("RightParen")) /\ Plain(Become("Other"))
    BY <2>1, PlainEntries
  <2> QED BY <2>2, PlainLists
<1>4. CASE At("RightParen")
  <2>1. Then(<<Become("Other")>>) /\ Advance /\ err' = SyntaxErr /\ UNCHANGED <<env, pc>>
    BY <1>4 DEF PrintArgs
  <2> QED BY <1>1, <1>2, <2>1, GoKeeps DEF Calling, Kind
<1>5. CASE ~At("RightParen")
  <2>1. Go(<<List("expression", "RightParen", "loose"), Tok("RightParen"), Become("Other")>>)
    BY <1>5 DEF PrintArgs
  <2> QED BY <1>1, <1>3, <2>1, GoOn
<1> QED BY <1>4, <1>5

LEMMA IdentKeeps == ASSUME Inv, Ident PROVE Inv'
<1>1. Calling("ident") /\ "ident" \notin Tracked
  BY Untracked DEF Ident, PlainKinds
<1>2. \/ Eat(Arguments("RightParen") \o <<<<"callEnd", Arg(1), FALSE>>>>)
      \/ pc' = "ident" /\ KeepToken /\ UNCHANGED <<stack, env, err>>
      \/ Eat(<<Expr, <<"assigned", Lookup(Arg(1))>>>>)
      \/ Go(<<Become("Other")>>)
  BY DEF Ident
<1>3. "callEnd" \in PlainKinds /\ "assigned" \in PlainKinds
  BY DEF PlainKinds
<1>4. PlainSteps(Arguments("RightParen") \o <<<<"callEnd", Arg(1), FALSE>>>>)
  <2>1. PlainSteps(<<<<"callEnd", Arg(1), FALSE>>>>)
    BY <1>3, PlainEntries, PlainLists
  <2> QED BY <2>1, PlainCalls, PlainJoined
<1>5. PlainSteps(<<Expr, <<"assigned", Lookup(Arg(1))>>>>)
  <2>1. Plain(Expr) /\ Plain(<<"assigned", Lookup(Arg(1))>>)
    BY <1>3, PlainEntries
  <2> QED BY <2>1, PlainLists
<1>6. PlainSteps(<<Become("Other")>>)
  BY PlainEntries, PlainLists
<1>7. ASSUME pc' = "ident", KeepToken, UNCHANGED <<stack, env, err>> PROVE Inv'
  BY <1>7, StopKeeps
<1> QED BY <1>1, <1>2, <1>4, <1>5, <1>6, <1>7, GoOn

LEMMA GlomKeeps == ASSUME Inv, Glom PROVE Inv'
<1>1. Calling("glom") /\ "glom" \notin Tracked
  BY Untracked DEF Glom, PlainKinds
<1>2. \/ Eat(Arguments("RightParen") \o <<Become("Other"), <<"glom">>>>)
      \/ Eat(<<Expr, SoftTok("RightSquare"), <<"indexEnd">>>>)
      \/ Eat(<<<<"member">>>>)
      \/ Go(<<>>)
  BY DEF Glom
<1>3. "glom" \in PlainKinds /\ "indexEnd" \in PlainKinds /\ "member" \in PlainKinds
  BY DEF PlainKinds
<1>4. Plain(<<"glom">>) /\ Plain(<<"indexEnd">>) /\ Plain(<<"member">>) /\ Plain(Become("Other")) /\ Plain(Expr)
      /\ Plain(SoftTok("RightSquare"))
  BY <1>3, PlainEntries
<1>5. /\ PlainSteps(<<Become("Other"), <<"glom">>>>)
      /\ PlainSteps(<<Expr, SoftTok("RightSquare"), <<"indexEnd">>>>)
      /\ PlainSteps(<<<<"member">>>>) /\ PlainSteps(<<>>)
  BY <1>4, PlainLists
<1>6. PlainSteps(Arguments("RightParen") \o <<Become("Other"), <<"glom">>>>)
  BY <1>5, PlainCalls, PlainJoined
<1> QED BY <1>1, <1>2, <1>5, <1>6, GoOn

LEMMA ChainEndKeeps == ASSUME Inv, ChainEnd PROVE Inv'
<1>1. Calling("chainEnd") /\ "chainEnd" \notin Tracked
  BY Untracked DEF ChainEnd, PlainKinds
<1>2. \/ Eat(<<<<"member">>>>)
      \/ Eat(<<Expr, Become("Other")>>)
      \/ Eat(Arguments("RightParen") \o <<<<"callEnd", Arg(1), TRUE>>, <<"glom">>>>)
      \/ Go(<<Become("Other"), <<"glom">>>>)
  BY DEF ChainEnd
<1>3. "glom" \in PlainKinds /\ "callEnd" \in PlainKinds /\ "member" \in PlainKinds
  BY DEF PlainKinds
<1>4. Plain(<<"glom">>) /\ Plain(<<"callEnd", Arg(1), TRUE>>) /\ Plain(<<"member">>) /\ Plain(Become("Other")) /\ Plain(Expr)
  BY <1>3, PlainEntries
<1>5. /\ PlainSteps(<<<<"member">>>>) /\ PlainSteps(<<Expr, Become("Other")>>)
      /\ PlainSteps(<<<<"callEnd", Arg(1), TRUE>>, <<"glom">>>>)
      /\ PlainSteps(<<Become("Other"), <<"glom">>>>)
  BY <1>4, PlainLists
<1>6. PlainSteps(Arguments("RightParen") \o <<<<"callEnd", Arg(1), TRUE>>, <<"glom">>>>)
  BY <1>5, PlainCalls, PlainJoined
<1> QED BY <1>1, <1>2, <1>5, <1>6, GoOn

LEMMA MethodEndKeeps == ASSUME Inv, MethodEnd PROVE Inv'
<1>1. Calling("methodEnd") /\ "methodEnd" \notin Tracked
  BY Untracked DEF MethodEnd, PlainKinds
<1>2. \/ Go(<<>>)
      \/ pc' = "method" /\ KeepToken /\ UNCHANGED <<stack, env, err>>
  BY DEF MethodEnd
<1>3. ASSUME pc' = "method", KeepToken, UNCHANGED <<stack, env, err>> PROVE Inv'
  BY <1>3, StopKeeps
<1> QED BY <1>1, <1>2, <1>3, GoOn, PlainLists

LEMMA VarValueKeeps == ASSUME Inv, VarValue PROVE Inv'
<1> DEFINE rest == <<Tok("Semicolon"), <<"declare", Arg(3), Arg(2)>>>>
<1>1. Calling("varValue") /\ "varValue" \notin Tracked
  BY Untracked DEF VarValue, PlainKinds
<1>2. Expect({"Equal"}, <<Expr>> \o rest) \/ Change(rest, env, ~Arg(4))
  BY DEF VarValue
<1>3. "declare" \in PlainKinds
  BY DEF PlainKinds
<1>4. Plain(Expr) /\ Plain(Tok("Semicolon")) /\ Plain(<<"declare", Arg(3), Arg(2)>>)
  BY <1>3, PlainEntries
<1>5. PlainSteps(<<Expr>>) /\ PlainSteps(rest)
  BY <1>4, PlainLists
<1> HIDE DEF rest
<1>6. PlainSteps(<<Expr>> \o rest)
  BY <1>5, PlainJoined
<1> QED BY <1>1, <1>2, <1>5, <1>6, GoOn

(* Each alternative of atom.                                               *)
LEMMA AtomKeeps == ASSUME Inv, Atom PROVE Inv'
<1>1. Calling("atom") /\ "atom" \notin Tracked
  BY Untracked DEF Atom, PlainKinds
<1>2. \/ Eat(<<Become("Other")>>)
      \/ Eat(<<<<"maybe", "Dot", <<<<"maybe", "WholeNumber", <<>>>>>>>>, Become("Other")>>)
      \/ Eat(ExtendedAtom \o <<Become("Other")>>)
      \/ SelfVal
      \/ Eat(<<Tok("LeftParen"), <<"printArgs">>>>)
      \/ Eat(<<<<"jumpValue", At("Return")>>>>)
      \/ Go(<<<<"new">>>>)
      \/ Eat(<<List("expression", "RightSquare", "strict"), Tok("RightSquare"), Become("Other")>>)
      \/ Eat(<<Expr, <<"paren">>>>)
      \/ Go(<<<<"block">>>>)
      \/ Eat(<<<<"ident", current.lexeme>>>>)
      \/ Eat(<<Expr, <<"ifBody">>>>)
      \/ Eat(<<<<"loopBody">>>>)
      \/ Eat(<<Expr, <<"loopBody">>>>)
      \/ Go(<<<<"for">>>>)
      \/ Go(<<<<"fun", FALSE, TRUE, At("VerticalBar")>>>>)
      \/ SyntaxError
  BY DEF Atom
<1>3. /\ "printArgs" \in PlainKinds /\ "jumpValue" \in PlainKinds /\ "new" \in PlainKinds /\ "expression" \in PlainKinds
      /\ "paren" \in PlainKinds /\ "block" \in PlainKinds /\ "ident" \in PlainKinds /\ "ifBody" \in PlainKinds
      /\ "loopBody" \in PlainKinds /\ "for" \in PlainKinds /\ "fun" \in PlainKinds
  BY DEF PlainKinds
<1>4. /\ Plain(Expr) /\ Plain(Become("Other")) /\ Plain(Tok("LeftParen")) /\ Plain(Tok("RightSquare"))
      /\ Plain(<<"printArgs">>) /\ Plain(<<"paren">>) /\ Plain(<<"ifBody">>) /\ Plain(<<"loopBody">>)
      /\ Plain(List("expression", "RightSquare", "strict"))
  BY <1>3, PlainEntries
<1>5. Plain(<<"maybe", "Dot", <<<<"maybe", "WholeNumber", <<>>>>>>>>)
  <2>1. <<<<"maybe", "WholeNumber", <<>>>>>> \in Optional
    BY DEF Optional
  <2> QED BY <2>1, PlainEntries
<1>6. /\ Plain(<<"new">>) /\ Plain(<<"block">>) /\ Plain(<<"for">>) /\ Plain(<<"jumpValue", At("Return")>>)
      /\ Plain(<<"ident", current.lexeme>>) /\ Plain(<<"fun", FALSE, TRUE, At("VerticalBar")>>)
  BY <1>3, PlainEntries
<1>7. /\ PlainSteps(<<Become("Other")>>)
      /\ PlainSteps(<<<<"maybe", "Dot", <<<<"maybe", "WholeNumber", <<>>>>>>>>, Become("Other")>>)
      /\ PlainSteps(<<Tok("LeftParen"), <<"printArgs">>>>)
      /\ PlainSteps(<<List("expression", "RightSquare", "strict"), Tok("RightSquare"), Become("Other")>>)
      /\ PlainSteps(<<Expr, <<"paren">>>>) /\ PlainSteps(<<Expr, <<"ifBody">>>>)
      /\ PlainSteps(<<Expr, <<"loopBody">>>>) /\ PlainSteps(<<<<"loopBody">>>>)
  BY <1>4, <1>5, PlainLists
<1>8. /\ PlainSteps(<<<<"new">>>>) /\ PlainSteps(<<<<"block">>>>) /\ PlainSteps(<<<<"for">>>>)
      /\ PlainSteps(<<<<"jumpValue", At("Return")>>>>) /\ PlainSteps(<<<<"ident", current.lexeme>>>>)
      /\ PlainSteps(<<<<"fun", FALSE, TRUE, At("VerticalBar")>>>>)
  BY <1>6, PlainLists
<1>9. PlainSteps(ExtendedAtom \o <<Become("Other")>>)
  BY <1>7, PlainCalls, PlainJoined
<1>10. ASSUME SelfVal PROVE Inv'
  <2>1. Then(<<Become("Other")>>) /\ Advance /\ err' \in {err, SyntaxErr, SemanticErr} /\ UNCHANGED <<env, pc>>
    BY <1>10 DEF SelfVal
  <2> QED BY <1>1, <1>7, <2>1, GoKeeps DEF Calling, Kind
<1> QED BY <1>1, <1>2, <1>7, <1>8, <1>9, <1>10, GoOn

-----------------------------------------------------------------------------
(* The actions that nest                                                   *)

Sounds(s) == IsSequence(s) /\ \A i \in 1 .. Len(s) : Sound(s[i])

LEMMA Associative ==
    ASSUME NEW p, IsSequence(p), NEW q, IsSequence(q), NEW s, IsSequence(s)
    PROVE  (p \o q) \o s = p \o (q \o s)
<1>1. PICK D, E, F : p \in Seq(D) /\ q \in Seq(E) /\ s \in Seq(F)
  BY DEF IsSequence
<1> DEFINE X == D \cup E \cup F
<1>2. p \in Seq(X) /\ q \in Seq(X) /\ s \in Seq(X)
  BY <1>1, SeqMonotonic
<1> HIDE DEF X
<1> QED BY <1>2, ConcatAssociative

LEMMA NoSteps == ASSUME NEW s, IsSequence(s) PROVE <<>> \o s = s
<1>1. PICK D : s \in Seq(D)
  BY DEF IsSequence
<1> QED BY <1>1, ConcatEmptySeq

LEMMA OneEntry == \A e : IsSequence(<<e>>)
<1>1. ASSUME NEW e PROVE IsSequence(<<e>>)
  <2>1. <<e>> \in Seq({e})
    OBVIOUS
  <2> QED BY <2>1 DEF IsSequence
<1> QED BY <1>1

(* One entry that puts something back, between plain steps.                *)
LEMMA Pushed ==
    ASSUME NEW p, PlainSteps(p), NEW e, e[1] \in Tracked, NEW q, PlainSteps(q), NEW s, Sounds(s)
    PROVE  LET t == (p \o (<<e>> \o q)) \o s
           IN  /\ Sounds(t)
               /\ \A K \in SUBSET Tracked : CountIn(K, t) = IF e[1] \in K THEN CountIn(K, s) + 1 ELSE CountIn(K, s)
               /\ Saved(s) /\ PutsBack(e, s) => Saved(t)
<1> DEFINE w == q \o s
           v == <<e>> \o w
           t == p \o v
<1>1. IsSequence(p) /\ IsSequence(q) /\ IsSequence(<<e>>) /\ IsSequence(s)
  BY PlainFacts, OneEntry DEF Sounds
<1>2. (p \o (<<e>> \o q)) \o s = t
  <2>1. IsSequence(<<e>> \o q)
    BY <1>1, Concatenated
  <2>2. (p \o (<<e>> \o q)) \o s = p \o ((<<e>> \o q) \o s)
    BY <1>1, <2>1, Associative
  <2>3. (<<e>> \o q) \o s = <<e>> \o (q \o s)
    BY <1>1, Associative
  <2> QED BY <2>2, <2>3
<1>3. /\ IsSequence(w) /\ \A i \in 1 .. Len(w) : Sound(w[i])
      /\ \A K \in SUBSET Tracked : CountIn(K, w) = CountIn(K, s)
      /\ Saved(s) => Saved(w)
  BY PlainPushed DEF Sounds
<1> HIDE DEF w
<1>4. /\ IsSequence(v)
      /\ \A K : CountIn(K, v) = IF e[1] \in K THEN CountIn(K, w) + 1 ELSE CountIn(K, w)
      /\ Saved(w) /\ PutsBack(e, w) => Saved(v)
  BY <1>3, CountCons, SavedCons
<1>5. \A i \in 1 .. Len(v) : Sound(v[i])
  <2>1. Sound(e)
    <3>1. e[1] # "maybe" /\ e[1] # "list"
      BY Untracked
    <3> QED BY <3>1 DEF Sound
  <2>2. Len(<<e>>) = 1 /\ <<e>>[1] = e
    OBVIOUS
  <2>3. Len(v) = 1 + Len(w) /\ v[1] = e /\ \A i \in 1 .. Len(w) : v[1 + i] = w[i]
    BY <1>1, <1>3, <2>2, Concatenated
  <2>4. Len(w) \in Nat
    BY <1>3, SequenceFacts
  <2> HIDE DEF v
  <2>5. ASSUME NEW i \in 1 .. Len(v) PROVE Sound(v[i])
    <3>1. CASE i = 1
      BY <2>1, <2>3, <3>1
    <3>2. CASE i # 1
      <4>1. i - 1 \in 1 .. Len(w) /\ 1 + (i - 1) = i
        BY <2>3, <2>4, <3>2
      <4>2. v[1 + (i - 1)] = w[i - 1]
        BY <2>3, <4>1
      <4> QED BY <1>3, <4>1, <4>2
    <3> QED BY <3>1, <3>2
  <2> QED BY <2>5
<1> HIDE DEF v
<1>6. /\ IsSequence(t) /\ \A i \in 1 .. Len(t) : Sound(t[i])
      /\ \A K \in SUBSET Tracked : CountIn(K, t) = CountIn(K, v)
      /\ Saved(v) => Saved(t)
  BY <1>4, <1>5, PlainPushed
<1> HIDE DEF t
<1>7. PutsBack(e, s) => PutsBack(e, w)
  BY <1>3, KindsTracked DEF PutsBack
<1>8. \A K \in SUBSET Tracked : CountIn(K, t) = IF e[1] \in K THEN CountIn(K, s) + 1 ELSE CountIn(K, s)
  BY <1>3, <1>4, <1>6
<1>9. Saved(s) /\ PutsBack(e, s) => Saved(t)
  BY <1>3, <1>4, <1>6, <1>7
<1> QED BY <1>2, <1>6, <1>8, <1>9 DEF Sounds

(* What is left to show of a step that nests.                              *)
LEMMA NestKeeps ==
    ASSUME Inv, ErrorStep, Sounds(stack'), DOMAIN env' = DOMAIN EmptyEnv,
           IsSequence(env'.scopes), IsSequence(env'.path),
           Len(env'.scopes) >= CountIn(Scopes, stack'), ~err.unwound => Agrees(stack)'
    PROVE  Inv'
<1>1. Errors' /\ (~err'.unwound => ~err.unwound)
  BY ErrorsKept DEF Inv
<1> QED BY <1>1 DEF Inv, Shape, Sounds

(* The call stack before the step, entry by entry.                         *)
LEMMA Calls ==
    ASSUME Inv, NEW f, Calling(f)
    PROVE  /\ pc = "run" /\ stack # <<>> /\ Sounds(Tail(stack))
           /\ \A K : /\ CountIn(K, Tail(stack)) \in Nat
                     /\ CountIn(K, stack) = IF f \in K THEN CountIn(K, Tail(stack)) + 1 ELSE CountIn(K, Tail(stack))
           /\ ~err.unwound => Saved(Tail(stack)) /\ PutsBack(stack[1], Tail(stack))
<1>1. pc = "run" /\ stack # <<>> /\ stack[1][1] = f
  BY DEF Calling, Kind
<1> QED BY <1>1, Popped DEF Sounds

LEMMA EnvFields ==
    ASSUME Inv
    PROVE  /\ DOMAIN env = {"scopes", "globals", "fullNames", "path", "closure", "funVars", "inMember"}
           /\ DOMAIN EmptyEnv = {"scopes", "globals", "fullNames", "path", "closure", "funVars", "inMember"}
           /\ IsSequence(env.scopes) /\ IsSequence(env.path)
           /\ Len(env.scopes) \in Nat /\ Len(env.path) \in Nat
BY SequenceFacts DEF Inv, Shape, EmptyEnv

(* A step that puts one such entry on the stack.                           *)
LEMMA Enters ==
    ASSUME Inv, NEW f, Calling(f), NEW p, PlainSteps(p), NEW e, e[1] \in Tracked, NEW q, PlainSteps(q),
           NEW steps, steps = p \o (<<e>> \o q), Then(steps)
    PROVE  /\ Sounds(stack')
           /\ \A K \in SUBSET Tracked :
                 /\ CountIn(K, Tail(stack)) \in Nat
                 /\ CountIn(K, stack) = IF f \in K THEN CountIn(K, Tail(stack)) + 1 ELSE CountIn(K, Tail(stack))
                 /\ CountIn(K, stack') = IF e[1] \in K THEN CountIn(K, Tail(stack)) + 1 ELSE CountIn(K, Tail(stack))
           /\ ~err.unwound /\ PutsBack(e, Tail(stack)) => Saved(stack')
<1> DEFINE r == Tail(stack)
<1>1. /\ Sounds(r)
      /\ \A K : CountIn(K, r) \in Nat /\ CountIn(K, stack) = IF f \in K THEN CountIn(K, r) + 1 ELSE CountIn(K, r)
      /\ ~err.unwound => Saved(r)
  BY Calls
<1>2. stack' = (p \o (<<e>> \o q)) \o r
  BY DEF Then
<1> HIDE DEF r
<1>3. /\ Sounds(stack')
      /\ \A K \in SUBSET Tracked : CountIn(K, stack') = IF e[1] \in K THEN CountIn(K, r) + 1 ELSE CountIn(K, r)
      /\ Saved(r) /\ PutsBack(e, r) => Saved(stack')
  BY <1>1, <1>2, Pushed
<1>4. \A K \in SUBSET Tracked :
         /\ CountIn(K, r) \in Nat
         /\ CountIn(K, stack) = IF f \in K THEN CountIn(K, r) + 1 ELSE CountIn(K, r)
  BY <1>1
<1> QED BY <1>1, <1>3, <1>4 DEF r

(* A step that does nothing else to the stack than return.                 *)
LEMMA Returns ==
    ASSUME Inv, NEW f, Calling(f), Then(<<>>)
    PROVE  /\ Sounds(stack')
           /\ \A K : /\ CountIn(K, stack') \in Nat
                     /\ CountIn(K, stack) = IF f \in K THEN CountIn(K, stack') + 1 ELSE CountIn(K, stack')
           /\ ~err.unwound => Saved(stack') /\ PutsBack(stack[1], stack')
<1>1. stack' = Tail(stack)
  BY Calls, NoSteps DEF Then, Sounds
<1> QED BY <1>1, Calls

LEMMA Literals ==
    /\ \A a, b : IsSequence(<<a, b>>)
    /\ \A a, b, c : IsSequence(<<a, b, c>>)
    /\ \A a, b, c, d : IsSequence(<<a, b, c, d>>)
<1>1. ASSUME NEW a, NEW b, NEW c, NEW d PROVE IsSequence(<<a, b>>) /\ IsSequence(<<a, b, c>>) /\ IsSequence(<<a, b, c, d>>)
  <2> DEFINE D == {a, b, c, d}
  <2>1. <<a, b>> \in Seq(D) /\ <<a, b, c>> \in Seq(D) /\ <<a, b, c, d>> \in Seq(D)
    OBVIOUS
  <2> QED BY <2>1 DEF IsSequence
<1> QED BY <1>1

LEMMA Prefixed ==
    ASSUME NEW s, IsSequence(s), NEW t, IsSequence(t), Len(t) = Len(s) + 1, \A i \in 1 .. Len(s) : t[i + 1] = s[i]
    PROVE  t = <<t[1]>> \o s
<1>1. Len(t) \in Nat /\ Len(s) \in Nat
  BY SequenceFacts
<1>2. t # <<>>
  BY <1>1, SequenceFacts
<1>3. t = <<t[1]>> \o Tail(t) /\ IsSequence(Tail(t))
  BY <1>2, HeadAndTail
<1>4. Len(Tail(t)) = Len(s) /\ \A i \in 1 .. Len(s) : Tail(t)[i] = s[i]
  BY <1>1, <1>2, SequenceFacts
<1>5. Tail(t) = s
  BY <1>3, <1>4, SameEntries
<1> QED BY <1>3, <1>5

LEMMA Pairs == \A a, b : <<a, b>> = <<a>> \o <<b>>
<1> SUFFICES ASSUME NEW a, NEW b PROVE <<a, b>> = <<a>> \o <<b>>
  OBVIOUS
<1> DEFINE t == <<a, b>>
           s == <<b>>
<1>1. Len(t) = 2 /\ t[1] = a /\ t[2] = b /\ Len(s) = 1 /\ s[1] = b
  OBVIOUS
<1>2. IsSequence(t) /\ IsSequence(s)
  BY Literals, OneEntry
<1> HIDE DEF t, s
<1>3. Len(t) = Len(s) + 1 /\ \A i \in 1 .. Len(s) : t[i + 1] = s[i]
  <2>1. \A i \in 1 .. 1 : i = 1 /\ i + 1 = 2
    OBVIOUS
  <2> QED BY <1>1, <2>1
<1>4. t = <<t[1]>> \o s
  BY <1>2, <1>3, Prefixed
<1> QED BY <1>1, <1>4 DEF t, s

LEMMA Triples == \A a, b, c : <<a, b, c>> = <<a>> \o <<b, c>>
<1> SUFFICES ASSUME NEW a, NEW b, NEW c PROVE <<a, b, c>> = <<a>> \o <<b, c>>
  OBVIOUS
<1> DEFINE t == <<a, b, c>>
           s == <<b, c>>
<1>1. Len(t) = 3 /\ t[1] = a /\ t[2] = b /\ t[3] = c /\ Len(s) = 2 /\ s[1] = b /\ s[2] = c
  OBVIOUS
<1>2. IsSequence(t) /\ IsSequence(s)
  BY Literals
<1> HIDE DEF t, s
<1>3. Len(t) = Len(s) + 1 /\ \A i \in 1 .. Len(s) : t[i + 1] = s[i]
  <2>1. \A i \in 1 .. 2 : (i = 1 /\ i + 1 = 2) \/ (i = 2 /\ i + 1 = 3)
    OBVIOUS
  <2> QED BY <1>1, <2>1
<1>4. t = <<t[1]>> \o s
  BY <1>2, <1>3, Prefixed
<1> QED BY <1>1, <1>4 DEF t, s

LEMMA Quadruples == \A a, b, c, d : <<a, b, c, d>> = <<a>> \o <<b, c, d>>
<1> SUFFICES ASSUME NEW a, NEW b, NEW c, NEW d PROVE <<a, b, c, d>> = <<a>> \o <<b, c, d>>
  OBVIOUS
<1> DEFINE t == <<a, b, c, d>>
           s == <<b, c, d>>
<1>1. Len(t) = 4 /\ t[1] = a /\ t[2] = b /\ t[3] = c /\ t[4] = d /\ Len(s) = 3 /\ s[1] = b /\ s[2] = c /\ s[3] = d
  OBVIOUS
<1>2. IsSequence(t) /\ IsSequence(s)
  BY Literals
<1> HIDE DEF t, s
<1>3. Len(t) = Len(s) + 1 /\ \A i \in 1 .. Len(s) : t[i + 1] = s[i]
  <2>1. \A i \in 1 .. 3 : (i = 1 /\ i + 1 = 2) \/ (i = 2 /\ i + 1 = 3) \/ (i = 3 /\ i + 1 = 4)
    OBVIOUS
  <2> QED BY <1>1, <2>1
<1>4. t = <<t[1]>> \o s
  BY <1>2, <1>3, Prefixed
<1> QED BY <1>1, <1>4 DEF t, s

LEMMA Threes == ASSUME NEW a, NEW b, NEW c PROVE <<a, b, c>> = <<a>> \o (<<b>> \o <<c>>)
<1> DEFINE w == <<a, b, c>>
           x == <<a>>
           y == <<b, c>>
           z == <<b>> \o <<c>>
<1>1. w = x \o y
  BY Triples, Zenon
<1>2. y = z
  BY Pairs, Zenon
<1> HIDE DEF w, x, y, z
<1>3. w = x \o z
  BY <1>1, <1>2
<1> QED BY <1>3 DEF w, x, z

(* Tuples around the entry that is tracked.                                *)
LEMMA Tuples ==
    /\ \A a : <<a>> = <<>> \o (<<a>> \o <<>>)
    /\ \A a, b : <<a, b>> = <<>> \o (<<a>> \o <<b>>)
    /\ \A a, b, c : <<a, b, c>> = <<a>> \o (<<b>> \o <<c>>)
    /\ \A a, b, c, d : <<a, b, c, d>> = <<a>> \o (<<b>> \o <<c, d>>)
    /\ \A a, b, c, d : <<a, b, c, d>> = <<a, b, c>> \o (<<d>> \o <<>>)
<1>1. \A a : <<a>> = <<>> \o (<<a>> \o <<>>)
  OBVIOUS
<1>2. \A a, b : <<a, b>> = <<>> \o (<<a>> \o <<b>>)
  BY Pairs, Literals, NoSteps
<1>3. \A a, b, c : <<a, b, c>> = <<a>> \o (<<b>> \o <<c>>)
  BY Threes
<1>4. ASSUME NEW a, NEW b, NEW c, NEW d PROVE <<a, b, c, d>> = <<a>> \o (<<b>> \o <<c, d>>)
  <2> DEFINE w == <<a, b, c, d>>
             x == <<a>>
             y == <<b, c, d>>
             z == <<b>> \o <<c, d>>
  <2>1. w = x \o y
    BY Quadruples, Zenon
  <2>2. y = z
    BY Triples, Zenon
  <2> HIDE DEF w, x, y, z
  <2>3. w = x \o z
    BY <2>1, <2>2
  <2> QED BY <2>3 DEF w, x, z
<1>5. ASSUME NEW a, NEW b, NEW c, NEW d PROVE <<a, b, c, d>> = <<a, b, c>> \o (<<d>> \o <<>>)
  <2> DEFINE l == <<d>>
             x == <<a>>
             y == <<b, c>>
             y2 == <<b>>
             y3 == <<c>>
             t == <<a, b, c>>
             u == <<b, c, d>>
             v == <<c, d>>
             w == <<a, b, c, d>>
  <2>1. l \o <<>> = l
    OBVIOUS
  <2>2. t = x \o y
    BY Triples, Zenon
  <2>3. w = x \o u
    BY Quadruples, Zenon
  <2>4. u = y2 \o v
    BY Triples, Zenon
  <2>5. y = y2 \o y3 /\ v = y3 \o l
    BY Pairs, Zenon
  <2>6. IsSequence(l) /\ IsSequence(x) /\ IsSequence(y)
    BY OneEntry, Literals
  <2>10. IsSequence(l) /\ IsSequence(y2) /\ IsSequence(y3)
    BY OneEntry
  <2> HIDE DEF l, x, y, y2, y3, t, u, v, w
  <2>7. (x \o y) \o l = x \o (y \o l)
    BY <2>6, Associative
  <2>8. (y2 \o y3) \o l = y2 \o (y3 \o l)
    BY <2>10, Associative
  <2>9. w = t \o (l \o <<>>)
    BY <2>1, <2>2, <2>3, <2>4, <2>5, <2>7, <2>8, Zenon
  <2> QED BY <2>9 DEF w, t, l
<1> QED BY <1>1, <1>2, <1>3, <1>4, <1>5

LEMMA ForKeeps == ASSUME Inv, For PROVE Inv'
<1> DEFINE r == Tail(stack)
           e == <<"forVar", env.closure>>
           none == <<>>
<1>1. Calling("for") /\ Then(<<e>>) /\ env' = [env EXCEPT !.closure = env.closure + 1] /\ ErrorStep
  BY DEF For, EnterClosure, ErrorStep, Calling
<1>2. e[1] = "forVar" /\ e[2] = env.closure /\ <<e>> = none \o (<<e>> \o none) /\ PlainSteps(none)
  BY Tuples, PlainLists
<1>3. "forVar" \in Tracked /\ "forVar" \in Closures /\ "forVar" \notin Scopes \cup Names \cup {"memberEnd", "funEnd"}
  BY DEF Tracked, Closures, Scopes, Names
<1>4. \A K \in SUBSET Tracked : "for" \notin K
  BY Untracked DEF PlainKinds
<1> HIDE DEF e, none
<1>5. /\ Sounds(stack')
      /\ \A K \in SUBSET Tracked :
            /\ CountIn(K, r) \in Nat
            /\ CountIn(K, stack) = CountIn(K, r)
            /\ CountIn(K, stack') = IF "forVar" \in K THEN CountIn(K, r) + 1 ELSE CountIn(K, r)
      /\ ~err.unwound /\ PutsBack(e, r) => Saved(stack')
  <2>1. e[1] \in Tracked
    BY <1>2, <1>3
  <2>2. /\ Sounds(stack')
        /\ \A K \in SUBSET Tracked :
              /\ CountIn(K, r) \in Nat
              /\ CountIn(K, stack) = IF "for" \in K THEN CountIn(K, r) + 1 ELSE CountIn(K, r)
              /\ CountIn(K, stack') = IF e[1] \in K THEN CountIn(K, r) + 1 ELSE CountIn(K, r)
        /\ ~err.unwound /\ PutsBack(e, r) => Saved(stack')
    BY <1>1, <1>2, <2>1, Enters
  <2> QED BY <1>2, <1>4, <2>2
<1> HIDE DEF r
<1>6. /\ CountIn(Scopes, stack') = CountIn(Scopes, stack) /\ CountIn(Closures, stack') = CountIn(Closures, stack) + 1
      /\ CountIn(Names, stack') = CountIn(Names, stack)
      /\ CountIn({"memberEnd"}, stack') = CountIn({"memberEnd"}, stack)
      /\ CountIn({"funEnd"}, stack') = CountIn({"funEnd"}, stack)
  BY <1>3, <1>5, KindsTracked
<1>7. /\ env'.scopes = env.scopes /\ env'.path = env.path /\ env'.closure = env.closure + 1
      /\ env'.funVars = env.funVars /\ env'.inMember = env.inMember /\ DOMAIN env' = DOMAIN EmptyEnv
  BY <1>1, EnvFields
<1>8. ASSUME ~err.unwound PROVE Agrees(stack)'
  <2>1. Agrees(stack)
    BY <1>8 DEF Inv
  <2>2. PutsBack(e, r)
    BY <1>2, <1>5, <2>1, KindsTracked DEF Agrees, PutsBack
  <2> QED BY <1>5, <1>6, <1>7, <1>8, <2>1, <2>2 DEF Agrees
<1>9. Len(env'.scopes) >= CountIn(Scopes, stack')
  BY <1>6, <1>7 DEF Inv
<1> QED BY <1>1, <1>5, <1>7, <1>8, <1>9, EnvFields, NestKeeps

LEMMA LeaveClosureKeeps == ASSUME Inv, LeaveClosure PROVE Inv'
<1>1. Calling("leaveClosure") /\ Then(<<>>) /\ env' = [env EXCEPT !.closure = stack[1][2]] /\ ErrorStep
  BY DEF LeaveClosure, Change, Arg, ErrorStep, Calling
<1>2. /\ Sounds(stack')
      /\ \A K : /\ CountIn(K, stack') \in Nat
                /\ CountIn(K, stack) = IF "leaveClosure" \in K THEN CountIn(K, stack') + 1 ELSE CountIn(K, stack')
      /\ ~err.unwound => Saved(stack') /\ PutsBack(stack[1], stack')
  BY <1>1, Returns
<1>3. "leaveClosure" \in Closures /\ "leaveClosure" \notin Scopes \cup Names \cup {"memberEnd", "funEnd"}
  BY DEF Closures, Scopes, Names
<1>4. /\ CountIn(Scopes, stack') = CountIn(Scopes, stack)
      /\ CountIn(Names, stack') = CountIn(Names, stack)
      /\ CountIn({"memberEnd"}, stack') = CountIn({"memberEnd"}, stack)
      /\ CountIn({"funEnd"}, stack') = CountIn({"funEnd"}, stack)
  BY <1>2, <1>3
<1>5. /\ env'.scopes = env.scopes /\ env'.path = env.path /\ env'.closure = stack[1][2]
      /\ env'.funVars = env.funVars /\ env'.inMember = env.inMember /\ DOMAIN env' = DOMAIN EmptyEnv
  BY <1>1, EnvFields
<1>6. ASSUME ~err.unwound PROVE Agrees(stack)'
  <2>1. Agrees(stack) /\ stack[1][1] = "leaveClosure"
    BY <1>1, <1>6 DEF Inv, Calling, Kind
  <2> QED BY <1>2, <1>4, <1>5, <1>6, <2>1 DEF Agrees, PutsBack
<1>7. Len(env'.scopes) >= CountIn(Scopes, stack')
  BY <1>4, <1>5 DEF Inv
<1> QED BY <1>1, <1>2, <1>5, <1>6, <1>7, EnvFields, NestKeeps

(* An entry in a scope changes nothing that nests.                         *)
LEMMA EntryPut ==
    ASSUME NEW e, DOMAIN e = DOMAIN EmptyEnv, IsSequence(e.scopes), NEW name, NEW entry, NEW inParser
    PROVE  LET f == PutEntry(e, name, entry, inParser)
           IN  /\ DOMAIN f = DOMAIN EmptyEnv
               /\ IsSequence(f.scopes) /\ Len(f.scopes) = Len(e.scopes)
               /\ f.path = e.path /\ f.closure = e.closure /\ f.funVars = e.funVars /\ f.inMember = e.inMember
<1> DEFINE f == PutEntry(e, name, entry, inParser)
           s == e.scopes
           n == Len(s)
<1>1. DOMAIN e = {"scopes", "globals", "fullNames", "path", "closure", "funVars", "inMember"}
  BY DEF EmptyEnv
<1>2. CASE s # <<>> /\ inParser
  <2> DEFINE inner == [s[n] EXCEPT ![name] = entry]
             t == [s EXCEPT ![n] = inner]
  <2>1. f = [e EXCEPT !.scopes = t]
    BY <1>2 DEF PutEntry
  <2> HIDE DEF inner
  <2>2. IsSequence(t) /\ Len(t) = n
    <3>1. PICK D : s \in Seq(D)
      BY DEF IsSequence
    <3>2. s \in Seq(D \cup {inner})
      BY <3>1, SeqMonotonic
    <3>3. n \in 1 .. Len(s)
      <4>1. n \in Nat /\ n # 0
        BY <1>2, SequenceFacts
      <4> QED BY <4>1
    <3> DEFINE X == D \cup {inner}
    <3>4. s \in Seq(X) /\ inner \in X
      BY <3>2
    <3> HIDE DEF X, s, n
    <3>5. t \in Seq(X) /\ Len(t) = Len(s)
      BY <3>3, <3>4, ExceptSeq
    <3> QED BY <3>5 DEF IsSequence, n
  <2> HIDE DEF t, f
  <2>3. /\ f.scopes = t /\ f.path = e.path /\ f.closure = e.closure /\ f.funVars = e.funVars /\ f.inMember = e.inMember
        /\ DOMAIN f = DOMAIN e
    BY <1>1, <2>1
  <2> QED BY <2>2, <2>3 DEF f
<1>3. CASE s # <<>> /\ ~inParser
  BY <1>3 DEF PutEntry
<1>4. CASE s = <<>>
  BY <1>1, <1>4 DEF PutEntry
<1> QED BY <1>2, <1>3, <1>4

LEMMA FunDepthIs == FunDepth = CountIn({"funEnd"}, stack)
<1>1. {i \in DOMAIN stack : stack[i][1] = "funEnd"} = {i \in DOMAIN stack : stack[i][1] \in {"funEnd"}}
  OBVIOUS
<1> QED BY <1>1 DEF FunDepth, CountIn

(* A variable is the innermost function's.                                 *)
LEMMA VarPut ==
    ASSUME NEW e, DOMAIN e = DOMAIN EmptyEnv, IsSequence(e.scopes), NEW name, NEW inParser
    PROVE  LET f == NewVar(e, name, inParser)
           IN  /\ DOMAIN f = DOMAIN EmptyEnv
               /\ IsSequence(f.scopes) /\ Len(f.scopes) = Len(e.scopes)
               /\ f.path = e.path /\ f.closure = e.closure /\ f.inMember = e.inMember
               /\ f.funVars = e.funVars \cup {CountIn({"funEnd"}, stack)}
<1> DEFINE g == [e EXCEPT !.funVars = e.funVars \cup {CountIn({"funEnd"}, stack)}]
<1>1. NewVar(e, name, inParser) = PutEntry(g, name, "Var", inParser)
  BY FunDepthIs DEF NewVar
<1>2. /\ DOMAIN g = DOMAIN EmptyEnv /\ g.scopes = e.scopes /\ g.path = e.path /\ g.closure = e.closure
      /\ g.inMember = e.inMember /\ g.funVars = e.funVars \cup {CountIn({"funEnd"}, stack)}
  BY DEF EmptyEnv
<1> HIDE DEF g
<1>3. LET f == PutEntry(g, name, "Var", inParser)
      IN  /\ DOMAIN f = DOMAIN EmptyEnv
          /\ IsSequence(f.scopes) /\ Len(f.scopes) = Len(g.scopes)
          /\ f.path = g.path /\ f.closure = g.closure /\ f.funVars = g.funVars /\ f.inMember = g.inMember
  BY <1>2, EntryPut
<1> QED BY <1>1, <1>2, <1>3

LEMMA DeclareKeeps == ASSUME Inv, Declare PROVE Inv'
<1>1. /\ Calling("declare") /\ Then(<<>>) /\ ErrorStep /\ env' = NewVar(env, Arg(1), Arg(2))
  BY DEF Declare, Change, ErrorStep, Calling
<1>2. NestsAlike(env')
  <2>1. DOMAIN env = DOMAIN EmptyEnv /\ IsSequence(env.scopes) /\ IsSequence(env.path)
    BY EnvFields
  <2>2. /\ DOMAIN env' = DOMAIN EmptyEnv
        /\ IsSequence(env'.scopes) /\ Len(env'.scopes) = Len(env.scopes)
        /\ env'.path = env.path /\ env'.closure = env.closure /\ env'.inMember = env.inMember
        /\ env'.funVars = env.funVars \cup {CountIn({"funEnd"}, stack)}
    BY <1>1, <2>1, VarPut
  <2> QED BY <2>1, <2>2 DEF NestsAlike
<1>3. stack # <<>> /\ stack[1][1] \notin Tracked
  BY <1>1, Untracked DEF Calling, Kind, PlainKinds
<1> QED BY <1>1, <1>2, <1>3, PlainKeeps, PlainLists

LEMMA PopScopeKeeps == ASSUME Inv, PopScope PROVE Inv'
<1>1. /\ Calling("popScope") /\ Then(<<>>) /\ ErrorStep
      /\ env' = [env EXCEPT !.scopes = IF env.scopes = <<>> THEN env.scopes ELSE Front(env.scopes)]
  BY DEF PopScope, Change, ErrorStep, Calling
<1>2. /\ Sounds(stack')
      /\ \A K : /\ CountIn(K, stack') \in Nat
                /\ CountIn(K, stack) = IF "popScope" \in K THEN CountIn(K, stack') + 1 ELSE CountIn(K, stack')
      /\ ~err.unwound => Saved(stack') /\ PutsBack(stack[1], stack')
  BY <1>1, Returns
<1>3. "popScope" \in Scopes /\ "popScope" \notin Closures \cup Names \cup {"memberEnd", "funEnd"}
  BY DEF Closures, Scopes, Names
<1>4. /\ CountIn(Scopes, stack) = CountIn(Scopes, stack') + 1 /\ CountIn(Scopes, stack') \in Nat
      /\ CountIn(Closures, stack') = CountIn(Closures, stack)
      /\ CountIn(Names, stack') = CountIn(Names, stack)
      /\ CountIn({"memberEnd"}, stack') = CountIn({"memberEnd"}, stack)
      /\ CountIn({"funEnd"}, stack') = CountIn({"funEnd"}, stack)
  BY <1>2, <1>3
<1>5. /\ env'.scopes = IF env.scopes = <<>> THEN env.scopes ELSE Front(env.scopes)
      /\ env'.path = env.path /\ env'.closure = env.closure
      /\ env'.funVars = env.funVars /\ env'.inMember = env.inMember /\ DOMAIN env' = DOMAIN EmptyEnv
  BY <1>1, EnvFields
<1>6. Len(env.scopes) >= CountIn(Scopes, stack) /\ Len(env.scopes) \in Nat
  BY EnvFields DEF Inv
<1>7. IsSequence(env'.scopes) /\ Len(env'.scopes) = Len(env.scopes) - 1
  <2>1. env.scopes # <<>>
    BY <1>4, <1>6, SequenceFacts, EnvFields
  <2> QED BY <1>5, <2>1, SequenceFacts, EnvFields
<1>8. ASSUME ~err.unwound PROVE Agrees(stack)'
  <2>1. Agrees(stack)
    BY <1>8 DEF Inv
  <2>2. Len(env'.scopes) = CountIn(Scopes, stack')
    BY <1>4, <1>7, <2>1 DEF Agrees
  <2> QED BY <1>2, <1>4, <1>5, <1>8, <2>1, <2>2 DEF Agrees
<1>9. Len(env'.scopes) >= CountIn(Scopes, stack')
  BY <1>4, <1>6, <1>7
<1> QED BY <1>1, <1>2, <1>5, <1>7, <1>8, <1>9, EnvFields, NestKeeps

LEMMA MemberEndKeeps == ASSUME Inv, MemberEnd PROVE Inv'
<1>1. Calling("memberEnd") /\ Then(<<>>) /\ env' = [env EXCEPT !.inMember = stack[1][2]] /\ ErrorStep
  BY DEF MemberEnd, Change, Arg, ErrorStep, Calling
<1>2. /\ Sounds(stack')
      /\ \A K : /\ CountIn(K, stack') \in Nat
                /\ CountIn(K, stack) = IF "memberEnd" \in K THEN CountIn(K, stack') + 1 ELSE CountIn(K, stack')
      /\ ~err.unwound => Saved(stack') /\ PutsBack(stack[1], stack')
  BY <1>1, Returns
<1>3. "memberEnd" \notin Scopes \cup Closures \cup Names \cup {"funEnd"}
  BY DEF Closures, Scopes, Names
<1>4. /\ CountIn(Scopes, stack') = CountIn(Scopes, stack)
      /\ CountIn(Closures, stack') = CountIn(Closures, stack)
      /\ CountIn(Names, stack') = CountIn(Names, stack)
      /\ CountIn({"funEnd"}, stack') = CountIn({"funEnd"}, stack)
  BY <1>2, <1>3
<1>5. /\ env'.scopes = env.scopes /\ env'.path = env.path /\ env'.inMember = stack[1][2]
      /\ env'.funVars = env.funVars /\ env'.closure = env.closure /\ DOMAIN env' = DOMAIN EmptyEnv
  BY <1>1, EnvFields
<1>6. ASSUME ~err.unwound PROVE Agrees(stack)'
  <2>1. Agrees(stack) /\ stack[1][1] = "memberEnd"
    BY <1>1, <1>6 DEF Inv, Calling, Kind
  <2>2. env'.inMember = (CountIn({"memberEnd"}, stack') > 0)
    BY <1>2, <1>5, <1>6, <2>1 DEF PutsBack
  <2> QED BY <1>2, <1>4, <1>5, <1>6, <2>1, <2>2 DEF Agrees
<1>7. Len(env'.scopes) >= CountIn(Scopes, stack')
  BY <1>4, <1>5 DEF Inv
<1> QED BY <1>1, <1>2, <1>5, <1>6, <1>7, EnvFields, NestKeeps

LEMMA NamePopped ==
    ASSUME NEW e, DOMAIN e = DOMAIN EmptyEnv, IsSequence(e.path)
    PROVE  /\ DOMAIN PopName(e) = DOMAIN EmptyEnv
           /\ PopName(e).scopes = e.scopes /\ PopName(e).closure = e.closure
           /\ PopName(e).funVars = e.funVars /\ PopName(e).inMember = e.inMember
           /\ IsSequence(PopName(e).path)
           /\ Len(PopName(e).path) = IF Len(e.path) = 0 THEN 0 ELSE Len(e.path) - 1
<1> DEFINE f == PopName(e)
<1>1. /\ DOMAIN f = DOMAIN EmptyEnv /\ f.scopes = e.scopes /\ f.closure = e.closure /\ f.funVars = e.funVars
      /\ f.inMember = e.inMember /\ f.path = IF e.path = <<>> THEN e.path ELSE Front(e.path)
  BY DEF PopName, EmptyEnv
<1> HIDE DEF f
<1>2. IsSequence(f.path) /\ Len(f.path) = IF Len(e.path) = 0 THEN 0 ELSE Len(e.path) - 1
  BY <1>1, SequenceFacts
<1> QED BY <1>1, <1>2 DEF f

LEMMA ClassEndKeeps == ASSUME Inv, ClassEnd PROVE Inv'
<1> DEFINE outer == PopName(env)
<1>1. Calling("classEnd") /\ Then(<<>>) /\ env' = PutEntry(outer, Arg(1), "Class", FALSE) /\ ErrorStep
  BY DEF ClassEnd, Change, ErrorStep, Calling
<1>2. /\ Sounds(stack')
      /\ \A K : /\ CountIn(K, stack') \in Nat
                /\ CountIn(K, stack) = IF "classEnd" \in K THEN CountIn(K, stack') + 1 ELSE CountIn(K, stack')
      /\ ~err.unwound => Saved(stack') /\ PutsBack(stack[1], stack')
  BY <1>1, Returns
<1>3. "classEnd" \in Names /\ "classEnd" \notin Closures \cup Scopes \cup {"memberEnd", "funEnd"}
  BY DEF Closures, Scopes, Names
<1>4. /\ CountIn(Names, stack) = CountIn(Names, stack') + 1 /\ CountIn(Names, stack') \in Nat
      /\ CountIn(Closures, stack') = CountIn(Closures, stack)
      /\ CountIn(Scopes, stack') = CountIn(Scopes, stack)
      /\ CountIn({"memberEnd"}, stack') = CountIn({"memberEnd"}, stack)
      /\ CountIn({"funEnd"}, stack') = CountIn({"funEnd"}, stack)
  BY <1>2, <1>3
<1>5. /\ DOMAIN outer = DOMAIN EmptyEnv /\ IsSequence(outer.scopes) /\ outer.scopes = env.scopes
      /\ IsSequence(outer.path) /\ Len(outer.path) = IF Len(env.path) = 0 THEN 0 ELSE Len(env.path) - 1
      /\ outer.closure = env.closure /\ outer.funVars = env.funVars /\ outer.inMember = env.inMember
  BY NamePopped, EnvFields
<1> DEFINE name == Arg(1)
           inParser == FALSE
<1> HIDE DEF outer, name, inParser
<1>6. /\ DOMAIN env' = DOMAIN EmptyEnv /\ IsSequence(env'.scopes) /\ Len(env'.scopes) = Len(outer.scopes)
      /\ env'.path = outer.path /\ env'.closure = outer.closure /\ env'.funVars = outer.funVars
      /\ env'.inMember = outer.inMember
  <2>1. env' = PutEntry(outer, name, "Class", inParser)
    BY <1>1 DEF name, inParser
  <2> QED BY <1>5, <2>1, EntryPut
<1>7. ASSUME ~err.unwound PROVE Agrees(stack)'
  <2>1. Agrees(stack)
    BY <1>7 DEF Inv
  <2>2. Len(env'.path) = CountIn(Names, stack')
    BY <1>4, <1>5, <1>6, <2>1 DEF Agrees
  <2> QED BY <1>2, <1>4, <1>5, <1>6, <1>7, <2>1, <2>2 DEF Agrees
<1>8. Len(env'.scopes) >= CountIn(Scopes, stack')
  BY <1>4, <1>5, <1>6 DEF Inv
<1> QED BY <1>1, <1>2, <1>5, <1>6, <1>7, <1>8, NestKeeps

LEMMA FunEndKeeps == ASSUME Inv, FunEnd PROVE Inv'
<1> DEFINE inner == [env EXCEPT !.scopes = IF env.scopes = <<>> THEN env.scopes ELSE Front(env.scopes),
                                !.closure = stack[1][4], !.funVars = stack[1][5]]
           outer == PopName(inner)
           name == Arg(2)
           inParser == Arg(1)
<1>1. /\ Calling("funEnd") /\ Then(<<>>) /\ ErrorStep
      /\ env' = PutEntry(outer, name, "Fun", inParser) \/ env' = outer
  BY DEF FunEnd, ErrorStep, Calling, Arg
<1>2. /\ Sounds(stack')
      /\ \A K : /\ CountIn(K, stack') \in Nat
                /\ CountIn(K, stack) = IF "funEnd" \in K THEN CountIn(K, stack') + 1 ELSE CountIn(K, stack')
      /\ ~err.unwound => Saved(stack') /\ PutsBack(stack[1], stack')
  BY <1>1, Returns
<1>3. "funEnd" \in Scopes \cap Closures \cap Names
  BY DEF Closures, Scopes, Names
<1>4. /\ CountIn(Names, stack) = CountIn(Names, stack') + 1 /\ CountIn(Names, stack') \in Nat
      /\ CountIn(Scopes, stack) = CountIn(Scopes, stack') + 1 /\ CountIn(Scopes, stack') \in Nat
      /\ CountIn({"memberEnd"}, stack') = CountIn({"memberEnd"}, stack)
  BY <1>2, <1>3
<1>5. env.scopes # <<>> /\ Len(env.scopes) \in Nat /\ Len(env.scopes) >= CountIn(Scopes, stack)
  BY <1>4, SequenceFacts, EnvFields DEF Inv
<1>6. /\ DOMAIN inner = DOMAIN EmptyEnv /\ inner.scopes = Front(env.scopes)
      /\ inner.path = env.path /\ inner.closure = stack[1][4] /\ inner.funVars = stack[1][5]
      /\ inner.inMember = env.inMember
  BY <1>5, EnvFields
<1>7. IsSequence(inner.scopes) /\ Len(inner.scopes) = Len(env.scopes) - 1 /\ IsSequence(inner.path)
  BY <1>5, <1>6, SequenceFacts, EnvFields
<1> HIDE DEF inner
<1>8. /\ DOMAIN outer = DOMAIN EmptyEnv /\ IsSequence(outer.scopes) /\ outer.scopes = inner.scopes
      /\ IsSequence(outer.path) /\ Len(outer.path) = IF Len(env.path) = 0 THEN 0 ELSE Len(env.path) - 1
      /\ outer.closure = stack[1][4] /\ outer.funVars = stack[1][5] /\ outer.inMember = env.inMember
  BY <1>6, <1>7, NamePopped
<1> HIDE DEF outer, name, inParser
<1>9. /\ DOMAIN env' = DOMAIN EmptyEnv /\ IsSequence(env'.scopes) /\ Len(env'.scopes) = Len(outer.scopes)
      /\ env'.path = outer.path /\ env'.closure = outer.closure /\ env'.funVars = outer.funVars
      /\ env'.inMember = outer.inMember
  <2>1. CASE env' = outer
    BY <1>8, <2>1
  <2>2. CASE env' = PutEntry(outer, name, "Fun", inParser)
    BY <1>8, <2>2, EntryPut
  <2> QED BY <1>1, <2>1, <2>2
<1>10. ASSUME ~err.unwound PROVE Agrees(stack)'
  <2>1. Agrees(stack) /\ stack[1][1] = "funEnd"
    BY <1>1, <1>10 DEF Inv, Calling, Kind
  <2>2. Len(env'.path) = CountIn(Names, stack') /\ Len(env'.scopes) = CountIn(Scopes, stack')
    BY <1>4, <1>7, <1>8, <1>9, <2>1 DEF Agrees
  <2>3. env'.closure = CountIn(Closures, stack') /\ env'.funVars \subseteq {CountIn({"funEnd"}, stack')}
    BY <1>2, <1>8, <1>9, <1>10, <2>1 DEF PutsBack
  <2>4. env'.inMember = (CountIn({"memberEnd"}, stack') > 0)
    BY <1>4, <1>8, <1>9, <2>1 DEF Agrees
  <2> QED BY <1>2, <1>10, <2>2, <2>3, <2>4 DEF Agrees
<1>11. Len(env'.scopes) >= CountIn(Scopes, stack')
  BY <1>4, <1>5, <1>7, <1>8, <1>9
<1> QED BY <1>1, <1>2, <1>8, <1>9, <1>10, <1>11, NestKeeps

LEMMA LoopBodyKeeps == ASSUME Inv, LoopBody PROVE Inv'
<1> DEFINE r == Tail(stack)
           e == <<"leaveClosure", env.closure>>
           a == <<"block">>
           c == Become("Block")
           p == <<a>>
           q == <<c>>
           steps == <<a, e, c>>
<1>1. Calling("loopBody") /\ "loopBody" \notin Tracked
  BY Untracked DEF LoopBody, PlainKinds
<1>2. CASE SyntaxError
  BY <1>1, <1>2, GoOn
<1>3. CASE ~SyntaxError
  <2>1. Then(steps) /\ env' = [env EXCEPT !.closure = env.closure + 1] /\ ErrorStep
    BY <1>3 DEF LoopBody, Change, EnterClosure, ErrorStep, Calling
  <2>2. e[1] = "leaveClosure" /\ e[2] = env.closure /\ steps = p \o (<<e>> \o q)
    <3>1. steps = p \o (<<e>> \o q)
      <4> HIDE DEF a, c, e
      <4> QED BY Threes
    <3>2. e[1] = "leaveClosure" /\ e[2] = env.closure
      OBVIOUS
    <3> HIDE DEF e, steps, p, q
    <3> QED BY <3>1, <3>2
  <2>3. PlainSteps(p) /\ PlainSteps(q)
    <3>1. "block" \in PlainKinds
      BY DEF PlainKinds
    <3> QED BY <3>1, PlainEntries, PlainLists
  <2>4. "leaveClosure" \in Tracked /\ "leaveClosure" \in Closures
        /\ "leaveClosure" \notin Scopes \cup Names \cup {"memberEnd", "funEnd"}
    BY DEF Tracked, Closures, Scopes, Names
  <2>5. \A K \in SUBSET Tracked : "loopBody" \notin K
    BY <1>1
  <2> HIDE DEF e, p, q, steps
  <2>6. e[1] \in Tracked
    BY <2>2, <2>4
  <2>7. /\ Sounds(stack')
        /\ \A K \in SUBSET Tracked :
              /\ CountIn(K, r) \in Nat
              /\ CountIn(K, stack) = IF "loopBody" \in K THEN CountIn(K, r) + 1 ELSE CountIn(K, r)
              /\ CountIn(K, stack') = IF e[1] \in K THEN CountIn(K, r) + 1 ELSE CountIn(K, r)
        /\ ~err.unwound /\ PutsBack(e, r) => Saved(stack')
    BY <1>1, <2>1, <2>2, <2>3, <2>6, Enters
  <2> HIDE DEF r
  <2>8. /\ CountIn(Scopes, stack') = CountIn(Scopes, stack) /\ CountIn(Closures, stack') = CountIn(Closures, stack) + 1
        /\ CountIn(Names, stack') = CountIn(Names, stack) /\ CountIn(Closures, stack) = CountIn(Closures, r)
        /\ CountIn({"memberEnd"}, stack') = CountIn({"memberEnd"}, stack)
        /\ CountIn({"funEnd"}, stack') = CountIn({"funEnd"}, stack)
    BY <2>2, <2>4, <2>5, <2>7, KindsTracked
  <2>9. /\ env'.scopes = env.scopes /\ env'.path = env.path /\ env'.closure = env.closure + 1
        /\ env'.funVars = env.funVars /\ env'.inMember = env.inMember /\ DOMAIN env' = DOMAIN EmptyEnv
    BY <2>1, EnvFields
  <2>10. ASSUME ~err.unwound PROVE Agrees(stack)'
    <3>1. Agrees(stack)
      BY <2>10 DEF Inv
    <3>2. PutsBack(e, r)
      BY <2>2, <2>8, <3>1 DEF Agrees, PutsBack
    <3> QED BY <2>7, <2>8, <2>9, <2>10, <3>1, <3>2 DEF Agrees
  <2>11. Len(env'.scopes) >= CountIn(Scopes, stack')
    BY <2>8, <2>9 DEF Inv
  <2> QED BY <2>1, <2>7, <2>9, <2>10, <2>11, EnvFields, NestKeeps
<1> QED BY <1>2, <1>3

LEMMA BlockKeeps == ASSUME Inv, Block PROVE Inv'
<1> DEFINE r == Tail(stack)
           e == <<"popScope">>
           a == <<"stmts", FALSE, FALSE>>
           c == Tok("RightBrace")
           d == Become("Block")
           p == <<a>>
           q == <<c, d>>
           steps == <<a, e, c, d>>
<1>1. Calling("block") /\ "block" \notin Tracked
  BY Untracked DEF Block, PlainKinds
<1>2. CASE SyntaxError
  BY <1>1, <1>2, GoOn
<1>3. CASE ~SyntaxError
  <2>1. Then(steps) /\ env' = [env EXCEPT !.scopes = Append(env.scopes, NoScope)] /\ ErrorStep
    BY <1>3 DEF Block, ErrorStep, Calling
  <2>2. e[1] = "popScope" /\ steps = p \o (<<e>> \o q)
    <3>1. steps = p \o (<<e>> \o q)
      <4> HIDE DEF a, c, d, e
      <4> QED BY Tuples
    <3>2. e[1] = "popScope"
      OBVIOUS
    <3> HIDE DEF e, steps, p, q
    <3> QED BY <3>1, <3>2
  <2>3. PlainSteps(p) /\ PlainSteps(q)
    <3>1. "stmts" \in PlainKinds
      BY DEF PlainKinds
    <3> QED BY <3>1, PlainEntries, PlainLists
  <2>4. "popScope" \in Tracked /\ "popScope" \in Scopes
        /\ "popScope" \notin Closures \cup Names \cup {"memberEnd", "funEnd"}
    BY DEF Tracked, Closures, Scopes, Names
  <2>5. \A K \in SUBSET Tracked : "block" \notin K
    BY <1>1
  <2> HIDE DEF e, p, q, steps
  <2>6. e[1] \in Tracked
    BY <2>2, <2>4
  <2>7. /\ Sounds(stack')
        /\ \A K \in SUBSET Tracked :
              /\ CountIn(K, r) \in Nat
              /\ CountIn(K, stack) = IF "block" \in K THEN CountIn(K, r) + 1 ELSE CountIn(K, r)
              /\ CountIn(K, stack') = IF e[1] \in K THEN CountIn(K, r) + 1 ELSE CountIn(K, r)
        /\ ~err.unwound /\ PutsBack(e, r) => Saved(stack')
    BY <1>1, <2>1, <2>2, <2>3, <2>6, Enters
  <2> HIDE DEF r
  <2>8. /\ CountIn(Scopes, stack') = CountIn(Scopes, stack) + 1 /\ CountIn(Closures, stack') = CountIn(Closures, stack)
        /\ CountIn(Names, stack') = CountIn(Names, stack)
        /\ CountIn({"memberEnd"}, stack') = CountIn({"memberEnd"}, stack)
        /\ CountIn({"funEnd"}, stack') = CountIn({"funEnd"}, stack) /\ CountIn(Scopes, stack) \in Nat
    BY <2>2, <2>4, <2>5, <2>7, KindsTracked
  <2>9. /\ IsSequence(env'.scopes) /\ Len(env'.scopes) = Len(env.scopes) + 1
        /\ env'.path = env.path /\ env'.closure = env.closure
        /\ env'.funVars = env.funVars /\ env'.inMember = env.inMember /\ DOMAIN env' = DOMAIN EmptyEnv
    <3>1. env'.scopes = Append(env.scopes, NoScope)
      BY <2>1, EnvFields
    <3>2. /\ env'.path = env.path /\ env'.closure = env.closure
          /\ env'.funVars = env.funVars /\ env'.inMember = env.inMember /\ DOMAIN env' = DOMAIN EmptyEnv
      BY <2>1, EnvFields
    <3> QED BY <3>1, <3>2, EnvFields, SequenceFacts
  <2>10. ASSUME ~err.unwound PROVE Agrees(stack)'
    <3>1. Agrees(stack)
      BY <2>10 DEF Inv
    <3>2. PutsBack(e, r)
      BY <2>2 DEF PutsBack
    <3> QED BY <2>7, <2>8, <2>9, <2>10, <3>1, <3>2 DEF Agrees
  <2>11. Len(env'.scopes) >= CountIn(Scopes, stack')
    BY <2>8, <2>9, EnvFields DEF Inv
  <2> QED BY <2>1, <2>7, <2>9, <2>10, <2>11, EnvFields, NestKeeps
<1> QED BY <1>2, <1>3

LEMMA ForVarKeeps == ASSUME Inv, ForVar PROVE Inv'
<1> DEFINE r == Tail(stack)
           e == <<"forBody", Arg(1), current.lexeme>>
           a == <<"maybe", "Colon", <<<<"typ", 0>>>>>>
           b == Tok("In")
           c == Expr
           p == <<a, b, c>>
           q == <<>>
           steps == <<a, b, c, e>>
<1>1. Calling("forVar")
  BY DEF ForVar
<1>2. CASE SyntaxError
  BY <1>2, SyntaxErrorKeeps DEF ForVar, Calling
<1>3. CASE ~SyntaxError
  <2>1. Then(steps) /\ env' = env /\ ErrorStep
    BY <1>3 DEF ForVar, Expect, Eat, Quiet, ErrorStep, Calling
  <2>2. e[1] = "forBody" /\ e[2] = stack[1][2] /\ steps = p \o (<<e>> \o q)
    <3>1. steps = p \o (<<e>> \o q)
      <4> HIDE DEF a, b, c, e
      <4> QED BY Tuples
    <3>2. e[1] = "forBody" /\ e[2] = stack[1][2]
      BY DEF Arg
    <3> HIDE DEF e, steps, p, q
    <3> QED BY <3>1, <3>2
  <2>3. PlainSteps(p) /\ PlainSteps(q)
    <3>1. <<<<"typ", 0>>>> \in Optional
      BY DEF Optional
    <3>2. Plain(a) /\ Plain(b) /\ Plain(c)
      BY <3>1, PlainEntries
    <3> HIDE DEF a, b, c
    <3> QED BY <3>2, PlainLists
  <2>4. /\ "forBody" \in Tracked /\ "forBody" \in Closures /\ "forBody" \notin Scopes \cup Names \cup {"memberEnd", "funEnd"}
        /\ "forVar" \in Closures /\ "forVar" \notin Scopes \cup Names \cup {"memberEnd", "funEnd"}
    BY DEF Tracked, Closures, Scopes, Names
  <2> HIDE DEF e, p, q, steps
  <2>5. e[1] \in Tracked
    BY <2>2, <2>4
  <2>6. /\ Sounds(stack')
        /\ \A K \in SUBSET Tracked :
              /\ CountIn(K, r) \in Nat
              /\ CountIn(K, stack) = IF "forVar" \in K THEN CountIn(K, r) + 1 ELSE CountIn(K, r)
              /\ CountIn(K, stack') = IF e[1] \in K THEN CountIn(K, r) + 1 ELSE CountIn(K, r)
        /\ ~err.unwound /\ PutsBack(e, r) => Saved(stack')
    BY <1>1, <2>1, <2>2, <2>3, <2>5, Enters
  <2>7. /\ CountIn(Scopes, stack') = CountIn(Scopes, stack) /\ CountIn(Closures, stack') = CountIn(Closures, stack)
        /\ CountIn(Names, stack') = CountIn(Names, stack)
        /\ CountIn({"memberEnd"}, stack') = CountIn({"memberEnd"}, stack)
        /\ CountIn({"funEnd"}, stack') = CountIn({"funEnd"}, stack)
    BY <2>2, <2>4, <2>6, KindsTracked
  <2>8. ASSUME ~err.unwound PROVE Agrees(stack)'
    <3>1. Agrees(stack) /\ stack[1][1] = "forVar" /\ PutsBack(stack[1], r)
      BY <1>1, <2>8, Calls DEF Inv, Calling, Kind
    <3>2. PutsBack(e, r)
      BY <2>2, <3>1 DEF PutsBack
    <3> QED BY <2>1, <2>6, <2>7, <2>8, <3>1, <3>2 DEF Agrees
  <2>9. DOMAIN env' = DOMAIN EmptyEnv /\ IsSequence(env'.scopes) /\ IsSequence(env'.path)
        /\ Len(env'.scopes) >= CountIn(Scopes, stack')
    BY <2>1, <2>7, EnvFields DEF Inv
  <2> QED BY <2>1, <2>6, <2>8, <2>9, NestKeeps
<1> QED BY <1>2, <1>3

LEMMA FunNameKeeps == ASSUME Inv, FunName PROVE Inv'
<1> DEFINE r == Tail(stack)
           name == IF At("Identifier") THEN current.lexeme ELSE NoLexeme
           e == <<"funOpen", Arg(2), Arg(3), name>>
           none == <<>>
           steps == <<e>>
<1>1. Calling("funName") /\ "funName" \notin Tracked /\ Then(steps) /\ ErrorStep
      /\ env' = [env EXCEPT !.path = Append(env.path, name)]
  BY Untracked DEF FunName, PlainKinds, ErrorStep, Calling
<1>2. e[1] = "funOpen" /\ steps = none \o (<<e>> \o none) /\ PlainSteps(none)
  <2>1. e[1] = "funOpen"
    OBVIOUS
  <2> HIDE DEF e
  <2> QED BY <2>1, Tuples, PlainLists
<1>3. "funOpen" \in Tracked /\ "funOpen" \in Names /\ "funOpen" \notin Scopes \cup Closures \cup {"memberEnd", "funEnd"}
  BY DEF Tracked, Closures, Scopes, Names
<1>4. \A K \in SUBSET Tracked : "funName" \notin K
  BY <1>1
<1> HIDE DEF e, none, steps, name
<1>5. e[1] \in Tracked
  BY <1>2, <1>3
<1>6. /\ Sounds(stack')
      /\ \A K \in SUBSET Tracked :
            /\ CountIn(K, r) \in Nat
            /\ CountIn(K, stack) = IF "funName" \in K THEN CountIn(K, r) + 1 ELSE CountIn(K, r)
            /\ CountIn(K, stack') = IF e[1] \in K THEN CountIn(K, r) + 1 ELSE CountIn(K, r)
      /\ ~err.unwound /\ PutsBack(e, r) => Saved(stack')
  BY <1>1, <1>2, <1>5, Enters
<1> HIDE DEF r
<1>7. /\ CountIn(Scopes, stack') = CountIn(Scopes, stack) /\ CountIn(Closures, stack') = CountIn(Closures, stack)
      /\ CountIn(Names, stack') = CountIn(Names, stack) + 1
      /\ CountIn({"memberEnd"}, stack') = CountIn({"memberEnd"}, stack)
      /\ CountIn({"funEnd"}, stack') = CountIn({"funEnd"}, stack)
  BY <1>2, <1>3, <1>4, <1>6, KindsTracked
<1>8. /\ env'.scopes = env.scopes /\ env'.closure = env.closure /\ env'.path = Append(env.path, name)
      /\ env'.funVars = env.funVars /\ env'.inMember = env.inMember /\ DOMAIN env' = DOMAIN EmptyEnv
  BY <1>1, EnvFields
<1>9. IsSequence(env'.path) /\ Len(env'.path) = Len(env.path) + 1
  BY <1>8, EnvFields, SequenceFacts
<1>10. ASSUME ~err.unwound PROVE Agrees(stack)'
  <2>1. Agrees(stack)
    BY <1>10 DEF Inv
  <2>2. PutsBack(e, r)
    BY <1>2 DEF PutsBack
  <2> QED BY <1>6, <1>7, <1>8, <1>9, <1>10, <2>1, <2>2 DEF Agrees
<1>11. Len(env'.scopes) >= CountIn(Scopes, stack')
  BY <1>7, <1>8 DEF Inv
<1> QED BY <1>1, <1>6, <1>8, <1>9, <1>10, <1>11, EnvFields, NestKeeps

LEMMA FunOpenKeeps == ASSUME Inv, FunOpen PROVE Inv'
<1> DEFINE r == Tail(stack)
           bar == IF Arg(2) THEN "VerticalBar" ELSE "RightParen"
           param == IF Arg(2) THEN "lambdaParameter" ELSE "parameter"
           e == <<"funEnd", Arg(1), Arg(3), env.closure, env.funVars>>
           a == List(param, bar, "strict")
           b == Tok(bar)
           c == <<"funReturn", Arg(2)>>
           p == <<a, b, c>>
           q == <<>>
           steps == <<a, b, c, e>>
<1>1. Calling("funOpen")
  BY DEF FunOpen
<1>2. CASE SyntaxError
  BY <1>2, SyntaxErrorKeeps DEF FunOpen, Calling
<1>3. CASE ~SyntaxError
  <2>1. /\ Then(steps) /\ ErrorStep
        /\ env' = [EnterClosure(env) EXCEPT !.funVars = {}, !.scopes = Append(EnterClosure(env).scopes, NoScope)]
    BY <1>3 DEF FunOpen, ErrorStep, Calling
  <2>2. e[1] = "funEnd" /\ e[4] = env.closure /\ e[5] = env.funVars /\ steps = p \o (<<e>> \o q)
    <3>1. steps = p \o (<<e>> \o q)
      <4> HIDE DEF a, b, c, e
      <4> QED BY Tuples
    <3>2. e[1] = "funEnd" /\ e[4] = env.closure /\ e[5] = env.funVars
      OBVIOUS
    <3> HIDE DEF e, steps, p, q
    <3> QED BY <3>1, <3>2
  <2>3. PlainSteps(p) /\ PlainSteps(q)
    <3>1. param \in PlainKinds /\ "funReturn" \in PlainKinds
      BY DEF PlainKinds
    <3> HIDE DEF param, bar
    <3>2. Plain(a) /\ Plain(b) /\ Plain(c)
      BY <3>1, PlainEntries
    <3> HIDE DEF a, b, c
    <3> QED BY <3>2, PlainLists
  <2>4. /\ "funEnd" \in Tracked \cap Closures \cap Scopes \cap Names /\ "funEnd" # "memberEnd"
        /\ "funOpen" \in Names /\ "funOpen" \notin Scopes \cup Closures \cup {"memberEnd", "funEnd"}
    BY DEF Tracked, Closures, Scopes, Names
  <2> HIDE DEF e, p, q, steps, param, bar
  <2>5. e[1] \in Tracked
    BY <2>2, <2>4
  <2>6. /\ Sounds(stack')
        /\ \A K \in SUBSET Tracked :
              /\ CountIn(K, r) \in Nat
              /\ CountIn(K, stack) = IF "funOpen" \in K THEN CountIn(K, r) + 1 ELSE CountIn(K, r)
              /\ CountIn(K, stack') = IF e[1] \in K THEN CountIn(K, r) + 1 ELSE CountIn(K, r)
        /\ ~err.unwound /\ PutsBack(e, r) => Saved(stack')
    BY <1>1, <2>1, <2>2, <2>3, <2>5, Enters
  <2> HIDE DEF r
  <2>7. /\ CountIn(Scopes, stack') = CountIn(Scopes, stack) + 1 /\ CountIn(Scopes, stack) \in Nat
        /\ CountIn(Closures, stack') = CountIn(Closures, stack) + 1
        /\ CountIn(Names, stack') = CountIn(Names, stack)
        /\ CountIn({"memberEnd"}, stack') = CountIn({"memberEnd"}, stack)
        /\ CountIn(Closures, stack) = CountIn(Closures, r) /\ CountIn({"funEnd"}, stack) = CountIn({"funEnd"}, r)
    BY <2>2, <2>4, <2>6, KindsTracked
  <2>8. /\ env'.scopes = Append(env.scopes, NoScope) /\ env'.path = env.path /\ env'.closure = env.closure + 1
        /\ env'.funVars = {} /\ env'.inMember = env.inMember /\ DOMAIN env' = DOMAIN EmptyEnv
    <3> DEFINE f == EnterClosure(env)
    <3>1. /\ DOMAIN f = DOMAIN env /\ f.scopes = env.scopes /\ f.path = env.path /\ f.closure = env.closure + 1
          /\ f.inMember = env.inMember
      BY EnvFields DEF EnterClosure
    <3>2. env' = [f EXCEPT !.funVars = {}, !.scopes = Append(f.scopes, NoScope)]
      BY <2>1
    <3> HIDE DEF f
    <3> QED BY <3>1, <3>2, EnvFields
  <2>9. IsSequence(env'.scopes) /\ Len(env'.scopes) = Len(env.scopes) + 1
    BY <2>8, EnvFields, SequenceFacts
  <2>10. ASSUME ~err.unwound PROVE Agrees(stack)'
    <3>1. Agrees(stack)
      BY <2>10 DEF Inv
    <3>2. PutsBack(e, r)
      BY <2>2, <2>7, <3>1 DEF Agrees, PutsBack
    <3>3. /\ Len(env'.scopes) = CountIn(Scopes, stack') /\ env'.closure = CountIn(Closures, stack')
          /\ Len(env'.path) = CountIn(Names, stack') /\ env'.inMember = (CountIn({"memberEnd"}, stack') > 0)
      BY <2>7, <2>8, <2>9, <3>1 DEF Agrees
    <3> QED BY <2>6, <2>8, <2>10, <3>2, <3>3 DEF Agrees
  <2>11. Len(env'.scopes) >= CountIn(Scopes, stack')
    BY <2>7, <2>9, EnvFields DEF Inv
  <2> QED BY <2>1, <2>6, <2>8, <2>9, <2>10, <2>11, EnvFields, NestKeeps
<1> QED BY <1>2, <1>3

LEMMA ClassNameKeeps == ASSUME Inv, ClassName PROVE Inv'
<1> DEFINE r == Tail(stack)
           e == <<"classEnd", current.lexeme>>
           a == Tok("LeftBrace")
           b == <<"members">>
           c == Tok("RightBrace")
           p == <<a, b, c>>
           q == <<>>
           steps == <<a, b, c, e>>
<1>1. Calling("className") /\ "className" \notin Tracked
  BY Untracked DEF ClassName, PlainKinds
<1>2. CASE SyntaxError
  BY <1>1, <1>2, GoOn
<1>3. CASE ~SyntaxError
  <2>1. Then(steps) /\ ErrorStep /\ env' = [env EXCEPT !.path = Append(env.path, current.lexeme)]
    BY <1>3 DEF ClassName, ErrorStep, Calling
  <2>2. e[1] = "classEnd" /\ steps = p \o (<<e>> \o q)
    <3>1. steps = p \o (<<e>> \o q)
      <4> HIDE DEF a, b, c, e
      <4> QED BY Tuples
    <3>2. e[1] = "classEnd"
      OBVIOUS
    <3> HIDE DEF e, steps, p, q
    <3> QED BY <3>1, <3>2
  <2>3. PlainSteps(p) /\ PlainSteps(q)
    <3>1. "members" \in PlainKinds
      BY DEF PlainKinds
    <3>2. Plain(a) /\ Plain(b) /\ Plain(c)
      BY <3>1, PlainEntries
    <3> HIDE DEF a, b, c
    <3> QED BY <3>2, PlainLists
  <2>4. "classEnd" \in Tracked \cap Names /\ "classEnd" \notin Scopes \cup Closures \cup {"memberEnd", "funEnd"}
    BY DEF Tracked, Closures, Scopes, Names
  <2>5. \A K \in SUBSET Tracked : "className" \notin K
    BY <1>1
  <2> HIDE DEF e, p, q, steps
  <2>6. e[1] \in Tracked
    BY <2>2, <2>4
  <2>7. /\ Sounds(stack')
        /\ \A K \in SUBSET Tracked :
              /\ CountIn(K, r) \in Nat
              /\ CountIn(K, stack) = IF "className" \in K THEN CountIn(K, r) + 1 ELSE CountIn(K, r)
              /\ CountIn(K, stack') = IF e[1] \in K THEN CountIn(K, r) + 1 ELSE CountIn(K, r)
        /\ ~err.unwound /\ PutsBack(e, r) => Saved(stack')
    BY <1>1, <2>1, <2>2, <2>3, <2>6, Enters
  <2> HIDE DEF r
  <2>8. /\ CountIn(Scopes, stack') = CountIn(Scopes, stack) /\ CountIn(Closures, stack') = CountIn(Closures, stack)
        /\ CountIn(Names, stack') = CountIn(Names, stack) + 1
        /\ CountIn({"memberEnd"}, stack') = CountIn({"memberEnd"}, stack)
        /\ CountIn({"funEnd"}, stack') = CountIn({"funEnd"}, stack)
    BY <2>2, <2>4, <2>5, <2>7, KindsTracked
  <2>9. /\ env'.scopes = env.scopes /\ env'.closure = env.closure /\ env'.path = Append(env.path, current.lexeme)
        /\ env'.funVars = env.funVars /\ env'.inMember = env.inMember /\ DOMAIN env' = DOMAIN EmptyEnv
    BY <2>1, EnvFields
  <2>10. IsSequence(env'.path) /\ Len(env'.path) = Len(env.path) + 1
    BY <2>9, EnvFields, SequenceFacts
  <2>11. ASSUME ~err.unwound PROVE Agrees(stack)'
    <3>1. Agrees(stack)
      BY <2>11 DEF Inv
    <3>2. PutsBack(e, r)
      BY <2>2 DEF PutsBack
    <3> QED BY <2>7, <2>8, <2>9, <2>10, <2>11, <3>1, <3>2 DEF Agrees
  <2>12. Len(env'.scopes) >= CountIn(Scopes, stack')
    BY <2>8, <2>9 DEF Inv
  <2> QED BY <2>1, <2>7, <2>9, <2>10, <2>11, <2>12, EnvFields, NestKeeps
<1> QED BY <1>2, <1>3

LEMMA MembersKeeps == ASSUME Inv, Members PROVE Inv'
<1> DEFINE r == Tail(stack)
           e == <<"memberEnd", env.inMember>>
           a == <<"var", FALSE, FALSE>>
           c == <<"members">>
           p == <<a>>
           q == <<c>>
           steps == <<a, e, c>>
           method == <<<<"fun", TRUE, FALSE, FALSE>>, <<"methodEnd">>, <<"members">>>>
           nested == <<<<"class">>, <<"members">>>>
<1>1. Calling("members") /\ "members" \notin Tracked
  BY Untracked DEF Members, PlainKinds
<1>2. \/ Eat(q)
      \/ Change(steps, [env EXCEPT !.inMember = TRUE], FALSE)
      \/ Go(method) \/ Go(nested) \/ Go(<<>>) \/ SyntaxError
  BY DEF Members
<1>3. PlainSteps(p) /\ PlainSteps(q) /\ PlainSteps(method) /\ PlainSteps(nested)
  <2>1. "var" \in PlainKinds /\ "members" \in PlainKinds /\ "fun" \in PlainKinds /\ "methodEnd" \in PlainKinds
        /\ "class" \in PlainKinds
    BY DEF PlainKinds
  <2>2. /\ Plain(a) /\ Plain(c) /\ Plain(<<"fun", TRUE, FALSE, FALSE>>) /\ Plain(<<"methodEnd">>)
        /\ Plain(<<"class">>)
    BY <2>1, PlainEntries
  <2> QED BY <2>2, PlainLists
<1>4. e[1] = "memberEnd" /\ e[2] = env.inMember /\ steps = p \o (<<e>> \o q)
  <2>1. steps = p \o (<<e>> \o q)
    <3> HIDE DEF a, c, e
    <3> QED BY Threes
  <2>2. e[1] = "memberEnd" /\ e[2] = env.inMember
    OBVIOUS
  <2> HIDE DEF e, steps, p, q
  <2> QED BY <2>1, <2>2
<1> HIDE DEF e, p, q, steps, method, nested
<1>5. CASE Eat(q) \/ Go(method) \/ Go(nested) \/ Go(<<>>) \/ SyntaxError
  BY <1>1, <1>3, <1>5, GoOn, PlainLists
<1>6. CASE Change(steps, [env EXCEPT !.inMember = TRUE], FALSE)
  <2>1. Then(steps) /\ ErrorStep /\ env' = [env EXCEPT !.inMember = TRUE]
    BY <1>1, <1>6 DEF Change, ErrorStep, Calling
  <2>2. "memberEnd" \in Tracked /\ "memberEnd" \notin Scopes \cup Closures \cup Names \cup {"funEnd"}
    BY DEF Tracked, Closures, Scopes, Names
  <2>3. \A K \in SUBSET Tracked : "members" \notin K
    BY <1>1
  <2>4. e[1] \in Tracked
    BY <1>4, <2>2
  <2>5. /\ Sounds(stack')
        /\ \A K \in SUBSET Tracked :
              /\ CountIn(K, r) \in Nat
              /\ CountIn(K, stack) = IF "members" \in K THEN CountIn(K, r) + 1 ELSE CountIn(K, r)
              /\ CountIn(K, stack') = IF e[1] \in K THEN CountIn(K, r) + 1 ELSE CountIn(K, r)
        /\ ~err.unwound /\ PutsBack(e, r) => Saved(stack')
    BY <1>1, <1>3, <1>4, <2>1, <2>4, Enters
  <2> HIDE DEF r
  <2>6. /\ CountIn(Scopes, stack') = CountIn(Scopes, stack) /\ CountIn(Closures, stack') = CountIn(Closures, stack)
        /\ CountIn(Names, stack') = CountIn(Names, stack)
        /\ CountIn({"funEnd"}, stack') = CountIn({"funEnd"}, stack)
    BY <1>4, <2>2, <2>3, <2>5, KindsTracked
  <2>7. /\ CountIn({"memberEnd"}, stack') > 0
        /\ CountIn({"memberEnd"}, stack) = CountIn({"memberEnd"}, r)
    <3>1. CountIn({"memberEnd"}, r) \in Nat /\ CountIn({"memberEnd"}, stack') = CountIn({"memberEnd"}, r) + 1
      BY <1>4, <2>5, KindsTracked
    <3>2. CountIn({"memberEnd"}, stack) = CountIn({"memberEnd"}, r)
      BY <2>3, <2>5, KindsTracked
    <3> QED BY <3>1, <3>2
  <2>8. /\ env'.scopes = env.scopes /\ env'.closure = env.closure /\ env'.path = env.path
        /\ env'.funVars = env.funVars /\ env'.inMember = TRUE /\ DOMAIN env' = DOMAIN EmptyEnv
    BY <2>1, EnvFields
  <2>9. ASSUME ~err.unwound PROVE Agrees(stack)'
    <3>1. Agrees(stack)
      BY <2>9 DEF Inv
    <3>2. PutsBack(e, r)
      <4>1. e[2] = (CountIn({"memberEnd"}, r) > 0)
        BY <1>4, <2>7, <3>1 DEF Agrees
      <4> QED BY <1>4, <4>1 DEF PutsBack
    <3>3. env'.inMember = (CountIn({"memberEnd"}, stack') > 0)
      BY <2>7, <2>8
    <3> QED BY <2>5, <2>6, <2>8, <2>9, <3>1, <3>2, <3>3 DEF Agrees
  <2>10. Len(env'.scopes) >= CountIn(Scopes, stack')
    BY <2>6, <2>8 DEF Inv
  <2> QED BY <2>1, <2>5, <2>8, <2>9, <2>10, EnvFields, NestKeeps
<1> QED BY <1>2, <1>5, <1>6

(* Two entries are put on the stack: the scope ends before the closure.    *)
LEMMA ForBodyKeeps == ASSUME Inv, ForBody PROVE Inv'
<1> DEFINE r == Tail(stack)
           a == <<"block">>
           e == <<"popScope">>
           f == <<"leaveClosure", Arg(1)>>
           d == Become("Block")
           none == <<>>
           p == <<a>>
           q == <<d>>
           steps == <<a, e, f, d>>
           w == (none \o (<<f>> \o q)) \o r
           name == Arg(2)
           inParser == TRUE
           opened == [env EXCEPT !.scopes = Append(env.scopes, NoScope)]
<1>1. Calling("forBody")
  BY DEF ForBody
<1>2. CASE SyntaxError
  BY <1>2, SyntaxErrorKeeps DEF ForBody, Calling
<1>3. CASE ~SyntaxError
  <2>1. Then(steps) /\ ErrorStep /\ env' = NewVar(opened, name, inParser)
    BY <1>3 DEF ForBody, Change, ErrorStep, Calling
  <2>2. e[1] = "popScope" /\ f[1] = "leaveClosure" /\ f[2] = stack[1][2]
    BY DEF Arg
  <2>3. PlainSteps(p) /\ PlainSteps(q) /\ PlainSteps(none)
    <3>1. "block" \in PlainKinds
      BY DEF PlainKinds
    <3> QED BY <3>1, PlainEntries, PlainLists
  <2>4. /\ "popScope" \in Tracked \cap Scopes /\ "popScope" \notin Closures \cup Names \cup {"memberEnd", "funEnd"}
        /\ "leaveClosure" \in Tracked \cap Closures /\ "leaveClosure" \notin Scopes \cup Names \cup {"memberEnd", "funEnd"}
        /\ "forBody" \in Tracked \cap Closures /\ "forBody" \notin Scopes \cup Names \cup {"memberEnd", "funEnd"}
    BY DEF Tracked, Closures, Scopes, Names
  <2>5. /\ Sounds(r)
        /\ \A K : /\ CountIn(K, r) \in Nat
                  /\ CountIn(K, stack) = IF "forBody" \in K THEN CountIn(K, r) + 1 ELSE CountIn(K, r)
        /\ ~err.unwound => Saved(r) /\ PutsBack(stack[1], r)
    BY <1>1, Calls
  <2>6. stack' = (p \o (<<e>> \o none)) \o w
    <3> DEFINE s == <<f, d>>
               v == <<e>>
    <3>1. steps = p \o (v \o s) /\ s = none \o (<<f>> \o q)
      <4> HIDE DEF a, d, e, f
      <4>1. steps = p \o (v \o s)
        BY Tuples
      <4>2. s = none \o (<<f>> \o q)
        BY Tuples
      <4> QED BY <4>1, <4>2
    <3>2. stack' = steps \o r
      BY <2>1 DEF Then
    <3>3. IsSequence(p) /\ IsSequence(v) /\ IsSequence(s) /\ IsSequence(r)
      BY <2>5, OneEntry, Literals DEF Sounds
    <3>4. v \o none = v
      OBVIOUS
    <3> HIDE DEF a, d, e, f, s, v, p, q, steps, r, none
    <3>5. (p \o v) \o s = p \o (v \o s)
      BY <3>3, Associative
    <3> DEFINE x == p \o v
    <3>6. IsSequence(x)
      BY <3>3, Concatenated
    <3>7. x \o s = steps
      BY <3>1, <3>5, Zenon
    <3> HIDE DEF x
    <3>8. (x \o s) \o r = x \o (s \o r)
      BY <3>3, <3>6, Associative
    <3>9. stack' = x \o (s \o r)
      BY <3>2, <3>7, <3>8, Zenon
    <3>10. stack' = (p \o v) \o ((none \o (<<f>> \o q)) \o r)
      BY <3>1, <3>9 DEF x
    <3> QED BY <3>4, <3>10 DEF v
  <2> HIDE DEF a, d, e, f, p, q, none, steps, r
  <2>7. e[1] \in Tracked /\ f[1] \in Tracked
    BY <2>2, <2>4
  <2>8. /\ Sounds(w)
        /\ \A K \in SUBSET Tracked : CountIn(K, w) = IF f[1] \in K THEN CountIn(K, r) + 1 ELSE CountIn(K, r)
        /\ Saved(r) /\ PutsBack(f, r) => Saved(w)
    BY <2>3, <2>5, <2>7, Pushed
  <2> HIDE DEF w
  <2>9. /\ Sounds(stack')
        /\ \A K \in SUBSET Tracked : CountIn(K, stack') = IF e[1] \in K THEN CountIn(K, w) + 1 ELSE CountIn(K, w)
        /\ Saved(w) /\ PutsBack(e, w) => Saved(stack')
    BY <2>3, <2>6, <2>7, <2>8, Pushed
  <2>10. /\ CountIn(Scopes, stack') = CountIn(Scopes, stack) + 1 /\ CountIn(Scopes, stack) \in Nat
         /\ CountIn(Closures, stack') = CountIn(Closures, stack)
         /\ CountIn(Names, stack') = CountIn(Names, stack)
         /\ CountIn({"memberEnd"}, stack') = CountIn({"memberEnd"}, stack)
         /\ CountIn({"funEnd"}, stack') = CountIn({"funEnd"}, stack)
    BY <2>2, <2>4, <2>5, <2>8, <2>9, KindsTracked
  <2>11. /\ opened.scopes = Append(env.scopes, NoScope) /\ opened.closure = env.closure /\ opened.path = env.path
         /\ opened.funVars = env.funVars /\ opened.inMember = env.inMember /\ DOMAIN opened = DOMAIN EmptyEnv
    BY EnvFields
  <2> HIDE DEF opened, name, inParser
  <2>12. IsSequence(opened.scopes) /\ Len(opened.scopes) = Len(env.scopes) + 1
    BY <2>11, EnvFields, SequenceFacts
  <2>13. /\ DOMAIN env' = DOMAIN EmptyEnv
         /\ IsSequence(env'.scopes) /\ Len(env'.scopes) = Len(env.scopes) + 1
         /\ env'.path = env.path /\ env'.closure = env.closure /\ env'.inMember = env.inMember
         /\ env'.funVars = env.funVars \cup {CountIn({"funEnd"}, stack)}
    <3> DEFINE g == NewVar(opened, name, inParser)
    <3>1. /\ DOMAIN g = DOMAIN EmptyEnv
          /\ IsSequence(g.scopes) /\ Len(g.scopes) = Len(opened.scopes)
          /\ g.path = opened.path /\ g.closure = opened.closure /\ g.inMember = opened.inMember
          /\ g.funVars = opened.funVars \cup {CountIn({"funEnd"}, stack)}
      BY <2>11, <2>12, VarPut
    <3> HIDE DEF g
    <3>2. env' = g
      BY <2>1 DEF g
    <3> QED BY <2>11, <2>12, <3>1, <3>2
  <2>14. ASSUME ~err.unwound PROVE Agrees(stack)'
    <3>1. Agrees(stack) /\ stack[1][1] = "forBody"
      BY <1>1, <2>14 DEF Inv, Calling, Kind
    <3>2. PutsBack(f, r)
      BY <2>2, <2>5, <2>14, <3>1 DEF PutsBack
    <3>3. PutsBack(e, w)
      BY <2>2 DEF PutsBack
    <3> QED BY <2>5, <2>8, <2>9, <2>10, <2>13, <2>14, <3>1, <3>2, <3>3 DEF Agrees
  <2>15. Len(env'.scopes) >= CountIn(Scopes, stack')
    BY <2>10, <2>13, EnvFields DEF Inv
  <2> QED BY <2>1, <2>9, <2>13, <2>14, <2>15, EnvFields, NestKeeps
<1> QED BY <1>2, <1>3

-----------------------------------------------------------------------------
(* The whole next-state relation of the parser                             *)

LEMMA TopLevelKeeps == ASSUME Inv, TopLevel PROVE Inv'
<1>1. /\ stack = <<>> /\ (Advance \/ KeepToken) /\ pc = "run" /\ UNCHANGED <<env, err, pc>>
      /\ stack' \in {<<<<"var", TRUE, FALSE>>>>, <<<<"fun", TRUE, FALSE, FALSE>>>>, <<<<"class">>>>, <<>>, <<<<"fail">>>>}
  BY DEF TopLevel, Quiet
<1>2. PlainSteps(stack')
  <2>1. "var" \in PlainKinds /\ "fun" \in PlainKinds /\ "class" \in PlainKinds /\ "fail" \in PlainKinds
    BY DEF PlainKinds
  <2>2. Plain(<<"var", TRUE, FALSE>>) /\ Plain(<<"fun", TRUE, FALSE, FALSE>>) /\ Plain(<<"class">>) /\ Plain(<<"fail">>)
    BY <2>1, PlainEntries
  <2> QED BY <1>1, <2>2, PlainLists
<1>3. IsSequence(<<>>) /\ \A i \in 1 .. Len(<<>>) : Sound(<<>>[i])
  <2>1. <<>> \in Seq({})
    OBVIOUS
  <2> QED BY <2>1 DEF IsSequence
<1>4. stack' \o <<>> = stack'
  <2>1. PICK D : stack' \in Seq(D)
    BY <1>2 DEF PlainSteps
  <2> QED BY <2>1, ConcatEmptySeq
<1>5. /\ Sounds(stack') /\ \A K \in SUBSET Tracked : CountIn(K, stack') = CountIn(K, stack)
      /\ Saved(stack) => Saved(stack')
  <2> DEFINE s == <<>>
             t == stack'
  <2>1. IsSequence(s) /\ (\A i \in 1 .. Len(s) : Sound(s[i])) /\ t \o s = t /\ PlainSteps(t) /\ stack = s
    BY <1>1, <1>2, <1>3, <1>4
  <2> HIDE DEF s, t
  <2>2. /\ IsSequence(t \o s)
        /\ \A K \in SUBSET Tracked : CountIn(K, t \o s) = CountIn(K, s)
        /\ Saved(s) => Saved(t \o s)
        /\ \A i \in 1 .. Len(t \o s) : Sound((t \o s)[i])
    BY <2>1, PlainPushed
  <2> QED BY <2>1, <2>2 DEF Sounds, t
<1>6. ErrorStep
  BY <1>1 DEF ErrorStep
<1>7. /\ CountIn(Scopes, stack') = CountIn(Scopes, stack) /\ CountIn(Closures, stack') = CountIn(Closures, stack)
      /\ CountIn(Names, stack') = CountIn(Names, stack)
      /\ CountIn({"memberEnd"}, stack') = CountIn({"memberEnd"}, stack)
      /\ CountIn({"funEnd"}, stack') = CountIn({"funEnd"}, stack)
  BY <1>5, KindsTracked
<1>8. ASSUME ~err.unwound PROVE Agrees(stack)'
  BY <1>1, <1>5, <1>7, <1>8 DEF Inv, Agrees
<1>9. Len(env'.scopes) >= CountIn(Scopes, stack')
  BY <1>1, <1>7 DEF Inv
<1> QED BY <1>1, <1>5, <1>6, <1>8, <1>9, EnvFields, NestKeeps DEF Inv, Shape

LEMMA NewParserKeeps == ASSUME Inv, NewParser PROVE Inv'
<1>1. /\ pc = "start" /\ pc' = "run" /\ UNCHANGED <<stack, env, err>>
  BY DEF NewParser
<1>2. Errors'
  <2>1. ~HadError /\ HadError' = HadError
    BY <1>1 DEF Inv, Errors, HadError
  <2> QED BY <1>1, <2>1 DEF Inv, Errors
<1> QED BY <1>1, <1>2 DEF Inv, Shape, Agrees

LEMMA HelpersKeep == ASSUME Inv, Helpers PROVE Inv'
BY ExpectTokKeeps, ExpectSoftTokKeeps, ListStepKeeps, CommaKeeps, SetLastKeeps, MaybeKeeps, FailKeeps,
   PopScopeKeeps, LeaveClosureKeeps DEF Helpers

LEMMA ExpressionsKeep == ASSUME Inv, Expressions PROVE Inv'
BY ExpressionKeeps, InfixKeeps, AtomKeeps, PrintArgsKeeps, JumpValueKeeps, ParenKeeps, IdentKeeps, AssignedKeeps,
   CallEndKeeps, GlomKeeps, IndexEndKeeps, MemberKeeps, ChainEndKeeps, NewKeeps, NewInitKeeps, DottedKeeps,
   IfBodyKeeps, ElseBodyKeeps, LoopBodyKeeps, ForKeeps, ForVarKeeps, ForBodyKeeps DEF Expressions

LEMMA DeclarationsKeep == ASSUME Inv, Declarations PROVE Inv'
BY DeclareKeeps, VarDeclarationKeeps, VarNameKeeps, VarTypeKeeps, VarValueKeeps, BlockKeeps, StmtsKeeps, StmtKeeps,
   StmtEndKeeps, ParameterKeeps, LambdaParameterKeeps, FunDeclarationKeeps, FunNameKeeps, FunOpenKeeps,
   FunReturnKeeps, FunBodyKeeps, FunEndKeeps, ClassDeclarationKeeps, ClassNameKeeps, MembersKeeps,
   MemberEndKeeps, MethodEndKeeps, ClassEndKeeps DEF Declarations

(* The parser starts with nothing open.                                    *)
THEOREM InitInv == Init => Inv
<1> SUFFICES ASSUME Init PROVE Inv
  OBVIOUS
<1>1. IsSequence(<<>>) /\ Len(<<>>) = 0 /\ \A i \in 1 .. Len(<<>>) : Sound(<<>>[i])
  <2>1. <<>> \in Seq({})
    OBVIOUS
  <2> QED BY <2>1 DEF IsSequence
<1>2. stack = <<>> /\ env.scopes = <<>> /\ env.path = <<>> /\ env.closure = 0 /\ env.funVars = {} /\ env.inMember = FALSE
      /\ DOMAIN env = DOMAIN EmptyEnv
  BY DEF Init, EmptyEnv
<1>3. Shape
  BY <1>1, <1>2 DEF Shape
<1>4. Errors
  BY DEF Init, Errors, NoErrors, HadError
<1>5. \A K : CountIn(K, stack) = 0
  BY <1>2, CountEmpty
<1>6. Saved(stack)
  BY <1>2 DEF Saved
<1>7. Agrees(stack) /\ Len(env.scopes) >= CountIn(Scopes, stack)
  <2>1. Len(env.scopes) = 0 /\ Len(env.path) = 0 /\ env.closure = 0 /\ env.funVars = {}
    BY <1>1, <1>2
  <2>2. env.inMember = (CountIn({"memberEnd"}, stack) > 0)
    <3>1. ~(CountIn({"memberEnd"}, stack) > 0)
      BY <1>5
    <3>2. ~env.inMember /\ env.inMember \in BOOLEAN
      BY <1>2
    <3> QED BY <3>1, <3>2
  <2> QED BY <1>5, <1>6, <2>1, <2>2 DEF Agrees
<1> QED BY <1>3, <1>4, <1>7 DEF Inv

(* Every function of the parser leaves its state agreeing with the call    *)
(* stack, or travels up as an error.                                       *)
THEOREM NextInv == Inv /\ [Next]_vars => Inv'
<1> SUFFICES ASSUME Inv, [Next]_vars PROVE Inv'
  OBVIOUS
<1>1. CASE NewParser
  BY <1>1, NewParserKeeps
<1>2. CASE Helpers
  BY <1>2, HelpersKeep
<1>3. CASE Expressions
  BY <1>3, ExpressionsKeep
<1>4. CASE Typ \/ TypPrefix
  BY <1>4, TypKeeps, TypPrefixKeeps
<1>5. CASE Declarations
  BY <1>5, DeclarationsKeep
<1>6. CASE TopLevel
  BY <1>6, TopLevelKeeps
<1>7. CASE Finish
  BY <1>7, StopKeeps DEF Finish
<1>8. CASE UNCHANGED vars
  BY <1>8 DEF vars, Inv, Shape, Errors, Agrees, HadError
<1> QED BY <1>1, <1>2, <1>3, <1>4, <1>5, <1>6, <1>7, <1>8 DEF Next

LEMMA InvBalanced == Inv => Balanced
<1> SUFFICES ASSUME Inv PROVE Balanced
  OBVIOUS
<1>1. \A K : Count(K) = CountIn(K, stack)
  BY DEF Count, CountIn
<1>2. Len(env.scopes) >= Count(Scopes)
  BY <1>1 DEF Inv
<1>3. ASSUME ~err.unwound
      PROVE  /\ Len(env.scopes) = Count(Scopes) /\ env.closure = Count(Closures) /\ Len(env.path) = Count(Names)
             /\ env.funVars \subseteq {FunDepth} /\ env.inMember = (Count({"memberEnd"}) > 0)
  BY <1>1, <1>3, FunDepthIs DEF Inv, Agrees
<1> QED BY <1>2, <1>3 DEF Balanced, Scopes, Closures, Names

-----------------------------------------------------------------------------
(* The two parsers of the front end                                        *)

(* Glue is instantiated by Syntax, and extended by GlueProofs: the same.   *)
LEMMA SameHelpers ==
    /\ \A f : G!Calling(f) <=> GP!Calling(f)
    /\ \A i : G!Arg(i) = GP!Arg(i)
    /\ \A t : G!gAt(t) <=> GP!gAt(t)
    /\ \A t : G!Tok(t) = GP!Tok(t)
    /\ \A t : G!Annotation(t) = GP!Annotation(t)
    /\ G!Closes = GP!Closes
    /\ G!KeepToken <=> GP!KeepToken
    /\ G!Quiet <=> GP!Quiet
    /\ G!SyntaxError <=> GP!SyntaxError
    /\ G!Advance <=> GP!Advance
    /\ \A p : G!Then(p) <=> GP!Then(p)
    /\ \A p : G!Go(p) <=> GP!Go(p)
    /\ \A p : G!Eat(p) <=> GP!Eat(p)
<1>1. \A f : G!Calling(f) <=> GP!Calling(f)
  BY DEF G!Calling, GP!Calling, G!Kind, GP!Kind
<1>2. \A i : G!Arg(i) = GP!Arg(i)
  BY DEF G!Arg, GP!Arg
<1>3. \A t : G!gAt(t) <=> GP!gAt(t)
  BY DEF G!gAt, GP!gAt
<1>4. \A t : G!Tok(t) = GP!Tok(t)
  BY DEF G!Tok, GP!Tok
<1>5. \A t : G!Annotation(t) = GP!Annotation(t)
  BY DEF G!Annotation, GP!Annotation, G!Tok, GP!Tok
<1>6. G!Closes = GP!Closes
  BY DEF G!Closes, GP!Closes
<1>7. G!KeepToken <=> GP!KeepToken
  BY DEF G!KeepToken, GP!KeepToken
<1>8. G!Quiet <=> GP!Quiet
  BY DEF G!Quiet, GP!Quiet
<1>9. G!SyntaxError <=> GP!SyntaxError
  BY <1>7 DEF G!SyntaxError, GP!SyntaxError
<1>10. G!OpenAfter = GP!OpenAfter
  BY <1>6 DEF G!OpenAfter, GP!OpenAfter, G!Nest, GP!Nest, G!Range, GP!Range, G!Last, GP!Last, G!Front, GP!Front
<1>11. G!Advance <=> GP!Advance
  BY <1>3, <1>10 DEF G!Advance, GP!Advance
<1>12. \A p : G!Then(p) <=> GP!Then(p)
  BY DEF G!Then, GP!Then
<1>13. \A p : G!Go(p) <=> GP!Go(p)
  BY <1>7, <1>8, <1>12 DEF G!Go, GP!Go
<1>14. \A p : G!Eat(p) <=> GP!Eat(p)
  BY <1>8, <1>11, <1>12 DEF G!Eat, GP!Eat
<1> QED BY <1>1, <1>2, <1>3, <1>4, <1>5, <1>6, <1>7, <1>8, <1>9, <1>11, <1>12, <1>13, <1>14

LEMMA SameNext == G!Next => GP!Next
<1>1. G!New => GP!New
  BY SameHelpers DEF G!New, GP!New
<1>2. G!Expected => GP!Expected
  BY SameHelpers DEF G!Expected, GP!Expected
<1>3. G!Maybe => GP!Maybe
  BY SameHelpers DEF G!Maybe, GP!Maybe
<1>4. G!TopLevel => GP!TopLevel
  BY SameHelpers DEF G!TopLevel, GP!TopLevel
<1>5. G!Var => GP!Var
  BY SameHelpers DEF G!Var, GP!Var
<1>6. G!NewVar => GP!NewVar
  BY SameHelpers DEF G!NewVar, GP!NewVar
<1>7. G!Type => GP!Type
  BY SameHelpers DEF G!Type, GP!Type
<1>8. G!UnknownType => GP!UnknownType
  BY SameHelpers DEF G!UnknownType, GP!UnknownType
<1>9. G!Class => GP!Class
  BY SameHelpers DEF G!Class, GP!Class
<1>10. G!ClassBody => GP!ClassBody
  BY SameHelpers DEF G!ClassBody, GP!ClassBody
<1>11. G!Members => GP!Members
  BY SameHelpers DEF G!Members, GP!Members
<1>12. G!ClassEnd => GP!ClassEnd
  BY SameHelpers DEF G!ClassEnd, GP!ClassEnd
<1>13. G!Fun => GP!Fun
  BY SameHelpers DEF G!Fun, GP!Fun
<1>14. G!Params => GP!Params
  BY SameHelpers DEF G!Params, GP!Params
<1>15. G!ParamEnd => GP!ParamEnd
  BY SameHelpers DEF G!ParamEnd, GP!ParamEnd
<1>16. G!FunBody => GP!FunBody
  BY SameHelpers DEF G!FunBody, GP!FunBody
<1>17. G!EatUntil => GP!EatUntil
  BY SameHelpers DEF G!EatUntil, GP!EatUntil
<1>18. G!DoIgnore => GP!DoIgnore
  <2>1. G!Closes = GP!Closes /\ G!Range(G!Closes) = GP!Range(GP!Closes)
    BY SameHelpers DEF G!Range, GP!Range
  <2> QED BY <2>1, SameHelpers DEF G!DoIgnore, GP!DoIgnore
<1> QED BY <1>1, <1>2, <1>3, <1>4, <1>5, <1>6, <1>7, <1>8, <1>9, <1>10, <1>11, <1>12, <1>13, <1>14, <1>15, <1>16, <1>17, <1>18 DEF G!Next, GP!Next

LEMMA SameInit == G!Init => GP!Init
BY DEF G!Init, GP!Init, G!NoDeclarations, GP!NoDeclarations

LEMMA SameAligned == GP!Aligned => G!Aligned
BY DEF G!Aligned, GP!Aligned, G!Calling, GP!Calling, G!Kind, GP!Kind, G!Arg, GP!Arg, G!gAt, GP!gAt

BothInv == Inv /\ GP!Inv

(* The invariants say nothing of the rest.                                 *)
LEMMA SourcesKept == ASSUME Inv, UNCHANGED vars PROVE Inv'
BY NextInv

LEMMA HeaderKept == ASSUME GP!Inv, UNCHANGED headerVars PROVE GP!Inv'
<1>1. UNCHANGED GP!gVars
  BY DEF headerVars, GP!gVars
<1> QED BY <1>1, GP!NextInv

(* The first pass ends with the header's parser thrown away.               *)
LEMMA ImportDoneKeeps == ASSUME BothInv, ImportDone PROVE BothInv'
<1>1. Inv'
  BY SourcesKept DEF BothInv, ImportDone
<1>2. /\ gPc' = "done" /\ gHeader' = [kinds |-> {}, max |-> 0] /\ gTok' = "Eof" /\ gStack' = <<>>
      /\ gDb' = G!NoDeclarations /\ gOpen' = <<>>
  BY DEF ImportDone
<1>3. gDb' \in GP!Declarations
  BY <1>2 DEF G!NoDeclarations, GP!Declarations
<1>4. gTok' \in GP!Kinds /\ gHeader'.kinds \subseteq GP!Kinds
  BY <1>2 DEF GP!Kinds
<1>5. gStack' \in Seq(GP!Entry) /\ gOpen' \in Seq(GP!Opening) /\ gStack' = <<>>
  BY <1>2
<1>6. GP!Types'
  BY <1>3, <1>4, <1>5 DEF GP!Types
<1> QED BY <1>1, <1>2, <1>6 DEF BothInv, GP!Inv, GP!Calling

(* Nothing is open at first, in either parser.                             *)
THEOREM SyntaxInitInv == SyntaxInit => BothInv
BY InitInv, SameInit, GP!InitInv DEF SyntaxInit, BothInv

(* Each pass of main() keeps both invariants.                              *)
THEOREM SyntaxNextInv == BothInv /\ [SyntaxNext]_syntaxVars => BothInv'
<1> SUFFICES ASSUME BothInv, [SyntaxNext]_syntaxVars PROVE BothInv'
  OBVIOUS
<1>1. ASSUME UNCHANGED <<vars, headerVars>> PROVE BothInv'
  BY <1>1, SourcesKept, HeaderKept DEF BothInv
<1>2. CASE DoCModules \/ ParseAllModules
  BY <1>1, <1>2 DEF DoCModules, ParseAllModules
<1>3. CASE ParseImport
  BY <1>3, SameNext, SourcesKept, GP!NextInv DEF ParseImport, BothInv
<1>4. CASE ImportDone
  BY <1>4, ImportDoneKeeps
<1>5. CASE ParseModule
  BY <1>5, NextInv, HeaderKept DEF ParseModule, BothInv
<1>6. CASE UNCHANGED syntaxVars
  BY <1>1, <1>6 DEF syntaxVars
<1> QED BY <1>2, <1>3, <1>4, <1>5, <1>6 DEF SyntaxNext

LEMMA SyntaxInv == SyntaxSpec => []BothInv
BY SyntaxInitInv, SyntaxNextInv, PTL DEF SyntaxSpec

(* The parser's own state matches what is being parsed until an error has  *)
(* travelled up, and never lacks a scope that will be popped: Parser's     *)
(* scopes, scope_name, closure, fun_vars and in_member_initializer against *)
(* its recursion.                                                          *)
THEOREM SourcesBalanced == SyntaxSpec => []Balanced
<1>1. BothInv => Balanced
  BY InvBalanced DEF BothInv
<1> QED BY <1>1, SyntaxInv, PTL

(* Within the compiler's run too, the parser of C headers keeps in step    *)
(* with their brackets.                                                    *)
THEOREM HeadersAligned == SyntaxSpec => []Aligned
<1>1. BothInv => Aligned
  BY GP!InvAligned, SameAligned DEF BothInv, Aligned
<1> QED BY <1>1, SyntaxInv, PTL
=============================================================================
