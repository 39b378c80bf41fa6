-------------------------------- MODULE Types --------------------------------
(***************************************************************************)
(* The types of PonieScript (poniescript-core/src/typ.rs), the questions   *)
(* the database answers about them (db.rs), and the rules of typecheck.rs  *)
(* that compare two of them.  A type is a tuple whose first element is its *)
(* constructor; two types are the same TypId when they are equal, because  *)
(* put_type interns them.                                                  *)
(***************************************************************************)
EXTENDS Db, Naturals, FiniteSets

Integer == <<"int">>
Float == <<"float">>
Void == <<"void">>
Bool == <<"bool">>
StrConst == <<"strConst">>
Str == <<"str">>
StrBuf == <<"strBuf">>
Bottom == <<"bottom">>
Unassigned == <<"unassigned">>
AssumeInt == <<"assumeInt">>       \* a literal whose type is still open
AssumeFloat == <<"assumeFloat">>
Class(c) == <<"class", c>>
ArrayOf(t) == <<"array", t>>
DynArrayOf(t) == <<"dyn", t>>
Option(t) == <<"option", t>>
Tuple(ts) == <<"tuple", ts>>
RangeOf(ends, t) == <<"range", ends, t>>    \* ends: left and right end
Fun(params, ret) == <<"fun", params, ret>>
FunUnassigned == Fun(<<>>, Unassigned)     \* sig_unassigned
TypeError == <<"error">>           \* TypeComputeErr
Ice == <<"ICE">>                   \* a panic of the type checker

\* A constructor applied to the result of a rule: errors pass through it.
Wrap(inner, Constructor(_)) == IF inner \in {TypeError, Ice} THEN inner ELSE Constructor(inner)
WrapAll(ts) == IF Ice \in Elements(ts) THEN Ice
               ELSE IF TypeError \in Elements(ts) THEN TypeError ELSE Tuple(ts)

----------------------------------------------------------------------------
(* db.rs *)

RECURSIVE IsNotConcrete(_)
IsNotConcrete(t) ==
    CASE t \in {AssumeFloat, AssumeInt, Unassigned} -> TRUE
      [] Is(t, "fun") -> \E p \in Elements(t[2]) \cup {t[3]} : IsNotConcrete(p)
      [] t[1] \in {"array", "option"} -> IsNotConcrete(t[2])
      [] Is(t, "tuple") -> \E e \in Elements(t[2]) : IsNotConcrete(e)
      [] Is(t, "range") -> IsNotConcrete(t[3])
      [] OTHER -> FALSE

RECURSIVE IsCgenSafe(_)
IsCgenSafe(t) ==
    CASE t \in {AssumeFloat, AssumeInt, Unassigned, Bottom} -> FALSE
      [] t[1] \in {"array", "option"} -> IsCgenSafe(t[2])
      [] Is(t, "tuple") -> \A e \in Elements(t[2]) : IsCgenSafe(e)
      [] Is(t, "range") -> IsCgenSafe(t[3])
      [] OTHER -> TRUE

\* The vectors that have a name: vec2 to vec4, and vec2i to vec4i
IsNamedVec(t) == Is(t, "tuple") /\ Len(t[2]) \in 2..4 /\ Elements(t[2]) \in {{Integer}, {Float}}

IsValueType(t) == t[1] \in {"int", "float", "bool", "void", "tuple", "option", "range", "fun"}

RECURSIVE IsNumericOrVec(_)
IsNumericOrVec(t) ==
    \/ t \in {Bottom, Integer, Float, AssumeInt, AssumeFloat}
    \/ Is(t, "tuple") /\ \A e \in Elements(t[2]) : IsNumericOrVec(e)

IsVec(t) == Is(t, "tuple") /\ IsNumericOrVec(t)
IsScalar(t) == t \in {Integer, Float, AssumeInt, AssumeFloat}

----------------------------------------------------------------------------
(* typecheck.rs *)

\* The type of a value that nothing is known to want.
RECURSIVE PromoteTyFromUnassigned(_)
PromoteTyFromUnassigned(t) ==
    CASE t = AssumeFloat -> Float
      [] t = AssumeInt -> Integer
      [] t[1] \in {"array", "option"} -> <<t[1], PromoteTyFromUnassigned(t[2])>>
      [] Is(t, "tuple") -> Tuple([i \in DOMAIN t[2] |-> PromoteTyFromUnassigned(t[2][i])])
      [] Is(t, "range") -> RangeOf(t[2], PromoteTyFromUnassigned(t[3]))
      [] OTHER -> t

\* Conversions from one simple type to another
Widens(to, from) ==
    \/ to = Integer /\ from = AssumeInt
    \/ to = Float /\ from \in {AssumeInt, AssumeFloat, Integer}
    \/ to = Str /\ from = StrConst
    \/ to = StrBuf /\ from \in {StrConst, Str}

\* compute_assignable: what `from' becomes where a `to' is needed.
RECURSIVE Assignable(_, _)
Assignable(to, from) ==
    IF to = from \/ from = Bottom THEN from ELSE
    CASE Widens(to, from) -> to
      [] Is(to, "array") /\ Is(from, "array") -> Wrap(Assignable(to[2], from[2]), ArrayOf)
      [] Is(to, "dyn") /\ from[1] \in {"array", "dyn"} -> Wrap(Assignable(to[2], from[2]), DynArrayOf)
      [] Is(to, "tuple") /\ Is(from, "tuple") ->
            IF Len(to[2]) # Len(from[2]) THEN TypeError
            ELSE WrapAll([i \in DOMAIN to[2] |-> Assignable(to[2][i], from[2][i])])
      [] Is(to, "range") /\ Is(from, "range") ->
            IF to[2] # from[2] THEN TypeError
            ELSE Wrap(Assignable(to[3], from[3]), LAMBDA t : RangeOf(to[2], t))
      [] Is(to, "option") ->
            Wrap(Assignable(to[2], IF Is(from, "option") THEN from[2] ELSE from), Option)
      [] Is(to, "fun") /\ Is(from, "fun") -> IF to = FunUnassigned THEN from ELSE TypeError
      [] to = Unassigned -> IF from = Unassigned THEN TypeError ELSE PromoteTyFromUnassigned(from)
      [] from = Unassigned /\ to # Unassigned /\ ~Is(to, "option") -> to
      [] OTHER -> TypeError

\* compute_intersect: one type for two values that meet.
RECURSIVE Intersect(_, _, _)
Intersect(bottomEats, l, r) ==
    IF l = r THEN l
    ELSE IF Bottom \in {l, r} THEN (IF bottomEats = (l = Bottom) THEN l ELSE r)
    ELSE IF Unassigned \in {l, r} THEN (IF l = Unassigned THEN r ELSE l) ELSE
    CASE Widens(l, r) \/ (l = AssumeFloat /\ r = AssumeInt) -> l
      [] Widens(r, l) \/ (r = AssumeFloat /\ l = AssumeInt) -> r
      [] Is(l, "array") /\ Is(r, "array") -> Wrap(Intersect(bottomEats, l[2], r[2]), ArrayOf)
      [] Is(l, "dyn") /\ Is(r, "dyn") -> Wrap(Assignable(l[2], r[2]), DynArrayOf)
      [] Is(l, "option") \/ Is(r, "option") ->
            Wrap(Intersect(bottomEats, IF Is(l, "option") THEN l[2] ELSE l,
                                       IF Is(r, "option") THEN r[2] ELSE r), Option)
      [] Is(l, "tuple") /\ Is(r, "tuple") ->
            IF Len(l[2]) # Len(r[2]) THEN TypeError
            ELSE WrapAll([i \in DOMAIN l[2] |-> Intersect(bottomEats, l[2][i], r[2][i])])
      [] Is(l, "range") /\ Is(r, "range") ->
            IF l[2] # r[2] THEN TypeError
            ELSE Wrap(Intersect(bottomEats, l[3], r[3]), LAMBDA t : RangeOf(l[2], t))
      [] OTHER -> TypeError

\* A vector combined with a number, member by member
RECURSIVE ScalarTupleIntersect(_, _)
ScalarTupleIntersect(scalar, vector) ==
    IF ~Is(vector, "tuple") THEN Ice
    ELSE WrapAll([i \in DOMAIN vector[2] |->
            IF IsScalar(vector[2][i]) THEN Intersect(TRUE, scalar, vector[2][i])
            ELSE ScalarTupleIntersect(scalar, vector[2][i])])

\* Conversions that would copy an array that is shared
RECURSIVE IsUnsynthesizable(_, _)
IsUnsynthesizable(to, from) ==
    /\ to # from
    /\ \/ Is(to, "array") /\ Is(from, "array")
       \/ Is(to, "dyn") /\ from[1] \in {"array", "dyn"}
       \/ /\ Is(to, "tuple") /\ Is(from, "tuple") /\ Len(to[2]) = Len(from[2])
          /\ \E i \in DOMAIN to[2] : IsUnsynthesizable(to[2][i], from[2][i])

----------------------------------------------------------------------------
(* single_codegen.rs *)

\* compile_partial_promote knows how to convert.  An option holds what is no
\* value type without conversion; other options are still to be implemented.
RECURSIVE Promotes(_, _)
Promotes(to, from) ==
    \/ to = from \/ Bottom \in {to, from}
    \/ to = Float /\ from = Integer
    \/ to = StrBuf /\ from \in {StrConst, Str}
    \/ to = Str /\ from = StrConst
    \/ Is(to, "option") /\ ~IsValueType(to[2]) /\ Promotes(to[2], from)
    \/ /\ Is(to, "tuple") /\ Is(from, "tuple") /\ Len(to[2]) = Len(from[2])
       /\ \A i \in DOMAIN to[2] : Promotes(to[2][i], from[2][i])
=============================================================================
