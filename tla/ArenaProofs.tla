----------------------------- MODULE ArenaProofs -----------------------------
(***************************************************************************)
(* Theorems about Arena, for any objects and any guards.                   *)
(***************************************************************************)
EXTENDS Arena, SequenceTheorems, FiniteSetTheorems, TLAPS

(* Borrows have names of their own, and are told apart by them.            *)
Names == \A g, h \in guards : g.id = h.id => g = h

(* Where a borrow was taken from is still where its object is.             *)
Parents == \A g \in guards : g.parent = Where(g.key)

(* Readers or one writer, in terms of keys.                                *)
Exclusive == \A g, h \in guards : g # h /\ g.key = h.key => g.kind = "read" /\ h.kind = "read"

(* No object is there twice.                                               *)
Distinct == \A j, k \in Issued : All[j] = All[k] => j = k

(* Nothing is added and nothing is held where there is nobody to do so.    *)
Phases == /\ owner # "proxy" => added = <<>>
          /\ owner = "readonly" => guards = {}
          /\ IsFiniteSet(guards)

IInv == /\ TypeOK /\ CountsExact /\ BorrowsValid
        /\ Names /\ Parents /\ Exclusive /\ Distinct /\ Phases

-----------------------------------------------------------------------------
(* A key is in the table that Where says, and no other key is there.       *)
LEMMA Keys ==
    ASSUME TypeOK, Usable, Phases, NEW k \in Issued
    PROVE  /\ k \in Nat /\ Where(k) \in Place /\ Index(k) \in Nat \ {0}
           /\ Index(k) \in DOMAIN borrowed[Where(k)]
           /\ Index(k) \in DOMAIN borrowed_mut[Where(k)]
           /\ Where(k) = "cell" <=> k <= Len(objects)
           /\ \A j \in Issued : Where(j) = Where(k) /\ Index(j) = Index(k) => j = k
<1>1. Len(objects) \in Nat /\ Len(added) \in Nat
  BY DEF TypeOK
<1>2. k \in Nat /\ Where(k) \in Place /\ Index(k) \in Nat \ {0}
  BY <1>1 DEF Issued, Where, Index, Place
<1>3. owner = "cell" => Len(added) = 0
  BY DEF Phases
<1>4. CASE k <= Len(objects)
  <2>1. Where(k) = "cell" /\ Index(k) = k
    BY <1>4 DEF Where, Index
  <2>2. borrowed["cell"] \in Seq(Nat) /\ borrowed_mut["cell"] \in Seq(BOOLEAN)
    BY DEF TypeOK, Place
  <2>3. Len(borrowed["cell"]) = Len(objects) /\ Len(borrowed_mut["cell"]) = Len(objects)
    BY DEF TypeOK, Usable
  <2>4. \A j \in Issued : Where(j) = Where(k) /\ Index(j) = Index(k) => j = k
    BY <1>1, <2>1 DEF Where, Index
  <2> QED BY <1>1, <1>2, <1>4, <2>1, <2>2, <2>3, <2>4
<1>5. CASE ~(k <= Len(objects))
  <2>1. Where(k) = "proxy" /\ Index(k) = k - Len(objects) /\ Index(k) \in 1 .. Len(added)
    BY <1>1, <1>5 DEF Where, Index, Issued
  <2>2. borrowed["proxy"] \in Seq(Nat) /\ borrowed_mut["proxy"] \in Seq(BOOLEAN)
    BY DEF TypeOK, Place
  <2>3. owner = "proxy"
    BY <1>1, <1>3, <2>1 DEF Usable
  <2>4. Len(borrowed["proxy"]) = Len(added) /\ Len(borrowed_mut["proxy"]) = Len(added)
    BY <2>3 DEF TypeOK
  <2>5. \A j \in Issued : Where(j) = Where(k) /\ Index(j) = Index(k) => j = k
    BY <1>1, <1>2, <2>1 DEF Where, Index, Issued
  <2> QED BY <1>1, <1>2, <1>5, <2>1, <2>2, <2>4, <2>5
<1> QED BY <1>1, <1>4, <1>5

(* While nothing is held, every entry of the tables is blank.              *)
LEMMA BlankTables ==
    ASSUME TypeOK, Phases, CountsExact, Usable, guards = {}
    PROVE  /\ \A i \in 1 .. Len(objects) : borrowed["cell"][i] = 0 /\ ~borrowed_mut["cell"][i]
           /\ \A i \in 1 .. Len(added) : owner = "proxy" =>
                 borrowed["proxy"][i] = 0 /\ ~borrowed_mut["proxy"][i]
<1>1. Len(objects) \in Nat /\ Len(added) \in Nat
  BY DEF TypeOK
<1>2. \A k \in Issued : /\ borrowed[Where(k)][Index(k)] = 0
                        /\ borrowed_mut[Where(k)][Index(k)] <=> FALSE
  BY FS_EmptySet DEF CountsExact, Usable, Borrows
<1>3. ASSUME NEW i \in 1 .. Len(objects)
      PROVE  borrowed["cell"][i] = 0 /\ ~borrowed_mut["cell"][i]
  BY <1>1, <1>2 DEF Issued, Where, Index
<1>4. ASSUME NEW i \in 1 .. Len(added)
      PROVE  borrowed["proxy"][i] = 0 /\ ~borrowed_mut["proxy"][i]
  <2>1. /\ Len(objects) + i \in Issued
        /\ Where(Len(objects) + i) = "proxy" /\ Index(Len(objects) + i) = i
    BY <1>1 DEF Issued, Where, Index
  <2> QED BY <1>2, <2>1
<1> QED BY <1>3, <1>4

(* A blank table is one, and of the length that was asked for.             *)
LEMMA Blanks ==
    ASSUME NEW S, NEW b \in S, NEW n \in Nat
    PROVE  /\ Blank(n, b) \in Seq(S) /\ Len(Blank(n, b)) = n
           /\ \A i \in 1 .. n : Blank(n, b)[i] = b
<1>1. Blank(n, b) \in [1 .. n -> S] /\ \A i \in 1 .. n : Blank(n, b)[i] = b
  BY DEF Blank
<1> QED BY <1>1

(* A table of zeros stays one when an entry, or blank ones, are added.     *)
LEMMA CountersStayBlank ==
    ASSUME NEW t \in Seq(Nat), \A i \in 1 .. Len(t) : t[i] = 0, NEW n \in Nat
    PROVE  /\ Append(t, 0) \in Seq(Nat) /\ Len(Append(t, 0)) = Len(t) + 1
           /\ \A i \in 1 .. Len(t) + 1 : Append(t, 0)[i] = 0
           /\ t \o Blank(n, 0) \in Seq(Nat) /\ Len(t \o Blank(n, 0)) = Len(t) + n
           /\ \A i \in 1 .. Len(t) + n : (t \o Blank(n, 0))[i] = 0
<1> DEFINE S == Nat
           b == 0
           B == Blank(n, b)
<1>1. b \in S /\ t \in Seq(S) /\ \A i \in 1 .. Len(t) : t[i] = b
  OBVIOUS
<1> HIDE DEF S, b
<1>2. B \in Seq(S) /\ Len(B) = n /\ \A i \in 1 .. n : B[i] = b
  BY <1>1, Blanks
<1>3. Len(t) \in Nat /\ \A i \in 1 .. Len(t) + n : ~(i <= Len(t)) => i - Len(t) \in 1 .. n
  BY <1>1, LenProperties
<1> HIDE DEF B
<1>4. /\ t \o B \in Seq(S) /\ Len(t \o B) = Len(t) + n
      /\ \A i \in 1 .. Len(t) + n : (t \o B)[i] = IF i <= Len(t) THEN t[i] ELSE B[i - Len(t)]
  BY <1>1, <1>2, ConcatProperties
<1>5. \A i \in 1 .. Len(t) + n : (t \o B)[i] = b
  BY <1>1, <1>2, <1>3, <1>4
<1>6. /\ Append(t, b) \in Seq(S) /\ Len(Append(t, b)) = Len(t) + 1
      /\ \A i \in 1 .. Len(t) + 1 : Append(t, b)[i] = b
  BY <1>1, <1>3
<1> QED BY <1>4, <1>5, <1>6 DEF B, S, b

(* The same for flags.                                                     *)
LEMMA FlagsStayBlank ==
    ASSUME NEW t \in Seq(BOOLEAN), \A i \in 1 .. Len(t) : t[i] = FALSE, NEW n \in Nat
    PROVE  /\ Append(t, FALSE) \in Seq(BOOLEAN) /\ Len(Append(t, FALSE)) = Len(t) + 1
           /\ \A i \in 1 .. Len(t) + 1 : Append(t, FALSE)[i] = FALSE
           /\ t \o Blank(n, FALSE) \in Seq(BOOLEAN) /\ Len(t \o Blank(n, FALSE)) = Len(t) + n
           /\ \A i \in 1 .. Len(t) + n : (t \o Blank(n, FALSE))[i] = FALSE
<1> DEFINE S == BOOLEAN
           b == FALSE
           B == Blank(n, b)
<1>1. b \in S /\ t \in Seq(S) /\ \A i \in 1 .. Len(t) : t[i] = b
  OBVIOUS
<1> HIDE DEF S, b
<1>2. B \in Seq(S) /\ Len(B) = n /\ \A i \in 1 .. n : B[i] = b
  BY <1>1, Blanks
<1>3. Len(t) \in Nat /\ \A i \in 1 .. Len(t) + n : ~(i <= Len(t)) => i - Len(t) \in 1 .. n
  BY <1>1, LenProperties
<1> HIDE DEF B
<1>4. /\ t \o B \in Seq(S) /\ Len(t \o B) = Len(t) + n
      /\ \A i \in 1 .. Len(t) + n : (t \o B)[i] = IF i <= Len(t) THEN t[i] ELSE B[i - Len(t)]
  BY <1>1, <1>2, ConcatProperties
<1>5. \A i \in 1 .. Len(t) + n : (t \o B)[i] = b
  BY <1>1, <1>2, <1>3, <1>4
<1>6. /\ Append(t, b) \in Seq(S) /\ Len(Append(t, b)) = Len(t) + 1
      /\ \A i \in 1 .. Len(t) + 1 : Append(t, b)[i] = b
  BY <1>1, <1>3
<1> QED BY <1>4, <1>5, <1>6 DEF B, S, b

-----------------------------------------------------------------------------
(* With nothing held, before and after, what is about borrows is void.     *)
LEMMA NothingHeld ==
    ASSUME guards' = {}
    PROVE  BorrowsValid' /\ Names' /\ Parents' /\ Exclusive'
BY DEF BorrowsValid, Names, Parents, Exclusive

(* With nothing held and blank tables the tables are exact.                *)
LEMMA BlankIsExact ==
    ASSUME guards' = {}, objects' \in Seq(Obj), added' \in Seq(Obj),
           \A i \in 1 .. Len(objects') : borrowed'["cell"][i] = 0 /\ ~borrowed_mut'["cell"][i],
           \A i \in 1 .. Len(added') : borrowed'["proxy"][i] = 0 /\ ~borrowed_mut'["proxy"][i]
    PROVE  CountsExact'
<1>1. Len(objects') \in Nat /\ Len(added') \in Nat
  BY LenProperties
<1>2. ASSUME NEW k \in Issued'
      PROVE  /\ borrowed'[Where(k)'][Index(k)'] = 0
             /\ ~borrowed_mut'[Where(k)'][Index(k)']
  <2>1. CASE k <= Len(objects')
    BY <1>1, <2>1 DEF Issued, Where, Index
  <2>2. CASE ~(k <= Len(objects'))
    <3>1. k - Len(objects') \in 1 .. Len(added')
      BY <1>1, <2>2 DEF Issued
    <3> QED BY <2>2, <3>1 DEF Where, Index
  <2> QED BY <2>1, <2>2
<1>3. \A k, kind : Borrows(k, kind)' = {}
  BY DEF Borrows
<1> QED BY <1>2, <1>3, FS_EmptySet DEF CountsExact

(* One more object at the end, which is not there yet.                     *)
LEMMA AppendDistinct ==
    ASSUME NEW s \in Seq(Obj), NEW o, o \notin Elements(s),
           \A j, k \in DOMAIN s : s[j] = s[k] => j = k
    PROVE  \A j, k \in DOMAIN Append(s, o) : Append(s, o)[j] = Append(s, o)[k] => j = k
<1>1. DOMAIN s = 1 .. Len(s) /\ DOMAIN Append(s, o) = 1 .. Len(s) + 1 /\ Len(s) \in Nat
  BY LenProperties
<1>2. \A j \in 1 .. Len(s) : Append(s, o)[j] = s[j] /\ s[j] # o
  BY <1>1 DEF Elements
<1>3. Append(s, o)[Len(s) + 1] = o
  OBVIOUS
<1> QED BY <1>1, <1>2, <1>3

(* The keys are those of the two vectors, one behind the other.            *)
LEMMA AllFacts ==
    ASSUME TypeOK
    PROVE  /\ All \in Seq(Obj) /\ DOMAIN All = Issued
           /\ Elements(All) = Elements(objects) \cup Elements(added)
           /\ added = <<>> => All = objects
<1>1. objects \in Seq(Obj) /\ added \in Seq(Obj)
  BY DEF TypeOK
<1>2. /\ All \in Seq(Obj) /\ Len(All) = Len(objects) + Len(added)
      /\ \A i \in 1 .. Len(objects) + Len(added) :
            All[i] = IF i <= Len(objects) THEN objects[i] ELSE added[i - Len(objects)]
  BY <1>1, ConcatProperties DEF All
<1>3. DOMAIN All = Issued
  BY <1>1, <1>2, LenProperties DEF Issued
<1>4. ASSUME NEW i \in DOMAIN objects PROVE objects[i] \in Elements(All)
  <2>1. i \in DOMAIN All /\ All[i] = objects[i]
    BY <1>1, <1>2, <1>3, <1>4, LenProperties DEF Issued
  <2> QED BY <2>1 DEF Elements
<1>5. ASSUME NEW i \in DOMAIN added PROVE added[i] \in Elements(All)
  <2>1. i \in 1 .. Len(added) /\ Len(objects) \in Nat /\ Len(added) \in Nat
    BY <1>1, <1>5, LenProperties
  <2>2. Len(objects) + i \in DOMAIN All
    BY <1>3, <2>1 DEF Issued
  <2>3. All[Len(objects) + i] = added[i]
    BY <1>2, <1>3, <2>1, <2>2 DEF Issued
  <2> QED BY <2>2, <2>3 DEF Elements
<1>6. ASSUME NEW i \in DOMAIN All PROVE All[i] \in Elements(objects) \cup Elements(added)
  <2>1. CASE i <= Len(objects)
    BY <1>1, <1>2, <1>3, <1>6, <2>1, LenProperties DEF Elements, Issued
  <2>2. CASE ~(i <= Len(objects))
    <3>1. i - Len(objects) \in DOMAIN added
      BY <1>1, <1>3, <1>6, <2>2, LenProperties DEF Issued
    <3> QED BY <1>2, <1>3, <1>6, <2>2, <3>1 DEF Elements, Issued
  <2> QED BY <2>1, <2>2
<1>7. Elements(All) = Elements(objects) \cup Elements(added)
  BY <1>4, <1>5, <1>6 DEF Elements
<1>8. added = <<>> => All = objects
  BY <1>1, ConcatEmptySeq DEF All
<1> QED BY <1>2, <1>3, <1>7, <1>8

(* Whatever is done to the vectors, keys keep their objects: it ends in at *)
(* most one more object behind the others.                                 *)
Kept == All' = All \/ \E o \in Fresh : All' = Append(All, o)

(* So objects stay told apart by their keys.                              *)
LEMMA KeptDistinct ==
    ASSUME TypeOK, TypeOK', Distinct, Kept
    PROVE  Distinct'
<1>1. DOMAIN All = Issued /\ All \in Seq(Obj)
  BY AllFacts
<1>2. DOMAIN All' = Issued'
  <2>1. objects' \in Seq(Obj) /\ added' \in Seq(Obj)
    BY DEF TypeOK
  <2>2. All' \in Seq(Obj) /\ Len(All') = Len(objects') + Len(added')
    BY <2>1, ConcatProperties DEF All
  <2> QED BY <2>1, <2>2, LenProperties DEF Issued
<1>3. CASE All' = All
  BY <1>1, <1>2, <1>3 DEF Distinct
<1>4. CASE \E o \in Fresh : All' = Append(All, o)
  <2>1. PICK o \in Fresh : All' = Append(All, o)
    BY <1>4
  <2>2. o \notin Elements(All)
    BY AllFacts DEF Fresh
  <2>3. \A j, k \in DOMAIN All' : All'[j] = All'[k] => j = k
    BY <1>1, <2>1, <2>2, AppendDistinct DEF Distinct
  <2> QED BY <1>2, <2>3 DEF Distinct
<1> QED BY <1>3, <1>4 DEF Kept

(* A push puts its object behind all others, and the cell has no proxy then. *)
LEMMA PushKept == ASSUME TypeOK, Phases, Push PROVE Kept
<1>1. objects \in Seq(Obj) /\ added = <<>> /\ added' = <<>> /\ owner = "cell"
  BY DEF TypeOK, Phases, Push, Free
<1>2. PICK o \in Fresh : objects' = Append(objects, o)
  BY DEF Push
<1>3. objects' \in Seq(Obj)
  BY <1>1, <1>2 DEF Fresh
<1>4. All = objects /\ All' = objects'
  BY <1>1, <1>3, ConcatEmptySeq DEF All
<1> QED BY <1>2, <1>4 DEF Kept

(* A push to the proxy does as well.                                       *)
LEMMA ProxyPushKept == ASSUME TypeOK, ProxyPush PROVE Kept
<1>1. objects \in Seq(Obj) /\ added \in Seq(Obj) /\ objects' = objects
  BY DEF TypeOK, ProxyPush
<1>2. PICK o \in Fresh : added' = Append(added, o)
  BY DEF ProxyPush
<1>3. o \in Obj
  BY DEF Fresh
<1>4. <<o>> \in Seq(Obj) /\ added' = added \o <<o>> /\ All \in Seq(Obj)
  BY <1>1, <1>2, <1>3, AllFacts
<1>5. All' = All \o <<o>>
  BY <1>1, <1>3, <1>4, ConcatAssociative DEF All
<1>6. All \o <<o>> = Append(All, o)
  BY <1>3, <1>4
<1> QED BY <1>5, <1>6 DEF Kept

(* The commit puts what the proxy added where it had been all along.       *)
LEMMA CommitKept == ASSUME TypeOK, Commit PROVE Kept
<1>1. objects \in Seq(Obj) /\ added \in Seq(Obj) /\ All \in Seq(Obj)
  BY AllFacts DEF TypeOK
<1>2. All' = All \o <<>>
  BY DEF Commit, All
<1> QED BY <1>1, <1>2, ConcatEmptySeq DEF Kept

(* The other steps leave both vectors alone.                               *)
LEMMA OthersKept ==
    ASSUME TypeOK, Phases, UNCHANGED objects, added' = added \/ (owner = "cell" /\ added' = <<>>)
    PROVE  All' = All /\ Kept
<1>1. owner = "cell" => added = <<>>
  BY DEF Phases
<1> QED BY <1>1 DEF All, Kept
-----------------------------------------------------------------------------
(* Each action keeps the invariant. First those that need an arena  *)
(* nobody borrows from: blank tables stay blank.                           *)

(* The tables before: of the right types and lengths, and blank.           *)
LEMMA TablesBefore ==
    ASSUME IInv, Usable, guards = {}
    PROVE  /\ borrowed["cell"] \in Seq(Nat) /\ borrowed["proxy"] \in Seq(Nat)
           /\ borrowed_mut["cell"] \in Seq(BOOLEAN) /\ borrowed_mut["proxy"] \in Seq(BOOLEAN)
           /\ Len(borrowed["cell"]) = Len(objects) /\ Len(borrowed_mut["cell"]) = Len(objects)
           /\ objects \in Seq(Obj) /\ added \in Seq(Obj)
           /\ \A i \in 1 .. Len(objects) : borrowed["cell"][i] = 0 /\ borrowed_mut["cell"][i] = FALSE
<1>1. \A i \in 1 .. Len(objects) : borrowed["cell"][i] = 0 /\ ~borrowed_mut["cell"][i]
  BY BlankTables DEF IInv
<1>2. borrowed_mut["cell"] \in Seq(BOOLEAN) /\ Len(borrowed_mut["cell"]) = Len(objects)
  BY DEF IInv, TypeOK, Usable, Place
<1>3. \A i \in 1 .. Len(objects) : borrowed_mut["cell"][i] \in BOOLEAN
  BY <1>2, LenProperties
<1> QED BY <1>1, <1>2, <1>3 DEF IInv, TypeOK, Usable, Place

(* Push keeps the invariant. *)
LEMMA PushInv == ASSUME IInv, Push PROVE IInv'
<1>1. Usable /\ guards = {} /\ guards' = {} /\ owner = "cell" /\ owner' = "cell" /\ added = <<>>
      /\ added' = <<>>
  BY DEF IInv, Phases, Push, Free, Usable
<1>2. PICK o \in Obj : objects' = Append(objects, o)
  BY DEF Push, Fresh
<1>3. objects' \in Seq(Obj) /\ Len(objects') = Len(objects) + 1 /\ Len(objects) \in Nat
  BY <1>1, <1>2, TablesBefore
<1>4. /\ borrowed'["cell"] = Append(borrowed["cell"], 0)
      /\ borrowed_mut'["cell"] = Append(borrowed_mut["cell"], FALSE)
      /\ borrowed' \in [Place -> Seq(Nat)] /\ borrowed_mut' \in [Place -> Seq(BOOLEAN)]
  <2>1. borrowed["cell"] \in Seq(Nat) /\ borrowed_mut["cell"] \in Seq(BOOLEAN)
    BY <1>1, TablesBefore
  <2>2. Append(borrowed["cell"], 0) \in Seq(Nat) /\ Append(borrowed_mut["cell"], FALSE) \in Seq(BOOLEAN)
    BY <2>1
  <2> QED BY <2>2 DEF IInv, TypeOK, Push, Place
<1>5. TypeOK'
  BY <1>1, <1>3, <1>4, TablesBefore DEF IInv, TypeOK, Push
<1>6. ASSUME NEW i \in 1 .. Len(objects')
      PROVE  borrowed'["cell"][i] = 0 /\ ~borrowed_mut'["cell"][i]
  <2> DEFINE t == borrowed["cell"]
             u == borrowed_mut["cell"]
  <2>1. /\ t \in Seq(Nat) /\ Len(t) = Len(objects) /\ \A j \in 1 .. Len(t) : t[j] = 0
        /\ u \in Seq(BOOLEAN) /\ Len(u) = Len(objects) /\ \A j \in 1 .. Len(u) : u[j] = FALSE
    BY <1>1, TablesBefore
  <2> HIDE DEF t, u
  <2>2. \A j \in 1 .. Len(t) + 1 : Append(t, 0)[j] = 0
    BY <2>1, CountersStayBlank, 0 \in Nat
  <2>3. \A j \in 1 .. Len(u) + 1 : Append(u, FALSE)[j] = FALSE
    BY <2>1, FlagsStayBlank, 0 \in Nat
  <2>4. Append(t, 0)[i] = 0 /\ Append(u, FALSE)[i] = FALSE
    BY <1>3, <2>1, <2>2, <2>3
  <2> QED BY <1>4, <2>4 DEF t, u
<1>7. CountsExact'
  BY <1>1, <1>3, <1>6, BlankIsExact
<1>8. Distinct'
  BY <1>5, PushKept, KeptDistinct DEF IInv
<1>9. Phases'
  BY <1>1, FS_EmptySet DEF Phases
<1> QED BY <1>1, <1>5, <1>7, <1>8, <1>9, NothingHeld DEF IInv

(* GetProxy keeps the invariant. *)
LEMMA GetProxyInv == ASSUME IInv, GetProxy PROVE IInv'
<1>1. Usable /\ guards = {} /\ guards' = {} /\ owner = "cell" /\ objects' = objects /\ added' = <<>>
      /\ owner' = "proxy"
  BY DEF GetProxy, Free, Usable
<1>2. /\ borrowed'["cell"] = borrowed["cell"] /\ borrowed_mut'["cell"] = borrowed_mut["cell"]
      /\ borrowed'["proxy"] = <<>> /\ borrowed_mut'["proxy"] = <<>>
      /\ borrowed' \in [Place -> Seq(Nat)] /\ borrowed_mut' \in [Place -> Seq(BOOLEAN)]
  BY <1>1 DEF IInv, TypeOK, GetProxy, Place
<1>3. TypeOK'
  BY <1>1, <1>2, TablesBefore DEF IInv, TypeOK, GetProxy
<1>4. CountsExact'
  <2>1. objects' \in Seq(Obj) /\ added' \in Seq(Obj)
    BY <1>3 DEF TypeOK
  <2>2. \A i \in 1 .. Len(objects') : borrowed'["cell"][i] = 0 /\ ~borrowed_mut'["cell"][i]
    BY <1>1, <1>2, TablesBefore
  <2>3. \A i \in 1 .. Len(added') : FALSE
    BY <1>1
  <2> QED BY <1>1, <2>1, <2>2, <2>3, BlankIsExact
<1>5. Distinct'
  BY <1>1, <1>3, OthersKept, KeptDistinct DEF IInv
<1>6. Phases'
  BY <1>1, FS_EmptySet DEF Phases
<1> QED BY <1>1, <1>3, <1>4, <1>5, <1>6, NothingHeld DEF IInv

(* Commit keeps the invariant. *)
LEMMA CommitInv == ASSUME IInv, Commit PROVE IInv'
<1>1. Usable /\ guards = {} /\ guards' = {} /\ owner = "proxy" /\ owner' = "cell" /\ added' = <<>>
      /\ objects' = objects \o added
  BY DEF Commit, Free, Usable
<1>2. objects' \in Seq(Obj) /\ Len(objects') = Len(objects) + Len(added)
      /\ Len(objects) \in Nat /\ Len(added) \in Nat
  BY <1>1, TablesBefore, ConcatProperties
<1> DEFINE counters == borrowed["cell"] \o Blank(Len(added), 0)
           flags == borrowed_mut["cell"] \o Blank(Len(added), FALSE)
<1>3. /\ counters \in Seq(Nat) /\ Len(counters) = Len(objects')
      /\ \A i \in 1 .. Len(objects') : counters[i] = 0
  <2> DEFINE t == borrowed["cell"]
  <2>1. t \in Seq(Nat) /\ Len(t) = Len(objects) /\ \A i \in 1 .. Len(objects) : t[i] = 0
    BY <1>1, TablesBefore
  <2> HIDE DEF t
  <2>2. /\ t \o Blank(Len(added), 0) \in Seq(Nat)
        /\ Len(t \o Blank(Len(added), 0)) = Len(t) + Len(added)
        /\ \A i \in 1 .. Len(t) + Len(added) : (t \o Blank(Len(added), 0))[i] = 0
    BY <1>2, <2>1, CountersStayBlank, 0 \in Nat
  <2> QED BY <1>2, <2>1, <2>2 DEF t
<1>4. /\ flags \in Seq(BOOLEAN) /\ Len(flags) = Len(objects')
      /\ \A i \in 1 .. Len(objects') : flags[i] = FALSE
  <2> DEFINE t == borrowed_mut["cell"]
  <2>1. t \in Seq(BOOLEAN) /\ Len(t) = Len(objects) /\ \A i \in 1 .. Len(objects) : t[i] = FALSE
    BY <1>1, TablesBefore
  <2> HIDE DEF t
  <2>2. /\ t \o Blank(Len(added), FALSE) \in Seq(BOOLEAN)
        /\ Len(t \o Blank(Len(added), FALSE)) = Len(t) + Len(added)
        /\ \A i \in 1 .. Len(t) + Len(added) : (t \o Blank(Len(added), FALSE))[i] = FALSE
    BY <1>2, <2>1, FlagsStayBlank
  <2> QED BY <1>2, <2>1, <2>2 DEF t
<1>5. /\ borrowed' = [borrowed EXCEPT !["cell"] = counters, !["proxy"] = <<>>]
      /\ borrowed_mut' = [borrowed_mut EXCEPT !["cell"] = flags, !["proxy"] = <<>>]
      /\ borrowed \in [Place -> Seq(Nat)] /\ borrowed_mut \in [Place -> Seq(BOOLEAN)]
  BY DEF Commit, IInv, TypeOK
<1> HIDE DEF counters, flags
<1>6. TypeOK'
  <2>1. borrowed' \in [Place -> Seq(Nat)] /\ borrowed_mut' \in [Place -> Seq(BOOLEAN)]
    <3>1. <<>> \in Seq(Nat) /\ <<>> \in Seq(BOOLEAN)
      BY EmptySeq
    <3>2. borrowed' \in [Place -> Seq(Nat)]
      BY <1>3, <1>5, <3>1 DEF Place
    <3>3. borrowed_mut' \in [Place -> Seq(BOOLEAN)]
      BY <1>4, <1>5, <3>1 DEF Place
    <3> QED BY <3>2, <3>3
  <2>2. borrowed'["cell"] = counters /\ borrowed_mut'["cell"] = flags
    BY <1>5 DEF Place
  <2>3. added' \in Seq(Obj) /\ guards' \subseteq Slot /\ \A g \in guards' : g.key \in Issued'
    BY <1>1
  <2>4. buffer' \in Buffer /\ boxes' \in Buffer /\ panicked' \in {"none", "read", "write"}
    BY DEF IInv, TypeOK, Commit, Free, Running
  <2> QED BY <1>1, <1>2, <1>3, <1>4, <2>1, <2>2, <2>3, <2>4 DEF TypeOK
<1>7. CountsExact'
  <2>1. \A i \in 1 .. Len(objects') : borrowed'["cell"][i] = 0 /\ ~borrowed_mut'["cell"][i]
    BY <1>3, <1>4, <1>5 DEF Place
  <2>2. \A i \in 1 .. Len(added') : FALSE
    BY <1>1
  <2>3. added' \in Seq(Obj)
    BY <1>1
  <2> QED BY <1>1, <1>2, <2>1, <2>2, <2>3, BlankIsExact
<1>8. Distinct'
  BY <1>6, CommitKept, KeptDistinct DEF IInv
<1>9. Phases'
  BY <1>1, FS_EmptySet DEF Phases
<1> QED BY <1>1, <1>6, <1>7, <1>8, <1>9, NothingHeld DEF IInv

(* IntoReadonly keeps the invariant. *)
LEMMA IntoReadonlyInv == ASSUME IInv, IntoReadonly PROVE IInv'
<1>1. Usable /\ guards = {} /\ guards' = {} /\ owner = "cell" /\ owner' = "readonly"
      /\ objects' = objects /\ added' = added /\ added = <<>>
  BY DEF IInv, Phases, IntoReadonly, Free, Usable
<1>2. borrowed' \in [Place -> Seq(Nat)] /\ borrowed_mut' \in [Place -> Seq(BOOLEAN)]
  BY DEF IInv, TypeOK, IntoReadonly, Place
<1>3. TypeOK'
  BY <1>1, <1>2 DEF IInv, TypeOK, IntoReadonly
<1>4. CountsExact'
  BY <1>1 DEF CountsExact
<1>5. Distinct'
  BY <1>1, <1>3, OthersKept, KeptDistinct DEF IInv
<1>6. Phases'
  BY <1>1, FS_EmptySet DEF Phases
<1> QED BY <1>1, <1>3, <1>4, <1>5, <1>6, NothingHeld DEF IInv

(* IntoCell keeps the invariant. *)
LEMMA IntoCellInv == ASSUME IInv, IntoCell PROVE IInv'
<1>1. guards = {} /\ guards' = {} /\ owner = "readonly" /\ owner' = "cell"
      /\ objects' = objects /\ added' = added /\ added = <<>>
  BY DEF IInv, Phases, IntoCell, Free
<1>2. objects \in Seq(Obj) /\ Len(objects) \in Nat
  BY LenProperties DEF IInv, TypeOK
<1>3. /\ borrowed'["cell"] = Blank(Len(objects), 0)
      /\ borrowed_mut'["cell"] = Blank(Len(objects), FALSE)
      /\ borrowed' \in [Place -> Seq(Nat)] /\ borrowed_mut' \in [Place -> Seq(BOOLEAN)]
  BY <1>2, Blanks DEF IInv, TypeOK, IntoCell, Place
<1>4. /\ Len(borrowed'["cell"]) = Len(objects) /\ Len(borrowed_mut'["cell"]) = Len(objects)
      /\ \A i \in 1 .. Len(objects) : borrowed'["cell"][i] = 0 /\ borrowed_mut'["cell"][i] = FALSE
  <2>1. Len(Blank(Len(objects), 0)) = Len(objects) /\ \A i \in 1 .. Len(objects) : Blank(Len(objects), 0)[i] = 0
    BY <1>2, Blanks, 0 \in Nat
  <2>2. /\ Len(Blank(Len(objects), FALSE)) = Len(objects)
        /\ \A i \in 1 .. Len(objects) : Blank(Len(objects), FALSE)[i] = FALSE
    BY <1>2, Blanks, FALSE \in BOOLEAN
  <2> QED BY <1>3, <2>1, <2>2
<1>5. TypeOK'
  BY <1>1, <1>3, <1>4 DEF IInv, TypeOK, IntoCell
<1>6. CountsExact'
  <2>1. \A i \in 1 .. Len(added') : FALSE
    BY <1>1
  <2>2. objects' \in Seq(Obj) /\ added' \in Seq(Obj)
    BY <1>5 DEF TypeOK
  <2> QED BY <1>1, <1>4, <2>1, <2>2, BlankIsExact
<1>7. Distinct'
  BY <1>1, <1>5, OthersKept, KeptDistinct DEF IInv
<1>8. Phases'
  BY <1>1, FS_EmptySet DEF Phases
<1> QED BY <1>1, <1>5, <1>6, <1>7, <1>8, NothingHeld DEF IInv
-----------------------------------------------------------------------------
(* Now those that go on while borrows are held.                      *)

(* ProxyPush keeps the invariant: no key moves, and nobody has the new one.*)
LEMMA ProxyPushInv == ASSUME IInv, ProxyPush PROVE IInv'
<1>1. PICK o \in Obj : added' = Append(added, o)
  BY DEF ProxyPush, Fresh
<1>2. /\ objects \in Seq(Obj) /\ added \in Seq(Obj) /\ objects' = objects /\ guards' = guards
      /\ Len(objects) \in Nat /\ Len(added) \in Nat /\ Usable /\ owner = "proxy"
      /\ owner' = "proxy" /\ buffer' = buffer
  BY LenProperties DEF IInv, TypeOK, ProxyPush, Usable
<1>3. added' \in Seq(Obj) /\ Len(added') = Len(added) + 1
  BY <1>1, <1>2
<1>4. \A k : Where(k)' = Where(k) /\ Index(k)' = Index(k) /\ Address(k)' = Address(k)
  BY <1>2 DEF Where, Index, Address
<1>5. \A k, kind : Borrows(k, kind)' = Borrows(k, kind)
  BY <1>2 DEF Borrows
<1> DEFINE new == Len(objects) + Len(added) + 1
<1>6. Issued' = Issued \cup {new} /\ new \notin Issued /\ Issued \subseteq Issued'
  BY <1>2, <1>3 DEF Issued
<1>7. /\ borrowed["proxy"] \in Seq(Nat) /\ Len(borrowed["proxy"]) = Len(added)
      /\ borrowed_mut["proxy"] \in Seq(BOOLEAN) /\ Len(borrowed_mut["proxy"]) = Len(added)
      /\ borrowed' = [borrowed EXCEPT !["proxy"] = Append(borrowed["proxy"], 0)]
      /\ borrowed_mut' = [borrowed_mut EXCEPT !["proxy"] = Append(borrowed_mut["proxy"], FALSE)]
      /\ borrowed \in [Place -> Seq(Nat)] /\ borrowed_mut \in [Place -> Seq(BOOLEAN)]
  BY <1>2 DEF IInv, TypeOK, ProxyPush, Place
<1>8. TypeOK'
  <2>1. borrowed' \in [Place -> Seq(Nat)] /\ borrowed_mut' \in [Place -> Seq(BOOLEAN)]
    BY <1>7 DEF Place
  <2>2. /\ Len(borrowed'["proxy"]) = Len(added') /\ Len(borrowed_mut'["proxy"]) = Len(added')
        /\ borrowed'["cell"] = borrowed["cell"] /\ borrowed_mut'["cell"] = borrowed_mut["cell"]
    BY <1>2, <1>3, <1>7 DEF Place
  <2> QED BY <1>2, <1>3, <1>6, <2>1, <2>2 DEF IInv, TypeOK, ProxyPush, Running
<1>9. CountsExact'
  <2>1. ASSUME NEW k \in Issued
        PROVE  /\ borrowed'[Where(k)][Index(k)] = borrowed[Where(k)][Index(k)]
               /\ borrowed_mut'[Where(k)][Index(k)] = borrowed_mut[Where(k)][Index(k)]
    <3>1. /\ Where(k) \in Place /\ Index(k) \in DOMAIN borrowed[Where(k)]
          /\ Index(k) \in DOMAIN borrowed_mut[Where(k)]
      BY <1>2, Keys DEF IInv
    <3>2. CASE Where(k) = "cell"
      BY <1>7, <3>2 DEF Place
    <3>3. CASE Where(k) = "proxy"
      <4>1. Index(k) \in 1 .. Len(added)
        BY <1>2, <1>7, <3>1, <3>3
      <4>2. /\ Append(borrowed["proxy"], 0)[Index(k)] = borrowed["proxy"][Index(k)]
            /\ Append(borrowed_mut["proxy"], FALSE)[Index(k)] = borrowed_mut["proxy"][Index(k)]
        <5> DEFINE t == borrowed["proxy"]
                   u == borrowed_mut["proxy"]
                   i == Index(k)
        <5>1. t \in Seq(Nat) /\ u \in Seq(BOOLEAN) /\ i \in 1 .. Len(t) /\ i \in 1 .. Len(u)
          BY <1>7, <4>1
        <5> HIDE DEF t, u, i
        <5>2. Append(t, 0)[i] = t[i]
          BY <5>1
        <5>3. Append(u, FALSE)[i] = u[i]
          BY <5>1
        <5> QED BY <5>2, <5>3 DEF t, u, i
      <4> QED BY <1>7, <3>3, <4>2 DEF Place
    <3> QED BY <3>1, <3>2, <3>3 DEF Place
  <2>2. ~(new <= Len(objects)) /\ new - Len(objects) = Len(added) + 1
    BY <1>2
  <2>3. borrowed'["proxy"][Len(added) + 1] = 0 /\ borrowed_mut'["proxy"][Len(added) + 1] = FALSE
    BY <1>2, <1>7 DEF Place
  <2>4. borrowed'[Where(new)][Index(new)] = 0 /\ ~borrowed_mut'[Where(new)][Index(new)]
    BY <2>2, <2>3 DEF Where, Index
  <2>5. \A kind : Borrows(new, kind) = {}
    BY <1>6 DEF Borrows, IInv, TypeOK
  <2>6. ASSUME NEW k \in Issued'
        PROVE  /\ borrowed'[Where(k)][Index(k)] = Cardinality(Borrows(k, "read"))
               /\ borrowed_mut'[Where(k)][Index(k)] <=> Borrows(k, "write") # {}
    <3>1. CASE k \in Issued
      BY <1>2, <2>1, <3>1 DEF IInv, CountsExact
    <3>2. CASE k = new
      BY <2>4, <2>5, <3>2, FS_EmptySet
    <3> QED BY <1>6, <3>1, <3>2
  <2> QED BY <1>4, <1>5, <2>6 DEF CountsExact
<1>10. BorrowsValid' /\ Names' /\ Parents' /\ Exclusive'
  BY <1>2, <1>4 DEF IInv, BorrowsValid, Names, Parents, Exclusive
<1>11. Distinct'
  BY <1>8, ProxyPushKept, KeptDistinct DEF IInv
<1>12. Phases'
  BY <1>2 DEF IInv, Phases
<1> QED BY <1>8, <1>9, <1>10, <1>11, <1>12 DEF IInv

(* As long as both vectors stay, so do keys, addresses and names.          *)
LEMMA NothingMoves ==
    ASSUME UNCHANGED <<owner, objects, added, buffer, boxes>>, IInv, TypeOK',
           \A g \in guards' : g \in guards \/ (g.parent = Where(g.key) /\ g.at = Address(g.key)),
           IsFiniteSet(guards'), owner # "readonly"
    PROVE  /\ \A k : Where(k)' = Where(k) /\ Index(k)' = Index(k) /\ Address(k)' = Address(k)
           /\ Issued' = Issued
           /\ BorrowsValid' /\ Parents' /\ Distinct' /\ Phases'
<1>1. \A k : Where(k)' = Where(k) /\ Index(k)' = Index(k) /\ Address(k)' = Address(k)
  BY DEF Where, Index, Address
<1>2. Issued' = Issued /\ All' = All
  BY DEF Issued, All
<1>3. BorrowsValid' /\ Parents'
  BY <1>1 DEF IInv, BorrowsValid, Parents
<1>4. Distinct' /\ Phases'
  BY <1>2 DEF IInv, Distinct, Phases
<1> QED BY <1>1, <1>2, <1>3, <1>4

(* Get keeps the invariant. *)
LEMMA GetInv == ASSUME NEW k \in Issued, IInv, Get(k) PROVE IInv'
<1>1. PICK g \in Unused : guards' = guards \cup {Borrow(g, "read", k)}
  BY DEF Get
<1> DEFINE b == Borrow(g, "read", k)
<1>2. /\ Where(k) \in Place /\ Index(k) \in DOMAIN borrowed[Where(k)] /\ k \in Nat
      /\ Index(k) \in DOMAIN borrowed_mut[Where(k)] /\ Index(k) \in Nat
      /\ \A j \in Issued : Where(j) = Where(k) /\ Index(j) = Index(k) => j = k
  BY Keys DEF IInv, Get
<1>3. /\ b.id = g /\ b.kind = "read" /\ b.parent = Where(k) /\ b.key = k /\ b.at = Address(k)
      /\ b \in Slot
  <2>1. Address(k) \in {"objects", "added", "box"} \X Buffer \X Nat
    BY <1>2 DEF Address, IInv, TypeOK, Buffer
  <2> QED BY <1>2, <2>1 DEF Borrow, Slot, Unused
<1>4. b \notin guards /\ \A h \in guards : h.id # b.id
  BY <1>3 DEF Unused
<1> HIDE DEF b
<1>5. IsFiniteSet(guards) /\ IsFiniteSet(guards')
  BY <1>1, FS_AddElement DEF IInv, Phases
<1>6. /\ borrowed \in [Place -> Seq(Nat)] /\ borrowed_mut' = borrowed_mut
      /\ borrowed' = [borrowed EXCEPT ![Where(k)] =
                          [borrowed[Where(k)] EXCEPT ![Index(k)] = borrowed[Where(k)][Index(k)] + 1]]
  BY DEF Get, IInv, TypeOK
<1>7. /\ borrowed' \in [Place -> Seq(Nat)]
      /\ \A p \in Place : Len(borrowed'[p]) = Len(borrowed[p])
  BY <1>2, <1>6
<1>8. TypeOK'
  <2>1. guards' \subseteq Slot /\ \A h \in guards' : h.key \in Issued
    BY <1>1, <1>3 DEF b, IInv, TypeOK
  <2>2. Issued' = Issued
    BY DEF Get, Issued
  <2> QED BY <1>7, <2>1, <2>2 DEF Get, IInv, TypeOK, Place
<1>9. owner # "readonly" /\ UNCHANGED <<owner, objects, added, buffer, boxes>>
  BY DEF Get, Usable
<1>10. \A h \in guards' : h \in guards \/ (h.parent = Where(h.key) /\ h.at = Address(h.key))
  BY <1>1, <1>3 DEF b
<1>11. /\ \A j : Where(j)' = Where(j) /\ Index(j)' = Index(j)
       /\ Issued' = Issued /\ BorrowsValid' /\ Parents' /\ Distinct' /\ Phases'
  BY <1>5, <1>8, <1>9, <1>10, NothingMoves
<1>12. Borrows(k, "write") = {}
  BY <1>9 DEF Get, Readable, IInv, CountsExact
<1>13. CountsExact'
  <2>1. ASSUME NEW j \in Issued
        PROVE  /\ borrowed'[Where(j)][Index(j)] = Cardinality(Borrows(j, "read")')
               /\ borrowed_mut'[Where(j)][Index(j)] <=> Borrows(j, "write")' # {}
    <3>1. /\ Borrows(j, "write")' = Borrows(j, "write")
          /\ Borrows(j, "read")' = IF j = k THEN Borrows(k, "read") \cup {b} ELSE Borrows(j, "read")
      BY <1>1, <1>3 DEF Borrows, b
    <3>2. b \notin Borrows(k, "read") /\ IsFiniteSet(Borrows(k, "read"))
      BY <1>4, <1>5, FS_Subset DEF Borrows
    <3>3. Cardinality(Borrows(k, "read") \cup {b}) = Cardinality(Borrows(k, "read")) + 1
      BY <3>2, FS_AddElement
    <3>4. borrowed[Where(j)][Index(j)] = Cardinality(Borrows(j, "read"))
      BY <1>9 DEF IInv, CountsExact
    <3>5. Where(j) \in Place /\ Index(j) \in DOMAIN borrowed[Where(j)]
      BY Keys DEF IInv, Get
    <3>6. borrowed'[Where(j)][Index(j)] = IF j = k THEN borrowed[Where(k)][Index(k)] + 1
                                                   ELSE borrowed[Where(j)][Index(j)]
      BY <1>2, <1>6, <3>5
    <3>7. borrowed_mut'[Where(j)][Index(j)] <=> Borrows(j, "write") # {}
      BY <1>6, <1>9 DEF IInv, CountsExact
    <3> QED BY <3>1, <3>3, <3>4, <3>6, <3>7
  <2> QED BY <1>11, <2>1 DEF CountsExact
<1>14. Names'
  BY <1>1, <1>4 DEF b, IInv, Names
<1>15. Exclusive'
  <2>1. \A h \in guards : h.key = k => h.kind = "read"
    <3>1. \A h \in guards : h.kind \in {"read", "write"}
      BY DEF IInv, TypeOK, Slot
    <3> QED BY <1>12, <3>1 DEF Borrows
  <2> QED BY <1>1, <1>3, <2>1 DEF b, IInv, Exclusive
<1> QED BY <1>8, <1>11, <1>13, <1>14, <1>15 DEF IInv

(* GetMut keeps the invariant. *)
LEMMA GetMutInv == ASSUME NEW k \in Issued, IInv, GetMut(k) PROVE IInv'
<1>1. PICK g \in Unused : guards' = guards \cup {Borrow(g, "write", k)}
  BY DEF GetMut
<1> DEFINE b == Borrow(g, "write", k)
<1>2. /\ Where(k) \in Place /\ Index(k) \in DOMAIN borrowed[Where(k)] /\ k \in Nat
      /\ Index(k) \in DOMAIN borrowed_mut[Where(k)] /\ Index(k) \in Nat
      /\ \A j \in Issued : Where(j) = Where(k) /\ Index(j) = Index(k) => j = k
  BY Keys DEF IInv, GetMut
<1>3. /\ b.id = g /\ b.kind = "write" /\ b.parent = Where(k) /\ b.key = k /\ b.at = Address(k)
      /\ b \in Slot
  <2>1. Address(k) \in {"objects", "added", "box"} \X Buffer \X Nat
    BY <1>2 DEF Address, IInv, TypeOK, Buffer
  <2> QED BY <1>2, <2>1 DEF Borrow, Slot, Unused
<1>4. b \notin guards /\ \A h \in guards : h.id # b.id
  BY <1>3 DEF Unused
<1> HIDE DEF b
<1>5. IsFiniteSet(guards) /\ IsFiniteSet(guards')
  BY <1>1, FS_AddElement DEF IInv, Phases
<1>6. /\ borrowed_mut \in [Place -> Seq(BOOLEAN)] /\ borrowed' = borrowed
      /\ borrowed_mut' = [borrowed_mut EXCEPT ![Where(k)] =
                              [borrowed_mut[Where(k)] EXCEPT ![Index(k)] = TRUE]]
  BY DEF GetMut, IInv, TypeOK
<1>7. /\ borrowed_mut' \in [Place -> Seq(BOOLEAN)]
      /\ \A p \in Place : Len(borrowed_mut'[p]) = Len(borrowed_mut[p])
  BY <1>2, <1>6
<1>8. TypeOK'
  <2>1. guards' \subseteq Slot /\ \A h \in guards' : h.key \in Issued
    BY <1>1, <1>3 DEF b, IInv, TypeOK
  <2>2. Issued' = Issued
    BY DEF GetMut, Issued
  <2> QED BY <1>7, <2>1, <2>2 DEF GetMut, IInv, TypeOK, Place
<1>9. owner # "readonly" /\ UNCHANGED <<owner, objects, added, buffer, boxes>>
  BY DEF GetMut, Usable
<1>10. \A h \in guards' : h \in guards \/ (h.parent = Where(h.key) /\ h.at = Address(h.key))
  BY <1>1, <1>3 DEF b
<1>11. /\ \A j : Where(j)' = Where(j) /\ Index(j)' = Index(j)
       /\ Issued' = Issued /\ BorrowsValid' /\ Parents' /\ Distinct' /\ Phases'
  BY <1>5, <1>8, <1>9, <1>10, NothingMoves
<1>12. \A h \in guards : h.key # k
  <2>1. Borrows(k, "write") = {}
    BY <1>9 DEF GetMut, Writable, Readable, IInv, CountsExact
  <2>2. Cardinality(Borrows(k, "read")) = 0 /\ IsFiniteSet(Borrows(k, "read"))
    BY <1>5, <1>9, FS_Subset DEF GetMut, Writable, IInv, CountsExact, Borrows
  <2>3. Borrows(k, "read") = {}
    BY <2>2, FS_EmptySet
  <2>4. \A h \in guards : h.kind \in {"read", "write"}
    BY DEF IInv, TypeOK, Slot
  <2> QED BY <2>1, <2>3, <2>4 DEF Borrows
<1>13. CountsExact'
  <2>1. ASSUME NEW j \in Issued
        PROVE  /\ borrowed'[Where(j)][Index(j)] = Cardinality(Borrows(j, "read")')
               /\ borrowed_mut'[Where(j)][Index(j)] <=> Borrows(j, "write")' # {}
    <3>1. Borrows(j, "read")' = Borrows(j, "read")
      BY <1>1, <1>3 DEF Borrows, b
    <3>2. j # k => Borrows(j, "write")' = Borrows(j, "write")
      BY <1>1, <1>3 DEF Borrows, b
    <3>3. j = k => Borrows(j, "write")' # {}
      BY <1>1, <1>3 DEF Borrows, b
    <3>4. Where(j) \in Place /\ Index(j) \in DOMAIN borrowed_mut[Where(j)]
      BY Keys DEF IInv, GetMut
    <3>5. /\ j = k => borrowed_mut'[Where(j)][Index(j)] = TRUE
          /\ j # k => borrowed_mut'[Where(j)][Index(j)] = borrowed_mut[Where(j)][Index(j)]
      BY <1>2, <1>6, <3>4
    <3>6. /\ borrowed[Where(j)][Index(j)] = Cardinality(Borrows(j, "read"))
          /\ borrowed_mut[Where(j)][Index(j)] <=> Borrows(j, "write") # {}
      BY <1>9 DEF IInv, CountsExact
    <3> QED BY <1>6, <3>1, <3>2, <3>3, <3>5, <3>6
  <2> QED BY <1>11, <2>1 DEF CountsExact
<1>14. Names'
  BY <1>1, <1>4 DEF b, IInv, Names
<1>15. Exclusive'
  BY <1>1, <1>3, <1>12 DEF b, IInv, Exclusive
<1> QED BY <1>8, <1>11, <1>13, <1>14, <1>15 DEF IInv

(* A panic changes nothing.                                                *)
LEMMA PanicInv ==
    ASSUME NEW k \in Issued, IInv, DoubleGet(k) \/ DoubleGetMut(k) PROVE IInv'
<1>1. /\ UNCHANGED <<owner, objects, added, borrowed, borrowed_mut, buffer, boxes, guards>>
      /\ panicked' \in {"read", "write"} /\ owner # "readonly"
  BY DEF DoubleGet, DoubleGetMut, Panics, Usable
<1>2. TypeOK'
  BY <1>1 DEF IInv, TypeOK, Issued
<1>3. \A h \in guards' : h \in guards
  BY <1>1
<1>4. IsFiniteSet(guards')
  BY <1>1 DEF IInv, Phases
<1>5. /\ \A j : Where(j)' = Where(j) /\ Index(j)' = Index(j)
      /\ Issued' = Issued /\ BorrowsValid' /\ Parents' /\ Distinct' /\ Phases'
  BY <1>1, <1>2, <1>3, <1>4, NothingMoves
<1>6. CountsExact' /\ Names' /\ Exclusive'
  BY <1>1, <1>5 DEF IInv, CountsExact, Borrows, Names, Exclusive
<1> QED BY <1>2, <1>5, <1>6 DEF IInv

(* What Drop changes is the entry of the key that was borrowed.            *)
LEMMA DropEntry ==
    ASSUME NEW g \in guards, IInv
    PROVE  TakenFrom(g) = Where(g.key) /\ EntryOf(g) = Index(g.key) /\ g.key \in Issued
BY DEF IInv, TypeOK, Parents, TakenFrom, EntryOf, Where, Index

(* Drop keeps the invariant. *)
LEMMA DropInv == ASSUME NEW g \in guards, IInv, Drop(g) PROVE IInv'
<1> DEFINE k == g.key
           w == Where(k)
           i == Index(k)
<1>1. owner # "readonly" /\ UNCHANGED <<owner, objects, added, buffer, boxes, panicked>>
      /\ owner \in {"cell", "proxy"} /\ Usable /\ guards' = guards \ {g}
  BY DEF IInv, TypeOK, Phases, Drop, Usable
<1>2. k \in Issued /\ TakenFrom(g) = w /\ EntryOf(g) = i
  BY DropEntry
<1>3. /\ w \in Place /\ i \in DOMAIN borrowed[w] /\ i \in DOMAIN borrowed_mut[w]
      /\ \A j \in Issued : Where(j) = w /\ Index(j) = i => j = k
  BY <1>1, <1>2, Keys DEF IInv
<1> HIDE DEF k, w, i
<1>4. IsFiniteSet(guards) /\ IsFiniteSet(guards')
  BY <1>1, FS_RemoveElement DEF IInv, Phases
<1>5. borrowed \in [Place -> Seq(Nat)] /\ borrowed_mut \in [Place -> Seq(BOOLEAN)]
  BY DEF IInv, TypeOK
<1>6. Names' /\ Exclusive'
  BY <1>1 DEF IInv, Names, Exclusive
<1>7. Borrows(k, g.kind)' = Borrows(k, g.kind) \ {g} /\ g \in Borrows(k, g.kind)
      /\ \A j, kind : j # k \/ kind # g.kind => Borrows(j, kind)' = Borrows(j, kind)
  BY <1>1 DEF Borrows, k
<1>8. ASSUME NEW j \in Issued
      PROVE  /\ borrowed[Where(j)][Index(j)] = Cardinality(Borrows(j, "read"))
             /\ borrowed_mut[Where(j)][Index(j)] <=> Borrows(j, "write") # {}
             /\ Where(j) \in Place /\ Index(j) \in DOMAIN borrowed[Where(j)]
             /\ Index(j) \in DOMAIN borrowed_mut[Where(j)]
  <2>1. Where(j) \in Place /\ Index(j) \in DOMAIN borrowed[Where(j)]
        /\ Index(j) \in DOMAIN borrowed_mut[Where(j)]
    BY <1>1, Keys DEF IInv
  <2> QED BY <1>1, <2>1 DEF IInv, CountsExact
<1>9. ASSUME TypeOK',
             \A j \in Issued : /\ borrowed'[Where(j)][Index(j)] = Cardinality(Borrows(j, "read")')
                               /\ borrowed_mut'[Where(j)][Index(j)] <=> Borrows(j, "write")' # {}
      PROVE  IInv'
  <2>1. /\ \A j : Where(j)' = Where(j) /\ Index(j)' = Index(j)
        /\ Issued' = Issued /\ BorrowsValid' /\ Parents' /\ Distinct' /\ Phases'
    BY <1>1, <1>4, <1>9, NothingMoves
  <2>2. CountsExact'
    BY <1>9, <2>1 DEF CountsExact
  <2> QED BY <1>6, <1>9, <2>1, <2>2 DEF IInv
<1>10. Issued' = Issued /\ guards' \subseteq Slot /\ \A h \in guards' : h.key \in Issued
  BY <1>1 DEF IInv, TypeOK, Issued
<1>11. CASE g.kind = "read"
  <2>1. /\ borrowed_mut' = borrowed_mut
        /\ borrowed' = [borrowed EXCEPT ![w] = [borrowed[w] EXCEPT ![i] = borrowed[w][i] - 1]]
    BY <1>2, <1>11 DEF Drop, DropBorrow, DropBorrowMut
  <2>2. IsFiniteSet(Borrows(k, "read"))
    BY <1>4, FS_Subset DEF Borrows
  <2>3. /\ Cardinality(Borrows(k, "read") \ {g}) = Cardinality(Borrows(k, "read")) - 1
        /\ Cardinality(Borrows(k, "read") \ {g}) \in Nat
    BY <1>7, <1>11, <2>2, FS_RemoveElement, FS_CardinalityType
  <2>4. borrowed[w][i] = Cardinality(Borrows(k, "read"))
    BY <1>2, <1>8 DEF w, i
  <2>5. borrowed' \in [Place -> Seq(Nat)] /\ \A p \in Place : Len(borrowed'[p]) = Len(borrowed[p])
    BY <1>3, <1>5, <2>1, <2>3, <2>4
  <2>6. TypeOK'
    BY <1>1, <1>10, <2>1, <2>5 DEF IInv, TypeOK, Place
  <2>7. ASSUME NEW j \in Issued
        PROVE  borrowed'[Where(j)][Index(j)] = Cardinality(Borrows(j, "read")')
    <3>1. CASE j = k
      <4>1. borrowed'[w][i] = borrowed[w][i] - 1
        BY <1>3, <1>5, <2>1
      <4> QED BY <1>7, <1>11, <2>3, <2>4, <3>1, <4>1 DEF w, i
    <3>2. CASE j # k
      <4>1. borrowed'[Where(j)][Index(j)] = borrowed[Where(j)][Index(j)]
        BY <1>3, <1>5, <1>8, <2>1, <3>2
      <4> QED BY <1>7, <1>8, <3>2, <4>1
    <3> QED BY <3>1, <3>2
  <2>8. \A j \in Issued : borrowed_mut'[Where(j)][Index(j)] <=> Borrows(j, "write")' # {}
    BY <1>7, <1>8, <1>11, <2>1
  <2> QED BY <1>9, <2>6, <2>7, <2>8
<1>12. CASE g.kind = "write"
  <2>1. /\ borrowed' = borrowed
        /\ borrowed_mut' = [borrowed_mut EXCEPT ![w] = [borrowed_mut[w] EXCEPT ![i] = FALSE]]
    BY <1>2, <1>12 DEF Drop, DropBorrow, DropBorrowMut
  <2>2. /\ borrowed_mut' \in [Place -> Seq(BOOLEAN)]
        /\ \A p \in Place : Len(borrowed_mut'[p]) = Len(borrowed_mut[p])
    BY <1>3, <1>5, <2>1
  <2>3. TypeOK'
    BY <1>1, <1>10, <2>1, <2>2 DEF IInv, TypeOK, Place
  <2>4. Borrows(k, "write")' = {}
    <3>1. \A h \in Borrows(k, "write") : h = g
      BY <1>12 DEF Borrows, IInv, Exclusive, k
    <3> QED BY <1>7, <1>12, <3>1
  <2>5. ASSUME NEW j \in Issued
        PROVE  borrowed_mut'[Where(j)][Index(j)] <=> Borrows(j, "write")' # {}
    <3>1. CASE j = k
      <4>1. ~borrowed_mut'[w][i]
        BY <1>3, <1>5, <2>1
      <4> QED BY <2>4, <3>1, <4>1 DEF w, i
    <3>2. CASE j # k
      <4>1. borrowed_mut'[Where(j)][Index(j)] = borrowed_mut[Where(j)][Index(j)]
        BY <1>3, <1>5, <1>8, <2>1, <3>2
      <4> QED BY <1>7, <1>8, <3>2, <4>1
    <3> QED BY <3>1, <3>2
  <2>6. \A j \in Issued : borrowed'[Where(j)][Index(j)] = Cardinality(Borrows(j, "read")')
    BY <1>7, <1>8, <1>12, <2>1
  <2> QED BY <1>9, <2>3, <2>5, <2>6
<1> QED BY <1>11, <1>12 DEF IInv, TypeOK, Slot

-----------------------------------------------------------------------------
(* The theorems                                                            *)

(* IInv holds in every state: the tables count what is borrowed, keys are  *)
(* where their objects are, and readers exclude writers.                   *)
THEOREM Inductive == Spec => []IInv
<1>1. Init => IInv
  <2> SUFFICES ASSUME Init PROVE IInv
    OBVIOUS
  <2>1. /\ objects = <<>> /\ added = <<>> /\ guards = {} /\ owner = "cell"
        /\ borrowed["cell"] = <<>> /\ borrowed_mut["cell"] = <<>>
    BY DEF Init, Place
  <2>2. Issued = {}
    BY <2>1 DEF Issued
  <2>3. TypeOK
    <3>1. borrowed \in [Place -> Seq(Nat)] /\ borrowed_mut \in [Place -> Seq(BOOLEAN)]
      BY EmptySeq DEF Init
    <3> QED BY <2>1, <3>1 DEF Init, TypeOK, Buffer
  <2>4. CountsExact /\ Distinct
    BY <2>2 DEF CountsExact, Distinct
  <2>5. BorrowsValid /\ Names /\ Parents /\ Exclusive /\ Phases
    BY <2>1, FS_EmptySet DEF BorrowsValid, Names, Parents, Exclusive, Phases
  <2> QED BY <2>3, <2>4, <2>5 DEF IInv
<1>2. IInv /\ [Next]_vars => IInv'
  <2> SUFFICES ASSUME IInv, [Next]_vars PROVE IInv'
    OBVIOUS
  <2>1. CASE Push
    BY <2>1, PushInv
  <2>2. CASE ProxyPush
    BY <2>2, ProxyPushInv
  <2>3. CASE GetProxy
    BY <2>3, GetProxyInv
  <2>4. CASE Commit
    BY <2>4, CommitInv
  <2>5. CASE IntoReadonly
    BY <2>5, IntoReadonlyInv
  <2>6. CASE IntoCell
    BY <2>6, IntoCellInv
  <2>7. ASSUME NEW k \in Issued, Get(k) PROVE IInv'
    BY <2>7, GetInv
  <2>8. ASSUME NEW k \in Issued, GetMut(k) PROVE IInv'
    BY <2>8, GetMutInv
  <2>9. ASSUME NEW k \in Issued, DoubleGet(k) \/ DoubleGetMut(k) PROVE IInv'
    BY <2>9, PanicInv
  <2>10. ASSUME NEW g \in guards, Drop(g) PROVE IInv'
    BY <2>10, DropInv
  <2>11. CASE UNCHANGED vars
    <3>1. Issued' = Issued /\ All' = All
      BY <2>11 DEF vars, Issued, All
    <3>2. \A k : Where(k)' = Where(k) /\ Index(k)' = Index(k) /\ Address(k)' = Address(k)
      BY <2>11 DEF vars, Where, Index, Address
    <3>3. \A k, kind : Borrows(k, kind)' = Borrows(k, kind)
      BY <2>11 DEF vars, Borrows
    <3>4. TypeOK' /\ Phases'
      BY <2>11, <3>1 DEF vars, IInv, TypeOK, Phases
    <3>5. CountsExact' /\ Distinct'
      BY <2>11, <3>1, <3>2, <3>3 DEF vars, IInv, CountsExact, Distinct
    <3>6. BorrowsValid' /\ Names' /\ Parents' /\ Exclusive'
      BY <2>11, <3>2 DEF vars, IInv, BorrowsValid, Names, Parents, Exclusive
    <3> QED BY <3>4, <3>5, <3>6 DEF IInv
  <2> QED BY <2>1, <2>2, <2>3, <2>4, <2>5, <2>6, <2>7, <2>8, <2>9, <2>10, <2>11 DEF Next
<1> QED BY <1>1, <1>2, PTL DEF Spec

(* Keys, tables and addresses keep their types: a key that was given out   *)
(* has its entry in the tables of the cell or of its proxy.                *)
THEOREM TypesHold == Spec => []TypeOK
<1>1. IInv => TypeOK
  BY DEF IInv
<1> QED BY <1>1, Inductive, PTL

(* A reference that is held points at where its object is, while a proxy   *)
(* grows and after commit_proxy, into_readonly and into_cell have moved    *)
(* the others.                                                             *)
THEOREM ReferencesStayGood == Spec => []BorrowsValid
<1>1. IInv => BorrowsValid
  BY DEF IInv
<1> QED BY <1>1, Inductive, PTL

(* The tables are exact in every state of every program.                   *)
THEOREM TablesExact == Spec => [](TypeOK /\ CountsExact)
<1>1. IInv => TypeOK /\ CountsExact
  BY DEF IInv
<1> QED BY <1>1, Inductive, PTL

(* Different keys are at different places.                                 *)
LEMMA OwnAddress ==
    ASSUME TypeOK, NEW j \in Issued, NEW k \in Issued, Address(j) = Address(k)
    PROVE  j = k
<1>1. Len(objects) \in Nat /\ Len(added) \in Nat
  BY LenProperties DEF TypeOK
<1>2. CASE Where(j) = "cell" /\ Where(k) = "cell"
  <2>1. Address(j)[3] = j /\ Address(k)[3] = k
    BY <1>2 DEF Address
  <2> QED BY <2>1
<1>3. CASE Where(j) = "proxy" /\ Where(k) = "proxy"
  <2>1. Address(j)[3] = Index(j) /\ Address(k)[3] = Index(k)
    BY <1>3 DEF Address
  <2>2. Index(j) = j - Len(objects) /\ Index(k) = k - Len(objects)
    BY <1>3 DEF Where, Index
  <2>3. j \in Int /\ k \in Int /\ Len(objects) \in Int
    BY <1>1 DEF Issued
  <2>4. j - Len(objects) = k - Len(objects)
    BY <2>1, <2>2
  <2> QED BY <2>3, <2>4
<1>4. CASE Where(j) # Where(k)
  <2>1. Address(j)[1] # Address(k)[1]
    BY <1>4 DEF Address, Where
  <2> QED BY <2>1
<1> QED BY <1>2, <1>3, <1>4 DEF Where

(* Nobody holds a mutable borrow of what somebody else has borrowed, and   *)
(* no reference that is held points at where its object is not any more.   *)
THEOREM BorrowsAreSound == Spec => [](NoAlias /\ BorrowsValid)
<1>1. IInv => NoAlias /\ BorrowsValid
  <2> SUFFICES ASSUME IInv PROVE NoAlias /\ BorrowsValid
    OBVIOUS
  <2>1. ASSUME NEW g \in guards, NEW h \in guards, g # h, Address(g.key) = Address(h.key)
        PROVE  g.kind = "read" /\ h.kind = "read"
    <3>1. g.key \in Issued /\ h.key \in Issued /\ TypeOK
      BY DEF IInv, TypeOK
    <3>2. g.key = h.key
      BY <2>1, <3>1, OwnAddress
    <3> QED BY <2>1, <3>2 DEF IInv, Exclusive
  <2> QED BY <2>1 DEF IInv, NoAlias
<1> QED BY <1>1, Inductive, PTL
-----------------------------------------------------------------------------
(* The refinement of BorrowRules                                           *)

Held(kind) == [o \in Obj |-> HeldOf(o, kind)]

(* The guards that hold an object are those of its key.                    *)
LEMMA HeldByKey ==
    ASSUME IInv, NEW k \in Issued, NEW kind
    PROVE  /\ All[k] \in Obj /\ All[k] \in Elements(All)
           /\ HeldOf(All[k], kind) = {g.id : g \in Borrows(k, kind)}
<1>1. All \in Seq(Obj) /\ DOMAIN All = Issued
  BY AllFacts DEF IInv
<1>2. All[k] \in Obj /\ All[k] \in Elements(All)
  BY <1>1, LenProperties DEF Elements
<1>3. {h \in guards : h.kind = kind /\ All[h.key] = All[k]} = Borrows(k, kind)
  BY DEF IInv, TypeOK, Distinct, Borrows
<1> QED BY <1>2, <1>3 DEF HeldOf

(* Where keys keep their objects and guards stay, nothing is to be seen.   *)
LEMMA Unseen ==
    ASSUME UNCHANGED <<guards, panicked>>, All' = All
    PROVE  UNCHANGED Rules!vars
<1>1. \A o, kind : HeldOf(o, kind)' = HeldOf(o, kind)
  BY DEF HeldOf
<1> QED BY <1>1 DEF Rules!vars

(* A step of either push is a Push of BorrowRules.                         *)
LEMMA PushSeen ==
    ASSUME IInv, Kept, UNCHANGED <<guards, panicked>>, Running
    PROVE  Rules!Push \/ UNCHANGED Rules!vars
<1>1. CASE All' = All
  BY <1>1, Unseen
<1>2. CASE \E o \in Fresh : All' = Append(All, o)
  <2>1. PICK o \in Fresh : All' = Append(All, o)
    BY <1>2
  <2>2. All \in Seq(Obj) /\ DOMAIN All = Issued
    BY AllFacts DEF IInv
  <2>3. o \in Obj \ Elements(All)
    BY AllFacts DEF IInv, Fresh
  <2>4. \A k \in Issued : All'[k] = All[k]
    BY <2>1, <2>2, LenProperties
  <2>5. \A p, kind : HeldOf(p, kind)' = HeldOf(p, kind)
    <3>1. ASSUME NEW p, NEW kind
          PROVE  {h \in guards : h.kind = kind /\ All'[h.key] = p}
                   = {h \in guards : h.kind = kind /\ All[h.key] = p}
      BY <2>4 DEF IInv, TypeOK
    <3> QED BY <3>1 DEF HeldOf
  <2>6. o \in Obj \ Rules!Named
    BY <2>3 DEF Rules!Named, Elements
  <2> QED BY <2>1, <2>5, <2>6 DEF Rules!Push, Rules!Running, Running
<1> QED BY <1>1, <1>2 DEF Kept

(* What a borrow taken or dropped adds to or takes from what is held.      *)
LEMMA TakenSeen ==
    ASSUME IInv, NEW b, b.key \in Issued, All' = All, guards' = guards \cup {b}
    PROVE  \A o, kind : HeldOf(o, kind)' = IF o = All[b.key] /\ kind = b.kind
                                           THEN HeldOf(o, kind) \cup {b.id} ELSE HeldOf(o, kind)
<1>1. ASSUME NEW o, NEW kind
      PROVE  {h \in guards' : h.kind = kind /\ All[h.key] = o}
               = IF o = All[b.key] /\ kind = b.kind
                 THEN {h \in guards : h.kind = kind /\ All[h.key] = o} \cup {b}
                 ELSE {h \in guards : h.kind = kind /\ All[h.key] = o}
  OBVIOUS
<1>2. \A S : {h.id : h \in S \cup {b}} = {h.id : h \in S} \cup {b.id}
  OBVIOUS
<1>3. ASSUME NEW o, NEW kind
      PROVE  HeldOf(o, kind)' = IF o = All[b.key] /\ kind = b.kind
                                THEN HeldOf(o, kind) \cup {b.id} ELSE HeldOf(o, kind)
  <2>1. HeldOf(o, kind)' = {h.id : h \in {h \in guards' : h.kind = kind /\ All[h.key] = o}}
    BY DEF HeldOf
  <2>2. CASE o = All[b.key] /\ kind = b.kind
    BY <1>1, <1>2, <2>1, <2>2 DEF HeldOf
  <2>3. CASE ~(o = All[b.key] /\ kind = b.kind)
    BY <1>1, <2>1, <2>3 DEF HeldOf
  <2> QED BY <2>2, <2>3
<1> QED BY <1>3

(* The same for a borrow that is dropped.                                  *)
LEMMA DroppedSeen ==
    ASSUME IInv, NEW b \in guards, All' = All, guards' = guards \ {b}
    PROVE  \A o, kind : HeldOf(o, kind)' = IF o = All[b.key] /\ kind = b.kind
                                           THEN HeldOf(o, kind) \ {b.id} ELSE HeldOf(o, kind)
<1> DEFINE H(o, kind) == {h \in guards : h.kind = kind /\ All[h.key] = o}
<1>1. ASSUME NEW o, NEW kind
      PROVE  {h \in guards' : h.kind = kind /\ All[h.key] = o}
               = IF o = All[b.key] /\ kind = b.kind THEN H(o, kind) \ {b} ELSE H(o, kind)
  OBVIOUS
<1>2. \A o, kind : \A h \in H(o, kind) : h.id = b.id => h = b
  BY DEF IInv, Names
<1>3. ASSUME NEW o, NEW kind, o = All[b.key] /\ kind = b.kind
      PROVE  {h.id : h \in H(o, kind) \ {b}} = {h.id : h \in H(o, kind)} \ {b.id}
  BY <1>2, <1>3
<1>4. ASSUME NEW o, NEW kind
      PROVE  HeldOf(o, kind)' = IF o = All[b.key] /\ kind = b.kind
                                THEN HeldOf(o, kind) \ {b.id} ELSE HeldOf(o, kind)
  <2>1. HeldOf(o, kind)' = {h.id : h \in {h \in guards' : h.kind = kind /\ All[h.key] = o}}
    BY DEF HeldOf
  <2>2. HeldOf(o, kind) = {h.id : h \in H(o, kind)}
    BY DEF HeldOf
  <2> HIDE DEF H
  <2>3. CASE o = All[b.key] /\ kind = b.kind
    BY <1>1, <1>3, <2>1, <2>2, <2>3
  <2>4. CASE ~(o = All[b.key] /\ kind = b.kind)
    BY <1>1, <2>1, <2>2, <2>4
  <2> QED BY <2>3, <2>4
<1> QED BY <1>4

(* Get is a Read of the object its key names.                              *)
LEMMA GetSeen == ASSUME NEW k \in Issued, IInv, Get(k) PROVE Rules!Read(All[k])
<1> DEFINE o == All[k]
<1>1. PICK g \in Unused : guards' = guards \cup {Borrow(g, "read", k)}
  BY DEF Get
<1> DEFINE b == Borrow(g, "read", k)
<1>2. b.key = k /\ b.kind = "read" /\ b.id = g /\ g \in Guard
  BY DEF Borrow, Unused
<1>3. All' = All /\ panicked' = panicked /\ panicked = "none" /\ owner # "readonly"
  BY DEF Get, All, Usable, Running
<1> HIDE DEF b
<1>4. \A p, kind : HeldOf(p, kind)' = IF p = o /\ kind = "read"
                                      THEN HeldOf(p, kind) \cup {g} ELSE HeldOf(p, kind)
  BY <1>1, <1>2, <1>3, TakenSeen DEF b
<1>5. o \in Obj /\ HeldOf(o, "write") = {h.id : h \in Borrows(k, "write")}
  BY HeldByKey
<1>6. Borrows(k, "write") = {}
  BY <1>3 DEF Get, Readable, IInv, CountsExact
<1>7. g \in Guard \ HeldOf(o, "read")
  BY <1>2 DEF Unused, HeldOf
<1> HIDE DEF o
<1>8. Held("read")' = [Held("read") EXCEPT ![o] = @ \cup {g}] /\ Held("write")' = Held("write")
  BY <1>4, <1>5 DEF Held
<1> QED BY <1>3, <1>5, <1>6, <1>7, <1>8 DEF Rules!Read, Rules!Running, Held, o

(* GetMut is a Write.                                                      *)
LEMMA GetMutSeen == ASSUME NEW k \in Issued, IInv, GetMut(k) PROVE Rules!Write(All[k])
<1> DEFINE o == All[k]
<1>1. PICK g \in Unused : guards' = guards \cup {Borrow(g, "write", k)}
  BY DEF GetMut
<1> DEFINE b == Borrow(g, "write", k)
<1>2. b.key = k /\ b.kind = "write" /\ b.id = g /\ g \in Guard
  BY DEF Borrow, Unused
<1>3. All' = All /\ panicked' = panicked /\ panicked = "none" /\ owner # "readonly"
  BY DEF GetMut, All, Usable, Running
<1> HIDE DEF b
<1>4. \A p, kind : HeldOf(p, kind)' = IF p = o /\ kind = "write"
                                      THEN HeldOf(p, kind) \cup {g} ELSE HeldOf(p, kind)
  BY <1>1, <1>2, <1>3, TakenSeen DEF b
<1>5. /\ o \in Obj /\ HeldOf(o, "write") = {h.id : h \in Borrows(k, "write")}
      /\ HeldOf(o, "read") = {h.id : h \in Borrows(k, "read")}
  BY HeldByKey
<1>6. Borrows(k, "write") = {}
  BY <1>3 DEF GetMut, Writable, Readable, IInv, CountsExact
<1>7. Borrows(k, "read") = {}
  <2>1. Cardinality(Borrows(k, "read")) = 0
    BY <1>3 DEF GetMut, Writable, IInv, CountsExact
  <2>2. IsFiniteSet(Borrows(k, "read"))
    BY FS_Subset DEF Borrows, IInv, Phases
  <2> QED BY <2>1, <2>2, FS_EmptySet
<1> HIDE DEF o
<1>8. Held("write")' = [Held("write") EXCEPT ![o] = {g}] /\ Held("read")' = Held("read")
  BY <1>4, <1>5, <1>6 DEF Held
<1> QED BY <1>2, <1>3, <1>5, <1>6, <1>7, <1>8 DEF Rules!Write, Rules!Running, Held, o

(* Drop is a Release.                                                      *)
LEMMA DropSeen == ASSUME NEW g \in guards, IInv, Drop(g) PROVE Rules!Release(All[g.key])
<1> DEFINE o == All[g.key]
<1>1. /\ All' = All /\ panicked' = panicked /\ panicked = "none" /\ guards' = guards \ {g}
      /\ g.key \in Issued /\ g.kind \in {"read", "write"}
  BY DEF Drop, All, Running, IInv, TypeOK, Slot
<1>2. \A p, kind : HeldOf(p, kind)' = IF p = o /\ kind = g.kind
                                      THEN HeldOf(p, kind) \ {g.id} ELSE HeldOf(p, kind)
  BY <1>1, DroppedSeen
<1>3. o \in Obj
  BY <1>1, HeldByKey
<1>4. g.id \in HeldOf(o, g.kind)
  BY DEF HeldOf
<1>5. \A kind : kind # g.kind => g.id \notin HeldOf(o, kind)
  BY DEF HeldOf, IInv, Names
<1> HIDE DEF o
<1>6. /\ Held("read")' = [Held("read") EXCEPT ![o] = @ \ {g.id}]
      /\ Held("write")' = [Held("write") EXCEPT ![o] = @ \ {g.id}]
  <2>1. ASSUME NEW kind, NEW p \in Obj
        PROVE  HeldOf(p, kind)' = IF p = o THEN HeldOf(p, kind) \ {g.id} ELSE HeldOf(p, kind)
    <3>1. CASE p = o /\ kind = g.kind
      BY <1>2, <3>1
    <3>2. CASE p = o /\ kind # g.kind
      <4>1. HeldOf(p, kind)' = HeldOf(p, kind)
        BY <1>2, <3>2
      <4>2. g.id \notin HeldOf(p, kind)
        BY <1>5, <3>2
      <4> QED BY <3>2, <4>1, <4>2
    <3>3. CASE p # o
      BY <1>2, <3>3
    <3> QED BY <3>1, <3>2, <3>3
  <2>4. \A kind : Held(kind)' = [Held(kind) EXCEPT ![o] = HeldOf(o, kind) \ {g.id}]
    BY <1>3, <2>1 DEF Held
  <2>5. \A kind : Held(kind)[o] = HeldOf(o, kind)
    BY <1>3 DEF Held
  <2> QED BY <2>4, <2>5
<1>7. g.id \in HeldOf(o, "read") \cup HeldOf(o, "write")
  BY <1>1, <1>4
<1> QED BY <1>1, <1>3, <1>6, <1>7 DEF Rules!Release, Rules!Running, Held, o

(* Whoever panics asks for what somebody else holds.                       *)
LEMMA PanicSeen ==
    ASSUME NEW k \in Issued, IInv, DoubleGet(k) \/ DoubleGetMut(k)
    PROVE  Rules!RefuseRead(All[k]) \/ Rules!RefuseWrite(All[k])
<1>1. /\ All' = All /\ guards' = guards /\ panicked = "none" /\ owner # "readonly"
      /\ Usable
  BY DEF DoubleGet, DoubleGetMut, Panics, All, Usable, Running
<1>2. \A p, kind : HeldOf(p, kind)' = HeldOf(p, kind)
  BY <1>1 DEF HeldOf
<1>3. /\ All[k] \in Obj /\ HeldOf(All[k], "write") = {h.id : h \in Borrows(k, "write")}
      /\ HeldOf(All[k], "read") = {h.id : h \in Borrows(k, "read")}
  BY HeldByKey
<1>4. ~Readable(k) => HeldOf(All[k], "write") # {}
  BY <1>1, <1>3 DEF Readable, IInv, CountsExact
<1>5. ~Writable(k) => HeldOf(All[k], "write") # {} \/ HeldOf(All[k], "read") # {}
  <2>1. Borrows(k, "read") = {} => borrowed[Where(k)][Index(k)] = 0
    BY <1>1, FS_EmptySet DEF IInv, CountsExact
  <2> QED BY <1>3, <1>4, <2>1 DEF Writable
<1>6. CASE DoubleGet(k)
  BY <1>1, <1>2, <1>3, <1>4, <1>6 DEF DoubleGet, Panics, Rules!RefuseRead, Rules!Refuse, Rules!Running
<1>7. CASE DoubleGetMut(k)
  BY <1>1, <1>2, <1>3, <1>5, <1>7
     DEF DoubleGetMut, Panics, Rules!RefuseWrite, Rules!Refuse, Rules!Running
<1> QED BY <1>6, <1>7

(* Arena implements BorrowRules: a key names one object for ever, an       *)
(* object has readers or one writer, and only a double borrow panics.      *)
THEOREM ImplementsRules == Spec => KeepsRules
<1>1. Init => Rules!Init
  <2> SUFFICES ASSUME Init PROVE Rules!Init
    OBVIOUS
  <2>1. All = <<>>
    BY EmptySeq, ConcatEmptySeq DEF Init, All
  <2>2. \A o, kind : HeldOf(o, kind) = {}
    BY DEF Init, HeldOf
  <2> QED BY <2>1, <2>2 DEF Init, Rules!Init
<1>2. IInv /\ [Next]_vars => [Rules!Next]_(Rules!vars)
  <2> SUFFICES ASSUME IInv, [Next]_vars PROVE Rules!Next \/ UNCHANGED Rules!vars
    OBVIOUS
  <2>1. \A k \in Issued : All[k] \in Rules!Named
    BY HeldByKey DEF Rules!Named, Elements
  <2>2. CASE Push
    <3>1. UNCHANGED <<guards, panicked>> /\ Running
      BY <2>2 DEF Push, Free
    <3> QED BY <2>2, <3>1, PushKept, PushSeen DEF IInv, Rules!Next
  <2>3. CASE ProxyPush
    <3>1. UNCHANGED <<guards, panicked>> /\ Running
      BY <2>3 DEF ProxyPush
    <3> QED BY <2>3, <3>1, ProxyPushKept, PushSeen DEF IInv, Rules!Next
  <2>4. CASE Commit
    <3>1. UNCHANGED <<guards, panicked>> /\ Running
      BY <2>4 DEF Commit, Free
    <3> QED BY <2>4, <3>1, CommitKept, PushSeen DEF IInv, Rules!Next
  <2>5. CASE GetProxy \/ IntoReadonly \/ IntoCell
    <3>1. UNCHANGED <<guards, panicked, objects>> /\ (added' = added \/ (owner = "cell" /\ added' = <<>>))
      BY <2>5 DEF GetProxy, IntoReadonly, IntoCell, Free
    <3> QED BY <3>1, OthersKept, Unseen DEF IInv
  <2>6. ASSUME NEW k \in Issued, Get(k) \/ GetMut(k) \/ DoubleGet(k) \/ DoubleGetMut(k)
        PROVE  Rules!Next
    BY <2>1, <2>6, GetSeen, GetMutSeen, PanicSeen DEF Rules!Next
  <2>7. ASSUME NEW g \in guards, Drop(g) PROVE Rules!Next
    <3>1. g.key \in Issued
      BY DEF IInv, TypeOK
    <3> QED BY <2>1, <2>7, <3>1, DropSeen DEF Rules!Next
  <2>8. CASE UNCHANGED vars
    <3>1. UNCHANGED <<guards, panicked>> /\ All' = All
      BY <2>8 DEF vars, All
    <3> QED BY <3>1, Unseen
  <2> QED BY <2>2, <2>3, <2>4, <2>5, <2>6, <2>7, <2>8 DEF Next
<1> QED BY <1>1, <1>2, Inductive, PTL DEF Spec, KeepsRules, Rules!Spec
==============================================================================
