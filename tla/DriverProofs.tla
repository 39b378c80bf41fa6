---------------------------- MODULE DriverProofs ----------------------------
(***************************************************************************)
(* The variables are initialized in an order that gives each one a value   *)
(* before it is read, and main makes no code for a program with an error,  *)
(* whatever the passes that are parameters do to the database, as long as  *)
(* they report as PassesReport says.                                       *)
(***************************************************************************)
EXTENDS Driver, SequenceTheorems, WellFoundedInduction, TLAPS

-----------------------------------------------------------------------------
(* What runs: the recursive function of Running, by induction *)

Less == {ss \in Nat \X Nat : ss[1] < ss[2]}
\* No number has infinitely many below it.
LEMMA LessWellFounded == IsWellFoundedOn(Less, Nat)
  BY NatLessThanWellFounded, Zenon DEF OpToRel, Less

\* Induction, in terms of a set: what has 0, and with each number the next, has them all.
LEMMA Induction == ASSUME NEW S \in SUBSET Nat, 0 \in S, \A n \in S : n + 1 \in S PROVE S = Nat
<1> SUFFICES ASSUME Nat \ S # {} PROVE FALSE
  OBVIOUS
<1>1. PICK x \in Nat \ S : \A y \in Nat \ S : ~(<<y, x>> \in Less)
  <2> Nat \ S \subseteq Nat
    OBVIOUS
  <2> QED BY LessWellFounded, WFMin, Zenon
<1>2. x # 0 /\ x - 1 \in Nat /\ x - 1 \notin S
  OBVIOUS
<1>3. <<x - 1, x>> \in Less
  BY <1>2 DEF Less
<1> QED BY <1>1, <1>2, <1>3

-----------------------------------------------------------------------------
Grow(db, list, ids) == ids \cup UNION {Follows(db, list, id) : id \in ids}
\* g has grown up to m.
UpTo(db, list, v, g, m) ==
    g = [n \in 0..m |-> IF n = 0 THEN Elements(Initializer(db, v)) ELSE Grow(db, list, g[n - 1])]
Grows(db, list, v, g) ==
    g = [n \in Nat |-> IF n = 0 THEN Elements(Initializer(db, v)) ELSE Grow(db, list, g[n - 1])]

\* Running is what the recursive function has grown to.
LEMMA RunningGrows ==
    ASSUME NEW db, NEW list, NEW v
    PROVE  Running(db, list, v) = (CHOOSE g : Grows(db, list, v, g))[Len(db.ast)]
  BY DEF Running, Grows, Grow

\* There is one up to each number,
LEMMA SomeUpTo == ASSUME NEW db, NEW list, NEW v, NEW m \in Nat PROVE \E g : UpTo(db, list, v, g, m)
<1> DEFINE S == {n \in Nat : \E g : UpTo(db, list, v, g, n)}
<1>1. 0 \in S
  <2> DEFINE g == [n \in 0..0 |-> Elements(Initializer(db, v))]
  <2>1. UpTo(db, list, v, g, 0)
    BY DEF UpTo
  <2> QED BY <2>1
<1>2. ASSUME NEW n \in S PROVE n + 1 \in S
  <2>1. PICK g : UpTo(db, list, v, g, n)
    OBVIOUS
  <2> DEFINE h == [i \in 0..(n + 1) |-> IF i = n + 1 THEN Grow(db, list, g[n]) ELSE g[i]]
  <2>2. \A i \in 0..n : h[i] = g[i] /\ g[i] = IF i = 0 THEN Elements(Initializer(db, v)) ELSE Grow(db, list, g[i - 1])
    BY <2>1 DEF UpTo
  <2>3. \A i \in 0..(n + 1) : h[i] = IF i = 0 THEN Elements(Initializer(db, v)) ELSE Grow(db, list, h[i - 1])
    <3> TAKE i \in 0..(n + 1)
    <3>1. CASE i = n + 1
      <4>1. i # 0 /\ i - 1 = n /\ n \in 0..n /\ h[i] = Grow(db, list, g[n])
        BY <3>1
      <4> QED BY <2>2, <4>1
    <3>2. CASE i # n + 1
      <4>1. i \in 0..n /\ (i # 0 => i - 1 \in 0..n)
        BY <3>2
      <4> HIDE DEF h
      <4> QED BY <2>2, <4>1
    <3> QED BY <3>1, <3>2
  <2>4. UpTo(db, list, v, h, n + 1)
    <3> DEFINE e(i) == IF i = 0 THEN Elements(Initializer(db, v)) ELSE Grow(db, list, h[i - 1])
    <3>1. h = [i \in 0..(n + 1) |-> h[i]]
      OBVIOUS
    <3> HIDE DEF h
    <3> QED BY <2>3, <3>1 DEF UpTo
  <2> QED BY <2>4
<1> HIDE DEF S
<1>3. S = Nat
  <2>1. S \in SUBSET Nat
    BY DEF S
  <2> QED BY <1>1, <1>2, <2>1, Induction
<1> QED BY <1>3 DEF S

\* and only one,
LEMMA OneUpTo ==
    ASSUME NEW db, NEW list, NEW v, NEW m \in Nat, NEW k \in Nat, m <= k, NEW g, NEW h,
           UpTo(db, list, v, g, m), UpTo(db, list, v, h, k)
    PROVE  \A n \in 0..m : g[n] = h[n]
<1> DEFINE S == {n \in Nat : n <= m => g[n] = h[n]}
<1>1. 0 \in S
  BY DEF UpTo
<1>2. ASSUME NEW n \in S PROVE n + 1 \in S
  <2> SUFFICES ASSUME n + 1 <= m PROVE g[n + 1] = h[n + 1]
    OBVIOUS
  <2>1. g[n + 1] = Grow(db, list, g[n]) /\ h[n + 1] = Grow(db, list, h[n])
    <3>1. n + 1 \in 0..m /\ n + 1 \in 0..k /\ n + 1 # 0 /\ (n + 1) - 1 = n
      OBVIOUS
    <3> QED BY <3>1 DEF UpTo
  <2> QED BY <2>1
<1> HIDE DEF S
<1>3. S = Nat
  <2>1. S \in SUBSET Nat
    BY DEF S
  <2> QED BY <1>1, <1>2, <2>1, Induction
<1> QED BY <1>3 DEF S

\* so that there is one for all numbers.
LEMMA SomeGrows == ASSUME NEW db, NEW list, NEW v PROVE \E g : Grows(db, list, v, g)
<1> DEFINE H(m) == CHOOSE g : UpTo(db, list, v, g, m)
           F == [n \in Nat |-> H(n)[n]]
<1>1. \A m \in Nat : UpTo(db, list, v, H(m), m)
  BY SomeUpTo
<1> HIDE DEF H
<1>2. \A n \in Nat : F[n] = IF n = 0 THEN Elements(Initializer(db, v)) ELSE Grow(db, list, F[n - 1])
  <2> TAKE n \in Nat
  <2>1. CASE n = 0
    <3>1. UpTo(db, list, v, H(0), 0)
      BY <1>1
    <3> QED BY <2>1, <3>1 DEF UpTo
  <2>2. CASE n # 0
    <3>1. n - 1 \in Nat /\ n - 1 <= n /\ n - 1 \in 0..(n - 1) /\ n \in 0..n
      BY <2>2
    <3>2. H(n - 1)[n - 1] = H(n)[n - 1]
      BY <1>1, <3>1, OneUpTo
    <3>3. H(n)[n] = Grow(db, list, H(n)[n - 1])
      <4>1. UpTo(db, list, v, H(n), n)
        BY <1>1
      <4> QED BY <2>2, <3>1, <4>1 DEF UpTo
    <3> QED BY <2>2, <3>1, <3>2, <3>3
  <2> QED BY <2>1, <2>2
<1>3. F = [n \in Nat |-> F[n]]
  OBVIOUS
<1> HIDE DEF F
<1>4. Grows(db, list, v, F)
  BY <1>2, <1>3 DEF Grows
<1> QED BY <1>4

\* What a set has that is closed under Follows has all that runs: no way, however long, leads
\* out of it.
LEMMA RunningWithin ==
    ASSUME NEW db, NEW list, NEW v, NEW D, Len(db.ast) \in Nat,
           Elements(Initializer(db, v)) \subseteq D, \A id \in D : Follows(db, list, id) \subseteq D
    PROVE  Running(db, list, v) \subseteq D
<1> DEFINE F == CHOOSE g : Grows(db, list, v, g)
           S == {n \in Nat : F[n] \subseteq D}
<1>1. Grows(db, list, v, F)
  BY SomeGrows
<1> HIDE DEF F
<1>2. 0 \in S
  BY <1>1 DEF Grows
<1>3. ASSUME NEW n \in S PROVE n + 1 \in S
  <2>1. F[n + 1] = Grow(db, list, F[n])
    <3>1. n + 1 \in Nat /\ n + 1 # 0 /\ (n + 1) - 1 = n
      OBVIOUS
    <3> QED BY <1>1, <3>1 DEF Grows
  <2> QED BY <2>1 DEF Grow
<1> HIDE DEF S
<1>4. S = Nat
  <2>1. S \in SUBSET Nat
    BY DEF S
  <2> QED BY <1>2, <1>3, <2>1, Induction
<1> QED BY <1>4, RunningGrows DEF S, F

-----------------------------------------------------------------------------
(* The stack of the search *)

\* What the search may have on its stack
OfClass(n) == n.k = "New" /\ Is(n.t, "class")
Items(db) ==
    [do : {"visit"}, at : DOMAIN db.ast]
    \cup [do : {"class"}, at : {id \in DOMAIN db.ast : OfClass(db.ast[id])}]
    \cup [do : {"init"}, at : (DOMAIN db.ast) \X (DOMAIN db.ast)]
    \cup [do : {"push"}, at : DOMAIN db.vars]
    \cup [do : {"leave"}, at : ({"fun"} \X {db.ast[id].x : id \in DOMAIN db.ast}) \cup ({"new"} \X (DOMAIN db.ast))]

\* The nodes that an item is going to visit first
Pending(db, list, it) ==
    CASE it.do = "visit" -> {it.at}
      [] it.do = "class" -> Constructs(db, list, db.ast[it.at])
      [] it.do = "init" -> IF db.ast[it.at[2]].x \in Given(db.ast[it.at[1]]) THEN {} ELSE Elements(db.ast[it.at[2]].a)
      [] OTHER -> {}
\* What is done before item k: the nodes visited, and the variables put into the order
Todo(db, list, st, k) == UNION {Pending(db, list, st[j]) : j \in 1..(k - 1)}
Whole(db, list, st) == Todo(db, list, st, Len(st) + 1)
Entered(st, k) == {st[j].at : j \in {i \in 1..(k - 1) : st[i].do = "push"}}

\* D has all that its nodes need, but for what is still to be done.
Covers(db, list, own, D, later, have) ==
    \A id \in D : /\ Follows(db, list, id) \subseteq D \cup later
                  /\ db.ast[id].k = "Variable" /\ db.ast[id].x \in own => db.ast[id].x \in have
Half(db, list, own, ord, st, k) ==
    st[k].do = "push" =>
        \E D : /\ Elements(Initializer(db, st[k].at)) \subseteq D \cup Todo(db, list, st, k)
               /\ Covers(db, list, own, D, Todo(db, list, st, k), Elements(ord) \cup Entered(st, k))
Prefix(ord, i) == {ord[j] : j \in {h \in DOMAIN ord : h < i}}
Ready(db, list, own, ord) ==
    \A i \in DOMAIN ord :
        \E D : /\ Elements(Initializer(db, ord[i])) \subseteq D
               /\ Covers(db, list, own, D, {}, Prefix(ord, i))

\* The first item is replaced by others that visit what it did, but for nodes that
\* are done with that.
Splice(st, items, n, length, st2) ==
    /\ n \in Nat /\ length \in Nat /\ length > 0
    /\ DOMAIN st = 1..length /\ DOMAIN st2 = 1..(n + length - 1)
    /\ \A j \in 1..n : st2[j] = items[j]
    /\ \A j \in 2..length : st2[j + n - 1] = st[j]
Replaces(db, list, own, ord, ord2, st, items, n, added) ==
    /\ Elements(ord) \subseteq Elements(ord2)
    /\ Pending(db, list, st[1]) \subseteq added \cup Todo(db, list, items, n + 1)
    /\ Covers(db, list, own, added, Todo(db, list, items, n + 1), Elements(ord2) \cup Entered(items, n + 1))
    /\ st[1].do = "push" => st[1].at \in Elements(ord2)
    /\ \A k \in 1..n : Half(db, list, own, ord2, items, k)
    /\ \A k \in DOMAIN st : Half(db, list, own, ord, st, k)

\* Whatever replaces the first item, the variables below it can still be put into the order
\* when the search comes back to them.
LEMMA ReplacedAt ==
    ASSUME NEW db, NEW list, NEW own, NEW ord, NEW ord2, NEW st, NEW items, NEW n, NEW length, NEW st2, NEW added,
           Splice(st, items, n, length, st2), Replaces(db, list, own, ord, ord2, st, items, n, added)
    PROVE  \A k \in DOMAIN st2 : Half(db, list, own, ord2, st2, k)
<1> USE DEF Splice, Replaces
<1> SUFFICES ASSUME NEW k \in 1..(n + length - 1) PROVE Half(db, list, own, ord2, st2, k)
  OBVIOUS
<1>1. \A j \in 1..n : st2[j] = items[j]
  OBVIOUS
<1>2. CASE k <= n
  <2>1. k \in 1..n /\ \A j \in 1..k : st2[j] = items[j]
    BY <1>1, <1>2
  <2>2. Todo(db, list, st2, k) = Todo(db, list, items, k)
    BY <1>1, <2>1 DEF Todo
  <2>3. Entered(st2, k) = Entered(items, k)
    BY <1>1, <2>1 DEF Entered
  <2>4. Half(db, list, own, ord2, items, k) /\ st2[k] = items[k]
    BY <1>1, <2>1
  <2> QED BY <2>2, <2>3, <2>4 DEF Half
<1>3. CASE k > n
  <2> DEFINE m == k - n + 1
  <2>0. n \in Nat /\ k \in Int /\ m \in Int /\ k = m + n - 1 /\ m \in 2..length /\ length \in Nat
    BY <1>3
  <2>1. m \in 2..length /\ st2[k] = st[m] /\ m \in DOMAIN st
    BY <1>1, <2>0
  <2> DEFINE rest == UNION {Pending(db, list, st[j]) : j \in 2..(m - 1)}
             entered == {st[j].at : j \in {i \in 2..(m - 1) : st[i].do = "push"}}
             new == Todo(db, list, items, n + 1)
             got == Entered(items, n + 1)
  <2>2. Todo(db, list, st, m) = Pending(db, list, st[1]) \cup rest
    <3>1. \A j : j \in 1..(m - 1) <=> j = 1 \/ j \in 2..(m - 1)
      BY <2>1
    <3> DEFINE P(j) == Pending(db, list, st[j])
               I == 1..(m - 1)
               J == 2..(m - 1)
    <3>2. Todo(db, list, st, m) = UNION {P(j) : j \in I} /\ rest = UNION {P(j) : j \in J} /\ P(1) = Pending(db, list, st[1])
      BY <1>1 DEF Todo
    <3>3. \A j : j \in I <=> j = 1 \/ j \in J
      BY <3>1
    <3> HIDE DEF P, I, J, rest
    <3>4. UNION {P(j) : j \in I} = P(1) \cup UNION {P(j) : j \in J}
      BY <3>3
    <3> QED BY <3>2, <3>4
  <2>3. Todo(db, list, st2, k) = new \cup rest
    <3>1. ASSUME NEW e \in Todo(db, list, st2, k) PROVE e \in new \cup rest
      <4>1. PICK j \in 1..(k - 1) : e \in Pending(db, list, st2[j])
        BY <3>1 DEF Todo
      <4>2. CASE j <= n
        <5>1. j \in 1..((n + 1) - 1) /\ st2[j] = items[j]
          BY <1>1, <4>2
        <5> QED BY <4>1, <5>1 DEF Todo
      <4>3. CASE j > n
        <5> DEFINE h == j - n + 1
        <5>1. h \in 2..(m - 1) /\ h \in 2..length /\ h + n - 1 = j
          <6> HIDE DEF m
          <6> QED BY <2>0, <4>3
        <5>2. st2[j] = st[h]
          <6> HIDE DEF h
          <6> QED BY <1>1, <5>1
        <5> QED BY <4>1, <5>1, <5>2
      <4> QED BY <1>1, <4>2, <4>3
    <3>2. ASSUME NEW e \in new PROVE e \in Todo(db, list, st2, k)
      <4>1. PICK j \in 1..((n + 1) - 1) : e \in Pending(db, list, items[j])
        BY <3>2 DEF Todo
      <4>2. j \in 1..(k - 1) /\ st2[j] = items[j]
        BY <1>1, <1>3
      <4> QED BY <4>1, <4>2 DEF Todo
    <3>3. ASSUME NEW e \in rest PROVE e \in Todo(db, list, st2, k)
      <4>1. PICK j \in 2..(m - 1) : e \in Pending(db, list, st[j])
        BY <3>3
      <4>2. j \in 2..length /\ j + n - 1 \in 1..(k - 1)
        <5> HIDE DEF m
        <5> QED BY <2>0
      <4>3. st2[j + n - 1] = st[j]
        BY <1>1, <4>2
      <4> QED BY <4>1, <4>2, <4>3 DEF Todo
    <3> QED BY <3>1, <3>2, <3>3
  <2>4. Entered(st, m) \subseteq entered \cup Elements(ord2)
    <3>1. 1..(m - 1) = {1} \cup 2..(m - 1)
      BY <2>1
    <3> QED BY <1>1, <3>1 DEF Entered
  <2>5. got \cup entered \subseteq Entered(st2, k)
    <3>1. ASSUME NEW e \in got PROVE e \in Entered(st2, k)
      <4>1. PICK j \in 1..((n + 1) - 1) : items[j].do = "push" /\ e = items[j].at
        BY <3>1 DEF Entered
      <4>2. j \in 1..(k - 1) /\ st2[j] = items[j]
        BY <1>1, <1>3
      <4> QED BY <4>1, <4>2 DEF Entered
    <3>2. ASSUME NEW e \in entered PROVE e \in Entered(st2, k)
      <4>1. PICK j \in 2..(m - 1) : st[j].do = "push" /\ e = st[j].at
        BY <3>2
      <4>2. j \in 2..length /\ j + n - 1 \in 1..(k - 1)
        <5> HIDE DEF m
        <5> QED BY <2>0
      <4>3. st2[j + n - 1] = st[j]
        BY <1>1, <4>2
      <4> QED BY <4>1, <4>2, <4>3 DEF Entered
    <3> QED BY <3>1, <3>2
  <2> HIDE DEF rest, entered, new, got, m
  <2>6. SUFFICES ASSUME st[m].do = "push"
        PROVE  \E D : /\ Elements(Initializer(db, st[m].at)) \subseteq D \cup new \cup rest
                      /\ Covers(db, list, own, D, new \cup rest, Elements(ord2) \cup Entered(st2, k))
    BY <2>1, <2>3 DEF Half
  <2>7. PICK D : /\ Elements(Initializer(db, st[m].at)) \subseteq D \cup Todo(db, list, st, m)
                 /\ Covers(db, list, own, D, Todo(db, list, st, m), Elements(ord) \cup Entered(st, m))
    BY <2>1, <2>6 DEF Half
  <2>8. Elements(Initializer(db, st[m].at)) \subseteq D \cup added \cup new \cup rest
    BY <2>2, <2>7 DEF new
  <2>9. Covers(db, list, own, D \cup added, new \cup rest, Elements(ord2) \cup Entered(st2, k))
    <3> SUFFICES ASSUME NEW id \in D \cup added
                 PROVE  /\ Follows(db, list, id) \subseteq (D \cup added) \cup (new \cup rest)
                        /\ db.ast[id].k = "Variable" /\ db.ast[id].x \in own
                            => db.ast[id].x \in Elements(ord2) \cup Entered(st2, k)
      BY DEF Covers
    <3>1. CASE id \in D
      BY <2>2, <2>4, <2>5, <2>7, <3>1 DEF Covers, new
    <3>2. CASE id \in added
      BY <2>5, <3>2 DEF Covers, new, got
    <3> QED BY <3>1, <3>2
  <2> QED BY <2>8, <2>9
<1> QED BY <1>2, <1>3

-----------------------------------------------------------------------------
(* What holds while the lists are sorted *)

AllLists(db) == {""} \cup DOMAIN db.classes
Sound(db) ==
    /\ DOMAIN db = Fields /\ "" \notin DOMAIN db.classes
    /\ \A c \in DOMAIN db.classes : "inits" \in DOMAIN db.classes[c]
    /\ Len(db.ast) \in Nat /\ DOMAIN db.ast = 1..Len(db.ast)
    /\ \A id \in DOMAIN db.ast : Hangs(db, id)
    /\ \A list \in AllLists(db) : \A v \in Members(db, list) :
          db.vars[v].init \in DOMAIN db.ast /\ db.ast[db.vars[v].init].x = v

Pushed(st) == {st[j].at : j \in {i \in DOMAIN st : st[i].do = "push"}}
Once(st) == \A i, j \in DOMAIN st : st[i].do = "push" /\ st[j].do = "push" /\ st[i].at = st[j].at => i = j
Distinct(sq) == \A i, j \in DOMAIN sq : sq[i] = sq[j] => i = j

Shape(db, sr) ==
    /\ DOMAIN sr = {"list", "left", "queue", "ord", "map", "stack"}
    /\ sr.list \in AllLists(db) /\ sr.left \subseteq DOMAIN db.classes \ {sr.list}
    /\ sr.queue \in Seq(Members(db, sr.list))
    /\ sr.ord \in Seq(Members(db, sr.list))
    /\ sr.stack \in Seq(Items(db))
Marks(sr, own) ==
    /\ sr.map \in [DOMAIN sr.map -> BOOLEAN]
    /\ DOMAIN sr.map \cup Elements(sr.ord) = own
    /\ \A v \in DOMAIN sr.map : sr.map[v] <=> v \in Elements(sr.ord) \cup Pushed(sr.stack)
    /\ \A v \in DOMAIN sr.map : sr.map[v] \/ v \in Elements(sr.queue)
    /\ Pushed(sr.stack) \subseteq DOMAIN sr.map \ Elements(sr.ord)
    /\ Once(sr.stack)
    /\ Distinct(sr.ord)
Settled(db, list) ==
    LET ord == Declared(db, Listed(db, list)) IN
    Distinct(ord) /\ (~db.reported => Ready(db, list, Members(db, list), ord))
Others(db, sr) ==
    /\ \A list \in AllLists(db) \ {sr.list} : Lists(db, list) /\ (list \notin sr.left => Settled(db, list))
    /\ Listed(db, sr.list) = <<>>
Kept(db, sr) == ~db.reported =>
    /\ Ready(db, sr.list, Members(db, sr.list), sr.ord)
    /\ \A k \in DOMAIN sr.stack : Half(db, sr.list, Members(db, sr.list), sr.ord, sr.stack, k)
Searching(db, sr) == Sound(db) /\ Shape(db, sr) /\ Marks(sr, Members(db, sr.list)) /\ Others(db, sr) /\ Kept(db, sr)

\* What is sorted has all of its trees to look at.
Same(db, db2) == db2.ast = db.ast /\ db2.vars = db.vars /\ db2.funs = db.funs

\* A list that is taken out or put back changes none of the trees,
LEMMA SameNodes ==
    ASSUME NEW db, NEW db2, Same(db, db2)
    PROVE  /\ \A list : Members(db2, list) = Members(db, list)
           /\ \A v : Initializer(db2, v) = Initializer(db, v)
           /\ \A list, id : Follows(db2, list, id) = Follows(db, list, id)
           /\ \A list, n : Constructs(db2, list, n) = Constructs(db, list, n)
           /\ \A declares : Declared(db2, declares) = Declared(db, declares)
<1>1. \A list : Members(db2, list) = Members(db, list)
  BY DEF Same, Members
<1>2. \A v : Initializer(db2, v) = Initializer(db, v)
  BY DEF Same, Initializer
<1>3. ASSUME NEW list, NEW n PROVE Constructs(db2, list, n) = Constructs(db, list, n)
  BY <1>1, <1>2 DEF Constructs
<1>4. ASSUME NEW list, NEW id PROVE Follows(db2, list, id) = Follows(db, list, id)
  BY <1>3 DEF Follows, Same
<1>5. ASSUME NEW declares PROVE Declared(db2, declares) = Declared(db, declares)
  BY DEF Declared, Same
<1> QED BY <1>1, <1>2, <1>3, <1>4, <1>5

\* nor what is ready,
LEMMA SameReady ==
    ASSUME NEW db, NEW db2, Same(db, db2), NEW list, NEW own, NEW ord, Ready(db, list, own, ord)
    PROVE  Ready(db2, list, own, ord)
<1> SUFFICES ASSUME NEW i \in DOMAIN ord
             PROVE  \E D : /\ Elements(Initializer(db2, ord[i])) \subseteq D
                           /\ Covers(db2, list, own, D, {}, Prefix(ord, i))
  BY DEF Ready
<1>1. PICK D : /\ Elements(Initializer(db, ord[i])) \subseteq D
               /\ Covers(db, list, own, D, {}, Prefix(ord, i))
  BY DEF Ready
<1>2. Elements(Initializer(db2, ord[i])) \subseteq D
  BY <1>1, SameNodes
<1>3. Covers(db2, list, own, D, {}, Prefix(ord, i))
  <2> SUFFICES ASSUME NEW id \in D
               PROVE  /\ Follows(db2, list, id) \subseteq D \cup {}
                      /\ db2.ast[id].k = "Variable" /\ db2.ast[id].x \in own => db2.ast[id].x \in Prefix(ord, i)
    BY DEF Covers
  <2>1. Follows(db2, list, id) = Follows(db, list, id)
    BY SameNodes
  <2>2. db2.ast = db.ast
    BY DEF Same
  <2> QED BY <1>1, <2>1, <2>2 DEF Covers
<1> QED BY <1>2, <1>3

\* nor the other lists that are sorted,
LEMMA SameSettled ==
    ASSUME NEW db, NEW db2, Same(db, db2), db2.reported = db.reported, NEW list, Listed(db2, list) = Listed(db, list)
    PROVE  Settled(db, list) => Settled(db2, list)
<1> SUFFICES ASSUME Settled(db, list) PROVE Settled(db2, list)
  OBVIOUS
<1> DEFINE ord == Declared(db, Listed(db, list))
<1>1. Declared(db2, Listed(db2, list)) = ord /\ Members(db2, list) = Members(db, list)
  BY SameNodes
<1>2. Distinct(ord) /\ (~db.reported => Ready(db, list, Members(db, list), ord))
  BY DEF Settled
<1> HIDE DEF ord
<1>3. ~db.reported => Ready(db2, list, Members(db, list), ord)
  BY <1>2, SameReady
<1> QED BY <1>1, <1>2, <1>3 DEF Settled

\* nor those that are not.
LEMMA SameLists ==
    ASSUME NEW db, NEW db2, Same(db, db2), NEW list, Listed(db2, list) = Listed(db, list)
    PROVE  Lists(db, list) => Lists(db2, list)
<1>1. \A declares : Declared(db2, declares) = Declared(db, declares)
  BY SameNodes
<1>2. Members(db2, list) = Members(db, list)
  BY SameNodes
<1> QED BY <1>1, <1>2 DEF Lists, Same

\* A list that is taken out or put back
LEMMA WithListKeeps ==
    ASSUME NEW db, Sound(db), NEW list \in AllLists(db), NEW declares, NEW db2, db2 = WithList(db, list, declares)
    PROVE  /\ Same(db, db2) /\ Sound(db2) /\ AllLists(db2) = AllLists(db) /\ DOMAIN db2.classes = DOMAIN db.classes
           /\ db2.reported = db.reported /\ db2.err = db.err /\ db2.ice = db.ice
           /\ Listed(db2, list) = declares
           /\ \A other \in AllLists(db) \ {list} : Listed(db2, other) = Listed(db, other)
<1>1. "globals" \in DOMAIN db /\ "classes" \in DOMAIN db
  BY DEF Sound, Fields
<1>2. /\ Same(db, db2) /\ DOMAIN db2 = DOMAIN db
      /\ db2.reported = db.reported /\ db2.err = db.err /\ db2.ice = db.ice
  <2>1. db2 = [db EXCEPT !.globals = declares] \/ \E x : db2 = [db EXCEPT !.classes = x]
    <3>1. CASE list = ""
      BY <3>1 DEF WithList
    <3>2. CASE list # ""
      BY <3>2 DEF WithList
    <3> QED BY <3>1, <3>2
  <2>2. CASE db2 = [db EXCEPT !.globals = declares]
    BY <2>2 DEF Same
  <2>3. CASE \E x : db2 = [db EXCEPT !.classes = x]
    BY <2>3 DEF Same
  <2> QED BY <2>1, <2>2, <2>3
<1>3. /\ DOMAIN db2.classes = DOMAIN db.classes
      /\ \A c \in DOMAIN db.classes : DOMAIN db2.classes[c] = DOMAIN db.classes[c]
      /\ Listed(db2, list) = declares
      /\ \A other \in AllLists(db) \ {list} : Listed(db2, other) = Listed(db, other)
  <2>1. CASE list = ""
    <3>1. db2.classes = db.classes /\ db2.globals = declares
      BY <1>1, <2>1 DEF WithList
    <3> QED BY <2>1, <3>1 DEF Listed, AllLists
  <2>2. CASE list # ""
    <3>1. list \in DOMAIN db.classes /\ "inits" \in DOMAIN db.classes[list]
      BY <2>2 DEF AllLists, Sound
    <3>2. db2.classes = [db.classes EXCEPT ![list].inits = declares] /\ db2.globals = db.globals
      BY <1>1, <2>2 DEF WithList
    <3>3. \A c \in DOMAIN db.classes : DOMAIN db2.classes[c] = DOMAIN db.classes[c]
      BY <3>1, <3>2
    <3>4. db2.classes[list].inits = declares /\ \A c \in DOMAIN db.classes \ {list} : db2.classes[c] = db.classes[c]
      BY <3>1, <3>2
    <3> QED BY <2>2, <3>2, <3>3, <3>4 DEF Listed, AllLists
  <2> QED BY <2>1, <2>2
<1>4. AllLists(db2) = AllLists(db)
  BY <1>3 DEF AllLists
<1>5. Sound(db2)
  <2>1. \A id \in DOMAIN db.ast : Hangs(db2, id)
    BY <1>2, <1>3 DEF Sound, Hangs, Same
  <2>2. \A l : Members(db2, l) = Members(db, l)
    BY <1>2, SameNodes
  <2>3. db2.ast = db.ast /\ db2.vars = db.vars
    BY <1>2 DEF Same
  <2>4. \A l \in AllLists(db2) : \A v \in Members(db2, l) :
          db2.vars[v].init \in DOMAIN db2.ast /\ db2.ast[db2.vars[v].init].x = v
    BY <1>4, <2>2, <2>3 DEF Sound
  <2> QED BY <1>2, <1>3, <2>1, <2>3, <2>4 DEF Sound
<1> QED BY <1>2, <1>3, <1>4, <1>5


-----------------------------------------------------------------------------
(* Sorting a list starts with all of it still to do. *)
LEMMA SortStarts ==
    ASSUME NEW db, Sound(db), NEW list \in AllLists(db), NEW left, left \subseteq DOMAIN db.classes \ {list},
           \A l \in AllLists(db) : Lists(db, l) /\ (l \notin left \cup {list} => Settled(db, l)),
           NEW db2, NEW sr, NEW queue, queue = Declared(db, Listed(db, list)),
           db2 = WithList(db, list, <<>>),
           sr = [list |-> list, left |-> left, queue |-> queue, ord |-> <<>>,
                 map |-> [v \in Elements(queue) |-> FALSE], stack |-> <<>>]
    PROVE  Searching(db2, sr)
<1>1. /\ Same(db, db2) /\ Sound(db2) /\ AllLists(db2) = AllLists(db) /\ DOMAIN db2.classes = DOMAIN db.classes
      /\ db2.reported = db.reported /\ db2.err = db.err /\ db2.ice = db.ice
      /\ Listed(db2, list) = <<>>
      /\ \A other \in AllLists(db) \ {list} : Listed(db2, other) = Listed(db, other)
  BY WithListKeeps
<1>2. \A l : Members(db2, l) = Members(db, l)
  BY <1>1, SameNodes
<1>3. queue \in Seq(Members(db, list)) /\ Elements(queue) = Members(db, list)
  <2>1. Listed(db, list) \in Seq(DOMAIN db.ast) /\ Elements(queue) = Members(db, list)
    BY DEF Lists
  <2>2. queue = [i \in DOMAIN Listed(db, list) |-> db.ast[Listed(db, list)[i]].x]
    BY DEF Declared
  <2> QED BY <2>1, <2>2 DEF Elements
<1>4. Shape(db2, sr)
  BY <1>1, <1>2, <1>3 DEF Shape
<1>5. Marks(sr, Members(db2, sr.list))
  <2>1. sr.list = list /\ sr.stack = <<>> /\ sr.ord = <<>> /\ sr.queue = queue /\ sr.map = [v \in Elements(queue) |-> FALSE]
    OBVIOUS
  <2>2. Elements(sr.ord) = {} /\ Pushed(sr.stack) = {} /\ DOMAIN sr.stack = {} /\ DOMAIN sr.ord = {}
    BY <2>1 DEF Elements, Pushed
  <2>3. DOMAIN sr.map = Members(db, list) /\ \A v \in Members(db, list) : sr.map[v] = FALSE
    BY <1>3, <2>1
  <2> QED BY <1>2, <1>3, <2>1, <2>2, <2>3 DEF Marks, Distinct, Once
<1>6. Others(db2, sr)
  <2>1. ASSUME NEW l \in AllLists(db2) \ {list} PROVE Lists(db2, l) /\ (l \notin left => Settled(db2, l))
    <3>1. Listed(db2, l) = Listed(db, l) /\ Lists(db, l)
      BY <1>1
    <3>2. Lists(db2, l)
      BY <1>1, <3>1, SameLists
    <3>3. l \notin left => Settled(db2, l)
      BY <1>1, <3>1, SameSettled
    <3> QED BY <3>2, <3>3
  <2> QED BY <1>1, <2>1 DEF Others
<1>7. Kept(db2, sr)
  BY DEF Kept, Ready
<1> QED BY <1>1, <1>4, <1>5, <1>6, <1>7 DEF Searching

\* What has been sorted is put back in its order.
LEMMA PutBackSettles ==
    ASSUME NEW db, NEW sr, Searching(db, sr), sr.stack = <<>>, sr.queue = <<>>,
           NEW db2, db2 = WithList(db, sr.list, Declares(db, sr.ord))
    PROVE  /\ Sound(db2) /\ AllLists(db2) = AllLists(db) /\ DOMAIN db2.classes = DOMAIN db.classes
           /\ db2.reported = db.reported /\ db2.err = db.err /\ db2.ice = db.ice
           /\ \A l \in AllLists(db2) : Lists(db2, l) /\ (l \notin sr.left => Settled(db2, l))
<1> DEFINE list == sr.list
           ord == sr.ord
           own == Members(db, list)
<1>1. Sound(db) /\ list \in AllLists(db) /\ ord \in Seq(own)
  BY DEF Searching, Shape
<1>2. /\ Same(db, db2) /\ Sound(db2) /\ AllLists(db2) = AllLists(db) /\ DOMAIN db2.classes = DOMAIN db.classes
      /\ db2.reported = db.reported /\ db2.err = db.err /\ db2.ice = db.ice
      /\ Listed(db2, list) = Declares(db, ord)
      /\ \A other \in AllLists(db) \ {list} : Listed(db2, other) = Listed(db, other)
  BY <1>1, WithListKeeps
<1>3. Elements(ord) = own
  <2>1. Elements(sr.queue) = {} /\ Pushed(sr.stack) = {}
    BY DEF Elements, Pushed
  <2> QED BY <2>1 DEF Searching, Marks
<1>4. /\ DOMAIN Declares(db, ord) = DOMAIN ord
      /\ \A i \in DOMAIN ord : /\ Declares(db, ord)[i] = db.vars[ord[i]].init
                               /\ db.vars[ord[i]].init \in DOMAIN db.ast
                               /\ db.ast[db.vars[ord[i]].init].x = ord[i]
  <2>1. \A i \in DOMAIN ord : ord[i] \in own
    BY <1>3 DEF Elements
  <2> QED BY <1>1, <2>1 DEF Sound, Declares
<1>5. Declared(db2, Listed(db2, list)) = ord
  <2>1. Declared(db2, Listed(db2, list)) = [i \in DOMAIN ord |-> db.ast[Declares(db, ord)[i]].x]
    BY <1>2, <1>4 DEF Declared, Same
  <2>2. ord = [i \in DOMAIN ord |-> ord[i]]
    BY <1>1
  <2> QED BY <1>4, <2>1, <2>2
<1>6. Lists(db2, list)
  <2>1. Declares(db, ord) \in Seq(DOMAIN db.ast)
    <3>1. Declares(db, ord) = [i \in 1..Len(ord) |-> db.vars[ord[i]].init] /\ Len(ord) \in Nat
      BY <1>1 DEF Declares
    <3>2. \A i \in 1..Len(ord) : db.vars[ord[i]].init \in DOMAIN db.ast
      BY <1>1, <1>4
    <3> QED BY <3>1, <3>2
  <2>2. Members(db2, list) = own /\ db2.ast = db.ast /\ db2.vars = db.vars
    BY <1>2, SameNodes DEF Same
  <2> QED BY <1>2, <1>3, <1>4, <1>5, <2>1, <2>2 DEF Lists
<1>7. Settled(db2, list)
  <2>1. Distinct(ord) /\ (~db.reported => Ready(db, list, own, ord))
    BY DEF Searching, Marks, Kept
  <2>2. ~db.reported => Ready(db2, list, own, ord)
    BY <1>2, <2>1, SameReady
  <2>3. Members(db2, list) = own
    BY <1>2, SameNodes
  <2> QED BY <1>2, <1>5, <2>1, <2>2, <2>3 DEF Settled
<1>8. ASSUME NEW l \in AllLists(db) \ {list} PROVE Lists(db2, l) /\ (l \notin sr.left => Settled(db2, l))
  <2>1. Listed(db2, l) = Listed(db, l) /\ Lists(db, l) /\ (l \notin sr.left => Settled(db, l))
    BY <1>2 DEF Searching, Others
  <2>2. Lists(db2, l)
    BY <1>2, <2>1, SameLists
  <2>3. l \notin sr.left => Settled(db2, l)
    BY <1>2, <2>1, SameSettled
  <2> QED BY <2>2, <2>3
<1> QED BY <1>2, <1>6, <1>7, <1>8

\* A list in such an order is what initialization needs.
LEMMA SettledInOrder ==
    ASSUME NEW db, Sound(db), NEW list \in AllLists(db), Lists(db, list), Settled(db, list), ~db.reported
    PROVE  InOrderIn(db, list)
<1> DEFINE order == Declared(db, Listed(db, list))
           own == Members(db, list)
<1>1. Elements(order) = own /\ Distinct(order) /\ Ready(db, list, own, order)
  BY DEF Lists, Settled
<1>2. DOMAIN order \subseteq Nat
  BY DEF Lists, Declared
<1>3. ASSUME NEW i \in DOMAIN order, NEW j \in DOMAIN order, order[j] \in Needs(db, list, order[i]) PROVE j < i
  <2>1. PICK D : /\ Elements(Initializer(db, order[i])) \subseteq D
                 /\ Covers(db, list, own, D, {}, Prefix(order, i))
    BY <1>1 DEF Ready
  <2>2. \A id \in D : Follows(db, list, id) \subseteq D
    BY <2>1 DEF Covers
  <2>3. Running(db, list, order[i]) \subseteq D
    BY <2>1, <2>2, RunningWithin DEF Sound
  <2>4. PICK id \in D : db.ast[id].k = "Variable" /\ db.ast[id].x = order[j]
    BY <1>3, <2>3 DEF Needs
  <2>5. order[j] \in own
    BY <1>1 DEF Elements
  <2>6. order[j] \in Prefix(order, i)
    BY <2>1, <2>4, <2>5 DEF Covers
  <2>7. PICK h \in DOMAIN order : h < i /\ order[h] = order[j]
    BY <2>6 DEF Prefix
  <2> QED BY <1>1, <2>7 DEF Distinct
<1> QED BY <1>1, <1>3 DEF InOrderIn


-----------------------------------------------------------------------------
(* The steps of a search *)

\* No variable is on the stack twice, if a new one is entered only when it is not there.
LEMMA PushesLeft ==
    ASSUME NEW st, NEW items, NEW n, NEW length, NEW st2, Splice(st, items, n, length, st2), Once(st),
           \A j \in 1..n : items[j].do = "push" => j = n /\ items[j].at \notin Pushed(st)
    PROVE  /\ Once(st2)
           /\ Pushed(st2) = {e \in Pushed(st) : st[1].do = "push" => e # st[1].at} \cup Entered(items, n + 1)
<1>1. /\ n \in Nat /\ length \in Nat /\ length > 0
      /\ DOMAIN st = 1..length /\ DOMAIN st2 = 1..(n + length - 1)
      /\ \A j \in 1..n : st2[j] = items[j]
      /\ \A j \in 2..length : st2[j + n - 1] = st[j]
  BY DEF Splice
<1>2. ASSUME NEW j \in DOMAIN st2, st2[j].do = "push"
      PROVE  \/ j = n /\ j \in 1..n /\ st2[j] = items[j] /\ items[j].at \notin Pushed(st)
             \/ /\ j > n /\ j - n + 1 \in 2..length /\ j - n + 1 \in DOMAIN st
                /\ st2[j] = st[j - n + 1] /\ st2[j].at \in Pushed(st)
  <2>1. CASE j <= n
    <3>1. j \in 1..n
      BY <1>1, <2>1
    <3> QED BY <1>1, <1>2, <3>1
  <2>2. CASE j > n
    <3> DEFINE h == j - n + 1
    <3>1. h \in 2..length /\ h + n - 1 = j /\ h \in DOMAIN st
      BY <1>1, <2>2
    <3> HIDE DEF h
    <3>2. st2[j] = st[h] /\ st[h].at \in Pushed(st)
      BY <1>1, <1>2, <3>1 DEF Pushed
    <3> QED BY <2>2, <3>1, <3>2 DEF h
  <2> QED BY <1>1, <2>1, <2>2
<1>3. Once(st2)
  <2> SUFFICES ASSUME NEW i \in DOMAIN st2, NEW j \in DOMAIN st2,
                      st2[i].do = "push", st2[j].do = "push", st2[i].at = st2[j].at
               PROVE  i = j
    BY DEF Once
  <2>1. CASE i > n /\ j > n
    <3>1. i - n + 1 = j - n + 1
      BY <1>2, <2>1 DEF Once
    <3> QED BY <1>1, <3>1
  <2> QED BY <1>1, <1>2, <2>1
<1>4. ASSUME NEW e \in Pushed(st2)
      PROVE  e \in {x \in Pushed(st) : st[1].do = "push" => x # st[1].at} \cup Entered(items, n + 1)
  <2>1. PICK j \in DOMAIN st2 : st2[j].do = "push" /\ st2[j].at = e
    BY <1>4 DEF Pushed
  <2>2. CASE j \in 1..n /\ st2[j] = items[j]
    BY <1>1, <2>1, <2>2 DEF Entered
  <2>3. CASE j - n + 1 \in 2..length /\ j - n + 1 \in DOMAIN st /\ st2[j] = st[j - n + 1] /\ st2[j].at \in Pushed(st)
    <3>1. st[1].do = "push" => e # st[1].at
      <4>1. 1 \in DOMAIN st /\ j - n + 1 # 1
        BY <1>1, <2>3
      <4> QED BY <2>1, <2>3, <4>1 DEF Once
    <3> QED BY <2>1, <2>3, <3>1
  <2> QED BY <1>2, <2>1, <2>2, <2>3
<1>5. ASSUME NEW e \in Pushed(st), st[1].do = "push" => e # st[1].at PROVE e \in Pushed(st2)
  <2>1. PICK j \in DOMAIN st : st[j].do = "push" /\ st[j].at = e
    BY DEF Pushed
  <2>2. j \in 2..length
    BY <1>1, <1>5, <2>1
  <2>3. j + n - 1 \in DOMAIN st2
    BY <1>1, <2>2
  <2>4. st2[j + n - 1] = st[j]
    BY <1>1, <2>2
  <2> QED BY <2>1, <2>3, <2>4 DEF Pushed
<1>6. ASSUME NEW e \in Entered(items, n + 1) PROVE e \in Pushed(st2)
  <2>1. PICK j \in 1..((n + 1) - 1) : items[j].do = "push" /\ items[j].at = e
    BY <1>6 DEF Entered
  <2>2. j \in DOMAIN st2 /\ st2[j] = items[j]
    BY <1>1
  <2> QED BY <2>1, <2>2 DEF Pushed
<1> QED BY <1>3, <1>4, <1>5, <1>6

\* The stack after a step, item by item
LEMMA Spliced ==
    ASSUME NEW S, NEW st \in Seq(S), st # <<>>, NEW items \in Seq(S)
    PROVE  /\ Splice(st, items, Len(items), Len(st), items \o Tail(st))
           /\ Head(st) = st[1] /\ items \o Tail(st) \in Seq(S) /\ DOMAIN items = 1..Len(items)
  BY DEF Splice

\* The next thing on the stack is done, or there are others to do instead.
Moves(sr, items, sr2) ==
    /\ DOMAIN sr2 = DOMAIN sr /\ sr2.stack = items \o Tail(sr.stack) /\ sr2.list = sr.list /\ sr2.left = sr.left
    /\ sr2.queue = sr.queue /\ sr2.ord = sr.ord /\ sr2.map = sr.map

\* A step that enters no variable keeps what holds, as long as all the nodes that the first item
\* was to visit are visited, or are taken on.
LEMMA GoesOn ==
    ASSUME NEW db, NEW sr, Searching(db, sr), sr.stack # <<>>, Head(sr.stack).do # "push",
           NEW items \in Seq(Items(db)), \A i \in DOMAIN items : items[i].do # "push",
           NEW added,
           ~db.reported =>
              /\ Pending(db, sr.list, Head(sr.stack)) \subseteq added \cup Whole(db, sr.list, items)
              /\ Covers(db, sr.list, Members(db, sr.list), added, Whole(db, sr.list, items), Elements(sr.ord)),
           NEW sr2, Moves(sr, items, sr2)
    PROVE  Searching(db, sr2)
<1> DEFINE st == sr.stack
           st2 == items \o Tail(st)
           own == Members(db, sr.list)
<1>1. /\ DOMAIN sr2 = DOMAIN sr /\ sr2.stack = st2 /\ sr2.list = sr.list /\ sr2.left = sr.left
      /\ sr2.queue = sr.queue /\ sr2.ord = sr.ord /\ sr2.map = sr.map
  BY DEF Moves
<1>2. /\ Splice(st, items, Len(items), Len(st), st2) /\ Head(st) = st[1]
      /\ st2 \in Seq(Items(db)) /\ DOMAIN items = 1..Len(items)
  BY Spliced DEF Searching, Shape
<1> HIDE DEF st2
<1>3. Entered(items, Len(items) + 1) = {} /\ Pushed(st2) = Pushed(st) /\ Once(st2)
  <2>1. Entered(items, Len(items) + 1) = {}
    BY <1>2 DEF Entered
  <2>2. Once(st) /\ \A j \in 1..Len(items) : items[j].do # "push"
    BY <1>2 DEF Searching, Marks
  <2>3. /\ Once(st2)
        /\ Pushed(st2) = {e \in Pushed(st) : st[1].do = "push" => e # st[1].at} \cup Entered(items, Len(items) + 1)
    BY <1>2, <2>2, PushesLeft
  <2> QED BY <1>2, <2>1, <2>3
<1>4. Sound(db) /\ Shape(db, sr2)
  BY <1>1, <1>2 DEF Searching, Shape
<1>5. Marks(sr2, own)
  BY <1>1, <1>3 DEF Searching, Marks
<1>6. Others(db, sr2)
  BY <1>1 DEF Searching, Others
<1>7. Kept(db, sr2)
  <2> SUFFICES ASSUME ~db.reported
               PROVE  /\ Ready(db, sr.list, own, sr.ord)
                      /\ \A k \in DOMAIN st2 : Half(db, sr.list, own, sr.ord, st2, k)
    BY <1>1 DEF Kept
  <2>1. Ready(db, sr.list, own, sr.ord) /\ \A k \in DOMAIN st : Half(db, sr.list, own, sr.ord, st, k)
    BY DEF Searching, Kept
  <2>2. \A k \in 1..Len(items) : Half(db, sr.list, own, sr.ord, items, k)
    BY <1>2 DEF Half
  <2>3. Replaces(db, sr.list, own, sr.ord, sr.ord, st, items, Len(items), added)
    BY <1>2, <1>3, <2>1, <2>2 DEF Replaces, Whole
  <2> QED BY <1>2, <2>1, <2>3, ReplacedAt
<1> QED BY <1>1, <1>4, <1>5, <1>6, <1>7 DEF Searching

\* What the actions put on the stack may be there.
LEMMA ItemsOf ==
    ASSUME NEW db
    PROVE  /\ \A at \in DOMAIN db.ast : Item("visit", at) \in Items(db)
           /\ \A at \in DOMAIN db.ast : OfClass(db.ast[at]) => Item("class", at) \in Items(db)
           /\ \A at, d \in DOMAIN db.ast : Item("init", <<at, d>>) \in Items(db)
           /\ \A v \in DOMAIN db.vars : Item("push", v) \in Items(db)
           /\ \A at \in DOMAIN db.ast : /\ Item("leave", <<"fun", db.ast[at].x>>) \in Items(db)
                                        /\ Item("leave", <<"new", at>>) \in Items(db)
<1>1. \A at \in DOMAIN db.ast : Item("visit", at) \in Items(db)
  BY DEF Item, Items
<1>2. \A at \in DOMAIN db.ast : OfClass(db.ast[at]) => Item("class", at) \in Items(db)
  BY DEF Item, Items
<1>3. \A at, d \in DOMAIN db.ast : Item("init", <<at, d>>) \in Items(db)
  BY DEF Item, Items
<1>4. \A v \in DOMAIN db.vars : Item("push", v) \in Items(db)
  BY DEF Item, Items
<1>5. ASSUME NEW at \in DOMAIN db.ast
      PROVE  Item("leave", <<"fun", db.ast[at].x>>) \in Items(db) /\ Item("leave", <<"new", at>>) \in Items(db)
  BY DEF Item, Items
<1> QED BY <1>1, <1>2, <1>3, <1>4, <1>5

\* What an item is about
LEMMA AtOf ==
    ASSUME NEW db, NEW it \in Items(db)
    PROVE  /\ it.do = "visit" => it.at \in DOMAIN db.ast
           /\ it.do = "class" => it.at \in DOMAIN db.ast /\ OfClass(db.ast[it.at])
           /\ it.do = "init" => it.at[1] \in DOMAIN db.ast /\ it.at[2] \in DOMAIN db.ast
  BY DEF Items

\* What an item visits is visited by all of them.
LEMMA InTodo ==
    ASSUME NEW db, NEW list, NEW S, NEW items \in Seq(S), NEW i \in DOMAIN items
    PROVE  Pending(db, list, items[i]) \subseteq Whole(db, list, items)
<1>1. i \in 1..((Len(items) + 1) - 1)
  OBVIOUS
<1> QED BY <1>1 DEF Todo, Whole

\* Visits of a list of nodes, and one thing more
LEMMA EachVisits ==
    ASSUME NEW db, NEW list, NEW ats \in Seq(DOMAIN db.ast), NEW items, items = Each("visit", ats)
    PROVE  /\ items \in Seq(Items(db)) /\ \A i \in DOMAIN items : items[i].do = "visit"
           /\ Elements(ats) \subseteq Whole(db, list, items)
<1>1. /\ items = [i \in 1..Len(ats) |-> Item("visit", ats[i])] /\ Len(ats) \in Nat
      /\ \A i \in 1..Len(ats) : ats[i] \in DOMAIN db.ast
  BY DEF Each
<1>2. items \in Seq(Items(db))
  BY <1>1, ItemsOf
<1>3. \A i \in DOMAIN items : items[i].do = "visit"
  BY <1>1 DEF Item
<1>4. ASSUME NEW i \in DOMAIN ats PROVE ats[i] \in Whole(db, list, items)
  <2>1. i \in DOMAIN items /\ Pending(db, list, items[i]) = {ats[i]}
    BY <1>1 DEF Pending, Item
  <2> QED BY <1>2, <2>1, InTodo
<1> QED BY <1>2, <1>3, <1>4 DEF Elements

\* An item at the end of others: what they visit and enter together
LEMMA OneMore ==
    ASSUME NEW db, NEW list, NEW some \in Seq(Items(db)), NEW it \in Items(db), NEW all, all = some \o <<it>>
    PROVE  /\ all \in Seq(Items(db)) /\ Len(all) = Len(some) + 1 /\ all[Len(all)] = it
           /\ DOMAIN all = 1..Len(all) /\ Len(some) \in Nat
           /\ \A i \in 1..Len(some) : i \in DOMAIN some /\ all[i] = some[i]
           /\ Whole(db, list, some) \cup Pending(db, list, it) \subseteq Whole(db, list, all)
           /\ Todo(db, list, all, Len(all)) = Whole(db, list, some)
<1>1. /\ all \in Seq(Items(db)) /\ Len(all) = Len(some) + 1 /\ all[Len(all)] = it
      /\ DOMAIN all = 1..Len(all) /\ Len(some) \in Nat
      /\ \A i \in 1..Len(some) : i \in DOMAIN some /\ all[i] = some[i]
  OBVIOUS
<1>2. Todo(db, list, all, Len(all)) = Whole(db, list, some)
  <2>1. 1..(Len(all) - 1) = 1..Len(some) /\ 1..((Len(some) + 1) - 1) = 1..Len(some)
    BY <1>1
  <2> QED BY <1>1, <2>1 DEF Todo, Whole
<1>3. Whole(db, list, some) \subseteq Whole(db, list, all)
  <2> SUFFICES ASSUME NEW i \in 1..((Len(some) + 1) - 1)
               PROVE  Pending(db, list, some[i]) \subseteq Whole(db, list, all)
    BY DEF Todo, Whole
  <2>1. i \in DOMAIN all /\ all[i] = some[i]
    BY <1>1
  <2> QED BY <1>1, <2>1, InTodo
<1>4. Pending(db, list, it) \subseteq Whole(db, list, all)
  <2>1. Len(all) \in DOMAIN all
    BY <1>1
  <2> QED BY <1>1, <2>1, InTodo
<1> QED BY <1>1, <1>2, <1>3, <1>4

\* An item behind others, no push
LEMMA Behind ==
    ASSUME NEW db, NEW list, NEW some \in Seq(Items(db)), \A i \in DOMAIN some : some[i].do # "push",
           NEW it \in Items(db), it.do # "push", NEW all, all = some \o <<it>>
    PROVE  /\ all \in Seq(Items(db)) /\ \A i \in DOMAIN all : all[i].do # "push"
           /\ Whole(db, list, some) \subseteq Whole(db, list, all)
           /\ Pending(db, list, it) \subseteq Whole(db, list, all)
<1>1. /\ all \in Seq(Items(db)) /\ Len(all) = Len(some) + 1 /\ all[Len(all)] = it
      /\ DOMAIN all = 1..Len(all) /\ Len(some) \in Nat
      /\ \A i \in 1..Len(some) : i \in DOMAIN some /\ all[i] = some[i]
  BY OneMore
<1>2. Whole(db, list, some) \cup Pending(db, list, it) \subseteq Whole(db, list, all)
  BY OneMore
<1>3. ASSUME NEW i \in DOMAIN all PROVE all[i].do # "push"
  BY <1>1
<1> QED BY <1>1, <1>2, <1>3

\* An item alone
LEMMA OneItem ==
    ASSUME NEW db, NEW list, NEW it \in Items(db)
    PROVE  /\ <<it>> \in Seq(Items(db)) /\ \A i \in DOMAIN <<it>> : <<it>>[i] = it
           /\ Pending(db, list, it) \subseteq Whole(db, list, <<it>>)
<1>1. <<it>> \in Seq(Items(db)) /\ 1 \in DOMAIN <<it>> /\ \A i \in DOMAIN <<it>> : <<it>>[i] = it
  OBVIOUS
<1> DEFINE one == <<it>>
<1> HIDE DEF one
<1>2. one \in Seq(Items(db)) /\ 1 \in DOMAIN one /\ one[1] = it
  BY <1>1 DEF one
<1>3. Pending(db, list, it) \subseteq Whole(db, list, one)
  BY <1>2, InTodo
<1> QED BY <1>1, <1>3 DEF one

\* A variable that is entered: its initializer, and then its place in the order
Entrance(db, v) == Each("visit", Initializer(db, v)) \o <<Item("push", v)>>
\* push_dfs: the initializer, and then the variable, is all that the variable waits for.
LEMMA Entering ==
    ASSUME NEW db, Sound(db), NEW list \in AllLists(db), NEW v \in Members(db, list), NEW own, NEW ord,
           NEW items, items = Entrance(db, v)
    PROVE  /\ items \in Seq(Items(db)) /\ DOMAIN items = 1..Len(items) /\ Len(items) \in Nat
           /\ \A i \in 1..Len(items) : items[i].do = "push" => i = Len(items) /\ items[i].at = v
           /\ Entered(items, Len(items) + 1) = {v}
           /\ \A k \in 1..Len(items) : Half(db, list, own, ord, items, k)
<1> DEFINE ats == Initializer(db, v)
           visits == Each("visit", ats)
           it == Item("push", v)
<1>1. ats \in Seq(DOMAIN db.ast) /\ it \in Items(db) /\ it.do = "push" /\ it.at = v
  <2>1. v \in DOMAIN db.vars /\ db.vars[v].init \in DOMAIN db.ast
    BY DEF Members, Sound
  <2> QED BY <2>1, ItemsOf DEF Initializer, Sound, Hangs, Item
<1>2. /\ visits \in Seq(Items(db)) /\ \A i \in DOMAIN visits : visits[i].do = "visit"
      /\ Elements(ats) \subseteq Whole(db, list, visits)
  BY <1>1, EachVisits
<1> HIDE DEF ats, it
<1>3. items = visits \o <<it>>
  BY DEF it, ats, Entrance
<1> HIDE DEF visits
<1>4. /\ items \in Seq(Items(db)) /\ Len(items) = Len(visits) + 1 /\ items[Len(items)] = it
      /\ DOMAIN items = 1..Len(items) /\ Len(visits) \in Nat
      /\ \A i \in 1..Len(visits) : i \in DOMAIN visits /\ items[i] = visits[i]
      /\ Todo(db, list, items, Len(items)) = Whole(db, list, visits)
  <2>1. visits \in Seq(Items(db)) /\ it \in Items(db)
    BY <1>1, <1>2
  <2>2. Todo(db, list, items, Len(items)) = Whole(db, list, visits)
    BY <2>1, <1>3, OneMore
  <2>3. /\ items \in Seq(Items(db)) /\ Len(items) = Len(visits) + 1 /\ items[Len(items)] = it
        /\ DOMAIN items = 1..Len(items) /\ Len(visits) \in Nat
        /\ \A i \in 1..Len(visits) : i \in DOMAIN visits /\ items[i] = visits[i]
    BY <2>1, <1>3, OneMore
  <2> QED BY <2>2, <2>3
<1>5. \A i \in 1..Len(items) : items[i].do = "push" => i = Len(items) /\ items[i].at = v
  BY <1>1, <1>2, <1>4
<1>6. Entered(items, Len(items) + 1) = {v}
  <2>1. \A i : i \in 1..((Len(items) + 1) - 1) <=> i \in 1..Len(items)
    BY <1>4
  <2>2. Len(items) \in 1..Len(items) /\ items[Len(items)].do = "push" /\ items[Len(items)].at = v
    BY <1>1, <1>4
  <2> QED BY <1>5, <2>1, <2>2 DEF Entered
<1>7. ASSUME NEW k \in 1..Len(items) PROVE Half(db, list, own, ord, items, k)
  <2> SUFFICES ASSUME items[k].do = "push"
               PROVE  \E D : /\ Elements(ats) \subseteq D \cup Todo(db, list, items, k)
                             /\ Covers(db, list, own, D, Todo(db, list, items, k), Elements(ord) \cup Entered(items, k))
    BY <1>5 DEF Half, ats
  <2>1. Elements(ats) \subseteq {} \cup Todo(db, list, items, k)
    BY <1>2, <1>4, <1>5
  <2>2. Covers(db, list, own, {}, Todo(db, list, items, k), Elements(ord) \cup Entered(items, k))
    BY DEF Covers
  <2> QED BY <2>1, <2>2
<1> QED BY <1>4, <1>5, <1>6, <1>7

LEMMA BackAgain == \A n \in Nat : (n + 1) - 1 = n
  OBVIOUS

\* It enters that variable and no other.
LEMMA EntrancePushes ==
    ASSUME NEW v, NEW items, DOMAIN items = 1..Len(items), Len(items) \in Nat,
           \A i \in 1..Len(items) : items[i].do = "push" => i = Len(items) /\ items[i].at = v,
           Entered(items, Len(items) + 1) = {v}
    PROVE  Pushed(items) = {v} /\ Once(items)
<1> DEFINE last == (Len(items) + 1) - 1
<1>1. last = Len(items)
  BY BackAgain
<1>2. Pushed(items) = Entered(items, Len(items) + 1)
  <2>1. Entered(items, Len(items) + 1) = {items[j].at : j \in {i \in 1..last : items[i].do = "push"}}
    BY DEF Entered
  <2> HIDE DEF last
  <2>2. 1..last = DOMAIN items
    BY <1>1
  <2> QED BY <2>1, <2>2 DEF Pushed
<1>3. Pushed(items) = {v}
  BY <1>2
<1>4. \A i \in DOMAIN items : items[i].do = "push" => i = Len(items)
  OBVIOUS
<1>5. Once(items)
  BY <1>4, Zenon DEF Once
<1> QED BY <1>3, <1>5


-----------------------------------------------------------------------------

\* The first item of the stack is one of those that may be there.
LEMMA TopItem ==
    ASSUME NEW db, NEW sr, Searching(db, sr), sr.stack # <<>>
    PROVE  Head(sr.stack) \in Items(db) /\ Head(sr.stack) = sr.stack[1]
  BY DEF Searching, Shape

\* A node is visited.
LEMMA Visited ==
    ASSUME NEW db, NEW sr, Searching(db, sr), sr.stack # <<>>, Head(sr.stack).do = "visit",
           NEW at, at = Head(sr.stack).at,
           NEW items \in Seq(Items(db)), \A i \in DOMAIN items : items[i].do # "push",
           ~db.reported =>
              /\ Follows(db, sr.list, at) \subseteq Whole(db, sr.list, items)
              /\ db.ast[at].k = "Variable" /\ db.ast[at].x \in Members(db, sr.list) => db.ast[at].x \in Elements(sr.ord),
           NEW sr2, Moves(sr, items, sr2)
    PROVE  Searching(db, sr2)
<1>1. Pending(db, sr.list, Head(sr.stack)) = {at}
  BY DEF Pending
<1>2. ~db.reported =>
         Covers(db, sr.list, Members(db, sr.list), {at}, Whole(db, sr.list, items), Elements(sr.ord))
  BY DEF Covers
<1>3. ~db.reported =>
         /\ Pending(db, sr.list, Head(sr.stack)) \subseteq {at} \cup Whole(db, sr.list, items)
         /\ Covers(db, sr.list, Members(db, sr.list), {at}, Whole(db, sr.list, items), Elements(sr.ord))
  BY <1>1, <1>2
<1>4. Head(sr.stack).do # "push"
  OBVIOUS
<1> QED BY <1>3, <1>4, GoesOn

\* Something else is done, and nothing is left of it but items.
LEMMA Replaced ==
    ASSUME NEW db, NEW sr, Searching(db, sr), sr.stack # <<>>, Head(sr.stack).do # "push",
           NEW items \in Seq(Items(db)), \A i \in DOMAIN items : items[i].do # "push",
           Pending(db, sr.list, Head(sr.stack)) \subseteq Whole(db, sr.list, items),
           NEW sr2, Moves(sr, items, sr2)
    PROVE  Searching(db, sr2)
<1>1. /\ Pending(db, sr.list, Head(sr.stack)) \subseteq {} \cup Whole(db, sr.list, items)
      /\ Covers(db, sr.list, Members(db, sr.list), {}, Whole(db, sr.list, items), Elements(sr.ord))
  BY DEF Covers
<1> QED BY <1>1, GoesOn

\* Nothing is left of the first item.
LEMMA Empty == \A S : <<>> \in Seq(S)
  OBVIOUS

\* An empty list of items visits nothing.
LEMMA Nothing ==
    ASSUME NEW db, NEW sr, Searching(db, sr), NEW list
    PROVE  /\ <<>> \in Seq(Items(db)) /\ \A i \in DOMAIN <<>> : <<>>[i].do # "push"
           /\ Whole(db, list, <<>>) = {}
  BY DEF Whole, Todo

\* Goes replaces the first item and no more.
LEMMA GoesMoves ==
    ASSUME NEW items, Searching(s, search), Goes(items)
    PROVE  s' = s /\ Moves(search, items, search')
  BY DEF Goes, Moves, Searching, Shape

\* Leaving a function or a class
LEMMA LeaveKeeps == Searching(s, search) /\ Leave => Searching(s', search')
<1> SUFFICES ASSUME Searching(s, search), Leave PROVE Searching(s', search')
  OBVIOUS
<1>1. search.stack # <<>> /\ Head(search.stack).do = "leave" /\ Goes(<<>>)
  BY DEF Leave, Doing
<1>2. s' = s /\ Moves(search, <<>>, search')
  BY <1>1, GoesMoves
<1>3. Pending(s, search.list, Head(search.stack)) \subseteq Whole(s, search.list, <<>>)
  BY <1>1 DEF Pending
<1> QED BY <1>1, <1>2, <1>3, Nothing, Replaced

\* A node of no special kind: all its children are visited.
LEMMA VisitOtherKeeps == Searching(s, search) /\ VisitOther => Searching(s', search')
<1> SUFFICES ASSUME Searching(s, search), VisitOther PROVE Searching(s', search')
  OBVIOUS
<1> DEFINE at == Head(search.stack).at
           items == Each("visit", s.ast[at].a)
<1>1. /\ search.stack # <<>> /\ Head(search.stack).do = "visit"
      /\ s.ast[at].k \notin {"Variable", "FunCapture", "New"} /\ Goes(items)
  BY DEF VisitOther, Doing, At
<1>2. at \in DOMAIN s.ast
  BY <1>1, TopItem, AtOf
<1>3. s.ast[at].a \in Seq(DOMAIN s.ast)
  BY <1>2 DEF Searching, Sound, Hangs
<1>4. /\ items \in Seq(Items(s)) /\ \A i \in DOMAIN items : items[i].do = "visit"
      /\ Elements(s.ast[at].a) \subseteq Whole(s, search.list, items)
  BY <1>3, EachVisits
<1> HIDE DEF items
<1>5. s' = s /\ Moves(search, items, search')
  BY <1>1, GoesMoves
<1>6. Follows(s, search.list, at) = Elements(s.ast[at].a)
  BY <1>1 DEF Follows
<1> HIDE DEF at
<1>7. \A i \in DOMAIN items : items[i].do # "push"
  BY <1>4
<1>8. Searching(s, search')
  BY <1>1, <1>4, <1>5, <1>6, <1>7, Visited DEF at
<1> QED BY <1>5, <1>8


\* The search enters a function or a class, or overflows the stack.
LEMMA EnterKeeps ==
    ASSUME NEW x, NEW items, Searching(s, search), search.stack # <<>>, Enter(x, items)
    PROVE  \/ s' = Panic(s, "stack overflow") /\ search' = search
           \/ s' = s /\ Moves(search, items \o <<Item("leave", x)>>, search')
  BY GoesMoves DEF Enter

\* A function that is named: its body is visited, if there is one.
LEMMA VisitFunCaptureKeeps ==
    Searching(s, search) /\ VisitFunCapture => Searching(s', search') \/ s' = Panic(s, "stack overflow")
<1> SUFFICES ASSUME Searching(s, search), VisitFunCapture, s' # Panic(s, "stack overflow")
             PROVE  Searching(s', search')
  OBVIOUS
<1> DEFINE at == Head(search.stack).at
           body == s.funs[s.ast[at].x].body
           leave == Item("leave", <<"fun", s.ast[at].x>>)
           some == <<Item("visit", body)>>
<1>1. search.stack # <<>> /\ Head(search.stack).do = "visit" /\ s.ast[at].k = "FunCapture"
  BY DEF VisitFunCapture, Doing, At
<1>2. at \in DOMAIN s.ast
  BY <1>1, TopItem, AtOf
<1>3. body \in DOMAIN s.ast \cup {0} /\ Follows(s, search.list, at) = {body} \ {0}
  BY <1>1, <1>2 DEF Searching, Sound, Hangs, Follows
<1>4. CASE body = 0
  <2>1. s' = s /\ Moves(search, <<>>, search')
    BY <1>4, GoesMoves DEF VisitFunCapture, At
  <2>2. Follows(s, search.list, at) \subseteq Whole(s, search.list, <<>>)
    BY <1>3, <1>4
  <2> HIDE DEF at
  <2> QED BY <1>1, <2>1, <2>2, Nothing, Visited DEF at
<1>5. CASE body # 0
  <2>1. s' = s /\ Moves(search, some \o <<leave>>, search')
    BY <1>1, <1>5, EnterKeeps DEF VisitFunCapture, At
  <2> DEFINE visit == Item("visit", body)
  <2>2. /\ leave \in Items(s) /\ leave.do # "push"
        /\ visit \in Items(s) /\ visit.do # "push" /\ Pending(s, search.list, visit) = {body}
    BY <1>2, <1>3, <1>5, ItemsOf DEF Item, Pending
  <2> HIDE DEF visit, leave
  <2>3. some = <<visit>>
    BY DEF visit
  <2> HIDE DEF some
  <2>4. /\ some \in Seq(Items(s)) /\ \A i \in DOMAIN some : some[i].do # "push"
        /\ {body} \subseteq Whole(s, search.list, some)
    BY <2>2, <2>3, OneItem
  <2> HIDE DEF body
  <2> DEFINE all == some \o <<leave>>
  <2>5. all = some \o <<leave>>
    OBVIOUS
  <2> HIDE DEF all
  <2>6. Whole(s, search.list, some) \subseteq Whole(s, search.list, all)
    BY <2>2, <2>4, <2>5, Behind
  <2>7. all \in Seq(Items(s)) /\ \A i \in DOMAIN all : all[i].do # "push"
    BY <2>2, <2>4, <2>5, Behind
  <2>8. Follows(s, search.list, at) \subseteq Whole(s, search.list, all)
    BY <1>3, <2>4, <2>6
  <2>9. Moves(search, all, search')
    BY <2>1 DEF all
  <2> HIDE DEF at
  <2>10. Searching(s, search')
    BY <1>1, <2>7, <2>8, <2>9, Visited DEF at
  <2> QED BY <2>1, <2>10
<1> QED BY <1>4, <1>5

\* The values of .new, with an object in front of them or not
LEMMA FromNode ==
    ASSUME NEW S, NEW sq \in Seq(S)
    PROVE  \A m \in {1, 2} : SubSeq(sq, m, Len(sq)) \in Seq(S)
<1> SUFFICES ASSUME NEW m \in {1, 2} PROVE SubSeq(sq, m, Len(sq)) \in Seq(S)
  OBVIOUS
<1>1. m \in Int /\ Len(sq) \in Int /\ \A i \in m..Len(sq) : sq[i] \in S
  OBVIOUS
<1> QED BY <1>1, SubSeqProperties

\* The values of .new, and then the class for what it initializes
LEMMA VisitNewKeeps == Searching(s, search) /\ VisitNew => Searching(s', search')
<1> SUFFICES ASSUME Searching(s, search), VisitNew PROVE Searching(s', search')
  OBVIOUS
<1> DEFINE at == Head(search.stack).at
           n == s.ast[at]
           values == NewValues(n)
           visits == Each("visit", values)
           it == Item("class", at)
           items == visits \o (IF Is(n.t, "class") THEN <<it>> ELSE <<>>)
<1>1. search.stack # <<>> /\ Head(search.stack).do = "visit" /\ n.k = "New" /\ Goes(items)
  BY DEF VisitNew, Doing, At
<1>2. at \in DOMAIN s.ast
  BY <1>1, TopItem, AtOf
<1>3. values \in Seq(DOMAIN s.ast)
  <2>1. n.a \in Seq(DOMAIN s.ast)
    BY <1>2 DEF Searching, Sound, Hangs
  <2>2. values = SubSeq(n.a, 1, Len(n.a)) \/ values = SubSeq(n.a, 2, Len(n.a))
    BY DEF NewValues
  <2> HIDE DEF n, values
  <2> QED BY <2>1, <2>2, FromNode
<1>4. Follows(s, search.list, at) = Elements(values) \cup Constructs(s, search.list, n)
  BY <1>1 DEF Follows
<1>5. Is(n.t, "class") => it \in Items(s) /\ it.do = "class" /\ Pending(s, search.list, it) = Constructs(s, search.list, n)
  BY <1>1, <1>2, ItemsOf DEF OfClass, Item, Pending
<1>6. ~Is(n.t, "class") => Constructs(s, search.list, n) = {}
  BY DEF Constructs
<1> HIDE DEF values, it, n
<1>7. /\ visits \in Seq(Items(s)) /\ \A i \in DOMAIN visits : visits[i].do = "visit"
      /\ Elements(values) \subseteq Whole(s, search.list, visits)
  BY <1>3, EachVisits
<1> HIDE DEF visits
<1>8. /\ items \in Seq(Items(s)) /\ \A i \in DOMAIN items : items[i].do # "push"
      /\ Follows(s, search.list, at) \subseteq Whole(s, search.list, items)
  <2>1. CASE Is(n.t, "class")
    <3>1. items = visits \o <<it>> /\ visits \in Seq(Items(s)) /\ it \in Items(s)
      BY <1>5, <1>7, <2>1
    <3> HIDE DEF items
    <3>2. /\ items \in Seq(Items(s)) /\ Len(items) = Len(visits) + 1 /\ items[Len(items)] = it
          /\ DOMAIN items = 1..Len(items) /\ Len(visits) \in Nat
          /\ \A i \in 1..Len(visits) : i \in DOMAIN visits /\ items[i] = visits[i]
      BY <3>1, OneMore
    <3>3. Whole(s, search.list, visits) \cup Pending(s, search.list, it) \subseteq Whole(s, search.list, items)
      BY <3>1, OneMore
    <3>4. \A i \in DOMAIN items : items[i].do # "push"
      BY <1>5, <1>7, <2>1, <3>2
    <3> QED BY <1>4, <1>5, <1>7, <2>1, <3>2, <3>3, <3>4
  <2>2. CASE ~Is(n.t, "class")
    <3>1. items = visits
      BY <1>7, <2>2
    <3> HIDE DEF items
    <3> QED BY <1>4, <1>6, <1>7, <2>2, <3>1
  <2> QED BY <2>1, <2>2
<1> HIDE DEF items
<1>9. s' = s /\ Moves(search, items, search')
  BY <1>1, GoesMoves
<1>10. Searching(s, search')
  <2>1. s.ast[at].k # "Variable"
    BY <1>1 DEF n
  <2> HIDE DEF at
  <2> QED BY <1>1, <1>8, <1>9, <2>1, Visited DEF at
<1> QED BY <1>9, <1>10

\* A variable of the class: its initializer is visited, unless .new has given it a value.
LEMMA VisitInitKeeps == Searching(s, search) /\ VisitInit => Searching(s', search')
<1> SUFFICES ASSUME Searching(s, search), VisitInit PROVE Searching(s', search')
  OBVIOUS
<1> DEFINE top == Head(search.stack)
           n == s.ast[top.at[1]]
           d == s.ast[top.at[2]]
           given == d.x \in Given(n)
           items == IF given THEN <<>> ELSE Each("visit", d.a)
<1>1. search.stack # <<>> /\ top.do = "init" /\ Goes(items)
  BY DEF VisitInit, Doing, At, Given
<1>2. top.at[2] \in DOMAIN s.ast
  BY <1>1, TopItem, AtOf
<1>3. d.a \in Seq(DOMAIN s.ast)
  BY <1>2 DEF Searching, Sound, Hangs
<1>4. Pending(s, search.list, top) = IF given THEN {} ELSE Elements(d.a)
  BY <1>1 DEF Pending
<1>5. /\ items \in Seq(Items(s)) /\ \A i \in DOMAIN items : items[i].do # "push"
      /\ Pending(s, search.list, top) \subseteq Whole(s, search.list, items)
  <2>1. CASE given
    BY <1>4, <2>1, Nothing
  <2>2. CASE ~given
    <3> DEFINE visits == Each("visit", d.a)
    <3>1. items = visits
      BY <2>2
    <3>2. /\ visits \in Seq(Items(s)) /\ \A i \in DOMAIN visits : visits[i].do = "visit"
          /\ Elements(d.a) \subseteq Whole(s, search.list, visits)
      BY <1>3, EachVisits
    <3> HIDE DEF items, visits
    <3> QED BY <1>4, <2>2, <3>1, <3>2
  <2> QED BY <2>1, <2>2
<1> HIDE DEF items
<1>6. s' = s /\ Moves(search, items, search')
  BY <1>1, GoesMoves
<1>7. Searching(s, search')
  BY <1>1, <1>5, <1>6, Replaced
<1> QED BY <1>6, <1>7

\* The initializers of a class visit all that the class constructs.
LEMMA ClassItems ==
    ASSUME NEW db, NEW list, NEW at \in DOMAIN db.ast, NEW inits \in Seq(DOMAIN db.ast),
           NEW some, some = [i \in DOMAIN inits |-> Item("init", <<at, inits[i]>>)]
    PROVE  /\ some \in Seq(Items(db)) /\ \A i \in DOMAIN some : some[i].do # "push"
           /\ \A i \in DOMAIN inits : db.ast[inits[i]].x \notin Given(db.ast[at])
                => Elements(db.ast[inits[i]].a) \subseteq Whole(db, list, some)
<1>1. DOMAIN inits = 1..Len(inits) /\ Len(inits) \in Nat /\ \A i \in DOMAIN inits : inits[i] \in DOMAIN db.ast
  OBVIOUS
<1>2. \A i \in DOMAIN inits : Item("init", <<at, inits[i]>>) \in Items(db)
  BY <1>1, ItemsOf
<1>3. some \in Seq(Items(db))
  BY <1>1, <1>2
<1>4. \A i \in DOMAIN inits : i \in DOMAIN some /\ some[i].do = "init" /\ some[i].at[1] = at /\ some[i].at[2] = inits[i]
  BY DEF Item
<1>5. ASSUME NEW i \in DOMAIN inits, db.ast[inits[i]].x \notin Given(db.ast[at])
      PROVE  Elements(db.ast[inits[i]].a) \subseteq Whole(db, list, some)
  <2>1. Pending(db, list, some[i]) = Elements(db.ast[inits[i]].a)
    BY <1>4, <1>5 DEF Pending
  <2> QED BY <1>3, <1>4, <2>1, InTodo
<1>6. \A i \in DOMAIN some : some[i].do # "push"
  BY <1>4
<1> QED BY <1>3, <1>5, <1>6

\* A class that is constructed. The list being sorted is empty then, but constructs nothing that
\* the order is about; the others have all their variables.
LEMMA VisitClassKeeps ==
    Searching(s, search) /\ VisitClass => Searching(s', search') \/ s' = Panic(s, "stack overflow")
<1> SUFFICES ASSUME Searching(s, search), VisitClass, s' # Panic(s, "stack overflow")
             PROVE  Searching(s', search')
  OBVIOUS
<1> DEFINE at == Head(search.stack).at
           n == s.ast[at]
           c == n.t[2]
           inits == s.classes[c].inits
           some == [i \in DOMAIN inits |-> Item("init", <<at, inits[i]>>)]
           leave == Item("leave", <<"new", at>>)
           items == some \o <<leave>>
<1>1. search.stack # <<>> /\ Head(search.stack).do = "class"
  BY DEF VisitClass, Doing
<1>2. s' = s /\ Moves(search, items, search')
  BY <1>1, EnterKeeps DEF VisitClass, At
<1>3. at \in DOMAIN s.ast /\ OfClass(n)
  BY <1>1, TopItem, AtOf
<1>4. c \in DOMAIN s.classes /\ c \in AllLists(s) /\ inits = Listed(s, c)
  BY <1>3 DEF Searching, Sound, Hangs, OfClass, Listed, AllLists
<1> HIDE DEF inits, c
<1>5. c # search.list => Lists(s, c)
  BY <1>4 DEF Searching, Others
<1>6. inits \in Seq(DOMAIN s.ast)
  <2>1. CASE c = search.list
    <3>1. inits = <<>>
      BY <1>4, <2>1 DEF Searching, Others
    <3> QED BY <3>1, Empty, Zenon
  <2>2. CASE c # search.list
    BY <1>4, <1>5, <2>2 DEF Lists
  <2> QED BY <2>1, <2>2
<1>7. Pending(s, search.list, Head(search.stack)) = Constructs(s, search.list, n)
  BY <1>1 DEF Pending
<1>8. leave \in Items(s) /\ leave.do = "leave"
  BY <1>3, ItemsOf DEF Item
<1>9. /\ some \in Seq(Items(s)) /\ \A i \in DOMAIN some : some[i].do # "push"
      /\ \A i \in DOMAIN inits : s.ast[inits[i]].x \notin Given(s.ast[at])
           => Elements(s.ast[inits[i]].a) \subseteq Whole(s, search.list, some)
  BY <1>3, <1>6, ClassItems
<1> HIDE DEF some, leave
<1>11. Constructs(s, search.list, n) \subseteq Whole(s, search.list, some)
  <2> SUFFICES ASSUME c # search.list, NEW v \in Members(s, c) \ Given(n)
               PROVE  Elements(Initializer(s, v)) \subseteq Whole(s, search.list, some)
    BY DEF Constructs, c
  <2>1. PICK i \in DOMAIN inits : s.ast[inits[i]].x = v /\ s.vars[v].init = inits[i]
    <3>1. v \in Elements(Declared(s, inits)) /\ \A i \in DOMAIN inits : s.vars[s.ast[inits[i]].x].init = inits[i]
      BY <1>4, <1>5 DEF Lists
    <3> QED BY <3>1 DEF Declared, Elements
  <2> QED BY <1>9, <2>1 DEF Initializer
<1>12. items = some \o <<leave>> /\ leave.do # "push" /\ \A i \in DOMAIN some : some[i].do # "push"
  BY <1>8, <1>9
<1> HIDE DEF items
<1>13. /\ items \in Seq(Items(s)) /\ \A i \in DOMAIN items : items[i].do # "push"
       /\ Whole(s, search.list, some) \subseteq Whole(s, search.list, items)
  BY <1>8, <1>9, <1>12, Behind
<1>14. Searching(s, search')
  <2>1. Pending(s, search.list, Head(search.stack)) \subseteq Whole(s, search.list, items)
    BY <1>7, <1>11, <1>13
  <2>2. Head(search.stack).do # "push"
    BY <1>1
  <2> QED BY <1>1, <1>2, <1>13, <2>1, <2>2, Replaced
<1> QED BY <1>2, <1>14


\* An error is written down.
LEMMA ReportKeeps ==
    ASSUME NEW db, NEW sr, Searching(db, sr), NEW db2, db2 = [db EXCEPT !.reported = TRUE]
    PROVE  Searching(db2, sr) /\ db2.reported
<1>1. /\ DOMAIN db2 = DOMAIN db /\ db2.reported = TRUE /\ db2.classes = db.classes /\ db2.globals = db.globals
      /\ db2.ast = db.ast /\ db2.vars = db.vars /\ db2.funs = db.funs
  BY DEF Searching, Sound, Fields
<1>2. Same(db, db2) /\ (\A l : Listed(db2, l) = Listed(db, l)) /\ AllLists(db2) = AllLists(db)
  BY <1>1 DEF Same, Listed, AllLists
<1>3. \A l : Members(db2, l) = Members(db, l)
  BY <1>2, SameNodes
<1>4. Sound(db2)
  <2>1. \A id \in DOMAIN db.ast : Hangs(db2, id)
    <3> TAKE id \in DOMAIN db.ast
    <3>1. Hangs(db, id)
      BY DEF Searching, Sound
    <3> QED BY <1>1, <3>1 DEF Hangs
  <2>2. Sound(db)
    BY DEF Searching
  <2>3. \A l \in AllLists(db2) : \A v \in Members(db2, l) :
          db2.vars[v].init \in DOMAIN db2.ast /\ db2.ast[db2.vars[v].init].x = v
    <3> TAKE l \in AllLists(db2)
    <3>1. Members(db2, l) = Members(db, l) /\ l \in AllLists(db)
      BY <1>2, <1>3
    <3> QED BY <1>1, <2>2, <3>1 DEF Sound
  <2>4. /\ DOMAIN db2 = Fields /\ "" \notin DOMAIN db2.classes
        /\ \A c \in DOMAIN db2.classes : "inits" \in DOMAIN db2.classes[c]
        /\ Len(db2.ast) \in Nat /\ DOMAIN db2.ast = 1..Len(db2.ast)
    BY <1>1, <2>2 DEF Sound
  <2>5. \A id \in DOMAIN db2.ast : Hangs(db2, id)
    BY <1>1, <2>1
  <2> QED BY <2>3, <2>4, <2>5 DEF Sound
<1>5. Shape(db2, sr)
  <2>1. Items(db2) = Items(db)
    BY <1>1 DEF Items
  <2> QED BY <1>1, <1>2, <1>3, <2>1 DEF Searching, Shape
<1>6. Others(db2, sr)
  <2>1. ASSUME NEW l \in AllLists(db) \ {sr.list} PROVE Lists(db2, l) /\ (l \notin sr.left => Settled(db2, l))
    <3>1. Lists(db2, l)
      BY <1>2, SameLists DEF Searching, Others
    <3>2. Declared(db2, Listed(db2, l)) = Declared(db, Listed(db, l))
      BY <1>2, SameNodes
    <3>3. l \notin sr.left => Settled(db2, l)
      BY <1>1, <3>2 DEF Searching, Others, Settled
    <3> QED BY <3>1, <3>3
  <2> QED BY <1>2, <2>1 DEF Searching, Others
<1> QED BY <1>1, <1>3, <1>4, <1>5, <1>6 DEF Searching, Kept

\* push_dfs enters a variable that it has not come to before.
Enters(sr, items, v, queue, map, sr2) ==
    /\ DOMAIN sr2 = DOMAIN sr /\ sr2.list = sr.list /\ sr2.left = sr.left /\ sr2.ord = sr.ord
    /\ sr2.queue = queue /\ sr2.map = [map EXCEPT ![v] = TRUE]

\* The marks, after a variable that had none is entered
LEMMA MarksEntered ==
    ASSUME NEW sr, NEW own, Marks(sr, own), NEW map, NEW queue, NEW v, NEW sr2,
           DOMAIN map \subseteq DOMAIN sr.map, \A w \in DOMAIN map : map[w] = sr.map[w],
           DOMAIN sr.map \subseteq DOMAIN map \cup Elements(sr.ord),
           v \in DOMAIN map, ~map[v],
           sr2.ord = sr.ord, sr2.queue = queue, sr2.map = [map EXCEPT ![v] = TRUE],
           Once(sr2.stack), Pushed(sr2.stack) = Pushed(sr.stack) \cup {v},
           Pushed(sr.stack) \subseteq DOMAIN map,
           Elements(sr.queue) \subseteq Elements(queue) \cup {v}
    PROVE  Marks(sr2, own)
<1>1. /\ sr.map \in [DOMAIN sr.map -> BOOLEAN]
      /\ DOMAIN sr.map \cup Elements(sr.ord) = own
      /\ \A w \in DOMAIN sr.map : sr.map[w] <=> w \in Elements(sr.ord) \cup Pushed(sr.stack)
      /\ \A w \in DOMAIN sr.map : sr.map[w] \/ w \in Elements(sr.queue)
      /\ Pushed(sr.stack) \subseteq DOMAIN sr.map \ Elements(sr.ord)
      /\ Distinct(sr.ord)
  BY DEF Marks
<1>2. DOMAIN sr2.map = DOMAIN map /\ sr2.map[v] = TRUE /\ \A w \in DOMAIN map \ {v} : sr2.map[w] = sr.map[w]
  OBVIOUS
<1>3. sr2.map \in [DOMAIN sr2.map -> BOOLEAN]
  <2>1. \A w \in DOMAIN map : sr.map[w] \in BOOLEAN
    BY <1>1
  <2>2. sr2.map = [w \in DOMAIN map |-> IF w = v THEN TRUE ELSE map[w]]
    OBVIOUS
  <2> QED BY <2>1, <2>2
<1>4. v \notin Elements(sr.ord) /\ v \notin Pushed(sr.stack)
  BY <1>1
<1>5. \A w \in DOMAIN sr2.map : sr2.map[w] <=> w \in Elements(sr.ord) \cup Pushed(sr2.stack)
  BY <1>1, <1>2
<1>6. \A w \in DOMAIN sr2.map : sr2.map[w] \/ w \in Elements(queue)
  BY <1>1, <1>2
<1>7. Pushed(sr2.stack) \subseteq DOMAIN sr2.map \ Elements(sr.ord)
  BY <1>1, <1>2, <1>4
<1>8. DOMAIN sr2.map \cup Elements(sr.ord) = own
  BY <1>1, <1>2
<1> QED BY <1>1, <1>3, <1>5, <1>6, <1>7, <1>8 DEF Marks

\* A variable is read: it is not in this list, it is ordered already, it is entered, or
\* the search is inside of it and that is an error.
LEMMA VisitVariableKeeps == Searching(s, search) /\ VisitVariable => Searching(s', search')
<1> SUFFICES ASSUME Searching(s, search), VisitVariable PROVE Searching(s', search')
  OBVIOUS
<1> DEFINE at == Head(search.stack).at
           v == s.ast[at].x
           list == search.list
           own == Members(s, list)
           st == search.stack
<1>1. st # <<>> /\ Head(st).do = "visit" /\ s.ast[at].k = "Variable" /\ Head(st) = st[1]
  BY TopItem DEF VisitVariable, Doing, At
<1>2. at \in DOMAIN s.ast
  BY <1>1, TopItem, AtOf
<1>3. \A sr : Follows(s, list, at) = {}
  <2>1. s.ast[at].a = <<>>
    BY <1>1, <1>2 DEF Searching, Sound, Hangs
  <2> QED BY <1>1, <2>1 DEF Follows, Elements
<1>4. <<>> \o Tail(st) = Tail(st) /\ DOMAIN search = {"list", "left", "queue", "ord", "map", "stack"}
  BY <1>1 DEF Searching, Shape
<1>5. CASE v \notin DOMAIN search.map
  <2>1. s' = s /\ search' = [search EXCEPT !.map = search.map, !.queue = search.queue, !.stack = Tail(st)]
    BY <1>5 DEF VisitVariable, At, PushDfs
  <2>2. Moves(search, <<>>, search')
    BY <1>4, <2>1 DEF Moves
  <2>3. v \in own => v \in Elements(search.ord)
    BY <1>5 DEF Searching, Marks
  <2>4. Searching(s, search')
    <3>1. Follows(s, list, at) \subseteq Whole(s, list, <<>>)
      BY <1>3
    <3> QED BY <1>1, <2>2, <2>3, <3>1, Nothing, Visited
  <2> QED BY <2>1, <2>4
<1>6. CASE v \in DOMAIN search.map /\ search.map[v]
  <2>1. /\ s' = [s EXCEPT !.reported = TRUE]
        /\ search' = [search EXCEPT !.map = search.map, !.queue = search.queue, !.stack = Tail(st)]
    BY <1>6 DEF VisitVariable, At, PushDfs
  <2>2. Moves(search, <<>>, search')
    BY <1>4, <2>1 DEF Moves
  <2>3. Searching(s', search) /\ s'.reported
    BY <2>1, ReportKeeps
  <2> QED BY <1>1, <2>2, <2>3, Nothing, Visited
<1>7. CASE v \in DOMAIN search.map /\ ~search.map[v]
  <2> DEFINE items == Entrance(s, v)
             st2 == items \o Tail(st)
  <2>1. /\ s' = s /\ search'.stack = st2 /\ DOMAIN search' = DOMAIN search /\ search'.list = list
        /\ search'.left = search.left /\ search'.ord = search.ord /\ search'.queue = search.queue
        /\ search'.map = [search.map EXCEPT ![v] = TRUE]
    BY <1>7 DEF VisitVariable, At, PushDfs, Searching, Shape, Entrance
  <2>2. v \in own /\ Sound(s) /\ list \in AllLists(s) /\ v \notin Pushed(st) /\ Once(st)
    BY <1>7 DEF Searching, Shape, Marks
  <2> HIDE DEF v, items
  <2>3. /\ items \in Seq(Items(s)) /\ DOMAIN items = 1..Len(items) /\ Len(items) \in Nat
        /\ \A i \in 1..Len(items) : items[i].do = "push" => i = Len(items) /\ items[i].at = v
        /\ Entered(items, Len(items) + 1) = {v}
        /\ \A k \in 1..Len(items) : Half(s, list, own, search.ord, items, k)
    BY <2>2, Entering DEF items
  <2>4. Splice(st, items, Len(items), Len(st), st2) /\ st2 \in Seq(Items(s))
    BY <1>1, <2>3, Spliced DEF Searching, Shape
  <2> HIDE DEF st2
  <2>5. Once(st2) /\ Pushed(st2) = Pushed(st) \cup {v}
    <3>1. \A j \in 1..Len(items) : items[j].do = "push" => j = Len(items) /\ items[j].at \notin Pushed(st)
      BY <2>2, <2>3
    <3>2. /\ Once(st2)
          /\ Pushed(st2) = {e \in Pushed(st) : st[1].do = "push" => e # st[1].at} \cup Entered(items, Len(items) + 1)
      BY <2>2, <2>4, <3>1, PushesLeft
    <3> QED BY <1>1, <2>3, <3>2
  <2>6. Marks(search', own)
    <3>1. Marks(search, own) /\ Pushed(search.stack) \subseteq DOMAIN search.map
      BY DEF Searching, Marks
    <3> QED BY <1>7, <2>1, <2>5, <3>1, MarksEntered
  <2>7. Shape(s, search')
    BY <2>1, <2>4 DEF Searching, Shape
  <2>8. Others(s, search')
    BY <2>1 DEF Searching, Others
  <2>9. Kept(s, search')
    <3> SUFFICES ASSUME ~s.reported
                 PROVE  /\ Ready(s, list, own, search.ord)
                        /\ \A k \in DOMAIN st2 : Half(s, list, own, search.ord, st2, k)
      BY <2>1 DEF Kept
    <3>1. Ready(s, list, own, search.ord) /\ \A k \in DOMAIN st : Half(s, list, own, search.ord, st, k)
      BY DEF Searching, Kept
    <3>2. Pending(s, list, st[1]) = {at}
      BY <1>1 DEF Pending
    <3>3. Covers(s, list, own, {at}, Todo(s, list, items, Len(items) + 1), Elements(search.ord) \cup Entered(items, Len(items) + 1))
      BY <1>3, <2>3 DEF Covers, v
    <3>4. Replaces(s, list, own, search.ord, search.ord, st, items, Len(items), {at})
      BY <1>1, <2>3, <3>1, <3>2, <3>3 DEF Replaces
    <3> QED BY <2>4, <3>1, <3>4, ReplacedAt
  <2> QED BY <2>1, <2>2, <2>6, <2>7, <2>8, <2>9 DEF Searching
<1> QED BY <1>5, <1>6, <1>7


\* The queue, without its first
LEMMA HeadAndTail ==
    ASSUME NEW S, NEW sq \in Seq(S), sq # <<>>
    PROVE  Head(sq) \in S /\ Tail(sq) \in Seq(S) /\ Elements(sq) \subseteq Elements(Tail(sq)) \cup {Head(sq)}
<1>1. Head(sq) \in S /\ Tail(sq) \in Seq(S)
  OBVIOUS
<1>2. ASSUME NEW i \in DOMAIN sq PROVE sq[i] = Head(sq) \/ (i - 1 \in DOMAIN Tail(sq) /\ Tail(sq)[i - 1] = sq[i])
  OBVIOUS
<1> QED BY <1>1, <1>2 DEF Elements

LEMMA NoMore == ASSUME NEW S, NEW sq \in Seq(S) PROVE sq \o <<>> = sq
  OBVIOUS

\* The next search starts. What was ordered leaves the map, and is in the order.
LEMMA SearchKeeps == Searching(s, search) /\ Search => Searching(s', search')
<1> SUFFICES ASSUME Searching(s, search), Search PROVE Searching(s', search')
  OBVIOUS
<1> DEFINE v == Head(search.queue)
           list == search.list
           own == Members(s, list)
           rest == Tail(search.queue)
           map == [w \in DOMAIN search.map \ Elements(search.ord) |-> search.map[w]]
<1>1. /\ search.stack = <<>> /\ search.queue # <<>> /\ PushDfs(v, map, rest, <<>>)
      /\ Sound(s) /\ Shape(s, search) /\ Marks(search, own) /\ Others(s, search) /\ Kept(s, search)
  BY DEF Search, Searching
<1>2. /\ DOMAIN search = {"list", "left", "queue", "ord", "map", "stack"}
      /\ v \in own /\ rest \in Seq(own) /\ Elements(search.queue) \subseteq Elements(rest) \cup {v}
  <2>1. search.queue \in Seq(own) /\ search.queue # <<>>
    BY <1>1 DEF Shape
  <2>2. v \in own /\ rest \in Seq(own) /\ Elements(search.queue) \subseteq Elements(rest) \cup {v}
    BY <2>1, HeadAndTail
  <2> QED BY <1>1, <2>2 DEF Shape
<1>3. /\ DOMAIN map = DOMAIN search.map \ Elements(search.ord) /\ \A w \in DOMAIN map : map[w] = search.map[w]
      /\ map \in [DOMAIN map -> BOOLEAN]
  BY <1>1 DEF Marks
<1>4. Pushed(search.stack) = {} /\ DOMAIN search.stack = {} /\ Once(search.stack)
  BY <1>1 DEF Pushed, Once
<1>5. \A w \in DOMAIN map : ~map[w] /\ w \in Elements(search.queue)
  BY <1>1, <1>3, <1>4 DEF Marks
<1>6. CASE v \notin DOMAIN map
  <2>1. s' = s /\ search' = [search EXCEPT !.map = map, !.queue = rest, !.stack = <<>>]
    BY <1>1, <1>5, <1>6 DEF PushDfs
  <2> HIDE DEF map, v, rest
  <2>2. /\ DOMAIN search' = DOMAIN search /\ search'.list = list /\ search'.left = search.left /\ search'.ord = search.ord
        /\ search'.queue = rest /\ search'.map = map /\ search'.stack = <<>>
    BY <1>2, <2>1
  <2>3. Shape(s, search')
    BY <1>1, <1>2, <2>2 DEF Shape
  <2>4. Marks(search', own)
    <3>1. \A w \in DOMAIN map : w \in Elements(rest)
      BY <1>2, <1>5, <1>6
    <3>2. DOMAIN map \cup Elements(search.ord) = own
      BY <1>1, <1>3 DEF Marks
    <3>3. \A w \in DOMAIN map : map[w] <=> w \in Elements(search.ord) \cup Pushed(search'.stack)
      BY <1>1, <1>3, <1>4, <1>5, <2>2
    <3> QED BY <1>1, <1>3, <1>4, <2>2, <3>1, <3>2, <3>3 DEF Marks
  <2>5. Others(s, search')
    BY <1>1, <2>2 DEF Others
  <2>6. Kept(s, search')
    BY <1>1, <2>2 DEF Kept
  <2> QED BY <1>1, <2>1, <2>2, <2>3, <2>4, <2>5, <2>6 DEF Searching
<1>7. CASE v \in DOMAIN map
  <2> DEFINE items == Entrance(s, v)
  <2>1. s' = s /\ search' = [search EXCEPT !.map = [map EXCEPT ![v] = TRUE], !.queue = rest, !.stack = items \o <<>>]
    BY <1>1, <1>5, <1>7 DEF PushDfs, Entrance
  <2> HIDE DEF map, v, rest, items
  <2>2. /\ items \in Seq(Items(s)) /\ DOMAIN items = 1..Len(items) /\ Len(items) \in Nat
        /\ \A i \in 1..Len(items) : items[i].do = "push" => i = Len(items) /\ items[i].at = v
        /\ Entered(items, Len(items) + 1) = {v}
        /\ \A k \in 1..Len(items) : Half(s, list, own, search.ord, items, k)
    BY <1>1, <1>2, Entering DEF items, Shape
  <2>3. items \o <<>> = items
    BY <2>2, NoMore
  <2>4. /\ DOMAIN search' = DOMAIN search /\ search'.list = list /\ search'.left = search.left /\ search'.ord = search.ord
        /\ search'.queue = rest /\ search'.map = [map EXCEPT ![v] = TRUE] /\ search'.stack = items
    BY <1>2, <2>1, <2>3
  <2>5. Shape(s, search')
    BY <1>1, <1>2, <2>2, <2>4 DEF Shape
  <2>6. Once(items) /\ Pushed(items) = {v}
    BY <2>2, EntrancePushes
  <2>7. Marks(search', own)
    <3>1. /\ DOMAIN map \subseteq DOMAIN search.map /\ DOMAIN search.map \subseteq DOMAIN map \cup Elements(search.ord)
          /\ ~map[v] /\ Once(search'.stack) /\ Pushed(search'.stack) = Pushed(search.stack) \cup {v}
          /\ Pushed(search.stack) \subseteq DOMAIN map
      BY <1>3, <1>4, <1>5, <1>7, <2>4, <2>6
    <3> QED BY <1>1, <1>2, <1>3, <1>7, <2>4, <3>1, MarksEntered
  <2>8. Others(s, search')
    BY <1>1, <2>4 DEF Others
  <2>9. Kept(s, search')
    BY <1>1, <2>2, <2>4 DEF Kept
  <2> QED BY <1>1, <2>1, <2>4, <2>5, <2>7, <2>8, <2>9 DEF Searching
<1> QED BY <1>6, <1>7

\* The search is done with a variable: nothing is above it, so that all it needs is in the order.
LEMMA PushOrdKeeps == Searching(s, search) /\ PushOrd => Searching(s', search')
<1> SUFFICES ASSUME Searching(s, search), PushOrd PROVE Searching(s', search')
  OBVIOUS
<1> DEFINE st == search.stack
           v == Head(st).at
           list == search.list
           own == Members(s, list)
           ord == search.ord
           ord2 == Append(ord, v)
           st2 == <<>> \o Tail(st)
<1>1. /\ st # <<>> /\ Head(st).do = "push" /\ Head(st) = st[1] /\ s' = s
      /\ search' = [search EXCEPT !.ord = ord2, !.stack = Tail(st)]
      /\ Sound(s) /\ Shape(s, search) /\ Marks(search, own) /\ Others(s, search) /\ Kept(s, search)
  BY TopItem DEF PushOrd, Doing, At, Searching
<1>2. /\ Splice(st, <<>>, 0, Len(st), st2) /\ st2 = Tail(st) /\ st2 \in Seq(Items(s)) /\ 1 \in DOMAIN st
  BY <1>1 DEF Shape, Splice
<1>3. /\ DOMAIN search' = DOMAIN search /\ search'.list = list /\ search'.left = search.left
      /\ search'.queue = search.queue /\ search'.map = search.map /\ search'.ord = ord2 /\ search'.stack = st2
  BY <1>1, <1>2 DEF Shape
<1>4. v \in DOMAIN search.map /\ v \notin Elements(ord) /\ v \in own
  <2>1. v \in Pushed(st)
    BY <1>1, <1>2 DEF Pushed
  <2> QED BY <1>1, <2>1 DEF Marks
<1> HIDE DEF v, st2
<1>5. /\ ord \in Seq(own) /\ ord2 \in Seq(own) /\ Len(ord) \in Nat /\ DOMAIN ord = 1..Len(ord)
      /\ DOMAIN ord2 = 1..(Len(ord) + 1) /\ ord2[Len(ord) + 1] = v /\ \A i \in 1..Len(ord) : ord2[i] = ord[i]
  BY <1>1, <1>4 DEF Shape
<1> HIDE DEF ord2
<1>6. Elements(ord2) = Elements(ord) \cup {v}
  <2>1. Len(ord) + 1 \in DOMAIN ord2 /\ \A i \in DOMAIN ord2 : i \in DOMAIN ord \/ i = Len(ord) + 1
    BY <1>5
  <2> QED BY <1>5, <2>1 DEF Elements
<1>7. Once(st2) /\ Pushed(st2) = Pushed(st) \ {v}
  <2>1. /\ Once(st2)
        /\ Pushed(st2) = {e \in Pushed(st) : st[1].do = "push" => e # st[1].at} \cup Entered(<<>>, 0 + 1)
    <3>1. Once(st) /\ \A j \in 1..0 : <<>>[j].do = "push" => j = 0 /\ <<>>[j].at \notin Pushed(st)
      BY <1>1 DEF Marks
    <3> QED BY <1>2, <3>1, PushesLeft
  <2>2. Entered(<<>>, 0 + 1) = {}
    BY DEF Entered
  <2> QED BY <1>1, <2>1, <2>2 DEF v
<1>8. Marks(search', own)
  <2>1. Distinct(ord2)
    <3> SUFFICES ASSUME NEW i \in DOMAIN ord2, NEW j \in DOMAIN ord2, ord2[i] = ord2[j] PROVE i = j
      BY DEF Distinct
    <3>1. \A h \in 1..Len(ord) : ord[h] # v
      BY <1>4, <1>5 DEF Elements
    <3>2. CASE i \in 1..Len(ord) /\ j \in 1..Len(ord)
      BY <1>1, <1>5, <3>2 DEF Marks, Distinct
    <3> QED BY <1>5, <3>1, <3>2
  <2>2. \A w \in DOMAIN search.map : search.map[w] <=> w \in Elements(ord2) \cup Pushed(st2)
    <3>1. v \in Pushed(st)
      BY <1>1, <1>2 DEF Pushed, v
    <3> QED BY <1>1, <1>6, <1>7, <3>1 DEF Marks
  <2>3. search.map \in [DOMAIN search.map -> BOOLEAN] /\ DOMAIN search.map \cup Elements(ord2) = own
    BY <1>1, <1>4, <1>6 DEF Marks
  <2>4. \A w \in DOMAIN search.map : search.map[w] \/ w \in Elements(search.queue)
    BY <1>1 DEF Marks
  <2>5. Pushed(st2) \subseteq DOMAIN search.map \ Elements(ord2)
    BY <1>1, <1>6, <1>7 DEF Marks
  <2> QED BY <1>3, <1>7, <2>1, <2>2, <2>3, <2>4, <2>5 DEF Marks
<1>9. Shape(s, search')
  BY <1>1, <1>2, <1>3, <1>5 DEF Shape
<1>10. Others(s, search')
  BY <1>1, <1>3 DEF Others
<1>11. Kept(s, search')
  <2> SUFFICES ASSUME ~s.reported
               PROVE  /\ Ready(s, list, own, ord2)
                      /\ \A k \in DOMAIN st2 : Half(s, list, own, ord2, st2, k)
    BY <1>3 DEF Kept
  <2>1. Ready(s, list, own, ord) /\ \A k \in DOMAIN st : Half(s, list, own, ord, st, k)
    BY <1>1 DEF Kept
  <2>2. Ready(s, list, own, ord2)
    <3> SUFFICES ASSUME NEW i \in DOMAIN ord2
                 PROVE  \E D : /\ Elements(Initializer(s, ord2[i])) \subseteq D
                               /\ Covers(s, list, own, D, {}, Prefix(ord2, i))
      BY DEF Ready
    <3>1. CASE i \in 1..Len(ord)
      <4>1. PICK D : /\ Elements(Initializer(s, ord[i])) \subseteq D
                     /\ Covers(s, list, own, D, {}, Prefix(ord, i))
        BY <1>5, <2>1, <3>1 DEF Ready
      <4>2. Prefix(ord, i) \subseteq Prefix(ord2, i)
        BY <1>5 DEF Prefix
      <4>3. Covers(s, list, own, D, {}, Prefix(ord2, i))
        BY <4>1, <4>2 DEF Covers
      <4> QED BY <1>5, <3>1, <4>1, <4>3
    <3>2. CASE i = Len(ord) + 1
      <4>1. PICK D : /\ Elements(Initializer(s, v)) \subseteq D \cup Todo(s, list, st, 1)
                     /\ Covers(s, list, own, D, Todo(s, list, st, 1), Elements(ord) \cup Entered(st, 1))
        BY <1>1, <1>2, <2>1 DEF Half, v
      <4>2. Todo(s, list, st, 1) = {} /\ Entered(st, 1) = {}
        BY DEF Todo, Entered
      <4>3. Elements(ord) \subseteq Prefix(ord2, i)
        BY <1>5, <3>2 DEF Prefix, Elements
      <4>4. Covers(s, list, own, D, {}, Prefix(ord2, i))
        BY <4>1, <4>2, <4>3 DEF Covers
      <4> QED BY <1>5, <3>2, <4>1, <4>2, <4>4
    <3> QED BY <1>5, <3>1, <3>2
  <2>3. Replaces(s, list, own, ord, ord2, st, <<>>, 0, {})
    <3>1. Pending(s, list, st[1]) = {}
      BY <1>1 DEF Pending
    <3> QED BY <1>1, <1>6, <2>1, <3>1 DEF Replaces, Covers, v
  <2> QED BY <1>2, <2>2, <2>3, ReplacedAt
<1> QED BY <1>1, <1>3, <1>8, <1>9, <1>10, <1>11 DEF Searching

\* A list is sorted, and goes back; a class is next.
LEMMA SortClassKeeps == Searching(s, search) /\ SortClass => Searching(s', search')
<1> SUFFICES ASSUME Searching(s, search), SortClass PROVE Searching(s', search')
  OBVIOUS
<1> DEFINE db == PutBack
<1>1. PICK c \in search.left : Sort(db, c, search.left \ {c})
  BY DEF SortClass
<1>2. /\ Sound(db) /\ AllLists(db) = AllLists(s) /\ DOMAIN db.classes = DOMAIN s.classes
      /\ db.reported = s.reported /\ db.err = s.err /\ db.ice = s.ice
      /\ \A l \in AllLists(db) : Lists(db, l) /\ (l \notin search.left => Settled(db, l))
  BY PutBackSettles DEF SortClass, Sorted, PutBack
<1> HIDE DEF db
<1> DEFINE left == search.left \ {c}
           queue == Declared(db, Listed(db, c))
<1>3. /\ s' = WithList(db, c, <<>>)
      /\ search' = [list |-> c, left |-> left, queue |-> queue, ord |-> <<>>,
                    map |-> [v \in Elements(queue) |-> FALSE], stack |-> <<>>]
  BY <1>1 DEF Sort
<1>4. c \in AllLists(db) /\ left \subseteq DOMAIN db.classes \ {c}
      /\ \A l \in AllLists(db) : Lists(db, l) /\ (l \notin left \cup {c} => Settled(db, l))
  BY <1>2 DEF Searching, Shape, AllLists
<1>5. queue = Declared(db, Listed(db, c))
  OBVIOUS
<1> HIDE DEF left, queue
<1> QED BY <1>2, <1>3, <1>4, <1>5, SortStarts

-----------------------------------------------------------------------------
(* The ordering *)

\* What Sortable says is enough to start.
LEMMA SortableSound == ASSUME NEW db, Sortable(db) PROVE Sound(db) /\ \A l \in AllLists(db) : Lists(db, l)
<1>1. \A l \in AllLists(db) : Lists(db, l)
  BY DEF Sortable, AllLists
<1>2. ASSUME NEW l \in AllLists(db), NEW v \in Members(db, l)
      PROVE  db.vars[v].init \in DOMAIN db.ast /\ db.ast[db.vars[v].init].x = v
  <2> DEFINE declares == Listed(db, l)
  <2>1. declares \in Seq(DOMAIN db.ast) /\ Elements(Declared(db, declares)) = Members(db, l)
        /\ \A i \in DOMAIN declares : db.vars[db.ast[declares[i]].x].init = declares[i]
    BY <1>1 DEF Lists
  <2> HIDE DEF declares
  <2>2. PICK i \in DOMAIN declares : db.ast[declares[i]].x = v
    BY <2>1 DEF Declared, Elements
  <2>3. declares[i] \in DOMAIN db.ast
    BY <2>1
  <2> QED BY <2>1, <2>2, <2>3
<1> QED BY <1>1, <1>2 DEF Sortable, Sound

\* The globals come first.
LEMMA OrderGlobalsKeeps ==
    ASSUME Sortable(s), SortGlobals
    PROVE  Searching(s', search') /\ s'.err = s.err /\ s'.reported = s.reported /\ s'.ice = s.ice
<1> DEFINE queue == Declared(s, Listed(s, ""))
           left == DOMAIN s.classes
<1>1. /\ s' = WithList(s, "", <<>>)
      /\ search' = [list |-> "", left |-> left, queue |-> queue, ord |-> <<>>,
                    map |-> [v \in Elements(queue) |-> FALSE], stack |-> <<>>]
  BY DEF SortGlobals, Sort
<1>2. Sound(s) /\ \A l \in AllLists(s) : Lists(s, l)
  BY SortableSound
<1>3. "" \in AllLists(s) /\ left \subseteq DOMAIN s.classes \ {""} /\ AllLists(s) = left \cup {""}
  BY <1>2 DEF Sound, AllLists
<1>4. s'.err = s.err /\ s'.reported = s.reported /\ s'.ice = s.ice
  <2>1. \A list \in AllLists(s) : \A db : db = WithList(s, list, <<>>) =>
          db.reported = s.reported /\ db.err = s.err /\ db.ice = s.ice
    BY <1>2, WithListKeeps
  <2> QED BY <1>1, <1>3, <2>1
<1>5. queue = Declared(s, Listed(s, ""))
  OBVIOUS
<1> HIDE DEF left, queue
<1>6. Searching(s', search')
  BY <1>1, <1>2, <1>3, <1>5, SortStarts
<1> QED BY <1>4, <1>6

\* A step of the ordering writes down errors and forgets none, and can only panic in a
\* search without end.
LEMMA SortStepErrors ==
    ASSUME Searching(s, search), SortStep
    PROVE  s'.err = s.err /\ (s.reported => s'.reported) /\ s'.ice \in {s.ice, "stack overflow"}
<1>1. "err" \in DOMAIN s /\ "reported" \in DOMAIN s /\ "ice" \in DOMAIN s
  BY DEF Searching, Sound, Fields
<1>2. CASE SortClass
  <2>1. PICK c \in search.left : s' = WithList(PutBack, c, <<>>)
    BY <1>2 DEF SortClass, Sort
  <2> DEFINE db == PutBack
  <2>2. /\ Sound(db) /\ AllLists(db) = AllLists(s)
        /\ db.reported = s.reported /\ db.err = s.err /\ db.ice = s.ice
    BY <1>2, PutBackSettles DEF SortClass, Sorted, PutBack
  <2> HIDE DEF db
  <2>3. c \in AllLists(db) /\ s' = WithList(db, c, <<>>)
    BY <2>1, <2>2 DEF db, Searching, Shape, AllLists
  <2>4. s'.reported = db.reported /\ s'.err = db.err /\ s'.ice = db.ice
    BY <2>2, <2>3, WithListKeeps
  <2> QED BY <2>2, <2>4
<1>3. CASE ~SortClass
  <2>1. s' = s \/ s' = [s EXCEPT !.reported = TRUE] \/ s' = Panic(s, "stack overflow")
    <3>1. CASE Search
      BY <3>1 DEF Search, PushDfs
    <3>2. CASE VisitVariable
      BY <3>2 DEF VisitVariable, PushDfs
    <3>3. CASE VisitFunCapture
      BY <3>3 DEF VisitFunCapture, Enter, Goes
    <3>4. CASE VisitNew \/ VisitOther \/ VisitInit \/ Leave
      BY <3>4 DEF VisitNew, VisitOther, VisitInit, Leave, Goes
    <3>5. CASE VisitClass
      BY <3>5 DEF VisitClass, Enter, Goes
    <3>6. CASE PushOrd
      BY <3>6 DEF PushOrd
    <3> QED BY <1>3, <3>1, <3>2, <3>3, <3>4, <3>5, <3>6 DEF SortStep
  <2>2. CASE s' = Panic(s, "stack overflow")
    BY <1>1, <2>2 DEF Panic
  <2>3. CASE s' = s \/ s' = [s EXCEPT !.reported = TRUE]
    BY <1>1, <2>3
  <2> QED BY <2>1, <2>2, <2>3
<1> QED BY <1>2, <1>3

\* All steps of the ordering
LEMMA SortStepKeeps ==
    ASSUME Searching(s, search), SortStep
    PROVE  Searching(s', search') \/ s'.ice = "stack overflow"
<1>1. CASE s' = Panic(s, "stack overflow")
  BY <1>1 DEF Panic, Searching, Sound, Fields
<1>2. CASE s' # Panic(s, "stack overflow")
  BY <1>2, SearchKeeps, VisitVariableKeeps, VisitFunCaptureKeeps, VisitNewKeeps, VisitOtherKeeps, VisitClassKeeps,
     VisitInitKeeps, PushOrdKeeps, LeaveKeeps, SortClassKeeps DEF SortStep
<1> QED BY <1>1, <1>2

\* When all lists are sorted, they are in order, or there is an error.
LEMMA OrderEndsInOrder ==
    ASSUME Searching(s, search), Sorted, search.left = {}, NEW t, t = PutBack
    PROVE  /\ t.err = s.err /\ t.reported = s.reported /\ t.ice = s.ice
           /\ ~t.reported => \A list \in {""} \cup DOMAIN t.classes : InOrderIn(t, list)
<1>1. /\ Sound(t) /\ AllLists(t) = AllLists(s) /\ t.reported = s.reported /\ t.err = s.err /\ t.ice = s.ice
      /\ \A l \in AllLists(t) : Lists(t, l) /\ (l \notin search.left => Settled(t, l))
  BY PutBackSettles DEF Sorted, PutBack
<1>2. ASSUME ~t.reported, NEW list \in {""} \cup DOMAIN t.classes PROVE InOrderIn(t, list)
  <2>1. list \in AllLists(t) /\ Lists(t, list) /\ Settled(t, list)
    BY <1>1 DEF AllLists
  <2> QED BY <1>1, <1>2, <2>1, SettledInOrder
<1> QED BY <1>1, <1>2

-----------------------------------------------------------------------------
(* The driver *)

(***************************************************************************)
(* What is known of the errors before each pass.  Before the passes that   *)
(* start from a program without errors there is none; the binder may leave *)
(* some that it did not return, for the check after the sorting to find;   *)
(* the type checker returns that there is one exactly if there is.         *)
(***************************************************************************)
Known ==
    /\ pass \in {"bind", "signatures", "dead code", "closures", "outputs", "generate", "test"} => ~s.reported
    /\ pass = "check" => s.err = s.reported
    /\ s.err => s.reported

Passes == {"bind", "order", "ordering", "signatures", "check", "dead code", "closures", "outputs", "generate", "test"}
Ends == {"failed", "panic", "no output", "done"}

\* A pass comes next, or there is an exit code.
TypeOK == pass \in Passes \cup Ends /\ (exit = <<>> <=> pass \in Passes)

Errors == TypeOK /\ StopsAtErrors /\ Known

\* The binder leaves a database that can be sorted, and what holds while it is sorted
\* ends with the order.
Ordering ==
    /\ pass = "order" => Sortable(s)
    /\ pass = "ordering" => Searching(s, search)
    /\ InOrder

Inv == Errors /\ Ordering

\* An exit code is there once it is set.
LEMMA OneCode == \A code : <<code>> # <<>>
  OBVIOUS

\* exit() ends main with a code, and so does report_errors.
LEMMA ExitEnds == ASSUME NEW at, NEW code, Exit(at, code) PROVE pass' = at /\ exit' # <<>>
  BY OneCode DEF Exit

LEMMA ReportEnds == ASSUME NEW code, ReportErrors(code) PROVE pass' = "failed" /\ exit' # <<>>
  BY ExitEnds DEF ReportErrors

\* The three ends of a pass: a panic, its errors and the way on to the next one
LEMMA PassEnds ==
    ASSUME NEW t, NEW failed, NEW code, NEW next, Pass(t, failed, code, next)
    PROVE  /\ s' = t
           /\ \/ pass' = "panic" /\ exit' # <<>>
              \/ t.ice = "" /\ failed /\ pass' = "failed" /\ exit' # <<>>
              \/ t.ice = "" /\ ~failed /\ pass' = next /\ exit' = exit
  BY ExitEnds, ReportEnds DEF Pass, Go

\* main starts without errors.
LEMMA InitInv == Init => Inv
  BY DatabaseAssumption DEF Init, Inv, Errors, Ordering, InOrder, TypeOK, StopsAtErrors, Known, Passes, Ends

-----------------------------------------------------------------------------

\* A step that goes on to another pass
LEMMA Going ==
    ASSUME exit = <<>>, exit' = exit, pass' \in Passes, s'.ice = "",
           s'.err => s'.reported,
           pass' = "check" => s'.err = s'.reported,
           pass' \notin {"order", "ordering", "check"} => ~s'.reported
    PROVE  Errors'
<1>1. TypeOK'
  BY DEF TypeOK, Passes, Ends
<1>2. StopsAtErrors'
  BY DEF StopsAtErrors, Passes
<1>3. Known'
  BY DEF Known, Passes
<1> QED BY <1>1, <1>2, <1>3 DEF Errors

\* A step that ends it
LEMMA Ending ==
    ASSUME exit' # <<>>, pass' \in Ends,
           s'.ice # "" => pass' = "panic",
           s'.err => s'.reported,
           pass' = "done" => ~s'.reported,
           pass' = "failed" => s'.reported
    PROVE  Errors'
<1>1. TypeOK'
  BY DEF TypeOK, Passes, Ends
<1>2. StopsAtErrors'
  BY DEF StopsAtErrors, Ends
<1>3. Known'
  BY DEF Known, Ends
<1> QED BY <1>1, <1>2, <1>3 DEF Errors

\* A pass whose result is what it wrote down, and the binder, whose result may be less
LEMMA PassInv ==
    ASSUME NEW t, NEW failed, NEW code, NEW next \in Passes \ {"check"}, exit = <<>>,
           Pass(t, failed, code, next),
           t.err => t.reported,
           failed => t.reported,
           failed \/ ~t.reported \/ next = "order"
    PROVE  Errors'
<1>1. /\ s' = t
      /\ \/ pass' = "panic" /\ exit' # <<>>
         \/ t.ice = "" /\ failed /\ pass' = "failed" /\ exit' # <<>>
         \/ t.ice = "" /\ ~failed /\ pass' = next /\ exit' = exit
  BY PassEnds
<1>2. CASE pass' = "panic" /\ exit' # <<>>
  BY <1>1, <1>2, Ending DEF Ends
<1>3. CASE t.ice = "" /\ failed /\ pass' = "failed" /\ exit' # <<>>
  BY <1>1, <1>3, Ending DEF Ends
<1>4. CASE t.ice = "" /\ ~failed /\ pass' = next /\ exit' = exit
  BY <1>1, <1>4, Going
<1> QED BY <1>1, <1>2, <1>3, <1>4

\* The passes other than the ordering, as long as they report
LEMMA OtherErrors == Errors /\ OtherPass /\ Reports => Errors'
<1> SUFFICES ASSUME Errors, OtherPass, Reports PROVE Errors'
  OBVIOUS
<1>1. pass \notin {"order", "ordering"}
  BY DEF OtherPass, BindPass, Signatures, CheckPass, Checked, DeadCodePass, ClosurePass, Outputs, Generate, TestCompiled
<1>2. s'.err => s'.reported
  BY <1>1 DEF Reports
<1>3. pass \in Passes => exit = <<>> /\ s.ice = ""
  BY DEF Errors, TypeOK, StopsAtErrors, Passes
<1>4. CASE BindPass
  <2> DEFINE t == DoBind(s)
             failed == t.err
  <2>1. Pass(t, failed, 2, "order") /\ pass = "bind"
    BY <1>4 DEF BindPass
  <2>2. s' = t /\ (failed => t.reported)
    BY <1>2, <2>1, PassEnds
  <2> HIDE DEF t, failed
  <2>3. exit = <<>> /\ (t.err => t.reported) /\ (failed => t.reported)
    BY <1>2, <1>3, <2>1, <2>2 DEF Passes
  <2>4. "order" \in Passes \ {"check"}
    BY DEF Passes
  <2> QED BY <2>1, <2>3, <2>4, PassInv, Zenon
<1>5. CASE Signatures
  <2>1. pass = "signatures" /\ pass' = "check" /\ exit' = exit
    BY <1>5 DEF Signatures, Go
  <2>2. s'.err = s'.reported /\ s'.ice = s.ice
    BY <2>1 DEF Reports
  <2> QED BY <1>2, <1>3, <2>1, <2>2, Going DEF Passes
<1>6. CASE CheckPass
  <2>1. pass = "check" /\ todo # <<>>
    BY <1>6 DEF CheckPass
  <2>2. s'.err = s'.reported
    BY <2>1 DEF Reports
  <2>3. CASE s'.ice # ""
    <3>1. pass' = "panic" /\ exit' # <<>>
      BY <1>6, <2>3, ExitEnds DEF CheckPass
    <3> QED BY <1>2, <3>1, Ending DEF Ends
  <2>4. CASE s'.ice = ""
    <3>1. pass' = "check" /\ exit' = exit
      BY <1>6, <2>4 DEF CheckPass, Go
    <3> QED BY <1>2, <1>3, <2>1, <2>2, <2>4, <3>1, Going DEF Passes
  <2> QED BY <2>3, <2>4
<1>7. CASE Checked
  <2> DEFINE bound == IF BindsAll(input.bind) THEN s ELSE [s EXCEPT !.reported = TRUE]
  <2>1. /\ pass = "check"
        /\ \/ s.err /\ ReportErrors(4) /\ UNCHANGED s
           \/ ~s.err /\ Exit("done", 0) /\ UNCHANGED s
           \/ ~s.err /\ Pass(bound, bound.reported, 4, "dead code")
    BY <1>7 DEF Checked
  <2> HIDE DEF bound
  <2>2. s.err = s.reported /\ s.ice = "" /\ exit = <<>>
    BY <1>3, <2>1 DEF Errors, Known, Passes
  <2>3. CASE s.err /\ ReportErrors(4) /\ UNCHANGED s
    <3>1. pass' = "failed" /\ exit' # <<>>
      BY <2>3, ReportEnds
    <3> QED BY <1>2, <2>2, <2>3, <3>1, Ending DEF Ends
  <2>4. CASE ~s.err /\ Exit("done", 0) /\ UNCHANGED s
    <3>1. pass' = "done" /\ exit' # <<>>
      BY <2>4, ExitEnds
    <3> QED BY <1>2, <2>2, <2>4, <3>1, Ending DEF Ends
  <2>5. CASE Pass(bound, bound.reported, 4, "dead code")
    <3> DEFINE failed == bound.reported
    <3>1. Pass(bound, failed, 4, "dead code")
      BY <2>5
    <3>2. s' = bound /\ (failed <=> bound.reported)
      BY <3>1, PassEnds
    <3> HIDE DEF failed
    <3>3. exit = <<>> /\ (bound.err => bound.reported) /\ (failed => bound.reported)
      BY <1>2, <2>2, <3>2
    <3>4. "dead code" \in Passes \ {"check"} /\ (failed \/ ~bound.reported \/ "dead code" = "order")
      BY <3>2 DEF Passes
    <3> QED BY <3>1, <3>3, <3>4, PassInv, Zenon
  <2> QED BY <2>1, <2>3, <2>4, <2>5
<1>8. CASE DeadCodePass
  <2>1. pass = "dead code" /\ pass' = "closures" /\ exit' = exit
    BY <1>8 DEF DeadCodePass, Go
  <2>2. ~s'.reported /\ s'.ice = s.ice
    BY <2>1 DEF Reports, Errors, Known
  <2> QED BY <1>2, <1>3, <2>1, <2>2, Going DEF Passes
<1>9. CASE ClosurePass
  <2>1. pass = "closures" /\ ((pass' = "done" /\ exit' # <<>>) \/ (pass' = "outputs" /\ exit' = exit))
    BY <1>9, ExitEnds DEF ClosurePass, Go
  <2>2. ~s'.reported /\ s'.ice = s.ice
    BY <2>1 DEF Reports, Errors, Known
  <2>3. CASE pass' = "done" /\ exit' # <<>>
    BY <1>2, <1>3, <2>1, <2>2, <2>3, Ending DEF Passes, Ends
  <2>4. CASE pass' = "outputs" /\ exit' = exit
    BY <1>2, <1>3, <2>1, <2>2, <2>4, Going DEF Passes
  <2> QED BY <2>1, <2>3, <2>4
<1>10. CASE Outputs \/ Generate \/ TestCompiled
  <2>1. /\ pass \in {"outputs", "generate", "test"} /\ s' = s
        /\ \/ pass' \in {"no output", "done", "panic"} /\ exit' # <<>>
           \/ pass' \in {"generate", "test"} /\ exit' = exit
    <3>1. CASE Outputs
      BY <3>1, ExitEnds DEF Outputs, Go
    <3>2. CASE Generate
      BY <3>2, ExitEnds DEF Generate, Go
    <3>3. CASE TestCompiled
      BY <3>3, ExitEnds DEF TestCompiled
    <3> QED BY <1>10, <3>1, <3>2, <3>3
  <2>2. ~s'.reported /\ s'.ice = ""
    BY <1>3, <2>1 DEF Errors, Known, Passes
  <2>3. CASE pass' \in {"no output", "done", "panic"} /\ exit' # <<>>
    BY <1>2, <2>2, <2>3, Ending DEF Ends
  <2>4. CASE pass' \in {"generate", "test"} /\ exit' = exit
    BY <1>2, <1>3, <2>1, <2>2, <2>4, Going DEF Passes
  <2> QED BY <2>1, <2>3, <2>4
<1> QED BY <1>4, <1>5, <1>6, <1>7, <1>8, <1>9, <1>10 DEF OtherPass

\* The ordering goes on, or ends with the order, an error or a panic.
LEMMA OrderInv == Inv /\ (OrderGlobals \/ OrderStep \/ OrderEnd) => Inv'
<1> SUFFICES ASSUME Inv, OrderGlobals \/ OrderStep \/ OrderEnd PROVE Inv'
  OBVIOUS
<1>1. pass \in {"order", "ordering"} /\ exit = <<>> /\ s.ice = "" /\ (s.err => s.reported)
  BY DEF OrderGlobals, OrderStep, OrderEnd, Inv, Errors, TypeOK, StopsAtErrors, Known, Passes
<1>2. CASE OrderGlobals
  <2>1. pass' = "ordering" /\ exit' = exit /\ Sortable(s) /\ SortGlobals
    BY <1>2 DEF OrderGlobals, Go, Inv, Ordering
  <2>2. Searching(s', search') /\ s'.err = s.err /\ s'.reported = s.reported /\ s'.ice = s.ice
    BY <2>1, OrderGlobalsKeeps
  <2>3. Errors'
    BY <1>1, <2>1, <2>2, Going DEF Passes
  <2> QED BY <2>1, <2>2, <2>3 DEF Inv, Ordering, InOrder
<1>3. CASE OrderStep
  <2>1. Searching(s, search) /\ SortStep /\ IF s'.ice # "" THEN Exit("panic", 101) ELSE Go("ordering")
    BY <1>3 DEF OrderStep, Inv, Ordering
  <2>2. s'.err = s.err /\ (s.reported => s'.reported) /\ s'.ice \in {s.ice, "stack overflow"}
    BY <2>1, SortStepErrors
  <2>3. CASE s'.ice # ""
    <3>1. pass' = "panic" /\ exit' # <<>>
      BY <2>1, <2>3, ExitEnds
    <3>2. Errors'
      BY <1>1, <2>2, <3>1, Ending DEF Ends
    <3> QED BY <3>1, <3>2 DEF Inv, Ordering, InOrder
  <2>4. CASE s'.ice = ""
    <3>1. pass' = "ordering" /\ exit' = exit /\ Searching(s', search')
      BY <2>1, <2>4, SortStepKeeps DEF Go
    <3>2. Errors'
      BY <1>1, <2>2, <2>4, <3>1, Going DEF Passes
    <3> QED BY <3>1, <3>2 DEF Inv, Ordering, InOrder
  <2> QED BY <2>3, <2>4
<1>4. CASE OrderEnd
  <2> DEFINE t == PutBack
             failed == t.reported
  <2>1. Searching(s, search) /\ Sorted /\ search.left = {} /\ Pass(t, failed, 3, "signatures")
    BY <1>4 DEF OrderEnd, Inv, Ordering
  <2>2. /\ t.err = s.err /\ t.reported = s.reported /\ t.ice = s.ice
        /\ ~t.reported => \A list \in {""} \cup DOMAIN t.classes : InOrderIn(t, list)
    BY <2>1, OrderEndsInOrder
  <2>3. failed <=> t.reported
    BY <1>1, <2>1
  <2> HIDE DEF t, failed
  <2>4. /\ s' = t
        /\ \/ pass' = "panic"
           \/ pass' = "failed"
           \/ ~failed /\ pass' = "signatures"
    BY <2>1, PassEnds
  <2>5. Errors'
    <3>1. (t.err => t.reported) /\ (failed => t.reported) /\ (failed \/ ~t.reported \/ "signatures" = "order")
      BY <1>1, <2>2, <2>3
    <3>2. "signatures" \in Passes \ {"check"}
      BY DEF Passes
    <3> QED BY <1>1, <2>1, <3>1, <3>2, PassInv, Zenon
  <2>6. InOrder'
    BY <2>2, <2>3, <2>4 DEF InOrder
  <2> QED BY <2>4, <2>5, <2>6 DEF Inv, Ordering
<1> QED BY <1>2, <1>3, <1>4

\* Where the other passes lead
LEMMA OtherPassLeads ==
    OtherPass => pass' \notin {"ordering", "signatures"} /\ (pass' = "order" => pass = "bind")
<1> SUFFICES ASSUME OtherPass PROVE pass' \notin {"ordering", "signatures"} /\ (pass' = "order" => pass = "bind")
  OBVIOUS
<1>1. CASE BindPass
  <2> DEFINE t == DoBind(s)
             failed == t.err
  <2>1. Pass(t, failed, 2, "order") /\ pass = "bind"
    BY <1>1 DEF BindPass
  <2> HIDE DEF t, failed
  <2>2. pass' \in {"panic", "failed", "order"}
    BY <2>1, PassEnds
  <2> QED BY <2>1, <2>2
<1>2. CASE Signatures \/ CheckPass \/ DeadCodePass \/ ClosurePass
  <2>1. pass' \in {"check", "panic", "closures", "done", "outputs"}
    BY <1>2, ExitEnds DEF Signatures, CheckPass, DeadCodePass, ClosurePass, Go
  <2> QED BY <2>1
<1>3. CASE Checked
  <2> DEFINE bound == IF BindsAll(input.bind) THEN s ELSE [s EXCEPT !.reported = TRUE]
             failed == bound.reported
  <2>1. ReportErrors(4) \/ Exit("done", 0) \/ Pass(bound, failed, 4, "dead code")
    BY <1>3 DEF Checked
  <2> HIDE DEF bound, failed
  <2>2. pass' \in {"failed", "done", "panic", "dead code"}
    <3>1. CASE ReportErrors(4)
      BY <3>1, ReportEnds
    <3>2. CASE Exit("done", 0)
      BY <3>2, ExitEnds
    <3>3. CASE Pass(bound, failed, 4, "dead code")
      BY <3>3, PassEnds
    <3> QED BY <2>1, <3>1, <3>2, <3>3
  <2> QED BY <2>2
<1>4. CASE Outputs \/ Generate \/ TestCompiled
  <2>1. pass' \in {"no output", "generate", "test", "done", "panic"}
    BY <1>4, ExitEnds DEF Outputs, Generate, TestCompiled, Go
  <2> QED BY <2>1
<1> QED BY <1>1, <1>2, <1>3, <1>4 DEF OtherPass

\* Each step keeps Inv, as long as it reports.
LEMMA NextInv == Inv /\ [Next]_vars /\ [Reports]_vars => Inv'
<1> SUFFICES ASSUME Inv, [Next]_vars, [Reports]_vars PROVE Inv'
  OBVIOUS
<1>1. CASE UNCHANGED vars
  BY <1>1 DEF vars, Inv, Errors, Ordering, InOrder, TypeOK, StopsAtErrors, Known
<1>2. CASE OrderGlobals \/ OrderStep \/ OrderEnd
  BY <1>2, OrderInv
<1>3. CASE OtherPass /\ vars' # vars
  <2>1. Reports
    BY <1>3
  <2>2. Errors'
    BY <1>3, <2>1, OtherErrors DEF Inv
  <2>3. pass' \notin {"ordering", "signatures"} /\ (pass' = "order" => pass = "bind")
    BY <1>3, OtherPassLeads
  <2> QED BY <2>1, <2>2, <2>3 DEF Inv, Ordering, InOrder, Reports
<1> QED BY <1>1, <1>2, <1>3 DEF Next

-----------------------------------------------------------------------------

\* Inv, for passes that report.
LEMMA DriverInv == Spec /\ PassesReport => []Inv
  BY InitInv, NextInv, PTL DEF Spec, PassesReport

(***************************************************************************)
(* With passes that report as PassesReport says, no code is generated for  *)
(* a program with an error, main does not return 0 for one, and it returns *)
(* the number of a pass only with an error written down; and no pass runs  *)
(* on what a panic left behind (the checks of had_error and of db.errors   *)
(* in main).                                                               *)
(***************************************************************************)
THEOREM DriverStops == Spec /\ PassesReport => []StopsAtErrors
<1>1. Inv => StopsAtErrors
  BY DEF Inv, Errors
<1> QED BY <1>1, DriverInv, PTL

(***************************************************************************)
(* After the ordering, with no error written down, the globals and the     *)
(* variables of each class are all there, and each one comes after those   *)
(* of its list that its initializer may read: itself, in the functions     *)
(* that it names, or in the initializers of the classes that it            *)
(* constructs, however deep (topological_sort of init_ordering.rs, and     *)
(* main, which takes the lists out of the database and puts them back).    *)
(* It holds of every program that the binder leaves as Sortable says.      *)
(***************************************************************************)
THEOREM VariablesInOrder == Spec /\ PassesReport => []InOrder
<1>1. Inv => InOrder
  BY DEF Inv, Ordering
<1> QED BY <1>1, DriverInv, PTL
=============================================================================
