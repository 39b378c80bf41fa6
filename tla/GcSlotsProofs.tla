---------------------------- MODULE GcSlotsProofs ----------------------------
EXTENDS GcSlots, TLAPS, WellFoundedInduction

(* A set of slots that is not empty has a last one.                        *)
LEMMA LargestExists ==
    ASSUME NEW A \in SUBSET Slot, A # {}
    PROVE  \E s \in A : \A t \in A : t <= s
<1> DEFINE D == {MaxSlots - s : s \in A}
<1>1. D \subseteq Nat /\ D # {}
  <2>1. \A s \in A : s \in Nat /\ s < MaxSlots
    BY SlotsAssumption DEF Slot
  <2>2. \A s \in A : MaxSlots - s \in Nat
    BY <2>1, SlotsAssumption
  <2>3. D \subseteq Nat
    BY <2>2
  <2>4. PICK s \in A : TRUE
    OBVIOUS
  <2>5. MaxSlots - s \in D
    BY <2>4
  <2> QED BY <2>3, <2>5
<1> HIDE DEF D
<1>2. PICK d \in D : \A e \in D : ~(<<e, d>> \in OpToRel(<, Nat))
  BY <1>1, WFMin, NatLessThanWellFounded
<1>3. \A e \in D : ~(e < d)
  BY <1>1, <1>2 DEF OpToRel
<1>4. PICK s \in A : d = MaxSlots - s
  BY DEF D
<1>5. ASSUME NEW t \in A PROVE t <= s
  <2>1. MaxSlots - t \in D
    BY DEF D
  <2>2. ~(MaxSlots - t < MaxSlots - s)
    BY <1>3, <1>4, <2>1
  <2> QED BY <2>2, SlotsAssumption DEF Slot
<1> QED BY <1>5

(* The slot allocate_slot hands out: an available one, or the next.        *)
LEMMA NewSlotIsFree ==
    ASSUME NEW f \in FrameType, Room(f)
    PROVE  /\ NewSlot(f) \in Slot
           /\ f.avail # {} => NewSlot(f) \in f.avail
           /\ f.avail = {} => NewSlot(f) = f.next
<1>1. f.avail \in SUBSET Slot /\ f.next \in 0 .. MaxSlots
  BY DEF FrameType
<1>2. CASE f.avail = {}
  BY <1>1, <1>2, SlotsAssumption DEF NewSlot, Room, Slot
<1>3. CASE f.avail # {}
  <2>1. \E s \in f.avail : \A t \in f.avail : t <= s
    BY <1>1, <1>3, LargestExists
  <2> QED BY <1>1, <1>3, <2>1 DEF NewSlot
<1> QED BY <1>2, <1>3

-----------------------------------------------------------------------------
(* GCFrame                                                                 *)

HeldType == [Vals -> Slot \cup {NONE}]

(* allocate_slot makes a frame of a frame.                                 *)
LEMMA AllocatedType ==
    ASSUME NEW f \in FrameType, NEW v \in Vals, Room(f)
    PROVE  Allocated(f, v) \in FrameType
<1>1. NewSlot(f) \in Slot /\ (f.avail = {} => NewSlot(f) = f.next)
  BY NewSlotIsFree
<1>2. f.avail = {} => f.next + 1 \in 0 .. MaxSlots
  BY <1>1, SlotsAssumption DEF FrameType, Slot
<1> QED BY <1>1, <1>2 DEF Allocated, FrameType

(* free_slots makes a frame of a frame.                                    *)
LEMMA FreedType ==
    ASSUME NEW f \in FrameType, NEW S \in SUBSET Slot
    PROVE  Freed(f, S) \in FrameType
BY DEF Freed, FrameType

(* allocate_slot, in a debug build: the new slot is nobody's, has not been *)
(* written, and the frame still agrees with who holds what.                *)
LEMMA AllocatedExact ==
    ASSUME DebugAssertions,
           NEW f \in FrameType, NEW h \in HeldType, NEW v \in Vals,
           FrameExact(f, h), Room(f), h[v] = NONE
    PROVE  /\ FrameExact(Allocated(f, v), [h EXCEPT ![v] = NewSlot(f)])
           /\ f.saved[NewSlot(f)] = NONE
           /\ NewSlot(f) \notin f.written
<1> DEFINE s == NewSlot(f)
           g == Allocated(f, v)
           k == [h EXCEPT ![v] = s]
<1>1. s \in Slot /\ (f.avail # {} => s \in f.avail) /\ (f.avail = {} => s = f.next)
  BY NewSlotIsFree
<1>2. f.saved[s] = NONE
  BY <1>1, SlotsAssumption DEF FrameExact, FrameType, Slot
<1>3. s \notin f.written
  BY <1>2 DEF FrameExact
<1>4. /\ g.saved = [f.saved EXCEPT ![s] = v] /\ g.avail = f.avail \ {s}
      /\ g.written = f.written /\ g.next = IF f.avail = {} THEN f.next + 1 ELSE f.next
  BY DEF Allocated, FrameType
<1>5. f.saved \in [Slot -> Vals \cup {NONE}] /\ f.next \in Nat /\ f.written \subseteq Slot
  BY SlotsAssumption DEF FrameType
<1>6. ASSUME NEW w \in Vals, k[w] # NONE PROVE g.saved[k[w]] = w
  <2>1. CASE w = v
    BY <1>1, <1>4, <1>5, <2>1 DEF HeldType
  <2>2. CASE w # v
    <3>1. k[w] = h[w] /\ h[w] \in Slot /\ f.saved[h[w]] = w
      BY <1>6, <2>2 DEF HeldType, FrameExact
    <3>2. h[w] # s
      BY <3>1, <1>2, SlotsAssumption
    <3> QED BY <3>1, <3>2, <1>4, <1>5
  <2> QED BY <2>1, <2>2
<1>7. ASSUME NEW t \in Slot, g.saved[t] # NONE PROVE k[g.saved[t]] = t
  <2>1. CASE t = s
    BY <1>1, <1>4, <1>5, <2>1 DEF HeldType
  <2>2. CASE t # s
    <3>1. g.saved[t] = f.saved[t] /\ f.saved[t] \in Vals /\ h[f.saved[t]] = t
      BY <1>4, <1>5, <1>7, <2>2 DEF FrameExact
    <3>2. f.saved[t] # v
      BY <3>1, SlotsAssumption DEF Slot
    <3> QED BY <3>1, <3>2 DEF HeldType
  <2> QED BY <2>1, <2>2
<1>8. g.avail = {t \in Slot : t < g.next /\ g.saved[t] = NONE}
  <2>1. CASE f.avail = {}
    <3>1. \A t \in Slot : ~(t < f.next /\ f.saved[t] = NONE)
      BY <2>1 DEF FrameExact
    <3>2. s = f.next /\ g.next = f.next + 1 /\ g.avail = {}
      BY <1>1, <1>4, <2>1
    <3>3. \A t \in Slot : t < f.next + 1 => t < f.next \/ t = f.next
      BY <1>5, SlotsAssumption DEF Slot
    <3> QED BY <3>1, <3>2, <3>3, <1>4, <1>5, SlotsAssumption
  <2>2. CASE f.avail # {}
    BY <1>1, <1>4, <1>5, <2>2, SlotsAssumption DEF FrameExact
  <2> QED BY <2>1, <2>2
<1>9. \A t \in Slot : g.saved[t] # NONE => t < g.next
  <2>1. s < g.next
    BY <1>1, <1>4, <1>5, SlotsAssumption DEF FrameExact, Slot
  <2>2. \A t \in Slot : f.saved[t] # NONE => t < g.next
    BY <1>4, <1>5, SlotsAssumption DEF FrameExact, Slot
  <2> QED BY <2>1, <2>2, <1>4, <1>5
<1>10. \A t \in g.written : g.saved[t] # NONE
  BY <1>4, <1>5, SlotsAssumption DEF FrameExact
<1> HIDE DEF g, k, s
<1>11. FrameExact(g, k)
  BY <1>6, <1>7, <1>8, <1>9, <1>10 DEF FrameExact
<1> QED BY <1>2, <1>3, <1>11 DEF g, k, s

(* free_slots, in a debug build: when the slots of V are freed and V holds *)
(* none any more, the frame agrees with who holds what.                    *)
LEMMA FreedExact ==
    ASSUME DebugAssertions,
           NEW f \in FrameType, NEW h \in HeldType, NEW V \in SUBSET Vals,
           FrameExact(f, h), \A v \in V : h[v] # NONE
    PROVE  FrameExact(Freed(f, {h[v] : v \in V}), [v \in Vals |-> IF v \in V THEN NONE ELSE h[v]])
<1> DEFINE S == {h[v] : v \in V}
           g == Freed(f, S)
           k == [v \in Vals |-> IF v \in V THEN NONE ELSE h[v]]
<1>1. f.saved \in [Slot -> Vals \cup {NONE}] /\ f.next \in Nat /\ f.written \subseteq Slot
  BY SlotsAssumption DEF FrameType
<1>2. /\ g.saved = [s \in Slot |-> IF s \in S THEN NONE ELSE f.saved[s]] /\ g.avail = f.avail \cup S
      /\ g.written = f.written \ S /\ g.next = f.next
  BY DEF Freed, FrameType
<1>3. \A v \in V : h[v] \in Slot /\ f.saved[h[v]] = v
  BY DEF HeldType, FrameExact
<1>4. \A w \in Vals \ V : h[w] # NONE => h[w] \notin S
  BY <1>3 DEF FrameExact
<1>5. ASSUME NEW w \in Vals, k[w] # NONE PROVE g.saved[k[w]] = w
  <2>1. w \notin V /\ k[w] = h[w] /\ h[w] \in Slot
    BY <1>5 DEF HeldType
  <2>2. h[w] \notin S /\ f.saved[h[w]] = w
    BY <2>1, <1>4, <1>5 DEF FrameExact
  <2> HIDE DEF S, k
  <2> QED BY <2>1, <2>2, <1>2
<1>6. ASSUME NEW t \in Slot, g.saved[t] # NONE PROVE k[g.saved[t]] = t
  <2>1. t \notin S /\ g.saved[t] = f.saved[t] /\ f.saved[t] \in Vals
    BY <1>1, <1>2, <1>6
  <2>2. h[f.saved[t]] = t
    BY <2>1, <1>6 DEF FrameExact
  <2>3. f.saved[t] \notin V
    BY <2>1, <2>2
  <2> QED BY <2>1, <2>2, <2>3
<1>7. g.avail = {t \in Slot : t < g.next /\ g.saved[t] = NONE}
  <2>1. \A s \in S : s \in Slot /\ s < f.next
    BY <1>3, SlotsAssumption DEF FrameExact
  <2> QED BY <2>1, <1>2 DEF FrameExact
<1>8. \A t \in Slot : g.saved[t] # NONE => t < g.next
  BY <1>2 DEF FrameExact
<1>9. \A t \in g.written : g.saved[t] # NONE
  BY <1>1, <1>2 DEF FrameExact
<1> HIDE DEF g, k, S
<1>10. FrameExact(g, k)
  BY <1>5, <1>6, <1>7, <1>8, <1>9 DEF FrameExact
<1> QED BY <1>10 DEF g, k, S

-----------------------------------------------------------------------------
(* The stack of blocks                                                     *)

(* Another block in place of the innermost.                                *)
LEMMA TopReplaced ==
    ASSUME NEW bs \in Seq(BlockType), Len(bs) \in Nat \ {0}, NEW b \in BlockType
    PROVE  LET cs == [bs EXCEPT ![Len(bs)] = b]
           IN  /\ cs \in Seq(BlockType) /\ Len(cs) = Len(bs)
               /\ cs[Len(bs)] = b
               /\ \A d \in 1 .. Len(bs) - 1 : cs[d] = bs[d]
OBVIOUS

(* One more block.                                                         *)
LEMMA BlockPushed ==
    ASSUME NEW bs \in Seq(BlockType), NEW b \in BlockType
    PROVE  LET cs == Append(bs, b)
           IN  /\ cs \in Seq(BlockType) /\ Len(cs) = Len(bs) + 1
               /\ cs[Len(bs) + 1] = b
               /\ \A d \in 1 .. Len(bs) : cs[d] = bs[d]
OBVIOUS

(* One block less, and the values it leaves to the enclosing one.          *)
LEMMA BlockPopped ==
    ASSUME NEW bs \in Seq(BlockType), Len(bs) > 1, NEW V \in SUBSET Vals
    PROVE  LET n == Len(bs) - 1
               cs == [SubSeq(bs, 1, n) EXCEPT ![n].temps = @ \cup V]
           IN  /\ cs \in Seq(BlockType) /\ Len(cs) = n /\ n >= 1
               /\ cs[n] = [bs[n] EXCEPT !.temps = @ \cup V]
               /\ \A d \in 1 .. n - 1 : cs[d] = bs[d]
<1> DEFINE n == Len(bs) - 1
           ss == SubSeq(bs, 1, n)
<1>1. n \in Nat /\ n >= 1 /\ n < Len(bs)
  OBVIOUS
<1>2. ss \in Seq(BlockType) /\ Len(ss) = n /\ \A d \in 1 .. n : ss[d] = bs[d]
  BY <1>1
<1>3. bs[n] \in BlockType
  BY <1>1
<1> DEFINE b == [bs[n] EXCEPT !.temps = @ \cup V]
<1>4. b \in BlockType
  BY <1>3 DEF BlockType
<1> HIDE DEF ss, n, b
<1>5. [ss EXCEPT ![n] = b] \in Seq(BlockType) /\ Len([ss EXCEPT ![n] = b]) = n
      /\ [ss EXCEPT ![n] = b][n] = b /\ \A d \in 1 .. n - 1 : [ss EXCEPT ![n] = b][d] = bs[d]
  BY <1>1, <1>2, <1>4
<1>6. [ss EXCEPT ![n].temps = @ \cup V] = [ss EXCEPT ![n] = b]
  <2>1. ss[n] = bs[n]
    BY <1>1, <1>2
  <2>2. [ss[n] EXCEPT !.temps = @ \cup V] = b
    BY <2>1 DEF b
  <2> QED BY <2>2
<1> QED BY <1>1, <1>5, <1>6 DEF ss, n, b

-----------------------------------------------------------------------------
(* Who holds slots: the variables and TypedVals of the open blocks, each   *)
(* of them in one place, while the value of an `if` or block still waits   *)
(* for its slot.                                                           *)

Holders(b) == b.vars \cup b.temps \cup ({b.kept} \ {NONE})
BodyFirst == blocks[1].part = "body"
HoldersHold == \A d \in 1 .. Depth : \A v \in Holders(blocks[d]) : held[v] # NONE
HoldersApart == \A d, e \in 1 .. Depth : d # e => Holders(blocks[d]) \cap Holders(blocks[e]) = {}
ApartWithin(b) == /\ b.vars \cap b.temps = {}
                  /\ b.kept \notin b.vars \cup b.temps
HoldersOnce == \A d \in 1 .. Depth : ApartWithin(blocks[d])
OwnsWait == \A d \in 1 .. Depth :
               LET own == blocks[d].own
               IN  own # NONE => d > 1 /\ held[own] = NONE /\ scope[own] = d - 1

Structure == TypeOK /\ BodyFirst /\ HoldersHold /\ HoldersApart /\ HoldersOnce /\ OwnsWait

(* What the steps below need to know of a state, in one place.             *)
LEMMA StructureFacts ==
    ASSUME Structure
    PROVE  /\ Depth \in Nat \ {0} /\ Depth \in 1 .. Depth
           /\ Top \in BlockType
           /\ \A d \in 1 .. Depth : blocks[d] \in BlockType
           /\ \A v \in Vals : held[v] \in Slot \cup {NONE}
           /\ {held[v] : v \in Top.vars} \in SUBSET Slot
           /\ \A v \in Top.vars \cup Top.temps : held[v] \in Slot
           /\ Top.kept # NONE => held[Top.kept] \in Slot
           /\ ScopePopped \in FrameType
           /\ NONE \notin Slot
<1>1. Depth \in Nat \ {0} /\ Depth \in 1 .. Depth /\ \A d \in 1 .. Depth : blocks[d] \in BlockType
  BY SlotsAssumption DEF Structure, TypeOK, Depth
<1>2. Top \in BlockType
  BY <1>1 DEF Top
<1>3. \A v \in Vals : held[v] \in Slot \cup {NONE}
  BY DEF Structure, TypeOK
<1>4. \A v \in Holders(Top) : held[v] # NONE
  BY <1>1 DEF Structure, HoldersHold, Top
<1>5. Top.vars \subseteq Vals /\ Top.temps \subseteq Vals /\ Top.kept \in Vals \cup {NONE}
  BY <1>2 DEF BlockType
<1>6. /\ \A v \in Top.vars \cup Top.temps : held[v] \in Slot
      /\ Top.kept # NONE => held[Top.kept] \in Slot
  BY <1>3, <1>4, <1>5 DEF Holders
<1>7. {held[v] : v \in Top.vars} \in SUBSET Slot
  BY <1>6
<1>8. ScopePopped \in FrameType
  BY <1>7, FreedType DEF ScopePopped, Structure, TypeOK
<1>9. NONE \notin Slot
  BY SlotsAssumption DEF Slot
<1> QED BY <1>1, <1>2, <1>3, <1>6, <1>7, <1>8, <1>9

(* A name that gets a new value leaves the slots typed.                    *)
LEMMA RenewedType ==
    ASSUME NEW v \in Vals, ptrs \in [Slot -> Vals \cup {NONE}]
    PROVE  Renewed(v) \in [Slot -> Vals \cup {NONE}]
BY DEF Renewed

(* What the outer blocks hold, the innermost does not.                     *)
LEMMA BelowTop ==
    ASSUME Structure
    PROVE  \A d \in 1 .. Depth - 1 : /\ d \in 1 .. Depth /\ d # Depth
                                     /\ \A w \in Holders(blocks[d]) :
                                           w \in Vals /\ held[w] # NONE /\ w \notin Holders(Top)
<1> USE StructureFacts
<1> SUFFICES ASSUME NEW d \in 1 .. Depth - 1
             PROVE  /\ d \in 1 .. Depth /\ d # Depth
                    /\ \A w \in Holders(blocks[d]) :
                          w \in Vals /\ held[w] # NONE /\ w \notin Holders(Top)
  OBVIOUS
<1>1. d \in 1 .. Depth /\ d # Depth
  OBVIOUS
<1>2. \A w \in Holders(blocks[d]) : w \in Vals /\ held[w] # NONE
  BY <1>1 DEF Structure, HoldersHold, Holders, BlockType
<1>3. Holders(blocks[d]) \cap Holders(blocks[Depth]) = {}
  BY <1>1 DEF Structure, HoldersApart
<1> QED BY <1>1, <1>2, <1>3 DEF Top

(* Steps that change the innermost block, whose new holders had no slot.   *)
LEMMA TopStructure ==
    ASSUME Structure, NEW b \in BlockType, blocks' = [blocks EXCEPT ![Len(blocks)] = b],
           Top.part = "body" => b.part = "body", b.own = Top.own, ApartWithin(b),
           \A w \in Holders(b) : w \in Holders(Top) \/ held[w] = NONE,
           \A w \in Holders(b) : held'[w] # NONE,
           \A w \in Vals \ Holders(Top) : held[w] # NONE => held'[w] # NONE,
           \A d \in 1 .. Depth : LET own == blocks[d].own
                                 IN  own # NONE => held'[own] = NONE /\ scope'[own] = scope[own]
    PROVE  /\ blocks' \in Seq(BlockType) /\ Depth' = Depth
           /\ BodyFirst' /\ HoldersHold' /\ HoldersApart' /\ HoldersOnce' /\ OwnsWait'
<1> USE StructureFacts
<1>1. /\ blocks' \in Seq(BlockType) /\ Depth' = Depth /\ blocks'[Depth] = b
      /\ \A d \in 1 .. Depth - 1 : blocks'[d] = blocks[d]
  BY TopReplaced DEF Structure, TypeOK, Depth
<1>2. \A d \in 1 .. Depth : d = Depth \/ d \in 1 .. Depth - 1
  OBVIOUS
<1>3. BodyFirst'
  BY <1>1, <1>2 DEF Structure, BodyFirst, Top
<1>4. HoldersHold'
  <2>1. ASSUME NEW d \in 1 .. Depth - 1, NEW w \in Holders(blocks[d]) PROVE held'[w] # NONE
    BY BelowTop
  <2> QED BY <2>1, <1>1, <1>2 DEF HoldersHold
<1>5. HoldersApart'
  <2>1. ASSUME NEW d \in 1 .. Depth - 1 PROVE Holders(blocks[d]) \cap Holders(b) = {}
    BY BelowTop
  <2>2. ASSUME NEW d \in 1 .. Depth, NEW e \in 1 .. Depth, d # e
        PROVE  Holders(blocks'[d]) \cap Holders(blocks'[e]) = {}
    <3>1. CASE d = Depth
      BY <3>1, <2>1, <2>2, <1>1, <1>2
    <3>2. CASE e = Depth
      BY <3>2, <2>1, <2>2, <1>1, <1>2
    <3>3. CASE d # Depth /\ e # Depth
      BY <3>3, <2>2, <1>1, <1>2 DEF Structure, HoldersApart
    <3> QED BY <3>1, <3>2, <3>3
  <2> QED BY <2>2, <1>1 DEF HoldersApart
<1>6. HoldersOnce'
  BY <1>1, <1>2 DEF Structure, HoldersOnce
<1>7. OwnsWait'
  <2>1. \A d \in 1 .. Depth : blocks'[d].own = blocks[d].own
    BY <1>1, <1>2 DEF Top
  <2> QED BY <2>1, <1>1 DEF Structure, OwnsWait
<1> QED BY <1>1, <1>3, <1>4, <1>5, <1>6, <1>7

(* Steps that open a block.                                                *)
LEMMA PushStructure ==
    ASSUME Structure, NEW b \in BlockType, blocks' = Append(blocks, b),
           b.vars = {}, b.temps = {}, b.kept = NONE, UNCHANGED held,
           b.own # NONE => held[b.own] = NONE /\ scope'[b.own] = Depth,
           \A d \in 1 .. Depth :
               blocks[d].own # NONE => scope'[blocks[d].own] = scope[blocks[d].own]
    PROVE  /\ blocks' \in Seq(BlockType) /\ Depth' = Depth + 1
           /\ BodyFirst' /\ HoldersHold' /\ HoldersApart' /\ HoldersOnce' /\ OwnsWait'
<1> USE StructureFacts
<1>1. /\ blocks' \in Seq(BlockType) /\ Depth' = Depth + 1 /\ blocks'[Depth + 1] = b
      /\ \A d \in 1 .. Depth : blocks'[d] = blocks[d]
  BY BlockPushed DEF Structure, TypeOK, Depth
<1>2. \A d \in 1 .. Depth + 1 : d = Depth + 1 \/ d \in 1 .. Depth
  OBVIOUS
<1>3. Holders(b) = {}
  BY DEF Holders
<1>4. BodyFirst'
  BY <1>1 DEF Structure, BodyFirst
<1>5. HoldersHold'
  BY <1>1, <1>2, <1>3 DEF Structure, HoldersHold
<1>6. HoldersApart'
  <2>1. ASSUME NEW d \in 1 .. Depth + 1, NEW e \in 1 .. Depth + 1, d # e
        PROVE  Holders(blocks'[d]) \cap Holders(blocks'[e]) = {}
    <3>1. CASE d = Depth + 1 \/ e = Depth + 1
      BY <3>1, <1>1, <1>3
    <3>2. CASE d # Depth + 1 /\ e # Depth + 1
      BY <3>2, <2>1, <1>1, <1>2 DEF Structure, HoldersApart
    <3> QED BY <3>1, <3>2
  <2> QED BY <2>1, <1>1 DEF HoldersApart
<1>7. HoldersOnce'
  <2>1. ApartWithin(b)
    BY DEF ApartWithin
  <2> QED BY <2>1, <1>1, <1>2 DEF Structure, HoldersOnce
<1>8. OwnsWait'
  <2>1. ASSUME NEW d \in 1 .. Depth + 1, blocks'[d].own # NONE
        PROVE  d > 1 /\ held[blocks'[d].own] = NONE /\ scope'[blocks'[d].own] = d - 1
    <3>1. CASE d = Depth + 1
      BY <3>1, <2>1, <1>1
    <3>2. CASE d \in 1 .. Depth
      BY <3>2, <2>1, <1>1 DEF Structure, OwnsWait
    <3> QED BY <3>1, <3>2, <1>2
  <2> QED BY <2>1, <1>1 DEF OwnsWait
<1> QED BY <1>1, <1>4, <1>5, <1>6, <1>7, <1>8

(* Steps that close a block and leave the values V to the enclosing one.   *)
LEMMA PopStructure ==
    ASSUME Structure, Depth > 1,
           NEW V \in SUBSET Vals,
           blocks' = [SubSeq(blocks, 1, Depth - 1) EXCEPT ![Depth - 1].temps = @ \cup V],
           \A w \in V : held[w] = NONE /\ held'[w] # NONE,
           \A w \in Vals \ Holders(Top) : held[w] # NONE => held'[w] # NONE,
           \A d \in 1 .. Depth - 1 : LET own == blocks[d].own
                                     IN  own # NONE => held'[own] = NONE /\ scope'[own] = scope[own]
    PROVE  /\ blocks' \in Seq(BlockType) /\ Depth' = Depth - 1
           /\ BodyFirst' /\ HoldersHold' /\ HoldersApart' /\ HoldersOnce' /\ OwnsWait'
<1> USE StructureFacts
<1> DEFINE n == Depth - 1
           b == [blocks[n] EXCEPT !.temps = @ \cup V]
<1>1. /\ blocks' \in Seq(BlockType) /\ Depth' = n /\ blocks'[n] = b
      /\ \A d \in 1 .. n - 1 : blocks'[d] = blocks[d]
  <2>1. blocks \in Seq(BlockType) /\ Depth = Len(blocks)
    BY DEF Structure, TypeOK, Depth
  <2>2. blocks' = [SubSeq(blocks, 1, Len(blocks) - 1) EXCEPT ![Len(blocks) - 1].temps = @ \cup V]
    BY <2>1
  <2>3. /\ blocks' \in Seq(BlockType) /\ Len(blocks') = Len(blocks) - 1
        /\ blocks'[Len(blocks) - 1] = [blocks[Len(blocks) - 1] EXCEPT !.temps = @ \cup V]
        /\ \A d \in 1 .. Len(blocks) - 1 - 1 : blocks'[d] = blocks[d]
    <3>1. Len(blocks) > 1
      BY <2>1
    <3> DEFINE cs == [SubSeq(blocks, 1, Len(blocks) - 1) EXCEPT ![Len(blocks) - 1].temps = @ \cup V]
    <3>2. /\ cs \in Seq(BlockType) /\ Len(cs) = Len(blocks) - 1
          /\ cs[Len(blocks) - 1] = [blocks[Len(blocks) - 1] EXCEPT !.temps = @ \cup V]
          /\ \A d \in 1 .. Len(blocks) - 1 - 1 : cs[d] = blocks[d]
      BY <2>1, <3>1, BlockPopped
    <3>3. blocks' = cs
      BY <2>2
    <3> HIDE DEF cs
    <3> QED BY <3>2, <3>3
  <2> QED BY <2>1, <2>3 DEF Depth
<1>2. n \in 1 .. Depth /\ n \in 1 .. n /\ n # Depth /\ blocks[n] \in BlockType
  OBVIOUS
<1>3. \A d \in 1 .. n : d = n \/ d \in 1 .. n - 1
  OBVIOUS
<1>4. Holders(b) = Holders(blocks[n]) \cup V /\ b.own = blocks[n].own /\ b.part = blocks[n].part
  BY <1>2 DEF Holders, BlockType
<1>5. ApartWithin(b)
  <2>1. \A w \in Holders(blocks[n]) : w \notin V
    BY <1>2 DEF Structure, HoldersHold
  <2>2. blocks[n].kept \notin V
    BY <2>1, <1>2, SlotsAssumption DEF Holders
  <2>3. blocks[n].vars \cap V = {}
    BY <2>1 DEF Holders
  <2> QED BY <2>2, <2>3, <1>2 DEF ApartWithin, Structure, HoldersOnce, BlockType
<1> HIDE DEF b
<1>6. BodyFirst'
  BY <1>1, <1>2, <1>3, <1>4 DEF Structure, BodyFirst
<1>7. ASSUME NEW d \in 1 .. n, NEW w \in Holders(blocks[d]) PROVE held[w] # NONE /\ held'[w] # NONE
  BY BelowTop
<1>8. HoldersHold'
  BY <1>1, <1>3, <1>4, <1>7 DEF HoldersHold
<1>9. HoldersApart'
  <2>1. \A d, e \in 1 .. n : d # e => Holders(blocks[d]) \cap Holders(blocks[e]) = {}
    <3>1. \A d \in 1 .. n : d \in 1 .. Depth
      OBVIOUS
    <3> QED BY <3>1 DEF Structure, HoldersApart
  <2>2. \A d \in 1 .. n : Holders(blocks[d]) \cap V = {}
    BY <1>7
  <2>3. ASSUME NEW d \in 1 .. n, NEW e \in 1 .. n, d # e
        PROVE  Holders(blocks'[d]) \cap Holders(blocks'[e]) = {}
    <3>1. CASE d = n
      BY <3>1, <2>1, <2>2, <2>3, <1>1, <1>3, <1>4
    <3>2. CASE e = n
      BY <3>2, <2>1, <2>2, <2>3, <1>1, <1>3, <1>4
    <3>3. CASE d # n /\ e # n
      BY <3>3, <2>1, <2>3, <1>1, <1>3
    <3> QED BY <3>1, <3>2, <3>3
  <2> QED BY <2>3, <1>1 DEF HoldersApart
<1>10. HoldersOnce'
  <2>1. \A d \in 1 .. n : d \in 1 .. Depth
    OBVIOUS
  <2> QED BY <2>1, <1>1, <1>3, <1>5 DEF Structure, HoldersOnce
<1>11. OwnsWait'
  <2>1. \A d \in 1 .. n : blocks'[d].own = blocks[d].own /\ d \in 1 .. Depth
    BY <1>1, <1>2, <1>3, <1>4
  <2> QED BY <2>1, <1>1 DEF Structure, OwnsWait
<1> QED BY <1>1, <1>6, <1>8, <1>9, <1>10, <1>11

(* The value an open block will leave has no slot yet, and its name is     *)
(* declared one block further out.                                         *)
LEMMA OwnFacts ==
    ASSUME Structure
    PROVE  \A d \in 1 .. Depth : LET own == blocks[d].own
                                 IN  own # NONE => /\ own \in Vals /\ held[own] = NONE /\ d > 1
                                                   /\ scope[own] = d - 1 /\ scope[own] # 0
                                                   /\ own \notin Holders(Top)
<1> USE StructureFacts
<1>1. \A w \in Holders(Top) : held[w] # NONE
  BY DEF Structure, HoldersHold, Top
<1> QED BY <1>1 DEF Structure, OwnsWait, BlockType

(* One lemma per action: it keeps the structure.                           *)

(* A new value or variable.                                                *)
LEMMA DefineStructure ==
    ASSUME Structure, NEW v \in Vals, NEW kind, Define(v, kind), calling' \in BOOLEAN
    PROVE  Structure'
<1> DEFINE b == IF kind = "var" THEN [Top EXCEPT !.vars = @ \cup {v}]
                                ELSE [Top EXCEPT !.temps = @ \cup {v}]
<1> USE StructureFacts
<1>1. b \in BlockType /\ b.own = Top.own /\ b.part = Top.part /\ Holders(b) = Holders(Top) \cup {v}
  BY DEF BlockType, Holders
<1>2. blocks' = [blocks EXCEPT ![Len(blocks)] = b]
  BY DEF Define, Depth
<1>3. NewSlot(frame) \in Slot /\ frame' \in FrameType
  BY NewSlotIsFree, AllocatedType DEF Define, Structure, TypeOK
<1>4. held[v] = NONE /\ scope[v] = 0 /\ v \notin Holders(Top)
  BY DEF Define, Fresh, Structure, HoldersHold, Top
<1>5. held' = [held EXCEPT ![v] = NewSlot(frame)] /\ scope' = [scope EXCEPT ![v] = Depth]
      /\ held \in [Vals -> Slot \cup {NONE}] /\ scope \in [Vals -> 0 .. MaxDepth]
  BY DEF Define, Structure, TypeOK
<1>6. ApartWithin(b)
  <2>1. v \notin Top.vars /\ v \notin Top.temps /\ v # Top.kept
    BY <1>4, SlotsAssumption DEF Holders
  <2> QED BY <2>1 DEF ApartWithin, Structure, HoldersOnce, Top, BlockType
<1>7. \A w \in Holders(b) : (w \in Holders(Top) \/ held[w] = NONE) /\ held'[w] # NONE
  <2>1. \A w \in Holders(Top) : w \in Vals /\ held[w] # NONE
    BY DEF Structure, HoldersHold, Top, Holders, BlockType
  <2>2. \A w \in Holders(Top) : w # v /\ held'[w] # NONE
    BY <2>1, <1>4, <1>5
  <2>3. held'[v] # NONE
    BY <1>3, <1>5
  <2> HIDE DEF b
  <2> QED BY <2>2, <2>3, <1>1, <1>4
<1>8. \A w \in Vals \ Holders(Top) : held[w] # NONE => held'[w] # NONE
  BY <1>4, <1>5
<1>9. \A d \in 1 .. Depth : LET own == blocks[d].own
                            IN  own # NONE => held'[own] = NONE /\ scope'[own] = scope[own]
  BY <1>4, <1>5, OwnFacts
<1> HIDE DEF b
<1>10. /\ blocks' \in Seq(BlockType) /\ Depth' = Depth
       /\ BodyFirst' /\ HoldersHold' /\ HoldersApart' /\ HoldersOnce' /\ OwnsWait'
  BY <1>1, <1>2, <1>6, <1>7, <1>8, <1>9, TopStructure
<1>11. TypeOK'
  <2>1. held' \in [Vals -> Slot \cup {NONE}] /\ scope' \in [Vals -> 0 .. MaxDepth]
    BY <1>3, <1>5 DEF Structure, TypeOK
  <2>2. ptrs' \in [Slot -> Vals \cup {NONE}] /\ stale' \subseteq Vals
    BY RenewedType DEF Define, Structure, TypeOK
  <2> QED BY <1>3, <1>10, <2>1, <2>2 DEF TypeOK, Structure
<1> QED BY <1>10, <1>11 DEF Structure

(* The end of a TypedVal.                                                  *)
LEMMA DropStructure ==
    ASSUME Structure, NEW v \in Vals, Drop(v)
    PROVE  Structure'
<1> DEFINE b == [Top EXCEPT !.temps = @ \ {v}]
<1> USE StructureFacts
<1>1. b \in BlockType /\ b.own = Top.own /\ b.part = Top.part
  BY DEF BlockType
<1>2. Holders(b) = Holders(Top) \ {v} /\ ApartWithin(b) /\ v \in Holders(Top)
  <2>1. v \in Top.temps /\ ApartWithin(Top)
    BY DEF Drop, Structure, HoldersOnce, Top
  <2> QED BY <2>1 DEF Holders, ApartWithin, BlockType
<1>3. blocks' = [blocks EXCEPT ![Len(blocks)] = b]
  BY DEF Drop, Depth
<1>4. held' = [held EXCEPT ![v] = NONE] /\ scope' = [scope EXCEPT ![v] = 0]
      /\ held \in [Vals -> Slot \cup {NONE}] /\ scope \in [Vals -> 0 .. MaxDepth]
  BY DEF Drop, Structure, TypeOK
<1>5. \A w \in Holders(b) : w \in Holders(Top) /\ held'[w] # NONE
  <2>1. \A w \in Holders(Top) : w \in Vals /\ held[w] # NONE
    BY DEF Structure, HoldersHold, Top, Holders, BlockType
  <2> QED BY <2>1, <1>2, <1>4
<1>6. \A w \in Vals \ Holders(Top) : held[w] # NONE => held'[w] # NONE
  BY <1>2, <1>4
<1>7. \A d \in 1 .. Depth : LET own == blocks[d].own
                            IN  own # NONE => held'[own] = NONE /\ scope'[own] = scope[own]
  BY <1>2, <1>4, OwnFacts
<1> HIDE DEF b
<1>8. /\ blocks' \in Seq(BlockType) /\ Depth' = Depth
      /\ BodyFirst' /\ HoldersHold' /\ HoldersApart' /\ HoldersOnce' /\ OwnsWait'
  BY <1>1, <1>2, <1>3, <1>5, <1>6, <1>7, TopStructure
<1>9. TypeOK'
  <2>1. held[v] \in Slot
    BY DEF Drop
  <2>2. frame' \in FrameType
    BY <2>1, FreedType DEF Drop, Structure, TypeOK
  <2>3. held' \in [Vals -> Slot \cup {NONE}] /\ scope' \in [Vals -> 0 .. MaxDepth]
    BY <1>4, SlotsAssumption
  <2>4. calling' \in BOOLEAN /\ ptrs' \in [Slot -> Vals \cup {NONE}] /\ stale' \subseteq Vals
    BY DEF Drop, Structure, TypeOK
  <2> QED BY <1>8, <2>2, <2>3, <2>4 DEF TypeOK, Structure
<1> QED BY <1>8, <1>9 DEF Structure

(* Steps that move no holder.                                              *)
LEMMA UnmovedStructure ==
    ASSUME Structure, UNCHANGED <<held, scope, blocks>>,
           frame' \in FrameType, calling' \in BOOLEAN,
           ptrs' \in [Slot -> Vals \cup {NONE}], stale' \subseteq Vals
    PROVE  Structure'
BY DEF Structure, TypeOK, BodyFirst, HoldersHold, HoldersApart, HoldersOnce, OwnsWait, Depth

(* An assignment.                                                          *)
LEMMA AssignStructure ==
    ASSUME Structure, NEW v \in Vals, Assign(v)
    PROVE  Structure'
<1>1. /\ UNCHANGED <<held, scope, blocks>> /\ frame' \in FrameType /\ calling' \in BOOLEAN
      /\ ptrs' \in [Slot -> Vals \cup {NONE}] /\ stale' \subseteq Vals
  BY RenewedType DEF Assign, Structure, TypeOK
<1> QED BY <1>1, UnmovedStructure

(* A call.                                                                 *)
LEMMA CallStructure ==
    ASSUME Structure, Call
    PROVE  Structure'
<1>1. frame.saved \in [Slot -> Vals \cup {NONE}] /\ frame.written \subseteq Slot
  BY DEF Structure, TypeOK, FrameType
<1>2. Unwritten(frame) \subseteq Slot /\ \A s \in Unwritten(frame) : frame.saved[s] \in Vals
  BY <1>1 DEF Unwritten
<1>3. frame' \in FrameType
  BY <1>2 DEF Call, Structure, TypeOK, FrameType
<1>4. ptrs' \in [Slot -> Vals \cup {NONE}] /\ stale' \subseteq Vals
  BY <1>1, <1>2 DEF Call, Structure, TypeOK
<1> QED BY <1>3, <1>4, UnmovedStructure DEF Call

(* The return from a call.                                                 *)
LEMMA ReturnStructure ==
    ASSUME Structure, NEW v \in Vals \cup {NONE}, Return(v)
    PROVE  Structure'
<1>1. CASE v = NONE
  BY <1>1, UnmovedStructure DEF Return, Structure, TypeOK
<1>2. CASE v # NONE
  BY <1>2, DefineStructure DEF Return
<1> QED BY <1>1, <1>2

(* The beginning of a branch or a block.                                   *)
LEMMA OpenStructure ==
    ASSUME Structure, NEW own \in Vals \cup {NONE}, NEW part \in {"then", "block"},
           NEW r \in BOOLEAN, NEW o \in BOOLEAN,
           Depth < MaxDepth, own # NONE => Fresh(own),
           scope' = [v \in Vals |-> IF v = own THEN Depth ELSE scope[v]],
           blocks' = Append(blocks, Block(part, r, o, own)),
           UNCHANGED <<frame, held, calling, ptrs, stale>>
    PROVE  Structure'
<1> DEFINE b == Block(part, r, o, own)
<1> USE StructureFacts
<1>1. b \in BlockType /\ b.vars = {} /\ b.temps = {} /\ b.kept = NONE /\ b.own = own
  BY DEF Block, BlockType
<1>2. scope \in [Vals -> 0 .. MaxDepth]
  BY DEF Structure, TypeOK
<1>3. own # NONE => held[own] = NONE /\ scope'[own] = Depth
  BY DEF Fresh
<1>4. \A d \in 1 .. Depth : blocks[d].own # NONE => scope'[blocks[d].own] = scope[blocks[d].own]
  BY OwnFacts DEF Fresh
<1> HIDE DEF b
<1>5. /\ blocks' \in Seq(BlockType) /\ Depth' = Depth + 1
      /\ BodyFirst' /\ HoldersHold' /\ HoldersApart' /\ HoldersOnce' /\ OwnsWait'
  BY <1>1, <1>3, <1>4, PushStructure DEF b
<1>6. TypeOK'
  <2>1. Depth + 1 \in 1 .. MaxDepth /\ Depth \in 0 .. MaxDepth
    BY SlotsAssumption
  <2>2. scope' \in [Vals -> 0 .. MaxDepth]
    BY <1>2, <2>1
  <2> QED BY <1>5, <2>1, <2>2 DEF Structure, TypeOK
<1> QED BY <1>5, <1>6 DEF Structure

(* The end of a branch or a block whose holders T give up their slots.     *)
LEMMA CloseStructure ==
    ASSUME Structure, Top.part # "body",
           NEW T \in SUBSET Holders(Top), held' \in HeldType,
           Top.own # NONE => held'[Top.own] # NONE,
           \A v \in Vals : v # Top.own => held'[v] = IF v \in T THEN NONE ELSE held[v],
           Closed(Top.own),
           frame' \in FrameType, calling' \in BOOLEAN,
           ptrs' \in [Slot -> Vals \cup {NONE}], stale' \subseteq Vals
    PROVE  Structure'
<1> DEFINE V == {Top.own} \ {NONE}
<1> USE StructureFacts
<1>1. Depth > 1
  BY DEF Structure, BodyFirst, Top
<1>2. V \in SUBSET Vals
  BY DEF BlockType
<1>3. Top.own # NONE => /\ Top.own \in Vals /\ held[Top.own] = NONE /\ scope[Top.own] = Depth - 1
                        /\ Top.own \notin Holders(Top)
  BY OwnFacts DEF Top
<1>4. \A w \in V : held[w] = NONE /\ held'[w] # NONE
  BY <1>3
<1>5. ASSUME NEW w \in Vals \ Holders(Top), held[w] # NONE PROVE held'[w] # NONE
  <2>1. w \notin T
    OBVIOUS
  <2>2. w # Top.own
    BY <1>3, <1>5, SlotsAssumption
  <2> QED BY <2>1, <2>2, <1>5
<1>6. scope' = [v \in Vals |-> IF scope[v] = Depth THEN 0 ELSE scope[v]]
  BY DEF Closed, BraceClosed
<1>7. ASSUME NEW d \in 1 .. Depth - 1, blocks[d].own # NONE
      PROVE  held'[blocks[d].own] = NONE /\ scope'[blocks[d].own] = scope[blocks[d].own]
  <2>1. /\ blocks[d].own \in Vals /\ held[blocks[d].own] = NONE /\ scope[blocks[d].own] = d - 1
        /\ blocks[d].own \notin Holders(Top)
    BY <1>7, OwnFacts
  <2>2. blocks[d].own # Top.own
    BY <2>1, <1>3, <1>7
  <2> QED BY <2>1, <2>2, <1>6
<1> HIDE DEF V
<1>8. blocks' = [SubSeq(blocks, 1, Depth - 1) EXCEPT ![Depth - 1].temps = @ \cup V]
  BY DEF Closed, V
<1>9. /\ blocks' \in Seq(BlockType) /\ Depth' = Depth - 1
      /\ BodyFirst' /\ HoldersHold' /\ HoldersApart' /\ HoldersOnce' /\ OwnsWait'
  BY <1>1, <1>2, <1>4, <1>5, <1>7, <1>8, PopStructure
<1>10. scope' \in [Vals -> 0 .. MaxDepth]
  BY <1>6, SlotsAssumption DEF Structure, TypeOK
<1>11. Depth' \in 1 .. MaxDepth
  BY <1>1, <1>9, SlotsAssumption DEF Structure, TypeOK
<1>12. TypeOK'
  BY <1>9, <1>10, <1>11 DEF TypeOK, HeldType
<1> QED BY <1>9, <1>12 DEF Structure

(* A slot for a value, if there is a value.                                *)
LEMMA GivenType ==
    ASSUME NEW f \in FrameType, NEW v \in Vals \cup {NONE}, v # NONE => Room(f)
    PROVE  /\ Given(f, v) \in FrameType
           /\ v # NONE => NewSlot(f) \in Slot
BY AllocatedType, NewSlotIsFree DEF Given

(* The end of a block.                                                     *)
LEMMA CloseBlockStructure ==
    ASSUME Structure, CloseBlock
    PROVE  Structure'
<1> USE StructureFacts
<1>1. Top.own \in Vals \cup {NONE} /\ Top.vars \in SUBSET Holders(Top)
  BY DEF BlockType, Holders
<1>2. frame' \in FrameType /\ (Top.own # NONE => NewSlot(ScopePopped) \in Slot)
  BY <1>1, GivenType DEF CloseBlock
<1>3. /\ held' \in HeldType
      /\ Top.own # NONE => held'[Top.own] # NONE
      /\ \A v \in Vals : v # Top.own => held'[v] = IF v \in Top.vars THEN NONE ELSE held[v]
  <2>1. held' = [v \in Vals |-> IF v = Top.own THEN NewSlot(ScopePopped)
                                ELSE IF v \in Top.vars THEN NONE ELSE held[v]]
    BY DEF CloseBlock
  <2>2. \A v \in Vals : v # NONE
    BY SlotsAssumption
  <2>3. held' \in HeldType
    BY <1>2, <2>1, <2>2 DEF HeldType
  <2> QED BY <1>1, <1>2, <2>1, <2>2, <2>3
<1>4. calling' \in BOOLEAN /\ ptrs' \in [Slot -> Vals \cup {NONE}] /\ stale' \subseteq Vals
  BY <1>1, RenewedType DEF CloseBlock, Structure, TypeOK
<1> QED BY <1>1, <1>2, <1>3, <1>4, CloseStructure DEF CloseBlock

(* The end of an `if` without else.                                        *)
LEMMA EndIfStructure ==
    ASSUME Structure, EndIf
    PROVE  Structure'
<1> USE StructureFacts
<1>1. Top.vars \in SUBSET Holders(Top)
  BY DEF Holders
<1>2. held' \in HeldType /\ \A v \in Vals : held'[v] = IF v \in Top.vars THEN NONE ELSE held[v]
  BY DEF EndIf, HeldType
<1>3. frame' \in FrameType /\ calling' \in BOOLEAN /\ ptrs' \in [Slot -> Vals \cup {NONE}]
      /\ stale' \subseteq Vals
  BY DEF EndIf, Structure, TypeOK
<1> QED BY <1>1, <1>2, <1>3, CloseStructure DEF EndIf

(* The slot of the `else` value, which comes and goes, leaves a frame.     *)
LEMMA ElseDoneType ==
    ASSUME Structure, Top.own # NONE => Room(ScopePopped)
    PROVE  ElseDone \in FrameType
<1> USE StructureFacts
<1>1. CASE Top.own = NONE
  BY <1>1 DEF ElseDone
<1>2. CASE Top.own # NONE
  <2>1. Top.own \in Vals
    BY <1>2 DEF BlockType
  <2>2. Allocated(ScopePopped, Top.own) \in FrameType /\ NewSlot(ScopePopped) \in Slot
    BY <1>2, <2>1, AllocatedType, NewSlotIsFree
  <2>3. {NewSlot(ScopePopped)} \in SUBSET Slot
    BY <2>2
  <2> QED BY <1>2, <2>2, <2>3, FreedType DEF ElseDone
<1> QED BY <1>1, <1>2

(* The end of an `if` with an else.                                        *)
LEMMA CloseElseStructure ==
    ASSUME Structure, CloseElse
    PROVE  Structure'
<1> USE StructureFacts
<1> DEFINE T == (Top.vars \cup {Top.kept}) \ {NONE}
<1>1. /\ Top.own \in Vals \cup {NONE} /\ Top.kept \in Vals \cup {NONE}
      /\ T \in SUBSET Holders(Top) /\ Top.vars \subseteq Vals
  BY DEF BlockType, Holders
<1>2. ElseDone \in FrameType
  BY ElseDoneType DEF CloseElse
<1>3. Given(ElseDone, Top.own) \in FrameType /\ (Top.own # NONE => NewSlot(ElseDone) \in Slot)
  BY <1>1, <1>2, GivenType DEF CloseElse
<1>4. frame' \in FrameType
  <2>1. CASE Top.kept = NONE
    BY <2>1, <1>3 DEF CloseElse, Taken
  <2>2. CASE Top.kept # NONE
    <3>1. {held[Top.kept]} \in SUBSET Slot
      BY <2>2
    <3> QED BY <2>2, <3>1, <1>3, FreedType DEF CloseElse, Taken
  <2> QED BY <2>1, <2>2
<1>5. /\ held' \in HeldType
      /\ Top.own # NONE => held'[Top.own] # NONE
      /\ \A v \in Vals : v # Top.own => held'[v] = IF v \in T THEN NONE ELSE held[v]
  <2>1. held' = [v \in Vals |-> IF v = Top.own THEN NewSlot(ElseDone)
                                ELSE IF v \in Top.vars \cup {Top.kept} THEN NONE ELSE held[v]]
    BY DEF CloseElse
  <2>2. \A v \in Vals : v # NONE /\ (v \in Top.vars \cup {Top.kept} <=> v \in T)
    BY SlotsAssumption
  <2> HIDE DEF T
  <2>3. held' \in HeldType
    BY <1>3, <2>1, <2>2 DEF HeldType
  <2> QED BY <1>1, <1>3, <2>1, <2>2, <2>3
<1>6. calling' \in BOOLEAN /\ ptrs' \in [Slot -> Vals \cup {NONE}] /\ stale' \subseteq Vals
  BY <1>1, RenewedType DEF CloseElse, Structure, TypeOK
<1> HIDE DEF T
<1> QED BY <1>1, <1>4, <1>5, <1>6, CloseStructure DEF CloseElse

(* From the `then` branch to the `else`.                                   *)
LEMMA OpenElseStructure ==
    ASSUME Structure, NEW kept \in Vals \cup {NONE}, OpenElse(kept)
    PROVE  Structure'
<1> DEFINE b == [Block("else", Top.other, FALSE, Top.own) EXCEPT !.kept = kept]
<1> USE StructureFacts
<1>1. b \in BlockType /\ b.own = Top.own /\ b.part = "else" /\ ApartWithin(b)
  BY DEF Block, BlockType, ApartWithin
<1>2. Holders(b) = {kept} \ {NONE}
  BY DEF Block, Holders
<1>3. blocks' = [blocks EXCEPT ![Len(blocks)] = b]
  BY DEF OpenElse, Depth
<1>4. frame' \in FrameType /\ (kept # NONE => NewSlot(ScopePopped) \in Slot)
  BY GivenType DEF OpenElse
<1>5. kept # NONE => held[kept] = NONE /\ scope[kept] = 0
  BY DEF OpenElse, Fresh
<1>6. /\ held' \in HeldType
      /\ kept # NONE => held'[kept] # NONE
      /\ \A v \in Vals : v # kept => held'[v] = IF v \in Top.vars THEN NONE ELSE held[v]
  <2>1. held' = [v \in Vals |-> IF v = kept THEN NewSlot(ScopePopped)
                                ELSE IF v \in Top.vars THEN NONE ELSE held[v]]
    BY DEF OpenElse
  <2>2. \A v \in Vals : v = kept => kept # NONE
    BY SlotsAssumption
  <2>3. held' \in HeldType
    BY <1>4, <2>1, <2>2 DEF HeldType
  <2> QED BY <1>4, <2>1, <2>2, <2>3
<1>7. scope' = [v \in Vals |-> IF scope[v] = Depth THEN 0 ELSE scope[v]]
  BY DEF OpenElse, BraceClosed
<1>8. \A w \in Holders(b) : held[w] = NONE /\ held'[w] # NONE
  BY <1>2, <1>5, <1>6
<1>9. \A w \in Vals \ Holders(Top) : held[w] # NONE => held'[w] # NONE
  <2>1. Top.vars \subseteq Holders(Top)
    BY DEF Holders
  <2>2. ASSUME NEW w \in Vals \ Holders(Top), held[w] # NONE PROVE held'[w] # NONE
    <3>1. w \notin Top.vars /\ w # kept
      BY <2>1, <2>2, <1>5, SlotsAssumption
    <3> QED BY <3>1, <2>2, <1>6
  <2> QED BY <2>2
<1>10. ASSUME NEW d \in 1 .. Depth, blocks[d].own # NONE
       PROVE  held'[blocks[d].own] = NONE /\ scope'[blocks[d].own] = scope[blocks[d].own]
  <2>1. /\ blocks[d].own \in Vals /\ held[blocks[d].own] = NONE
        /\ scope[blocks[d].own] = d - 1 /\ scope[blocks[d].own] # 0
    BY <1>10, OwnFacts
  <2>2. blocks[d].own # kept
    BY <2>1, <1>5, <1>10
  <2> QED BY <2>1, <2>2, <1>6, <1>7
<1> HIDE DEF b
<1>11. /\ blocks' \in Seq(BlockType) /\ Depth' = Depth
       /\ BodyFirst' /\ HoldersHold' /\ HoldersApart' /\ HoldersOnce' /\ OwnsWait'
  <2>1. Top.part # "body"
    BY DEF OpenElse
  <2> QED BY <2>1, <1>1, <1>3, <1>8, <1>9, <1>10, TopStructure
<1>12. TypeOK'
  <2>1. scope' \in [Vals -> 0 .. MaxDepth]
    BY <1>7, SlotsAssumption DEF Structure, TypeOK
  <2>2. calling' \in BOOLEAN /\ ptrs' \in [Slot -> Vals \cup {NONE}] /\ stale' \subseteq Vals
    BY RenewedType DEF OpenElse, Structure, TypeOK
  <2> QED BY <1>4, <1>6, <1>11, <2>1, <2>2 DEF TypeOK, HeldType, Structure
<1> QED BY <1>11, <1>12 DEF Structure

(* The function's own block is open, and nothing has a slot.               *)
LEMMA InitStructure ==
    ASSUME Init
    PROVE  Structure
<1> DEFINE b == Block("body", TRUE, FALSE, NONE)
<1>1. b \in BlockType /\ b.part = "body" /\ b.own = NONE /\ Holders(b) = {} /\ ApartWithin(b)
  BY DEF Block, BlockType, Holders, ApartWithin
<1>2. blocks = <<b>>
  BY DEF Init
<1> HIDE DEF b
<1>3. blocks \in Seq(BlockType) /\ Depth = 1 /\ blocks[1] = b
  BY <1>1, <1>2 DEF Depth
<1>4. TypeOK
  <2>1. frame \in FrameType
    BY SlotsAssumption DEF Init, FrameType
  <2>2. held \in [Vals -> Slot \cup {NONE}] /\ scope \in [Vals -> 0 .. MaxDepth]
    BY SlotsAssumption DEF Init
  <2>3. calling \in BOOLEAN /\ ptrs \in [Slot -> Vals \cup {NONE}] /\ stale \subseteq Vals
    BY DEF Init
  <2> QED BY <1>3, <2>1, <2>2, <2>3, SlotsAssumption DEF TypeOK
<1>5. BodyFirst
  BY <1>1, <1>3 DEF BodyFirst
<1>6. \A d \in 1 .. Depth : d = 1
  BY <1>3
<1> QED BY <1>1, <1>3, <1>4, <1>5, <1>6
        DEF Structure, HoldersHold, HoldersApart, HoldersOnce, OwnsWait

(* Every step keeps the structure: one action at a time.                   *)
LEMMA StepStructure ==
    ASSUME Structure, [Next]_vars
    PROVE  Structure'
<1> USE StructureFacts
<1>1. CASE Call
  BY <1>1, CallStructure
<1>2. CASE CloseBlock \/ EndIf \/ CloseElse
  BY <1>2, CloseBlockStructure, EndIfStructure, CloseElseStructure
<1>3. ASSUME NEW v \in Vals, Value(v) \/ Declare(v) PROVE Structure'
  BY <1>3, DefineStructure DEF Value, Declare, Structure, TypeOK
<1>4. ASSUME NEW v \in Vals, Drop(v) \/ Assign(v) PROVE Structure'
  BY <1>4, DropStructure, AssignStructure
<1>5. ASSUME NEW v \in Vals \cup {NONE}, Return(v) \/ OpenElse(v) PROVE Structure'
  BY <1>5, ReturnStructure, OpenElseStructure
<1>6. ASSUME NEW v \in Vals \cup {NONE}, OpenBlock(v) PROVE Structure'
  BY <1>6, OpenStructure DEF OpenBlock, BlockType
<1>7. ASSUME NEW v \in Vals \cup {NONE}, NEW c \in BOOLEAN, OpenIf(v, c) PROVE Structure'
  <2>1. (Top.runs /\ c) \in BOOLEAN /\ (Top.runs /\ ~c) \in BOOLEAN
    OBVIOUS
  <2> QED BY <1>7, <2>1, OpenStructure DEF OpenIf
<1>8. CASE UNCHANGED vars
  BY <1>8, UnmovedStructure DEF vars, Structure, TypeOK
<1> QED BY <1>1, <1>2, <1>3, <1>4, <1>5, <1>6, <1>7, <1>8 DEF Next

(* The variables have their types, whatever the function and however the   *)
(* compiler was built.                                                     *)
THEOREM TypeCorrect == Spec => []TypeOK
<1>1. Init => Structure
  BY InitStructure
<1>2. Structure /\ [Next]_vars => Structure'
  BY StepStructure
<1>3. Structure => TypeOK
  BY DEF Structure
<1> QED BY <1>1, <1>2, <1>3, PTL DEF Spec

-----------------------------------------------------------------------------
(* What a frame promises: slots and holders agree, and what is not stale   *)
(* is where its slot was written.                                          *)

WrittenSaved(f, h, p, st) ==
    \A v \in Vals \ st : h[v] # NONE /\ h[v] \in f.written => p[h[v]] = v
Ready(f, h, p, st) == FrameExact(f, h) /\ WrittenSaved(f, h, p, st)
Renew(p, v) == [s \in Slot |-> IF p[s] = v THEN NONE ELSE p[s]]
Emptied(h, V) == [v \in Vals |-> IF v \in V THEN NONE ELSE h[v]]
PtrsType == [Slot -> Vals \cup {NONE}]

(* allocate_slot keeps the promise for everybody and for the new value,    *)
(* whose slot has not been written.                                        *)
LEMMA ReadyAllocated ==
    ASSUME DebugAssertions, NEW f \in FrameType, NEW h \in HeldType, NEW p \in PtrsType,
           NEW st \in SUBSET Vals, NEW v \in Vals,
           Ready(f, h, p, st), Room(f), h[v] = NONE
    PROVE  Ready(Allocated(f, v), [h EXCEPT ![v] = NewSlot(f)], Renew(p, v), st)
<1> DEFINE k == [h EXCEPT ![v] = NewSlot(f)]
           g == Allocated(f, v)
<1>1. FrameExact(g, k) /\ NewSlot(f) \notin f.written
  BY AllocatedExact DEF Ready
<1>2. g.written = f.written
  BY DEF Allocated, FrameType
<1>3. ASSUME NEW w \in Vals \ st, k[w] # NONE, k[w] \in g.written PROVE Renew(p, v)[k[w]] = w
  <2>1. w # v
    BY <1>1, <1>2, <1>3 DEF HeldType
  <2>2. k[w] = h[w] /\ h[w] \in Slot
    BY <2>1, <1>3 DEF HeldType
  <2>3. p[h[w]] = w
    BY <2>2, <1>2, <1>3 DEF Ready, WrittenSaved
  <2> QED BY <2>1, <2>2, <2>3 DEF Renew
<1> HIDE DEF k, g
<1>4. Ready(g, k, Renew(p, v), st)
  BY <1>1, <1>3 DEF Ready, WrittenSaved
<1> QED BY <1>4 DEF k, g

(* free_slots keeps it for everybody else, and forgets what was stale.     *)
LEMMA ReadyFreed ==
    ASSUME DebugAssertions, NEW f \in FrameType, NEW h \in HeldType, NEW p \in PtrsType,
           NEW st \in SUBSET Vals, NEW V \in SUBSET Vals,
           Ready(f, h, p, st), \A v \in V : h[v] # NONE
    PROVE  Ready(Freed(f, {h[v] : v \in V}), Emptied(h, V), p, st \ V)
<1> DEFINE k == Emptied(h, V)
           g == Freed(f, {h[v] : v \in V})
<1>1. FrameExact(g, k)
  BY FreedExact DEF Ready, Emptied
<1>2. g.written \subseteq f.written
  BY DEF Freed, FrameType
<1>3. ASSUME NEW w \in Vals \ (st \ V), k[w] # NONE, k[w] \in g.written PROVE p[k[w]] = w
  <2>1. w \notin V /\ k[w] = h[w] /\ w \notin st
    BY <1>3 DEF Emptied
  <2> QED BY <2>1, <1>2, <1>3 DEF Ready, WrittenSaved
<1> HIDE DEF k, g
<1>4. Ready(g, k, p, st \ V)
  BY <1>1, <1>3 DEF Ready, WrittenSaved
<1> QED BY <1>4 DEF k, g

-----------------------------------------------------------------------------
(* The invariant.                                                          *)

CallSaved == calling => \A s \in Slot : frame.saved[s] # NONE => s \in frame.written
Kept == Ready(frame, held, ptrs, stale)
IInv == Structure /\ Kept /\ CallSaved

(* The types the lemmas about frames ask for.                              *)
LEMMA StateTypes ==
    ASSUME Structure
    PROVE  /\ frame \in FrameType /\ held \in HeldType /\ ptrs \in PtrsType
           /\ stale \in SUBSET Vals
BY DEF Structure, TypeOK, HeldType, PtrsType

(* A new value or variable, when the promise is kept so far.               *)
LEMMA DefineKept ==
    ASSUME DebugAssertions, Structure, Kept, NEW v \in Vals, NEW kind, Define(v, kind)
    PROVE  Kept'
<1>1. Room(frame) /\ held[v] = NONE
  BY DEF Define, Fresh
<1>2. Ready(Allocated(frame, v), [held EXCEPT ![v] = NewSlot(frame)], Renew(ptrs, v), stale)
  BY <1>1, StateTypes, ReadyAllocated DEF Kept
<1>3. /\ frame' = Allocated(frame, v) /\ held' = [held EXCEPT ![v] = NewSlot(frame)]
      /\ ptrs' = Renew(ptrs, v) /\ stale' = stale
  BY DEF Define, Renewed, Renew
<1> QED BY <1>2, <1>3 DEF Kept

(* The end of a TypedVal: its slot is nobody's.                            *)
LEMMA DropKept ==
    ASSUME DebugAssertions, Structure, Kept, NEW v \in Vals, Drop(v)
    PROVE  Kept'
<1>1. held[v] \in Slot /\ NONE \notin Slot
  BY StructureFacts DEF Drop
<1>2. Ready(Freed(frame, {held[w] : w \in {v}}), Emptied(held, {v}), ptrs, stale \ {v})
  BY <1>1, StateTypes, ReadyFreed DEF Kept
<1>3. {held[w] : w \in {v}} = {held[v]}
  OBVIOUS
<1>4. Emptied(held, {v}) = [held EXCEPT ![v] = NONE]
  BY StateTypes DEF Emptied, HeldType
<1>5. /\ frame' = Freed(frame, {held[v]}) /\ held' = [held EXCEPT ![v] = NONE]
      /\ ptrs' = ptrs /\ stale' = stale \ {v}
  BY DEF Drop
<1> QED BY <1>2, <1>3, <1>4, <1>5 DEF Kept

(* An assignment makes the variable stale, if its slot has been written.   *)
LEMMA AssignKept ==
    ASSUME Structure, Kept, NEW v \in Vals, Assign(v)
    PROVE  Kept'
<1>1. frame' = frame /\ held' = held
  BY DEF Assign
<1>2. FrameExact(frame, held)
  BY DEF Kept, Ready
<1>3. ASSUME NEW w \in Vals \ stale', held[w] # NONE, held[w] \in frame.written
      PROVE  ptrs'[held[w]] = w
  <2>1. held[w] \in Slot
    BY <1>3, StructureFacts
  <2>2. CASE Top.runs
    <3>1. stale' = IF held[v] \in frame.written THEN stale \cup {v} ELSE stale
      BY <2>2 DEF Assign
    <3>2. w \notin stale /\ w # v
      BY <3>1, <1>3
    <3>3. ptrs[held[w]] = w
      BY <3>2, <1>3 DEF Kept, Ready, WrittenSaved
    <3>4. ptrs' = Renewed(v)
      BY <2>2 DEF Assign
    <3> QED BY <3>2, <3>3, <3>4, <2>1 DEF Renewed
  <2>3. CASE ~Top.runs
    BY <2>3, <1>3 DEF Assign, Kept, Ready, WrittenSaved
  <2> QED BY <2>2, <2>3
<1> QED BY <1>1, <1>2, <1>3 DEF Kept, Ready, WrittenSaved

(* A call writes what was not written, or makes it stale on a path that does*)
(* not come by; then everything has been written.                          *)
LEMMA CallKept ==
    ASSUME Structure, Kept, Call
    PROVE  Kept' /\ CallSaved'
<1> DEFINE new == Unwritten(frame)
<1>1. /\ frame.saved \in [Slot -> Vals \cup {NONE}] /\ frame.written \subseteq Slot
      /\ new = {s \in Slot : frame.saved[s] # NONE} \ frame.written
  BY DEF Structure, TypeOK, FrameType, Unwritten
<1>2. /\ frame' = [frame EXCEPT !.written = frame.written \cup new]
      /\ held' = held
  BY DEF Call
<1>3. /\ frame'.saved = frame.saved /\ frame'.avail = frame.avail /\ frame'.next = frame.next
      /\ frame'.written = frame.written \cup new
  BY <1>2, StateTypes DEF FrameType
<1>4. FrameExact(frame', held')
  BY <1>1, <1>2, <1>3 DEF Kept, Ready, FrameExact
<1>5. ASSUME NEW w \in Vals \ stale', held[w] # NONE, held[w] \in frame'.written
      PROVE  ptrs'[held[w]] = w
  <2>1. held[w] \in Slot /\ frame.saved[held[w]] = w
    BY <1>5, StructureFacts DEF Kept, Ready, FrameExact
  <2>2. CASE Top.runs
    <3>1. ptrs' = [s \in Slot |-> IF s \in new THEN frame.saved[s] ELSE ptrs[s]] /\ stale' = stale
      BY <2>2 DEF Call
    <3>2. CASE held[w] \in new
      BY <3>1, <3>2, <2>1
    <3>3. CASE held[w] \notin new
      <4>1. held[w] \in frame.written
        BY <3>3, <1>3, <1>5
      <4>2. ptrs[held[w]] = w
        BY <4>1, <3>1, <1>5 DEF Kept, Ready, WrittenSaved
      <4> QED BY <4>2, <3>1, <3>3, <2>1
    <3> QED BY <3>2, <3>3
  <2>3. CASE ~Top.runs
    <3>1. ptrs' = ptrs /\ stale' = stale \cup {frame.saved[s] : s \in new}
      BY <2>3 DEF Call
    <3>2. held[w] \notin new /\ w \notin stale
      BY <3>1, <2>1, <1>5
    <3> QED BY <3>1, <3>2, <1>3, <1>5 DEF Kept, Ready, WrittenSaved
  <2> QED BY <2>2, <2>3
<1>6. Kept'
  BY <1>2, <1>4, <1>5 DEF Kept, Ready, WrittenSaved
<1>7. CallSaved'
  BY <1>1, <1>3 DEF CallSaved
<1> QED BY <1>6, <1>7

(* The end of a block: its variables give their slots back.                *)
LEMMA ScopeKept ==
    ASSUME DebugAssertions, Structure, Kept
    PROVE  /\ Ready(ScopePopped, Emptied(held, Top.vars), ptrs, stale \ Top.vars)
           /\ ScopePopped \in FrameType /\ Emptied(held, Top.vars) \in HeldType
<1>1. Top.vars \in SUBSET Vals /\ \A v \in Top.vars : held[v] # NONE
  BY StructureFacts DEF BlockType
<1> QED BY <1>1, StateTypes, StructureFacts, ReadyFreed
        DEF Kept, ScopePopped, Emptied, HeldType

(* What is given a slot when a block has ended.                            *)
LEMMA GivenKept ==
    ASSUME DebugAssertions, NEW f \in FrameType, NEW h \in HeldType, NEW p \in PtrsType,
           NEW st \in SUBSET Vals, NEW v \in Vals \cup {NONE},
           Ready(f, h, p, st), v # NONE => Room(f) /\ h[v] = NONE
    PROVE  Ready(Given(f, v), [w \in Vals |-> IF w = v THEN NewSlot(f) ELSE h[w]],
                 IF v = NONE THEN p ELSE Renew(p, v), st)
<1>1. CASE v = NONE
  <2>1. [w \in Vals |-> IF w = v THEN NewSlot(f) ELSE h[w]] = h
    BY <1>1, SlotsAssumption DEF HeldType
  <2> QED BY <1>1, <2>1 DEF Given
<1>2. CASE v # NONE
  <2>1. [w \in Vals |-> IF w = v THEN NewSlot(f) ELSE h[w]] = [h EXCEPT ![v] = NewSlot(f)]
    BY <1>2 DEF HeldType
  <2>2. v \in Vals /\ Room(f) /\ h[v] = NONE
    BY <1>2
  <2>3. Ready(Allocated(f, v), [h EXCEPT ![v] = NewSlot(f)], Renew(p, v), st)
    BY <2>2, ReadyAllocated
  <2> QED BY <1>2, <2>1, <2>3 DEF Given
<1> QED BY <1>1, <1>2

(* The end of a block: scope popped, its value given a slot.               *)
LEMMA CloseBlockKept ==
    ASSUME DebugAssertions, Structure, Kept, CloseBlock
    PROVE  Kept'
<1> DEFINE h == Emptied(held, Top.vars)
           p == IF Top.own = NONE THEN ptrs ELSE Renew(ptrs, Top.own)
<1>1. Top.own \in Vals \cup {NONE}
  BY StructureFacts DEF BlockType
<1>2. Top.own # NONE => Room(ScopePopped) /\ h[Top.own] = NONE
  BY <1>1, OwnFacts, StructureFacts DEF CloseBlock, Emptied, Top
<1> HIDE DEF h
<1>3. Ready(ScopePopped, h, ptrs, stale \ Top.vars) /\ h \in HeldType /\ ScopePopped \in FrameType
  BY ScopeKept DEF h
<1>4. Ready(Given(ScopePopped, Top.own),
            [w \in Vals |-> IF w = Top.own THEN NewSlot(ScopePopped) ELSE h[w]],
            p, stale \ Top.vars)
  BY <1>1, <1>2, <1>3, StateTypes, GivenKept
<1>5. held' = [w \in Vals |-> IF w = Top.own THEN NewSlot(ScopePopped) ELSE h[w]]
  BY DEF CloseBlock, h, Emptied
<1>6. frame' = Given(ScopePopped, Top.own) /\ ptrs' = p /\ stale' = stale \ Top.vars
  BY DEF CloseBlock, Renewed, Renew
<1> QED BY <1>4, <1>5, <1>6 DEF Kept

(* The end of an `if` without else.                                        *)
LEMMA EndIfKept ==
    ASSUME DebugAssertions, Structure, Kept, EndIf
    PROVE  Kept'
<1>1. frame' = ScopePopped /\ ptrs' = ptrs /\ stale' = stale \ Top.vars
  BY DEF EndIf
<1>2. held' = Emptied(held, Top.vars)
  BY DEF EndIf, Emptied
<1> QED BY <1>1, <1>2, ScopeKept DEF Kept

(* The end of the `then` branch, whose value keeps a slot.                 *)
LEMMA OpenElseKept ==
    ASSUME DebugAssertions, Structure, Kept, NEW kept \in Vals \cup {NONE}, OpenElse(kept)
    PROVE  Kept'
<1> DEFINE h == Emptied(held, Top.vars)
           p == IF kept = NONE THEN ptrs ELSE Renew(ptrs, kept)
<1>1. kept # NONE => Room(ScopePopped) /\ h[kept] = NONE
  BY DEF OpenElse, Fresh, Emptied
<1> HIDE DEF h
<1>2. Ready(ScopePopped, h, ptrs, stale \ Top.vars) /\ h \in HeldType /\ ScopePopped \in FrameType
  BY ScopeKept DEF h
<1>3. Ready(Given(ScopePopped, kept),
            [w \in Vals |-> IF w = kept THEN NewSlot(ScopePopped) ELSE h[w]],
            p, stale \ Top.vars)
  BY <1>1, <1>2, StateTypes, GivenKept
<1>4. held' = [w \in Vals |-> IF w = kept THEN NewSlot(ScopePopped) ELSE h[w]]
  BY DEF OpenElse, h, Emptied
<1>5. frame' = Given(ScopePopped, kept) /\ ptrs' = p /\ stale' = stale \ Top.vars
  BY DEF OpenElse, Renewed, Renew
<1> QED BY <1>3, <1>4, <1>5 DEF Kept

(* The slot of the `else` value comes and goes: nobody else is touched.    *)
LEMMA ElseDoneKept ==
    ASSUME DebugAssertions, Structure, Kept, Top.own # NONE, Room(ScopePopped)
    PROVE  Ready(ElseDone, Emptied(held, Top.vars), Renew(ptrs, Top.own),
                 (stale \ Top.vars) \ {Top.own})
<1> DEFINE h == Emptied(held, Top.vars)
           n == NewSlot(ScopePopped)
           a == Allocated(ScopePopped, Top.own)
           k == [h EXCEPT ![Top.own] = n]
<1>1. Top.own \in Vals /\ held[Top.own] = NONE
  BY OwnFacts, StructureFacts DEF Top
<1>2. h[Top.own] = NONE
  BY <1>1 DEF Emptied
<1> HIDE DEF h
<1>3. Ready(ScopePopped, h, ptrs, stale \ Top.vars) /\ h \in HeldType /\ ScopePopped \in FrameType
  BY ScopeKept DEF h
<1>4. Ready(a, k, Renew(ptrs, Top.own), stale \ Top.vars)
  BY <1>1, <1>2, <1>3, StateTypes, ReadyAllocated
<1>5. a \in FrameType /\ n \in Slot /\ NONE \notin Slot
  BY <1>1, <1>3, AllocatedType, NewSlotIsFree, StructureFacts
<1>6. k \in HeldType /\ k[Top.own] = n
  BY <1>1, <1>3, <1>5 DEF HeldType
<1>7. Renew(ptrs, Top.own) \in PtrsType
  BY StateTypes DEF Renew, PtrsType
<1> HIDE DEF a, k, n
<1>8. Ready(Freed(a, {k[v] : v \in {Top.own}}), Emptied(k, {Top.own}), Renew(ptrs, Top.own),
            (stale \ Top.vars) \ {Top.own})
  BY <1>1, <1>4, <1>5, <1>6, <1>7, StateTypes, ReadyFreed
<1>9. {k[v] : v \in {Top.own}} = {n}
  BY <1>6
<1>10. Emptied(k, {Top.own}) = h
  BY <1>1, <1>2, <1>3 DEF Emptied, HeldType, k
<1>11. ElseDone = Freed(a, {n})
  BY DEF ElseDone, a, n
<1> QED BY <1>8, <1>9, <1>10, <1>11 DEF h

(* Nothing changes when a name that was just renewed is renewed again.     *)
LEMMA RenewTwice ==
    ASSUME NEW p \in PtrsType, NEW v \in Vals
    PROVE  Renew(Renew(p, v), v) = Renew(p, v)
<1> DEFINE q == Renew(p, v)
<1>1. q = [s \in Slot |-> IF p[s] = v THEN NONE ELSE p[s]]
  BY DEF Renew
<1>2. Renew(q, v) = [s \in Slot |-> IF q[s] = v THEN NONE ELSE q[s]]
  BY DEF Renew
<1> HIDE DEF q
<1>3. \A s \in Slot : q[s] # v
  BY <1>1, SlotsAssumption
<1>4. \A s \in Slot : (IF q[s] = v THEN NONE ELSE q[s]) = IF p[s] = v THEN NONE ELSE p[s]
  BY <1>1, <1>3
<1>5. Renew(q, v) = [s \in Slot |-> IF p[s] = v THEN NONE ELSE p[s]]
  BY <1>2, <1>4
<1> QED BY <1>1, <1>5 DEF q

(* The end of an `if`: a slot for it, and the `then` value gives its own back.*)
LEMMA CloseElseKept ==
    ASSUME DebugAssertions, Structure, Kept, CloseElse
    PROVE  Kept'
<1> DEFINE h == Emptied(held, Top.vars)
           q == IF Top.own = NONE THEN ptrs ELSE Renew(ptrs, Top.own)
           st == (stale \ Top.vars) \ {Top.own}
           f == Given(ElseDone, Top.own)
           k == [w \in Vals |-> IF w = Top.own THEN NewSlot(ElseDone) ELSE h[w]]
<1>1. Top.own \in Vals \cup {NONE} /\ Top.kept \in Vals \cup {NONE}
  BY StructureFacts DEF BlockType
<1>2. Top.own # NONE => held[Top.own] = NONE /\ Top.own \notin Holders(Top)
  BY OwnFacts, StructureFacts DEF Top
<1>3. /\ held' = [v \in Vals |-> IF v = Top.own THEN NewSlot(ElseDone)
                                 ELSE IF v \in Top.vars \cup {Top.kept} THEN NONE ELSE held[v]]
      /\ frame' = Taken(f, Top.kept) /\ ptrs' = q
      /\ stale' = stale \ (Top.vars \cup {Top.kept})
  BY DEF CloseElse, Renewed, Renew
<1>4. h \in HeldType /\ (Top.own # NONE => h[Top.own] = NONE)
  BY <1>1, <1>2, ScopeKept DEF Emptied
<1>5. q \in PtrsType /\ st \in SUBSET Vals
  BY StateTypes DEF Renew, PtrsType
<1>6. ElseDone \in FrameType /\ (Top.own # NONE => Room(ScopePopped) /\ Room(ElseDone))
  BY ElseDoneType DEF CloseElse
<1>7. Ready(ElseDone, h, q, st)
  <2>1. CASE Top.own = NONE
    <3>1. ElseDone = ScopePopped /\ q = ptrs /\ st = stale \ Top.vars
      BY <2>1, StateTypes, SlotsAssumption DEF ElseDone
    <3> QED BY <3>1, ScopeKept
  <2>2. CASE Top.own # NONE
    BY <2>2, <1>6, ElseDoneKept
  <2> QED BY <2>1, <2>2
<1>8. (IF Top.own = NONE THEN q ELSE Renew(q, Top.own)) = q
  BY <1>1, StateTypes, RenewTwice
<1> HIDE DEF h, q, st
<1>9. Ready(f, k, q, st)
  <2>1. Ready(f, k, IF Top.own = NONE THEN q ELSE Renew(q, Top.own), st)
    BY <1>1, <1>4, <1>5, <1>6, <1>7, GivenKept
  <2> QED BY <2>1, <1>8
<1>10. f \in FrameType /\ (Top.own # NONE => NewSlot(ElseDone) \in Slot)
  BY <1>1, <1>6, GivenType
<1>11. k \in HeldType
  <2>1. \A v \in Vals : v # NONE
    BY SlotsAssumption
  <2> QED BY <2>1, <1>4, <1>10 DEF HeldType
<1>12. k = [v \in Vals |-> IF v = Top.own THEN NewSlot(ElseDone)
                           ELSE IF v \in Top.vars THEN NONE ELSE held[v]]
  BY DEF h, Emptied
<1>13. Ready(frame', held', q, st \ {Top.kept})
  <2>1. CASE Top.kept = NONE
    <3>1. held' = k /\ frame' = f
      BY <2>1, <1>3, <1>12, SlotsAssumption DEF Taken
    <3>2. st \ {Top.kept} = st
      BY <2>1, <1>5, SlotsAssumption
    <3> QED BY <3>1, <3>2, <1>9
  <2>2. CASE Top.kept # NONE
    <3>1. Top.kept \in Vals /\ held[Top.kept] \in Slot /\ NONE \notin Slot
      BY <2>2, <1>1, StructureFacts
    <3>2. Top.kept # Top.own /\ Top.kept \notin Top.vars
      <4>1. Top.kept \in Holders(Top) /\ ApartWithin(Top)
        BY <2>2, StructureFacts DEF Holders, Structure, HoldersOnce, Top
      <4> QED BY <4>1, <2>2, <1>2 DEF ApartWithin
    <3>3. k[Top.kept] = held[Top.kept]
      BY <3>1, <3>2, <1>12
    <3> HIDE DEF f, k
    <3>4. Ready(Freed(f, {k[v] : v \in {Top.kept}}), Emptied(k, {Top.kept}), q, st \ {Top.kept})
      BY <3>1, <3>3, <1>5, <1>9, <1>10, <1>11, ReadyFreed
    <3>5. {k[v] : v \in {Top.kept}} = {held[Top.kept]}
      BY <3>3
    <3>6. frame' = Freed(f, {held[Top.kept]})
      BY <1>3, <2>2 DEF Taken
    <3>7. held' = Emptied(k, {Top.kept})
      <4>1. \A v \in Vals : held'[v] = Emptied(k, {Top.kept})[v]
        BY <1>3, <1>12, <3>2 DEF Emptied
      <4> QED BY <4>1, <1>3 DEF Emptied
    <3> QED BY <3>4, <3>5, <3>6, <3>7
  <2> QED BY <2>1, <2>2
<1>14. st \ {Top.kept} \subseteq stale'
  BY <1>3 DEF st
<1> QED BY <1>3, <1>13, <1>14 DEF Kept, Ready, WrittenSaved

(* Steps that touch neither the frame nor a holder.                        *)
LEMMA UnmovedKept ==
    ASSUME Kept, UNCHANGED <<frame, held, ptrs, stale>>
    PROVE  Kept'
BY DEF Kept, Ready, FrameExact, WrittenSaved

(* Every step of a debug build keeps the promise.                          *)
LEMMA StepKept ==
    ASSUME DebugAssertions, Structure, Kept, CallSaved, [Next]_vars
    PROVE  Kept' /\ CallSaved'
<1>1. CASE Call
  BY <1>1, CallKept
<1>2. CASE CloseBlock \/ EndIf \/ CloseElse
  <2>1. Kept'
    BY <1>2, CloseBlockKept, EndIfKept, CloseElseKept
  <2> QED BY <2>1, <1>2 DEF CloseBlock, EndIf, CloseElse, CallSaved
<1>3. ASSUME NEW v \in Vals, Value(v) \/ Declare(v) PROVE Kept' /\ CallSaved'
  BY <1>3, DefineKept DEF Value, Declare, CallSaved
<1>4. ASSUME NEW v \in Vals, Drop(v) \/ Assign(v) PROVE Kept' /\ CallSaved'
  <2>1. Kept'
    BY <1>4, DropKept, AssignKept
  <2> QED BY <2>1, <1>4 DEF Drop, Assign, CallSaved
<1>5. ASSUME NEW v \in Vals \cup {NONE}, Return(v) PROVE Kept' /\ CallSaved'
  <2>1. CASE v = NONE
    BY <2>1, <1>5, UnmovedKept DEF Return, CallSaved
  <2>2. CASE v # NONE
    BY <2>2, <1>5, DefineKept DEF Return, CallSaved
  <2> QED BY <2>1, <2>2
<1>6. ASSUME NEW v \in Vals \cup {NONE}, OpenElse(v) PROVE Kept' /\ CallSaved'
  <2>1. Kept'
    BY <1>6, OpenElseKept
  <2> QED BY <2>1, <1>6 DEF OpenElse, CallSaved
<1>7. ASSUME NEW v \in Vals \cup {NONE}, OpenBlock(v) PROVE Kept' /\ CallSaved'
  BY <1>7, UnmovedKept DEF OpenBlock, CallSaved
<1>8. ASSUME NEW v \in Vals \cup {NONE}, NEW c \in BOOLEAN, OpenIf(v, c)
      PROVE  Kept' /\ CallSaved'
  BY <1>8, UnmovedKept DEF OpenIf, CallSaved
<1>9. CASE UNCHANGED vars
  BY <1>9, UnmovedKept DEF vars, CallSaved
<1> QED BY <1>1, <1>2, <1>3, <1>4, <1>5, <1>6, <1>7, <1>8, <1>9 DEF Next

(* IInv is an invariant of what a debug build of the compiler does.        *)
THEOREM Invariant == DebugAssertions => (Spec => []IInv)
<1> SUFFICES ASSUME DebugAssertions PROVE Spec => []IInv
  OBVIOUS
<1>1. Init => IInv
  <2> SUFFICES ASSUME Init PROVE Structure /\ Kept /\ CallSaved
    BY DEF IInv
  <2>1. Structure
    BY InitStructure
  <2>2. Kept
    BY SlotsAssumption DEF Init, Kept, Ready, FrameExact, WrittenSaved, Slot
  <2>3. CallSaved
    BY DEF Init, CallSaved
  <2> QED BY <2>1, <2>2, <2>3
<1>2. IInv /\ [Next]_vars => IInv'
  BY StepStructure, StepKept DEF IInv
<1> QED BY <1>1, <1>2, PTL DEF Spec

(* In a debug build of the compiler every slot GCFrame has handed out      *)
(* belongs to one value, and every other one below next_alloc_slot is      *)
(* available: allocate_slot and free_slots never trip their debug_assert!. *)
THEOREM SlotsAreExclusive == DebugAssertions => (Spec => []SlotsExclusive)
<1>1. IInv => SlotsExclusive
  BY DEF IInv, Kept, Ready, SlotsExclusive
<1> QED BY <1>1, Invariant, PTL

(* In a debug build, save_gc_values leaves every live value in the frame,  *)
(* except those that were reassigned or first saved on a path not taken.   *)
THEOREM SavedWherePossible == DebugAssertions => (Spec => []SavedUnlessStale)
<1>1. IInv => SavedUnlessStale
  <2> SUFFICES ASSUME IInv, calling, NEW v \in Vals \ stale, held[v] # NONE
               PROVE  ptrs[held[v]] = v
    BY DEF SavedUnlessStale
  <2>1. held[v] \in Slot /\ frame.saved[held[v]] = v /\ v # NONE
    BY StructureFacts, SlotsAssumption DEF IInv, Kept, Ready, FrameExact
  <2>2. held[v] \in frame.written
    BY <2>1 DEF IInv, CallSaved
  <2> QED BY <2>2 DEF IInv, Kept, Ready, WrittenSaved
<1> QED BY <1>1, Invariant, PTL
=============================================================================
