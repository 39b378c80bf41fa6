-------------------------------- MODULE Arena --------------------------------
(***************************************************************************)
(* The arenas that hold the syntax tree (poni-arena/src/lib.rs), in a      *)
(* build with debug_assertions: an ArenaCell, whose objects are borrowed   *)
(* one by one and checked at run time; an ArenaCellProxy, through which a  *)
(* pass goes on adding objects while it holds borrows, and which is        *)
(* committed to the cell in the end; and the read-only Arena that a cell   *)
(* can be turned into.                                                     *)
(*                                                                         *)
(* What Rust checks at compile time is a guard here: `&mut self` and `self`*)
(* need that nothing borrows the arena, `&self` does not.                  *)
(***************************************************************************)
EXTENDS Naturals, Sequences, FiniteSets

CONSTANTS
    Obj,        \* what is pushed; an object is pushed once
    Guard       \* bound: the borrows held at a time

VARIABLES
    owner,      \* who can be used: the "cell", its "proxy", or a "readonly" arena
    objects,    \* ArenaCell.objects, Arena.objects
    added,      \* ArenaCellProxy.added
    borrowed,       \* the counters of the cell and of the proxy
    borrowed_mut,   \* their flags
    buffer,     \* which buffer the vector objects has; pushing may move it
    boxes,      \* the same for the vector added
    guards,     \* the ArenaBorrows and ArenaBorrowMuts that live
    panicked    \* what ended in a double borrow: "none" yet, a "read" or a "write"

vars == <<owner, objects, added, borrowed, borrowed_mut, buffer, boxes, guards, panicked>>

Place == {"cell", "proxy"}
Elements(s) == {s[i] : i \in DOMAIN s}

(* Keys are dense: those of the proxy go on where those of the cell end.   *)
Issued == 1 .. Len(objects) + Len(added)
Where(k) == IF k <= Len(objects) THEN "cell" ELSE "proxy"
Index(k) == IF k <= Len(objects) THEN k ELSE k - Len(objects)

(* Where the object is that a reference points at. A proxy boxes what it   *)
(* holds, so that it stays where it is when the vector of boxes moves.     *)
Address_Unboxed(k) == IF Where(k) = "cell" THEN <<"objects", buffer, k>>
                                           ELSE <<"added", boxes, Index(k)>>
Address(k) == IF Where(k) = "cell" THEN <<"objects", buffer, k>>
                                   ELSE <<"box", 0, Index(k)>>

(* Bound: two buffers, the one there is and the one a push may move to.    *)
Buffer == {0, 1}

Init == /\ owner = "cell" /\ objects = <<>> /\ added = <<>>
        /\ borrowed = [p \in Place |-> <<>>] /\ borrowed_mut = [p \in Place |-> <<>>]
        /\ buffer = 0 /\ boxes = 0 /\ guards = {} /\ panicked = "none"

Running == panicked = "none"
Free(o) == Running /\ owner = o /\ guards = {}

-----------------------------------------------------------------------------
(* Adding objects                                                          *)

(* ArenaCell::push and ArenaCellProxy::push. The first is &mut self.       *)
Fresh == Obj \ (Elements(objects) \cup Elements(added))

Push ==
    /\ Free("cell")
    /\ \E o \in Fresh : objects' = Append(objects, o)
    /\ borrowed' = [borrowed EXCEPT !["cell"] = Append(@, 0)]
    /\ borrowed_mut' = [borrowed_mut EXCEPT !["cell"] = Append(@, FALSE)]
    /\ buffer' \in Buffer
    /\ UNCHANGED <<owner, added, boxes, guards, panicked>>

ProxyPush ==
    /\ Running /\ owner = "proxy"
    /\ \E o \in Fresh : added' = Append(added, o)
    /\ borrowed' = [borrowed EXCEPT !["proxy"] = Append(@, 0)]
    /\ borrowed_mut' = [borrowed_mut EXCEPT !["proxy"] = Append(@, FALSE)]
    /\ boxes' \in Buffer
    /\ UNCHANGED <<owner, objects, buffer, guards, panicked>>

(* A proxy starts empty. As long as it lives, only it can be used.         *)
GetProxy ==
    /\ Free("cell") /\ owner' = "proxy" /\ added' = <<>>
    /\ borrowed' = [borrowed EXCEPT !["proxy"] = <<>>]
    /\ borrowed_mut' = [borrowed_mut EXCEPT !["proxy"] = <<>>]
    /\ UNCHANGED <<objects, buffer, boxes, guards, panicked>>

(* The new entries of the tables are blank; those of the proxy are dropped.*)
Blank(n, b) == [i \in 1 .. n |-> b]
Reversed(s) == [i \in DOMAIN s |-> s[Len(s) + 1 - i]]

Commit_Reversed ==
    /\ Free("proxy") /\ owner' = "cell"
    /\ objects' = objects \o Reversed(added) /\ added' = <<>>
    /\ borrowed' = [borrowed EXCEPT !["cell"] = @ \o Blank(Len(added), 0), !["proxy"] = <<>>]
    /\ borrowed_mut' = [borrowed_mut EXCEPT !["cell"] = @ \o Blank(Len(added), FALSE),
                                            !["proxy"] = <<>>]
    /\ buffer' \in Buffer
    /\ UNCHANGED <<boxes, guards, panicked>>
Commit ==
    /\ Free("proxy") /\ owner' = "cell"
    /\ objects' = objects \o added /\ added' = <<>>
    /\ borrowed' = [borrowed EXCEPT !["cell"] = @ \o Blank(Len(added), 0), !["proxy"] = <<>>]
    /\ borrowed_mut' = [borrowed_mut EXCEPT !["cell"] = @ \o Blank(Len(added), FALSE),
                                            !["proxy"] = <<>>]
    /\ buffer' \in Buffer
    /\ UNCHANGED <<boxes, guards, panicked>>

(* into_readonly drops the tables; into_cell pushes everything again.      *)
IntoReadonly ==
    /\ Free("cell") /\ owner' = "readonly"
    /\ borrowed' = [borrowed EXCEPT !["cell"] = <<>>]
    /\ borrowed_mut' = [borrowed_mut EXCEPT !["cell"] = <<>>]
    /\ UNCHANGED <<objects, added, buffer, boxes, guards, panicked>>

IntoCell_NoTables ==
    /\ Free("readonly") /\ owner' = "cell"
    /\ buffer' \in Buffer
    /\ UNCHANGED <<objects, added, borrowed, borrowed_mut, boxes, guards, panicked>>
IntoCell ==
    /\ Free("readonly") /\ owner' = "cell"
    /\ borrowed' = [borrowed EXCEPT !["cell"] = Blank(Len(objects), 0)]
    /\ borrowed_mut' = [borrowed_mut EXCEPT !["cell"] = Blank(Len(objects), FALSE)]
    /\ buffer' \in Buffer
    /\ UNCHANGED <<objects, added, boxes, guards, panicked>>

-----------------------------------------------------------------------------
(* Borrowing                                                               *)

Usable == Running /\ owner \in {"cell", "proxy"}

(* A proxy leaves keys below parent_len to its cell, which then is what    *)
(* the borrow remembers as its parent.                                     *)
Borrow(g, kind, k) == [id |-> g, kind |-> kind, parent |-> Where(k), key |-> k, at |-> Address(k)]
Unused == Guard \ {g.id : g \in guards}

Readable(k) == ~borrowed_mut[Where(k)][Index(k)]
Writable_NoCounter(k) == Readable(k)
Writable(k) == Readable(k) /\ borrowed[Where(k)][Index(k)] = 0

Get(k) ==
    /\ Usable /\ Readable(k)
    /\ borrowed' = [borrowed EXCEPT ![Where(k)][Index(k)] = @ + 1]
    /\ \E g \in Unused : guards' = guards \cup {Borrow(g, "read", k)}
    /\ UNCHANGED <<owner, objects, added, borrowed_mut, buffer, boxes, panicked>>

GetMut(k) ==
    /\ Usable /\ Writable(k)
    /\ borrowed_mut' = [borrowed_mut EXCEPT ![Where(k)][Index(k)] = TRUE]
    /\ \E g \in Unused : guards' = guards \cup {Borrow(g, "write", k)}
    /\ UNCHANGED <<owner, objects, added, borrowed, buffer, boxes, panicked>>

(* get of what is borrowed mutably, and get_mut of what is borrowed at all,*)
(* panic; the tables are as they were. Unwinding ends the program.         *)
Panics(kind) == /\ panicked' = kind
                /\ UNCHANGED <<owner, objects, added, borrowed, borrowed_mut, buffer, boxes, guards>>
DoubleGet(k) == Usable /\ ~Readable(k) /\ Panics("read")
DoubleGetMut(k) == Usable /\ ~Writable(k) /\ Panics("write")

(* Drop for ArenaBorrow and ArenaBorrowMut: a borrow from a cell is taken  *)
(* back there, one from a proxy where its key is now.                      *)
TakenFrom(g) == IF g.parent = "cell" THEN "cell" ELSE Where(g.key)
EntryOf_Unshifted(g) == g.key
EntryOf(g) == IF g.parent = "cell" THEN g.key ELSE Index(g.key)

DropBorrow(g) ==
    /\ g.kind = "read"
    /\ borrowed' = [borrowed EXCEPT ![TakenFrom(g)][EntryOf(g)] = @ - 1]
    /\ UNCHANGED borrowed_mut

DropBorrowMut(g) ==
    /\ g.kind = "write"
    /\ borrowed_mut' = [borrowed_mut EXCEPT ![TakenFrom(g)][EntryOf(g)] = FALSE]
    /\ UNCHANGED borrowed

Drop(g) ==
    /\ Running
    /\ DropBorrow(g) \/ DropBorrowMut(g)
    /\ guards' = guards \ {g}
    /\ UNCHANGED <<owner, objects, added, buffer, boxes, panicked>>

Next == \/ Push \/ ProxyPush \/ GetProxy \/ Commit \/ IntoReadonly \/ IntoCell
        \/ \E k \in Issued : Get(k) \/ GetMut(k) \/ DoubleGet(k) \/ DoubleGetMut(k)
        \/ \E g \in guards : Drop(g)

Spec == Init /\ [][Next]_vars

-----------------------------------------------------------------------------
(* Properties                                                              *)

Slot == [id : Guard, kind : {"read", "write"}, parent : Place, key : Nat,
         at : {"objects", "added", "box"} \X Buffer \X Nat]

(* The types of the variables; the tables are as long as what they are the *)
(* tables of, in every state in which somebody can look something up.      *)
TypeOK ==
    /\ owner \in {"cell", "proxy", "readonly"} /\ panicked \in {"none", "read", "write"}
    /\ objects \in Seq(Obj) /\ added \in Seq(Obj)
    /\ buffer \in Buffer /\ boxes \in Buffer
    /\ borrowed \in [Place -> Seq(Nat)] /\ borrowed_mut \in [Place -> Seq(BOOLEAN)]
    /\ guards \subseteq Slot /\ \A g \in guards : g.key \in Issued
    /\ owner # "readonly" => /\ Len(borrowed["cell"]) = Len(objects)
                             /\ Len(borrowed_mut["cell"]) = Len(objects)
    /\ owner = "proxy" => /\ Len(borrowed["proxy"]) = Len(added)
                          /\ Len(borrowed_mut["proxy"]) = Len(added)

Borrows(k, kind) == {g \in guards : g.key = k /\ g.kind = kind}

(* The tables say what is borrowed: a counter is the number of borrows of  *)
(* its key that live, a flag is set as long as a mutable one does, through *)
(* whatever they were taken and in whatever order they are dropped.        *)
CountsExact ==
    owner # "readonly" =>
        \A k \in Issued :
            /\ borrowed[Where(k)][Index(k)] = Cardinality(Borrows(k, "read"))
            /\ borrowed_mut[Where(k)][Index(k)] <=> Borrows(k, "write") # {}

(* Two borrows of the same object are both immutable: a key cannot be      *)
(* reached mutably by way of the cell and by way of the proxy.             *)
NoAlias ==
    \A g, h \in guards : g # h /\ Address(g.key) = Address(h.key)
                            => g.kind = "read" /\ h.kind = "read"

(* A reference stays good while it is held, although objects are added     *)
(* meanwhile: what it points at is not moved.                              *)
BorrowsValid == \A g \in guards : g.at = Address(g.key)

(* The arena keeps what BorrowRules promises, object by object. A key      *)
(* names its object from push to the end, over commit, into_readonly and   *)
(* into_cell; and nobody panics who did not borrow twice.                  *)
All == objects \o added
HeldOf(o, kind) == {g.id : g \in {h \in guards : h.kind = kind /\ All[h.key] = o}}
Rules == INSTANCE BorrowRules WITH
            named <- All,
            readers <- [o \in Obj |-> HeldOf(o, "read")],
            writers <- [o \in Obj |-> HeldOf(o, "write")],
            stopped <- panicked
KeepsRules == Rules!Spec
==============================================================================
