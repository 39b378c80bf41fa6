------------------------------- MODULE GcHeap --------------------------------
(***************************************************************************)
(* What a program may rely on: a heap whose objects exist as long as they  *)
(* can be reached.  The program's steps are those of generated code; the   *)
(* only step of the collector is to reclaim objects nobody can reach.      *)
(* GcCollect, the real cycle, implements this module when the program only *)
(* reads the heap while a cycle runs.                                      *)
(***************************************************************************)
EXTENDS Naturals, FiniteSets

CONSTANTS
    Ctx,        \* the contexts
    Obj,        \* addresses: an address that is not live may be handed out again
    Glob,       \* the globals, which poni_gc_visit_roots marks
    NULL,       \* the null pointer: nil, or a global before its initializer ran
    NONE        \* no pointer at all: the place is of a type that is not visited

\* "nil": the program has optional types, whose places may hold NULL.
Operations == {"alloc", "store", "load", "forget", "global", "nil"}

ASSUME HeapAssumption == /\ NULL \notin Obj /\ NONE \notin Obj /\ NULL # NONE
                         /\ IsFiniteSet(Obj) /\ IsFiniteSet(Ctx) /\ IsFiniteSet(Glob)

VARIABLES
    live,       \* the allocated objects
    field,      \* the pointer each object holds
    globals,    \* the pointer each global holds
    frame       \* per context, the pointers in its shadow-stack frames

heapVars == <<live, field, globals, frame>>

Ptr == Obj \cup {NULL, NONE}

HeapTypeOK == /\ live \subseteq Obj
              /\ field \in [Obj -> Ptr]
              /\ globals \in [Glob -> Ptr]
              /\ frame \in [Ctx -> SUBSET Obj]

(* Reachability without recursion: an object is reachable when every set   *)
(* that holds the roots and is closed under the field holds it.            *)
Rooted == {o \in Obj : \/ \E g \in Glob : globals[g] = o
                       \/ \E c \in Ctx : o \in frame[c]}
Closed(S) == \A o \in S : field[o] \in Obj => field[o] \in S
Reachable == {o \in Obj : \A S \in SUBSET Obj : Rooted \subseteq S /\ Closed(S) => o \in S}

(* A global of a type with pointers is NULL until its initializer has run. *)
HeapInit == /\ live = {}
            /\ field = [o \in Obj |-> NONE]
            /\ globals \in [Glob -> {NULL, NONE}]
            /\ frame = [c \in Ctx |-> {}]

(* What a program with these operations may store: a pointer it has, or nil. *)
Storable(c, ops) == frame[c] \cup (IF "nil" \in ops THEN {NULL} ELSE {})

(* new: a fresh object, held by the frame that asked for it.  Its type has *)
(* no pointers (NONE), or its initializer stores q.                        *)
New(c, o, q) == /\ o \notin live
                /\ live' = live \cup {o}
                /\ field' = [field EXCEPT ![o] = q]
                /\ frame' = [frame EXCEPT ![c] = @ \cup {o}]
                /\ UNCHANGED globals

(* p.field = q: a plain store, no write barrier.                           *)
SetField(c, p, q) == /\ p \in frame[c] /\ field[p] # NONE
                     /\ field' = [field EXCEPT ![p] = q]
                     /\ UNCHANGED <<live, globals, frame>>

LoadField(c, p) == /\ p \in frame[c] /\ field[p] \in Obj
                   /\ frame' = [frame EXCEPT ![c] = @ \cup {field[p]}]
                   /\ UNCHANGED <<live, field, globals>>

SetGlobal(c, g, q) == /\ globals[g] # NONE
                      /\ globals' = [globals EXCEPT ![g] = q]
                      /\ UNCHANGED <<live, field, frame>>

LoadGlobal(c, g) == /\ globals[g] \in Obj
                    /\ frame' = [frame EXCEPT ![c] = @ \cup {globals[g]}]
                    /\ UNCHANGED <<live, field, globals>>

(* A local goes out of use.                                                *)
Forget(c, p) == /\ p \in frame[c]
                /\ frame' = [frame EXCEPT ![c] = @ \ {p}]
                /\ UNCHANGED <<live, field, globals>>

Mutate(c, ops) ==
    \/ "store" \in ops /\ \E p \in frame[c], q \in Storable(c, ops) : SetField(c, p, q)
    \/ "load" \in ops /\ \E p \in frame[c] : LoadField(c, p)
    \/ "load" \in ops /\ \E g \in Glob : LoadGlobal(c, g)
    \/ "forget" \in ops /\ \E p \in frame[c] : Forget(c, p)
    \/ "global" \in ops /\ \E g \in Glob, q \in Storable(c, ops) : SetGlobal(c, g, q)

Reclaim(S) == /\ S \subseteq live \ Reachable
              /\ live' = live \ S
              /\ UNCHANGED <<field, globals, frame>>

HeapNext == \/ \E c \in Ctx : Mutate(c, Operations)
            \/ \E c \in Ctx : \E o \in Obj, q \in Storable(c, Operations) \cup {NONE} : New(c, o, q)
            \/ \E S \in SUBSET live : Reclaim(S)

HeapSpec == HeapInit /\ [][HeapNext]_heapVars

(* A reachable object has not been freed.                                  *)
NoDangling == Reachable \subseteq live
=============================================================================
