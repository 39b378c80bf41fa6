------------------------------- MODULE GcSlots -------------------------------
(***************************************************************************)
(* How the code generator keeps pointers in a function's shadow-stack      *)
(* frame: GCFrame and the functions of Codegen that hand out its slots.    *)
(* Codegen walks a function and emits C; the same steps here also run the  *)
(* emitted C along one path, the branches of every `if` being chosen as it *)
(* is opened.  A loop is such an `if`: its body is emitted once, and the   *)
(* path goes through it or not.                                            *)
(*                                                                         *)
(* What a slot holds at run time is written as the value whose present     *)
(* pointer it is; NONE when that is no value's any more.                   *)
(***************************************************************************)
EXTENDS Naturals, Sequences

CONSTANTS
    Vals,               \* C variables that hold one pointer: temporaries and locals
    NONE,               \* no value, no slot
    DebugAssertions,    \* the compiler is a debug build
    MaxSlots,           \* bound on the slots of the frame
    MaxDepth            \* bound on the blocks open at once

ASSUME SlotsAssumption == /\ DebugAssertions \in BOOLEAN
                          /\ MaxSlots \in Nat /\ MaxDepth \in Nat \ {0}
                          /\ NONE \notin Vals /\ NONE \notin Nat

VARIABLES
    frame,      \* the GCFrame: next_alloc_slot, avail, saved, written
    held,       \* the slot of each TypedVal and of each variable in block_scopes
    scope,      \* the depth of the C block a value is declared in; 0: in none that is open
    blocks,     \* the blocks being compiled, innermost last
    calling,    \* the call whose values have just been saved has not returned
    ptrs,       \* at run time: gc_frame.ptrs
    stale       \* history: reassigned, or first saved on a path not taken, since it has its slot

vars == <<frame, held, scope, blocks, calling, ptrs, stale>>

Slot == 0 .. MaxSlots - 1

(* A block: its part in an `if`, whether the path runs through it and      *)
(* through the other branch, the value of the `if` and that of the `then`  *)
(* branch, and what holds slots here: variables and TypedVals.             *)
Block(part, runs, other, own) ==
    [part |-> part, runs |-> runs, other |-> other, own |-> own, kept |-> NONE,
     vars |-> {}, temps |-> {}]

Depth == Len(blocks)
Top == blocks[Depth]

Init == /\ frame = [next |-> 0, avail |-> {}, saved |-> [s \in Slot |-> NONE], written |-> {}]
        /\ held = [v \in Vals |-> NONE] /\ scope = [v \in Vals |-> 0]
        /\ blocks = <<Block("body", TRUE, FALSE, NONE)>>
        /\ calling = FALSE
        /\ ptrs = [s \in Slot |-> NONE] /\ stale = {}

-----------------------------------------------------------------------------
(* GCFrame                                                                 *)

NewSlot(f) == IF f.avail = {} THEN f.next
              ELSE CHOOSE s \in f.avail : \A t \in f.avail : t <= s

Room(f) == NewSlot(f) < MaxSlots

(* allocate_slot and free_slots.  What they do inside debug_assert! is     *)
(* done by a debug build only.                                             *)
Allocated_Advances(f, v) ==
    [f EXCEPT !.next = @ + 1, !.avail = @ \ {NewSlot(f)}, !.saved = [@ EXCEPT ![NewSlot(f)] = v]]
Allocated_Peek(f, v) == [f EXCEPT !.next = IF f.avail = {} THEN @ + 1 ELSE @,
                                  !.saved = [@ EXCEPT ![NewSlot(f)] = v]]
Allocated(f, v) ==
    [f EXCEPT !.next = IF f.avail = {} THEN @ + 1 ELSE @,
              !.avail = @ \ {NewSlot(f)},
              !.saved = IF DebugAssertions THEN [@ EXCEPT ![NewSlot(f)] = v] ELSE @]

Freed_KeepsWritten(f, S) == [f EXCEPT !.avail = @ \cup S,
                                      !.saved = [s \in Slot |-> IF s \in S THEN NONE ELSE @[s]]]
Freed(f, S) ==
    [f EXCEPT !.avail = IF DebugAssertions THEN @ \cup S ELSE @,
              !.saved = IF DebugAssertions THEN [s \in Slot |-> IF s \in S THEN NONE ELSE @[s]]
                                           ELSE @,
              !.written = @ \ S]

Given(f, v) == IF v = NONE THEN f ELSE Allocated(f, v)
Taken(f, v) == IF v = NONE THEN f ELSE Freed(f, {held[v]})
ScopePopped == Freed(frame, {held[v] : v \in Top.vars})

(* A name not in use, and what becomes of the slots when it gets one.      *)
Fresh(v) == scope[v] = 0 /\ held[v] = NONE
Renewed(v) == [s \in Slot |-> IF ptrs[s] = v THEN NONE ELSE ptrs[s]]

-----------------------------------------------------------------------------
(* Values and variables                                                    *)

(* A value comes into being: it is defined in C and has its slot.          *)
Define(v, kind) ==
    /\ Fresh(v) /\ Room(frame)
    /\ frame' = Allocated(frame, v)
    /\ held' = [held EXCEPT ![v] = NewSlot(frame)]
    /\ scope' = [scope EXCEPT ![v] = Depth]
    /\ blocks' = [blocks EXCEPT ![Depth] = IF kind = "var" THEN [Top EXCEPT !.vars = @ \cup {v}]
                                                          ELSE [Top EXCEPT !.temps = @ \cup {v}]]
    /\ ptrs' = Renewed(v)
    /\ UNCHANGED stale

(* The result of an expression that calls nothing; a declared variable,    *)
(* after its initial assignment has been compiled.                         *)
Value(v) == ~calling /\ Define(v, "temp") /\ UNCHANGED calling
Declare(v) == ~calling /\ Define(v, "var") /\ UNCHANGED calling

(* Drop for TypedVal.                                                      *)
Drop(v) == /\ ~calling /\ v \in Top.temps
           /\ frame' = Freed(frame, {held[v]})
           /\ held' = [held EXCEPT ![v] = NONE]
           /\ scope' = [scope EXCEPT ![v] = 0]
           /\ blocks' = [blocks EXCEPT ![Depth] = [Top EXCEPT !.temps = @ \ {v}]]
           /\ stale' = stale \ {v}
           /\ UNCHANGED <<calling, ptrs>>

(* compile_assign of a variable declared in any open block: the C variable *)
(* changes and GCFrame does not.                                           *)
Assign(v) ==
    /\ ~calling /\ \E d \in 1 .. Depth : v \in blocks[d].vars
    /\ IF Top.runs
       THEN /\ ptrs' = Renewed(v)
            /\ stale' = IF held[v] \in frame.written THEN stale \cup {v} ELSE stale
       ELSE UNCHANGED <<ptrs, stale>>
    /\ UNCHANGED <<frame, held, scope, blocks, calling>>

(* save_gc_values, then the call: a slot that has been written is not      *)
(* written again.                                                          *)
Unwritten(f) == {s \in Slot : f.saved[s] # NONE} \ f.written
Call == LET new == Unwritten(frame)
        IN  /\ ~calling /\ calling' = TRUE
            /\ frame' = [frame EXCEPT !.written = @ \cup new]
            /\ IF Top.runs
               THEN /\ ptrs' = [s \in Slot |-> IF s \in new THEN frame.saved[s] ELSE ptrs[s]]
                    /\ UNCHANGED stale
               ELSE /\ stale' = stale \cup {frame.saved[s] : s \in new}
                    /\ UNCHANGED ptrs
            /\ UNCHANGED <<held, scope, blocks>>

(* The call's own value gets its slot once the others are saved.           *)
Return(v) == /\ calling /\ calling' = FALSE
             /\ IF v = NONE THEN UNCHANGED <<frame, held, scope, blocks, ptrs, stale>>
                ELSE Define(v, "temp")

-----------------------------------------------------------------------------
(* Blocks                                                                  *)

(* compile_if: storage for its value, without a slot as yet; then the      *)
(* branch, on a path where the condition is c.                             *)
OpenIf(own, c) ==
    /\ ~calling /\ Depth < MaxDepth
    /\ own # NONE => Fresh(own)
    /\ scope' = [v \in Vals |-> IF v = own THEN Depth ELSE scope[v]]
    /\ blocks' = Append(blocks, Block("then", Top.runs /\ c, Top.runs /\ ~c, own))
    /\ UNCHANGED <<frame, held, calling, ptrs, stale>>

OpenBlock(own) ==
    /\ ~calling /\ Depth < MaxDepth
    /\ own # NONE => Fresh(own)
    /\ scope' = [v \in Vals |-> IF v = own THEN Depth ELSE scope[v]]
    /\ blocks' = Append(blocks, Block("block", Top.runs, FALSE, own))
    /\ UNCHANGED <<frame, held, calling, ptrs, stale>>

(* The closing brace.                                                      *)
BraceClosed == scope' = [v \in Vals |-> IF scope[v] = Depth THEN 0 ELSE scope[v]]

(* Back in the enclosing block, where the value of the closed one is a     *)
(* TypedVal.                                                               *)
Closed(own) == /\ BraceClosed
               /\ blocks' = [SubSeq(blocks, 1, Depth - 1) EXCEPT
                                ![Depth - 1].temps = @ \cup ({own} \ {NONE})]

(* block_into: the block's scope is popped, then its value gets a slot.    *)
CloseBlock ==
    /\ ~calling /\ Top.part = "block" /\ Top.temps = {}
    /\ Top.own # NONE => Room(ScopePopped)
    /\ frame' = Given(ScopePopped, Top.own)
    /\ held' = [v \in Vals |-> IF v = Top.own THEN NewSlot(ScopePopped)
                               ELSE IF v \in Top.vars THEN NONE ELSE held[v]]
    /\ Closed(Top.own)
    /\ ptrs' = IF Top.own = NONE THEN ptrs ELSE Renewed(Top.own)
    /\ stale' = stale \ Top.vars
    /\ UNCHANGED calling

(* The end of an `if` without else.                                        *)
EndIf == /\ ~calling /\ Top.part = "then" /\ Top.temps = {} /\ Top.own = NONE
         /\ frame' = ScopePopped
         /\ held' = [v \in Vals |-> IF v \in Top.vars THEN NONE ELSE held[v]]
         /\ Closed(NONE)
         /\ stale' = stale \ Top.vars
         /\ UNCHANGED <<calling, ptrs>>

(* The end of the `then` branch: its value, declared inside the braces,    *)
(* gets a slot, which compile_if holds on to until it returns.             *)
OpenElse(kept) ==
    /\ ~calling /\ Top.part = "then" /\ Top.temps = {}
    /\ (kept = NONE) = (Top.own = NONE)
    /\ kept # NONE => Fresh(kept) /\ Room(ScopePopped)
    /\ frame' = Given(ScopePopped, kept)
    /\ held' = [v \in Vals |-> IF v = kept THEN NewSlot(ScopePopped)
                               ELSE IF v \in Top.vars THEN NONE ELSE held[v]]
    /\ BraceClosed
    /\ blocks' = [blocks EXCEPT ![Depth] = [Block("else", Top.other, FALSE, Top.own)
                                               EXCEPT !.kept = kept]]
    /\ ptrs' = IF kept = NONE THEN ptrs ELSE Renewed(kept)
    /\ stale' = stale \ Top.vars
    /\ UNCHANGED calling

(* The end of the `else` branch.  The slot of its value comes and goes;    *)
(* then the `if` itself gets one, then that of the `then` value is freed.  *)
ElseDone == LET popped == ScopePopped
            IN  IF Top.own = NONE THEN popped
                ELSE Freed(Allocated(popped, Top.own), {NewSlot(popped)})
CloseElse ==
    /\ ~calling /\ Top.part = "else" /\ Top.temps = {}
    /\ Top.own # NONE => Room(ScopePopped) /\ Room(ElseDone)
    /\ frame' = Taken(Given(ElseDone, Top.own), Top.kept)
    /\ held' = [v \in Vals |-> IF v = Top.own THEN NewSlot(ElseDone)
                               ELSE IF v \in Top.vars \cup {Top.kept} THEN NONE ELSE held[v]]
    /\ Closed(Top.own)
    /\ ptrs' = IF Top.own = NONE THEN ptrs ELSE Renewed(Top.own)
    /\ stale' = stale \ (Top.vars \cup {Top.kept})
    /\ UNCHANGED calling

Next == \/ Call \/ CloseBlock \/ EndIf \/ CloseElse
        \/ \E v \in Vals : Value(v) \/ Declare(v) \/ Drop(v) \/ Assign(v)
        \/ \E v \in Vals \cup {NONE} : \/ Return(v) \/ OpenElse(v) \/ OpenBlock(v)
                                       \/ \E c \in BOOLEAN : OpenIf(v, c)

Spec == Init /\ [][Next]_vars

-----------------------------------------------------------------------------
(* Properties                                                              *)

FrameType == [next : 0 .. MaxSlots, avail : SUBSET Slot, saved : [Slot -> Vals \cup {NONE}],
              written : SUBSET Slot]
BlockType == [part : {"body", "block", "then", "else"}, runs : BOOLEAN, other : BOOLEAN,
              own : Vals \cup {NONE}, kept : Vals \cup {NONE},
              vars : SUBSET Vals, temps : SUBSET Vals]

(* The types of the variables.                                             *)
TypeOK == /\ frame \in FrameType
          /\ held \in [Vals -> Slot \cup {NONE}] /\ scope \in [Vals -> 0 .. MaxDepth]
          /\ blocks \in Seq(BlockType) /\ Depth \in 1 .. MaxDepth
          /\ calling \in BOOLEAN
          /\ ptrs \in [Slot -> Vals \cup {NONE}] /\ stale \subseteq Vals

FrameExact(f, h) ==
    /\ \A v \in Vals : h[v] # NONE => f.saved[h[v]] = v
    /\ \A s \in Slot : f.saved[s] # NONE => h[f.saved[s]] = s
    /\ f.avail = {s \in Slot : s < f.next /\ f.saved[s] = NONE}
    /\ \A s \in Slot : f.saved[s] # NONE => s < f.next
    /\ \A s \in f.written : f.saved[s] # NONE

(* Every slot below next_alloc_slot is either available or saved for the   *)
(* one value that holds it: no two live values share a slot, none is lost, *)
(* and no debug_assert! of GCFrame fires.                                  *)
SlotsExclusive == FrameExact(frame, held)

(* A value that is live at a call the path makes is in the frame unless it *)
(* was reassigned, or first saved in a branch the path did not take.       *)
SavedUnlessStale ==
    calling /\ Top.runs =>
        \A v \in Vals \ stale : held[v] # NONE /\ scope[v] # 0 => ptrs[held[v]] = v

(* Every value that is live at a call the path makes is in the frame: what *)
(* GCFrame says it is for.                                                 *)
SavedAtCall ==
    calling /\ Top.runs =>
        \A v \in Vals : held[v] # NONE /\ scope[v] # 0 => ptrs[held[v]] = v
=============================================================================
