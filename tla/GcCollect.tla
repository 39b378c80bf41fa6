------------------------------ MODULE GcCollect ------------------------------
(***************************************************************************)
(* A collection cycle of the concurrent collector over a heap: Gc::collect *)
(* and what poll_slow contributes to it, with the handshakes taken from    *)
(* Rendezvous (GcHandshake shows that the locks and counters implement     *)
(* it).  A context answers when it polls; between polls the program runs.  *)
(***************************************************************************)
EXTENDS GcHeap

CONSTANTS
    Ops,        \* the heap operations this program uses (see Operations)
    CycleOps,   \* those of them it uses while a cycle runs
    KeepsMark,  \* setting the tag of a new object keeps its mark bit
    THRESHOLD,  \* own allocations handed over without being asked (4096)
    MaxCycles   \* bound on the cycles started

ASSUME CollectAssumption == /\ Ops \subseteq Operations /\ CycleOps \subseteq Ops
                            /\ KeepsMark \in BOOLEAN
                            /\ THRESHOLD \in Nat \ {0} /\ MaxCycles \in Nat

VARIABLES
    phase,      \* where collect() is, or "crashed"
    asked, pending,     \* the handshake (Rendezvous)
    allocMarked,        \* GC_ALLOCATE_MARKED
    marked,     \* the objects whose header has the mark bit
    markQueue,  \* the objects marked and not visited yet
    rootsLeft,  \* the globals poni_gc_visit_roots has not come to
    own,        \* per context, GcContext.own_allocs
    allocator,  \* GcAllocator.allocations
    queues,     \* per context, what it pushed onto queue_queue
    cycles,     \* cycles started
    snapshot    \* history: what could be reached when the cycle that runs began

gcVars == <<phase, asked, pending, allocMarked, marked, markQueue, rootsLeft,
            own, allocator, queues, cycles, snapshot>>
vars == <<heapVars, gcVars>>

HS == INSTANCE Rendezvous

Init == /\ HeapInit
        /\ HS!RvInit
        /\ phase = "idle" /\ allocMarked = FALSE
        /\ marked = {} /\ markQueue = {} /\ rootsLeft = {}
        /\ own = [c \in Ctx |-> {}] /\ allocator = {} /\ queues = [c \in Ctx |-> {}]
        /\ cycles = 0 /\ snapshot = {}

Goto(here, there) == phase = here /\ phase' = there

-----------------------------------------------------------------------------
(* The program                                                             *)

Allowed == CASE phase = "idle" -> Ops [] phase = "crashed" -> {} [] OTHER -> CycleOps

(* Allocated marked while a cycle runs; then the header is set to the tag. *)
BornMarked == KeepsMark /\ allocMarked

(* alloc_raw_bytes and the tag: the new object joins own_allocs, which go  *)
(* to the allocator once they are THRESHOLD many, if its lock is free.     *)
Alloc(c, o) ==
    /\ "alloc" \in Allowed
    /\ \E q \in Storable(c, Allowed) \cup {NONE} : New(c, o, q)
    /\ marked' = IF BornMarked THEN marked \cup {o} ELSE marked \ {o}
    /\ LET mine == own[c] \cup {o}
       IN  \/ /\ Cardinality(mine) >= THRESHOLD
              /\ allocator' = allocator \cup mine
              /\ own' = [own EXCEPT ![c] = {}]
           \/ /\ own' = [own EXCEPT ![c] = mine]
              /\ UNCHANGED allocator
    /\ UNCHANGED <<phase, asked, pending, allocMarked, markQueue, rootsLeft, queues,
                   cycles, snapshot>>

Run(c) == /\ Mutate(c, Allowed)
          /\ UNCHANGED gcVars

-----------------------------------------------------------------------------
(* poll_slow                                                               *)

(* do_handoff and do_scan: what a context contributes to a handshake.  The *)
(* frames are taken at their word here; GcSlots is about what is in them.   *)
HandedOver_Nothing(c) == {}
HandedOver(c) == own[c]
LeftOver_Cloned(c) == own[c]
LeftOver(c) == own[c] \ HandedOver(c)
RootsOf_StopsAtMarked(c) == IF frame[c] \cap marked = {} THEN frame[c] ELSE {}
RootsOf(c) == frame[c] \ marked

PollHandoff(c) ==
    /\ phase = "handoff" /\ HS!Answer(c)
    /\ allocator' = allocator \cup HandedOver(c)
    /\ own' = [own EXCEPT ![c] = LeftOver(c)]
    /\ UNCHANGED <<heapVars, phase, allocMarked, marked, markQueue, rootsLeft, queues,
                   cycles, snapshot>>

PollScan(c) ==
    /\ phase = "scan" /\ HS!Answer(c)
    /\ queues' = [queues EXCEPT ![c] = @ \cup RootsOf(c)]
    /\ UNCHANGED <<heapVars, phase, allocMarked, marked, markQueue, rootsLeft, own, allocator,
                   cycles, snapshot>>

-----------------------------------------------------------------------------
(* The collector                                                           *)

(* poni_gc_mark of each of S: those not marked yet are marked and queued.  *)
MarkAll(S) == /\ marked' = marked \cup S
              /\ markQueue' = markQueue \cup (S \ marked)

(* A COLLECT request: new objects are marked from here on.                 *)
Begin == /\ Goto("idle", "begin") /\ cycles < MaxCycles
         /\ cycles' = cycles + 1
         /\ allocMarked' = TRUE
         /\ snapshot' = Reachable
         /\ UNCHANGED <<heapVars, asked, pending, marked, markQueue, rootsLeft, own, allocator,
                        queues>>

AskHandoff == /\ Goto("begin", "handoff") /\ HS!Ask(Ctx)
              /\ UNCHANGED <<heapVars, allocMarked, marked, markQueue, rootsLeft, own, allocator,
                             queues, cycles, snapshot>>

HandoffDone == /\ Goto("handoff", "roots") /\ HS!Proceed
               /\ rootsLeft' = Glob
               /\ UNCHANGED <<heapVars, allocMarked, marked, markQueue, own, allocator, queues,
                              cycles, snapshot>>

(* poni_gc_visit_roots reads one global after the other; those of a type   *)
(* without pointers are not visited.                                       *)
RootOf_Nothing(g) == {}
RootOf(g) == {globals[g]} \ {NONE}
VisitRoot(g) ==
    /\ phase = "roots" /\ g \in rootsLeft /\ NULL \notin RootOf(g)
    /\ rootsLeft' = rootsLeft \ {g}
    /\ MarkAll(RootOf(g))
    /\ UNCHANGED <<heapVars, phase, asked, pending, allocMarked, own, allocator, queues,
                   cycles, snapshot>>

AskScan == /\ Goto("roots", "scan") /\ rootsLeft = {} /\ HS!Ask(Ctx)
           /\ UNCHANGED <<heapVars, allocMarked, marked, markQueue, rootsLeft, own, allocator,
                          queues, cycles, snapshot>>

ScanDone == /\ Goto("scan", "take") /\ HS!Proceed
            /\ UNCHANGED <<heapVars, allocMarked, marked, markQueue, rootsLeft, own, allocator,
                           queues, cycles, snapshot>>

(* Take queue_queue and mark what is in it; the cycle is at its end when   *)
(* that leaves nothing to visit.                                           *)
TakeQueues ==
    /\ phase = "take"
    /\ MarkAll(UNION {queues[c] : c \in Ctx})
    /\ queues' = [c \in Ctx |-> {}]
    /\ IF markQueue' = {}
       THEN phase' = "sweep" /\ allocMarked' = FALSE
       ELSE phase' = "trace" /\ UNCHANGED allocMarked
    /\ UNCHANGED <<heapVars, asked, pending, rootsLeft, own, allocator, cycles, snapshot>>

(* process_queue: visit one object, until none is left.                    *)
Visited_Nothing(o) == {}
Visited(o) == {field[o]} \ {NONE}
Popped_Peek(o) == {}
Popped(o) == {o}
Trace ==
    /\ phase = "trace"
    /\ \E o \in markQueue :
          /\ NULL \notin Visited(o)
          /\ marked' = marked \cup Visited(o)
          /\ markQueue' = (markQueue \ Popped(o)) \cup (Visited(o) \ marked)
    /\ UNCHANGED <<heapVars, phase, asked, pending, allocMarked, rootsLeft, own, allocator,
                   queues, cycles, snapshot>>

(* The visitors give poni_gc_mark every pointer there is, and it reads the *)
(* header behind it without a look at the pointer: NULL ends the process.  *)
Crash ==
    /\ \/ phase = "roots" /\ \E g \in rootsLeft : NULL \in RootOf(g)
       \/ phase = "trace" /\ \E o \in markQueue : NULL \in Visited(o)
    /\ phase' = "crashed"
    /\ UNCHANGED <<heapVars, asked, pending, allocMarked, marked, markQueue, rootsLeft, own,
                   allocator, queues, cycles, snapshot>>

(* The queue is empty: scan again, since the frames have moved meanwhile.  *)
ScanAgain == /\ Goto("trace", "scan") /\ markQueue = {} /\ HS!Ask(Ctx)
             /\ UNCHANGED <<heapVars, allocMarked, marked, markQueue, rootsLeft, own, allocator,
                            queues, cycles, snapshot>>

(* GcAllocator::sweep, with the allocator locked: free what is not marked, *)
(* clear the mark of what is kept.                                         *)
Kept == allocator \cap marked
Unmarked_Nothing == {}
Unmarked == allocator
Sweep == /\ Goto("sweep", "idle")
         /\ live' = live \ (allocator \ marked)
         /\ allocator' = Kept
         /\ marked' = marked \ Unmarked
         /\ snapshot' = {}
         /\ UNCHANGED <<field, globals, frame, asked, pending, allocMarked, markQueue, rootsLeft,
                        own, queues, cycles>>

Cycle == \/ AskHandoff \/ HandoffDone \/ (\E g \in Glob : VisitRoot(g)) \/ AskScan
         \/ ScanDone \/ TakeQueues \/ Trace \/ Crash \/ ScanAgain \/ Sweep

Poll(c) == PollHandoff(c) \/ PollScan(c)

Next == \/ Begin \/ Cycle
        \/ \E c \in Ctx : Poll(c) \/ Run(c) \/ \E o \in Obj : Alloc(c, o)

(* The collector's thread runs, and every context polls again and again;   *)
(* nobody owes a request.                                                  *)
Spec == Init /\ [][Next]_vars /\ WF_vars(Cycle) /\ \A c \in Ctx : WF_vars(Poll(c))

-----------------------------------------------------------------------------
(* Properties                                                              *)

Phases == {"idle", "begin", "handoff", "roots", "scan", "take", "trace", "sweep", "crashed"}

(* The types of the variables.                                             *)
TypeOK == /\ HeapTypeOK /\ HS!RvTypeOK
          /\ phase \in Phases /\ allocMarked \in BOOLEAN
          /\ marked \subseteq Obj /\ markQueue \subseteq Obj /\ rootsLeft \subseteq Glob
          /\ own \in [Ctx -> SUBSET Obj] /\ allocator \subseteq Obj
          /\ queues \in [Ctx -> SUBSET Obj] /\ cycles \in Nat /\ snapshot \subseteq Obj

(* Every live object is in exactly one list: the allocator's, or the own   *)
(* allocations of one context.  Nothing is leaked by a hand-over in the    *)
(* middle of a cycle and nothing can be freed twice.                       *)
TrackedOnce ==
    /\ live = allocator \cup UNION {own[c] : c \in Ctx}
    /\ \A c \in Ctx : own[c] \cap allocator = {}
    /\ \A c, d \in Ctx : c # d => own[c] \cap own[d] = {}

(* A cycle leaves no mark behind, nor anything in a queue.                 *)
CleanWhenIdle ==
    phase = "idle" => /\ marked \cap live = {} /\ markQueue = {}
                      /\ \A c \in Ctx : queues[c] = {}

(* A sweep keeps what can be reached, and frees all that could not be when *)
(* its cycle began: garbage outlives at most one cycle.                    *)
FreesExactly == [][Sweep => Reachable \subseteq live' /\ live' \subseteq snapshot]_vars

(* A cycle implements the abstract heap: it only ever reclaims what cannot *)
(* be reached.                                                             *)
ImplementsHeap == HeapSpec

(* A program survives a collection only without NULL: the cycle gets to    *)
(* its sweep when no global and no field within reach holds it, and the    *)
(* process dies in a cycle only when one that could be reached when the    *)
(* cycle began does.  NULL in a frame or in garbage does no harm.          *)
HeldBy(S) == {globals[g] : g \in Glob} \cup {field[o] : o \in S}
NullIsFatal == /\ phase = "sweep" => NULL \notin HeldBy(Reachable)
               /\ phase = "crashed" => NULL \in HeldBy(snapshot)

(* A cycle comes to its end, or the process to its own.                    *)
CycleEnds == (phase # "idle") ~> (phase \in {"idle", "crashed"})
=============================================================================
