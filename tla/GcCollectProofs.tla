--------------------------- MODULE GcCollectProofs ---------------------------
(***************************************************************************)
(* Proofs about GcCollect for any contexts, objects and globals: when the  *)
(* program only reads the heap while a cycle runs, the collector never     *)
(* frees a reachable object and implements the abstract heap.              *)
(***************************************************************************)
EXTENDS GcCollect, TLAPS

-----------------------------------------------------------------------------
(* The inductive invariant, in parts                                       *)

(* What the program may do during a cycle: load pointers, drop pointers.   *)
ReadsOnly == CycleOps \subseteq {"load", "forget"}

(* No live place holds a pointer to a dead object, reachable or not.       *)
HeapClosed == /\ \A c \in Ctx : frame[c] \subseteq live
              /\ \A g \in Glob : globals[g] \in Obj => globals[g] \in live
              /\ \A o \in live : field[o] \in Obj => field[o] \in live

(* Before the roots are visited there is no mark and nothing is queued.    *)
Resting == /\ phase \in {"idle", "sweep"} => ~allocMarked
           /\ phase \in {"idle", "begin", "handoff"} =>
                 /\ marked = {} /\ markQueue = {}
                 /\ \A c \in Ctx : queues[c] = {}

Marking == phase \in {"roots", "scan", "take", "trace", "sweep"}

(* Who has handed over has nothing of its own until the cycle is over.     *)
HandedOff == /\ phase = "handoff" => \A c \in Ctx \ pending : own[c] = {}
             /\ Marking => \A c \in Ctx : own[c] = {}
             /\ phase \notin {"handoff", "scan"} => pending = {}

(* Marks are on live objects, and what a visited object holds is marked:   *)
(* it cannot have been NULL.                                               *)
Traced == /\ marked \subseteq live /\ markQueue \subseteq marked
          /\ \A c \in Ctx : queues[c] \subseteq live
          /\ \A o \in marked \ markQueue : field[o] \in marked \cup {NONE}

(* What the globals visited so far hold is marked.                         *)
RootsMarked == /\ Marking => \A g \in Glob \ rootsLeft : globals[g] \in marked \cup {NONE}
               /\ Marking /\ phase # "roots" => rootsLeft = {}

(* When the scans so far found nothing new, what was scanned is marked,    *)
(* and stays so whatever the context loads afterwards.                     *)
NothingNew == markQueue = {} /\ \A c \in Ctx : queues[c] \subseteq marked
FramesMarked == /\ phase = "scan" /\ NothingNew => \A c \in Ctx \ pending : frame[c] \subseteq marked
                /\ phase = "take" /\ NothingNew => \A c \in Ctx : frame[c] \subseteq marked
                /\ phase = "sweep" => /\ markQueue = {}
                                      /\ \A c \in Ctx : frame[c] \subseteq marked
                /\ phase \in {"trace", "sweep"} => \A c \in Ctx : queues[c] = {}

IInv == /\ TypeOK /\ TrackedOnce /\ HeapClosed /\ Resting /\ HandedOff /\ Traced
        /\ RootsMarked /\ FramesMarked

-----------------------------------------------------------------------------
(* Initially, and the actions one by one                                   *)

LEMMA InitInv == Init => IInv
<1>. SUFFICES ASSUME Init PROVE IInv
  OBVIOUS
<1>. USE DEF Init, HeapInit, HS!RvInit
<1>1. TypeOK
  BY DEF TypeOK, HeapTypeOK, HS!RvTypeOK, Phases, Ptr
<1>2. TrackedOnce
  BY DEF TrackedOnce
<1>3. HeapClosed /\ Resting /\ HandedOff /\ Traced
  BY HeapAssumption DEF HeapClosed, Resting, HandedOff, Traced, Marking
<1>4. RootsMarked /\ FramesMarked
  BY DEF RootsMarked, FramesMarked, Marking
<1>. QED BY <1>1, <1>2, <1>3, <1>4 DEF IInv

(* A request starts a cycle: nothing is marked yet. *)
LEMMA BeginInv == ASSUME ReadsOnly, IInv, Begin PROVE IInv'
<1>. USE DEF IInv, Begin, Goto, heapVars
<1>1. TypeOK'
  BY DEF TypeOK, HeapTypeOK, HS!RvTypeOK, Ptr, Phases, Reachable
<1>2. TrackedOnce'
  BY DEF TrackedOnce, TypeOK, HeapTypeOK, HS!RvTypeOK, Ptr, Phases
<1>3. HeapClosed'
  BY DEF HeapClosed, TypeOK, HeapTypeOK, HS!RvTypeOK, Ptr, Phases
<1>4. Resting'
  BY DEF Resting
<1>5. HandedOff'
  BY DEF HandedOff, Marking, TypeOK, HeapTypeOK, HS!RvTypeOK, Ptr, Phases
<1>6. Traced'
  BY DEF Traced, TypeOK, HeapTypeOK, HS!RvTypeOK, Ptr, Phases
<1>7. RootsMarked'
  BY DEF RootsMarked, Marking, TypeOK, HeapTypeOK, HS!RvTypeOK, Ptr, Phases
<1>8. FramesMarked'
  BY DEF FramesMarked, NothingNew, TypeOK, HeapTypeOK, HS!RvTypeOK, Ptr, Phases, Traced
<1>. QED BY <1>1, <1>2, <1>3, <1>4, <1>5, <1>6, <1>7, <1>8 DEF IInv

(* The first question. *)
LEMMA AskHandoffInv == ASSUME ReadsOnly, IInv, AskHandoff PROVE IInv'
<1>. USE DEF IInv, AskHandoff, Goto, HS!Ask, heapVars
<1>1. TypeOK'
  BY DEF TypeOK, HeapTypeOK, HS!RvTypeOK, Ptr, Phases
<1>2. TrackedOnce'
  BY DEF TrackedOnce, TypeOK, HeapTypeOK, HS!RvTypeOK, Ptr, Phases
<1>3. HeapClosed'
  BY DEF HeapClosed, TypeOK, HeapTypeOK, HS!RvTypeOK, Ptr, Phases
<1>4. Resting'
  BY DEF Resting
<1>5. HandedOff'
  BY DEF HandedOff, Marking, TypeOK, HeapTypeOK, HS!RvTypeOK, Ptr, Phases
<1>6. Traced'
  BY DEF Traced, TypeOK, HeapTypeOK, HS!RvTypeOK, Ptr, Phases
<1>7. RootsMarked'
  BY DEF RootsMarked, Marking, TypeOK, HeapTypeOK, HS!RvTypeOK, Ptr, Phases
<1>8. FramesMarked'
  BY DEF FramesMarked, NothingNew, TypeOK, HeapTypeOK, HS!RvTypeOK, Ptr, Phases, Traced
<1>. QED BY <1>1, <1>2, <1>3, <1>4, <1>5, <1>6, <1>7, <1>8 DEF IInv

(* A context hands over: its objects change lists. *)
LEMMA PollHandoffInv == ASSUME NEW c \in Ctx, ReadsOnly, IInv, PollHandoff(c) PROVE IInv'
<1>. USE DEF IInv, PollHandoff, HandedOver, LeftOver, HS!Answer, heapVars
<1>1. TypeOK'
  BY DEF TypeOK, HeapTypeOK, HS!RvTypeOK, Ptr, Phases
<1>2. TrackedOnce'
  BY DEF TrackedOnce, TypeOK, HeapTypeOK, HS!RvTypeOK, Ptr, Phases
<1>3. HeapClosed'
  BY DEF HeapClosed, TypeOK, HeapTypeOK, HS!RvTypeOK, Ptr, Phases
<1>4. Resting'
  BY DEF Resting
<1>5. HandedOff'
  BY DEF HandedOff, Marking, TypeOK, HeapTypeOK, HS!RvTypeOK, Ptr, Phases
<1>6. Traced'
  BY DEF Traced, TypeOK, HeapTypeOK, HS!RvTypeOK, Ptr, Phases
<1>7. RootsMarked'
  BY DEF RootsMarked, Marking, TypeOK, HeapTypeOK, HS!RvTypeOK, Ptr, Phases
<1>8. FramesMarked'
  BY DEF FramesMarked, NothingNew, TypeOK, HeapTypeOK, HS!RvTypeOK, Ptr, Phases, Traced
<1>. QED BY <1>1, <1>2, <1>3, <1>4, <1>5, <1>6, <1>7, <1>8 DEF IInv

(* Everybody has handed over. *)
LEMMA HandoffDoneInv == ASSUME ReadsOnly, IInv, HandoffDone PROVE IInv'
<1>. USE DEF IInv, HandoffDone, Goto, HS!Proceed, heapVars
<1>1. TypeOK'
  BY DEF TypeOK, HeapTypeOK, HS!RvTypeOK, Ptr, Phases
<1>2. TrackedOnce'
  BY DEF TrackedOnce, TypeOK, HeapTypeOK, HS!RvTypeOK, Ptr, Phases
<1>3. HeapClosed'
  BY DEF HeapClosed, TypeOK, HeapTypeOK, HS!RvTypeOK, Ptr, Phases
<1>4. Resting'
  BY DEF Resting
<1>5. HandedOff'
  BY DEF HandedOff, Marking, TypeOK, HeapTypeOK, HS!RvTypeOK, Ptr, Phases
<1>6. Traced'
  BY DEF Traced, TypeOK, HeapTypeOK, HS!RvTypeOK, Ptr, Phases
<1>7. RootsMarked'
  BY DEF RootsMarked, Marking, TypeOK, HeapTypeOK, HS!RvTypeOK, Ptr, Phases, Resting
<1>8. FramesMarked'
  BY DEF FramesMarked, NothingNew, TypeOK, HeapTypeOK, HS!RvTypeOK, Ptr, Phases, Traced, Resting
<1>. QED BY <1>1, <1>2, <1>3, <1>4, <1>5, <1>6, <1>7, <1>8 DEF IInv

(* A global is visited: what it holds is marked. *)
LEMMA VisitRootInv == ASSUME NEW g \in Glob, ReadsOnly, IInv, VisitRoot(g) PROVE IInv'
<1>. USE DEF IInv, VisitRoot, RootOf, MarkAll, heapVars
<1>1. TypeOK'
  BY DEF TypeOK, HeapTypeOK, HS!RvTypeOK, Ptr, Phases
<1>2. TrackedOnce'
  BY DEF TrackedOnce, TypeOK, HeapTypeOK, HS!RvTypeOK, Ptr, Phases
<1>3. HeapClosed'
  BY DEF HeapClosed, TypeOK, HeapTypeOK, HS!RvTypeOK, Ptr, Phases
<1>4. Resting'
  BY DEF Resting
<1>5. HandedOff'
  BY DEF HandedOff, Marking, TypeOK, HeapTypeOK, HS!RvTypeOK, Ptr, Phases
<1>6. Traced'
  BY DEF Traced, TypeOK, HeapTypeOK, HS!RvTypeOK, Ptr, Phases, HeapClosed
<1>7. RootsMarked'
  BY DEF RootsMarked, Marking, TypeOK, HeapTypeOK, HS!RvTypeOK, Ptr, Phases
<1>8. FramesMarked'
  BY DEF FramesMarked, NothingNew, TypeOK, HeapTypeOK, HS!RvTypeOK, Ptr, Phases, Traced
<1>. QED BY <1>1, <1>2, <1>3, <1>4, <1>5, <1>6, <1>7, <1>8 DEF IInv

(* The first scan is asked for when all globals are visited. *)
LEMMA AskScanInv == ASSUME ReadsOnly, IInv, AskScan PROVE IInv'
<1>. USE DEF IInv, AskScan, Goto, HS!Ask, heapVars
<1>1. TypeOK'
  BY DEF TypeOK, HeapTypeOK, HS!RvTypeOK, Ptr, Phases
<1>2. TrackedOnce'
  BY DEF TrackedOnce, TypeOK, HeapTypeOK, HS!RvTypeOK, Ptr, Phases
<1>3. HeapClosed'
  BY DEF HeapClosed, TypeOK, HeapTypeOK, HS!RvTypeOK, Ptr, Phases
<1>4. Resting'
  BY DEF Resting
<1>5. HandedOff'
  BY DEF HandedOff, Marking, TypeOK, HeapTypeOK, HS!RvTypeOK, Ptr, Phases
<1>6. Traced'
  BY DEF Traced, TypeOK, HeapTypeOK, HS!RvTypeOK, Ptr, Phases
<1>7. RootsMarked'
  BY DEF RootsMarked, Marking, TypeOK, HeapTypeOK, HS!RvTypeOK, Ptr, Phases
<1>8. FramesMarked'
  BY DEF FramesMarked, NothingNew, TypeOK, HeapTypeOK, HS!RvTypeOK, Ptr, Phases, Traced
<1>. QED BY <1>1, <1>2, <1>3, <1>4, <1>5, <1>6, <1>7, <1>8 DEF IInv

(* A context pushes what its frames hold. *)
LEMMA PollScanInv == ASSUME NEW c \in Ctx, ReadsOnly, IInv, PollScan(c) PROVE IInv'
<1>. USE DEF IInv, PollScan, RootsOf, HS!Answer, heapVars
<1>1. TypeOK'
  BY DEF TypeOK, HeapTypeOK, HS!RvTypeOK, Ptr, Phases
<1>2. TrackedOnce'
  BY DEF TrackedOnce, TypeOK, HeapTypeOK, HS!RvTypeOK, Ptr, Phases
<1>3. HeapClosed'
  BY DEF HeapClosed, TypeOK, HeapTypeOK, HS!RvTypeOK, Ptr, Phases
<1>4. Resting'
  BY DEF Resting
<1>5. HandedOff'
  BY DEF HandedOff, Marking, TypeOK, HeapTypeOK, HS!RvTypeOK, Ptr, Phases
<1>6. Traced'
  BY DEF Traced, TypeOK, HeapTypeOK, HS!RvTypeOK, Ptr, Phases, HeapClosed
<1>7. RootsMarked'
  BY DEF RootsMarked, Marking, TypeOK, HeapTypeOK, HS!RvTypeOK, Ptr, Phases
<1>8. FramesMarked'
  BY DEF FramesMarked, NothingNew, TypeOK, HeapTypeOK, HS!RvTypeOK, Ptr, Phases, Traced
<1>. QED BY <1>1, <1>2, <1>3, <1>4, <1>5, <1>6, <1>7, <1>8 DEF IInv

(* Everybody has been scanned. *)
LEMMA ScanDoneInv == ASSUME ReadsOnly, IInv, ScanDone PROVE IInv'
<1>. USE DEF IInv, ScanDone, Goto, HS!Proceed, heapVars
<1>1. TypeOK'
  BY DEF TypeOK, HeapTypeOK, HS!RvTypeOK, Ptr, Phases
<1>2. TrackedOnce'
  BY DEF TrackedOnce, TypeOK, HeapTypeOK, HS!RvTypeOK, Ptr, Phases
<1>3. HeapClosed'
  BY DEF HeapClosed, TypeOK, HeapTypeOK, HS!RvTypeOK, Ptr, Phases
<1>4. Resting'
  BY DEF Resting
<1>5. HandedOff'
  BY DEF HandedOff, Marking, TypeOK, HeapTypeOK, HS!RvTypeOK, Ptr, Phases
<1>6. Traced'
  BY DEF Traced, TypeOK, HeapTypeOK, HS!RvTypeOK, Ptr, Phases
<1>7. RootsMarked'
  BY DEF RootsMarked, Marking, TypeOK, HeapTypeOK, HS!RvTypeOK, Ptr, Phases
<1>8. FramesMarked'
  BY DEF FramesMarked, NothingNew, TypeOK, HeapTypeOK, HS!RvTypeOK, Ptr, Phases, Traced
<1>. QED BY <1>1, <1>2, <1>3, <1>4, <1>5, <1>6, <1>7, <1>8 DEF IInv

(* What the scans pushed is marked; nothing new ends the cycle. *)
LEMMA TakeQueuesInv == ASSUME ReadsOnly, IInv, TakeQueues PROVE IInv'
<1>. USE DEF IInv, TakeQueues, MarkAll, heapVars
<1>0. UNION {queues[c] : c \in Ctx} \subseteq Obj
  BY DEF TypeOK
<1>1. TypeOK'
  BY <1>0 DEF TypeOK, HeapTypeOK, HS!RvTypeOK, Ptr, Phases
<1>2. TrackedOnce'
  BY DEF TrackedOnce, TypeOK, HeapTypeOK, HS!RvTypeOK, Ptr, Phases
<1>3. HeapClosed'
  BY DEF HeapClosed, TypeOK, HeapTypeOK, HS!RvTypeOK, Ptr, Phases
<1>4. Resting'
  BY DEF Resting
<1>5. HandedOff'
  BY DEF HandedOff, Marking, TypeOK, HeapTypeOK, HS!RvTypeOK, Ptr, Phases
<1>6. Traced'
  BY DEF Traced, TypeOK, HeapTypeOK, HS!RvTypeOK, Ptr, Phases
<1>7. RootsMarked'
  BY DEF RootsMarked, Marking, TypeOK, HeapTypeOK, HS!RvTypeOK, Ptr, Phases
<1>8. FramesMarked'
  BY DEF FramesMarked, NothingNew, TypeOK, HeapTypeOK, HS!RvTypeOK, Ptr, Phases, Traced
<1>. QED BY <1>1, <1>2, <1>3, <1>4, <1>5, <1>6, <1>7, <1>8 DEF IInv

(* An object is visited: what it holds is marked. *)
LEMMA TraceInv == ASSUME ReadsOnly, IInv, Trace PROVE IInv'
<1>. USE DEF IInv, Trace, Visited, Popped, heapVars
<1>1. TypeOK'
  BY DEF TypeOK, HeapTypeOK, HS!RvTypeOK, Ptr, Phases
<1>2. TrackedOnce'
  BY DEF TrackedOnce, TypeOK, HeapTypeOK, HS!RvTypeOK, Ptr, Phases
<1>3. HeapClosed'
  BY DEF HeapClosed, TypeOK, HeapTypeOK, HS!RvTypeOK, Ptr, Phases
<1>4. Resting'
  BY DEF Resting
<1>5. HandedOff'
  BY DEF HandedOff, Marking, TypeOK, HeapTypeOK, HS!RvTypeOK, Ptr, Phases
<1>6. Traced'
  BY DEF Traced, TypeOK, HeapTypeOK, HS!RvTypeOK, Ptr, Phases, HeapClosed
<1>7. RootsMarked'
  BY DEF RootsMarked, Marking, TypeOK, HeapTypeOK, HS!RvTypeOK, Ptr, Phases
<1>8. FramesMarked'
  BY DEF FramesMarked, NothingNew, TypeOK, HeapTypeOK, HS!RvTypeOK, Ptr, Phases, Traced
<1>. QED BY <1>1, <1>2, <1>3, <1>4, <1>5, <1>6, <1>7, <1>8 DEF IInv

(* The process dies: the heap and the marks stay as they are. *)
LEMMA CrashInv == ASSUME ReadsOnly, IInv, Crash PROVE IInv'
<1>. USE DEF IInv, Crash, heapVars
<1>1. TypeOK'
  BY DEF TypeOK, HeapTypeOK, HS!RvTypeOK, Ptr, Phases
<1>2. TrackedOnce' /\ HeapClosed' /\ Traced'
  BY DEF TrackedOnce, HeapClosed, Traced
<1>3. Resting' /\ HandedOff' /\ RootsMarked' /\ FramesMarked'
  BY DEF Resting, HandedOff, RootsMarked, FramesMarked, Marking
<1>. QED BY <1>1, <1>2, <1>3

(* The next scan is asked for when nothing is left to visit. *)
LEMMA ScanAgainInv == ASSUME ReadsOnly, IInv, ScanAgain PROVE IInv'
<1>. USE DEF IInv, ScanAgain, Goto, HS!Ask, heapVars
<1>1. TypeOK'
  BY DEF TypeOK, HeapTypeOK, HS!RvTypeOK, Ptr, Phases
<1>2. TrackedOnce'
  BY DEF TrackedOnce, TypeOK, HeapTypeOK, HS!RvTypeOK, Ptr, Phases
<1>3. HeapClosed'
  BY DEF HeapClosed, TypeOK, HeapTypeOK, HS!RvTypeOK, Ptr, Phases
<1>4. Resting'
  BY DEF Resting
<1>5. HandedOff'
  BY DEF HandedOff, Marking, TypeOK, HeapTypeOK, HS!RvTypeOK, Ptr, Phases
<1>6. Traced'
  BY DEF Traced, TypeOK, HeapTypeOK, HS!RvTypeOK, Ptr, Phases
<1>7. RootsMarked'
  BY DEF RootsMarked, Marking, TypeOK, HeapTypeOK, HS!RvTypeOK, Ptr, Phases
<1>8. FramesMarked'
  BY DEF FramesMarked, NothingNew, TypeOK, HeapTypeOK, HS!RvTypeOK, Ptr, Phases, Traced
<1>. QED BY <1>1, <1>2, <1>3, <1>4, <1>5, <1>6, <1>7, <1>8 DEF IInv

(* The sweep: what is kept is marked, and holds only what is marked. *)
LEMMA SweepInv == ASSUME ReadsOnly, IInv, Sweep PROVE IInv'
<1>. USE DEF IInv, Sweep, Goto, Kept, Unmarked, heapVars
<1>1. TypeOK'
  BY DEF TypeOK, HeapTypeOK, HS!RvTypeOK, Ptr, Phases
<1>2. TrackedOnce'
  BY DEF TrackedOnce, TypeOK, HeapTypeOK, HS!RvTypeOK, Ptr, Phases, HandedOff, Marking
<1>3. HeapClosed'
  BY HeapAssumption DEF HeapClosed, TypeOK, HeapTypeOK, HS!RvTypeOK, Ptr, Phases, HandedOff, Marking, TrackedOnce, RootsMarked, FramesMarked, NothingNew, Traced
<1>4. Resting'
  BY DEF Resting, TrackedOnce, HandedOff, Marking, Traced, FramesMarked, NothingNew
<1>5. HandedOff'
  BY DEF HandedOff, Marking, TypeOK, HeapTypeOK, HS!RvTypeOK, Ptr, Phases
<1>6. Traced'
  BY DEF Traced, TypeOK, HeapTypeOK, HS!RvTypeOK, Ptr, Phases, TrackedOnce, HandedOff, Marking, FramesMarked, NothingNew
<1>7. RootsMarked'
  BY DEF RootsMarked, Marking, TypeOK, HeapTypeOK, HS!RvTypeOK, Ptr, Phases
<1>8. FramesMarked'
  BY DEF FramesMarked, NothingNew, TypeOK, HeapTypeOK, HS!RvTypeOK, Ptr, Phases, Traced
<1>. QED BY <1>1, <1>2, <1>3, <1>4, <1>5, <1>6, <1>7, <1>8 DEF IInv

(* An allocation, only while the collector is idle. *)
LEMMA AllocInv == ASSUME NEW c \in Ctx, NEW o \in Obj, ReadsOnly, IInv, Alloc(c, o) PROVE IInv'
<1>. USE DEF IInv, Alloc, New, Storable, BornMarked, Allowed, ReadsOnly, heapVars
<1>0. PICK q \in Storable(c, Allowed) \cup {NONE} : New(c, o, q)
  OBVIOUS
<1>1. TypeOK'
  BY <1>0 DEF TypeOK, HeapTypeOK, HS!RvTypeOK, Ptr, Phases
<1>2. TrackedOnce'
  BY <1>0 DEF TrackedOnce, TypeOK, HeapTypeOK, HS!RvTypeOK, Ptr, Phases, Resting
<1>3. HeapClosed'
  BY HeapAssumption, <1>0 DEF HeapClosed, TypeOK, HeapTypeOK, HS!RvTypeOK, Ptr, Phases
<1>4. Resting'
  BY <1>0 DEF Resting
<1>5. HandedOff'
  BY <1>0 DEF HandedOff, Marking, TypeOK, HeapTypeOK, HS!RvTypeOK, Ptr, Phases, Resting
<1>6. Traced'
  BY <1>0 DEF Traced, TypeOK, HeapTypeOK, HS!RvTypeOK, Ptr, Phases, Resting
<1>7. RootsMarked'
  BY <1>0 DEF RootsMarked, Marking, TypeOK, HeapTypeOK, HS!RvTypeOK, Ptr, Phases
<1>8. FramesMarked'
  BY <1>0 DEF FramesMarked, NothingNew, TypeOK, HeapTypeOK, HS!RvTypeOK, Ptr, Phases, Traced, Resting
<1>. QED BY <1>1, <1>2, <1>3, <1>4, <1>5, <1>6, <1>7, <1>8 DEF IInv

(* The program runs: in a cycle it loads and forgets only. *)
LEMMA RunInv == ASSUME NEW c \in Ctx, ReadsOnly, IInv, Run(c) PROVE IInv'
<1>. USE DEF IInv, Run, Mutate, SetField, LoadField, LoadGlobal, Forget, SetGlobal, Storable, gcVars, Allowed, ReadsOnly, heapVars
<1>1. TypeOK'
  BY DEF TypeOK, HeapTypeOK, HS!RvTypeOK, Ptr, Phases
<1>2. TrackedOnce'
  BY DEF TrackedOnce, TypeOK, HeapTypeOK, HS!RvTypeOK, Ptr, Phases
<1>3. HeapClosed'
  BY HeapAssumption DEF HeapClosed, TypeOK, HeapTypeOK, HS!RvTypeOK, Ptr, Phases
<1>4. Resting'
  BY DEF Resting
<1>5. HandedOff'
  BY DEF HandedOff, Marking, TypeOK, HeapTypeOK, HS!RvTypeOK, Ptr, Phases
<1>6. Traced'
  BY DEF Traced, TypeOK, HeapTypeOK, HS!RvTypeOK, Ptr, Phases, Resting
<1>7. RootsMarked'
  BY DEF RootsMarked, Marking, TypeOK, HeapTypeOK, HS!RvTypeOK, Ptr, Phases, Resting
<1>8. FramesMarked'
  BY HeapAssumption DEF FramesMarked, NothingNew, TypeOK, HeapTypeOK, HS!RvTypeOK, Ptr, Phases, Traced, RootsMarked, Marking, HeapClosed
<1>. QED BY <1>1, <1>2, <1>3, <1>4, <1>5, <1>6, <1>7, <1>8 DEF IInv

(* Nothing happens. *)
LEMMA StutterInv == ASSUME IInv, UNCHANGED vars PROVE IInv'
<1>. USE DEF IInv, vars, heapVars, gcVars
<1>1. TypeOK' /\ TrackedOnce' /\ HeapClosed'
  BY DEF TypeOK, HeapTypeOK, HS!RvTypeOK, Ptr, Phases, TrackedOnce, HeapClosed
<1>2. Resting' /\ HandedOff' /\ Traced'
  BY DEF Resting, HandedOff, Traced, Marking
<1>3. RootsMarked' /\ FramesMarked'
  BY DEF RootsMarked, FramesMarked, NothingNew, Marking
<1>. QED BY <1>1, <1>2, <1>3

LEMMA StepInv == ReadsOnly /\ IInv /\ [Next]_vars => IInv'
<1>. SUFFICES ASSUME ReadsOnly, IInv, [Next]_vars PROVE IInv'
  OBVIOUS
<1>1. CASE Begin
  BY <1>1, BeginInv
<1>2. CASE AskHandoff \/ HandoffDone \/ AskScan \/ ScanDone
  BY <1>2, AskHandoffInv, HandoffDoneInv, AskScanInv, ScanDoneInv
<1>3. CASE \E g \in Glob : VisitRoot(g)
  BY <1>3, VisitRootInv
<1>4. CASE TakeQueues \/ Trace \/ Crash \/ ScanAgain \/ Sweep
  BY <1>4, TakeQueuesInv, TraceInv, CrashInv, ScanAgainInv, SweepInv
<1>5. CASE \E c \in Ctx : Poll(c)
  BY <1>5, PollHandoffInv, PollScanInv DEF Poll
<1>6. CASE \E c \in Ctx : Run(c) \/ \E o \in Obj : Alloc(c, o)
  BY <1>6, RunInv, AllocInv
<1>7. CASE UNCHANGED vars
  BY <1>7, StutterInv
<1>. QED BY <1>1, <1>2, <1>3, <1>4, <1>5, <1>6, <1>7 DEF Next, Cycle

(* The invariant holds of every program that only reads during a cycle.    *)
THEOREM Inductive == ASSUME ReadsOnly PROVE Spec => []IInv
<1>1. Init => IInv
  BY InitInv
<1>2. IInv /\ [Next]_vars => IInv'
  BY StepInv
<1>. QED BY <1>1, <1>2, PTL DEF Spec

-----------------------------------------------------------------------------
(* What follows from it                                                    *)

(* At the sweep, whatever can be reached is marked.                        *)
LEMMA ReachableMarked == IInv /\ phase = "sweep" => Reachable \subseteq marked
<1>. SUFFICES ASSUME IInv, phase = "sweep" PROVE Reachable \subseteq marked
  OBVIOUS
<1>. USE DEF IInv
<1>1. marked \in SUBSET Obj
  BY DEF TypeOK
<1>2. Rooted \subseteq marked
  BY HeapAssumption DEF Rooted, RootsMarked, FramesMarked, Marking
<1>3. Closed(marked)
  BY HeapAssumption DEF Closed, Traced, FramesMarked
<1>. QED BY <1>1, <1>2, <1>3 DEF Reachable

LEMMA ReachableLive == IInv => NoDangling
<1>. SUFFICES ASSUME IInv PROVE Reachable \subseteq live
  BY DEF NoDangling
<1>. USE DEF IInv
<1>1. live \in SUBSET Obj
  BY DEF TypeOK, HeapTypeOK
<1>2. Rooted \subseteq live
  BY HeapAssumption DEF Rooted, HeapClosed, TypeOK, HeapTypeOK
<1>3. Closed(live)
  BY DEF Closed, HeapClosed
<1>. QED BY <1>1, <1>2, <1>3 DEF Reachable

(* No reachable object is ever freed (GcAllocator::sweep): the scans are   *)
(* repeated until they find nothing new, so all that a program which only  *)
(* reads can still get at is marked when the sweep comes.                  *)
THEOREM NothingDangles == ASSUME ReadsOnly PROVE Spec => []NoDangling
<1>1. IInv => NoDangling
  BY ReachableLive
<1>. QED BY <1>1, Inductive, PTL

(* A finished cycle leaves no mark on a live object and no queued pointer, *)
(* so that the next cycle starts from nothing.                             *)
THEOREM CyclesStartClean == ASSUME ReadsOnly PROVE Spec => []CleanWhenIdle
<1>1. IInv => CleanWhenIdle
  BY DEF IInv, Resting, CleanWhenIdle
<1>. QED BY <1>1, Inductive, PTL

LEMMA StepRefines == ReadsOnly /\ IInv /\ [Next]_vars => [HeapNext]_heapVars
<1>. SUFFICES ASSUME ReadsOnly, IInv, [Next]_vars PROVE [HeapNext]_heapVars
  OBVIOUS
<1>1. CASE Sweep
  <2>1. Reachable \subseteq marked
    BY <1>1, ReachableMarked DEF Sweep, Goto
  <2>2. allocator \subseteq live
    BY DEF IInv, TrackedOnce
  <2>3. Reclaim(allocator \ marked)
    BY <1>1, <2>1, <2>2 DEF Sweep, Reclaim
  <2>. QED BY <2>2, <2>3 DEF HeapNext
<1>2. CASE \E c \in Ctx : Run(c)
  <2>. PICK c \in Ctx : Run(c)
    BY <1>2
  <2>1. Allowed \subseteq Operations
    BY CollectAssumption DEF Allowed
  <2>2. Storable(c, Allowed) \subseteq Storable(c, Operations)
    BY <2>1 DEF Storable
  <2>3. Mutate(c, Operations)
    BY <2>1, <2>2 DEF Run, Mutate
  <2>. QED BY <2>3 DEF HeapNext
<1>3. CASE \E c \in Ctx, o \in Obj : Alloc(c, o)
  <2>. PICK c \in Ctx, o \in Obj : Alloc(c, o)
    BY <1>3
  <2>1. Storable(c, Allowed) \subseteq Storable(c, Operations)
    BY CollectAssumption DEF Storable, Allowed
  <2>. QED BY <2>1 DEF Alloc, HeapNext
<1>4. CASE \E c \in Ctx : Poll(c)
  BY <1>4 DEF Poll, PollHandoff, PollScan
<1>5. CASE Begin \/ AskHandoff \/ HandoffDone \/ (\E g \in Glob : VisitRoot(g)) \/ AskScan
  BY <1>5 DEF Begin, AskHandoff, HandoffDone, VisitRoot, AskScan
<1>6. CASE ScanDone \/ TakeQueues \/ Trace \/ Crash \/ ScanAgain
  BY <1>6 DEF ScanDone, TakeQueues, Trace, Crash, ScanAgain
<1>7. CASE UNCHANGED vars
  BY <1>7 DEF vars
<1>. QED BY <1>1, <1>2, <1>3, <1>4, <1>5, <1>6, <1>7 DEF Next, Cycle

(* The collector implements the abstract heap, whose objects exist as long *)
(* as they can be reached: of all the steps of a cycle only the sweep      *)
(* shows, and it reclaims unreachable objects only.                        *)
THEOREM CollectorImplementsHeap == ASSUME ReadsOnly PROVE Spec => ImplementsHeap
<1>1. Init => HeapInit
  BY DEF Init
<1>2. IInv /\ [Next]_vars => [HeapNext]_heapVars
  BY StepRefines
<1>. QED BY <1>1, <1>2, Inductive, PTL DEF Spec, ImplementsHeap, HeapSpec

-----------------------------------------------------------------------------
(* No garbage outlives the next cycle                                      *)

InACycle == phase # "idle"

(* Nothing comes into reach during a cycle: the snapshot stays closed, and *)
(* holds the roots and all that is marked or queued, and whoever died of   *)
(* NULL found it there.                                                    *)
SnapshotInv == InACycle => /\ Closed(snapshot)
                           /\ Rooted \subseteq snapshot
                           /\ marked \subseteq snapshot
                           /\ \A c \in Ctx : queues[c] \subseteq snapshot
                           /\ phase = "crashed" => NULL \in HeldBy(snapshot)

LEMMA ReachableClosed == ASSUME TypeOK PROVE Closed(Reachable) /\ Rooted \subseteq Reachable
<1>1. Rooted \subseteq Reachable
  BY DEF Rooted, Reachable
<1>2. ASSUME NEW o \in Reachable, field[o] \in Obj PROVE field[o] \in Reachable
  BY <1>2 DEF Reachable, Closed, TypeOK, HeapTypeOK, Ptr
<1>. QED BY <1>1, <1>2 DEF Closed

LEMMA SnapshotStep == ASSUME ReadsOnly, IInv, SnapshotInv, [Next]_vars PROVE SnapshotInv'
<1>. USE DEF SnapshotInv, InACycle
<1>1. CASE Begin
  <2>1. phase = "idle"
    BY <1>1 DEF Begin, Goto
  <2>2. Closed(Reachable) /\ Rooted \subseteq Reachable
    BY ReachableClosed DEF IInv
  <2>3. snapshot' = Reachable /\ phase' = "begin" /\ UNCHANGED <<heapVars, marked, queues>>
    BY <1>1 DEF Begin, Goto
  <2>. QED BY HeapAssumption, <2>1, <2>2, <2>3 DEF Closed, Rooted, heapVars, IInv, Resting
<1>2. CASE Sweep
  BY <1>2 DEF Sweep, Goto
<1>3. CASE AskHandoff \/ HandoffDone \/ AskScan \/ ScanDone \/ ScanAgain
  BY <1>3 DEF AskHandoff, HandoffDone, AskScan, ScanDone, ScanAgain, Goto, heapVars, Closed, Rooted
<1>4. CASE \E g \in Glob : VisitRoot(g)
  <2>. PICK g \in Glob : VisitRoot(g)
    BY <1>4
  <2>1. RootOf(g) \subseteq Rooted
    BY DEF VisitRoot, RootOf, Rooted, IInv, TypeOK, HeapTypeOK, Ptr
  <2>. QED BY <2>1 DEF VisitRoot, MarkAll, heapVars, Closed, Rooted
<1>5. CASE \E c \in Ctx : Poll(c)
  <2>. PICK c \in Ctx : PollHandoff(c) \/ PollScan(c)
    BY <1>5 DEF Poll
  <2>1. RootsOf(c) \subseteq Rooted
    BY DEF RootsOf, Rooted, IInv, TypeOK, HeapTypeOK
  <2>2. queues \in [Ctx -> SUBSET Obj]
    BY DEF IInv, TypeOK
  <2>. QED BY <2>1, <2>2 DEF PollHandoff, PollScan, heapVars, Closed, Rooted
<1>6. CASE TakeQueues
  BY <1>6 DEF TakeQueues, MarkAll, heapVars, Closed, Rooted
<1>7. CASE Trace
  <2>. PICK o \in markQueue : NULL \notin Visited(o) /\ marked' = marked \cup Visited(o)
    BY <1>7 DEF Trace
  <2>1. o \in snapshot /\ o \in Obj
    BY <1>7 DEF Trace, IInv, Traced, TypeOK
  <2>2. Visited(o) \subseteq snapshot
    BY <1>7, <2>1 DEF Trace, Visited, Closed, IInv, TypeOK, HeapTypeOK, Ptr
  <2>. QED BY <1>7, <2>2 DEF Trace, heapVars, Closed, Rooted
<1>8. CASE \E c \in Ctx : Run(c)
  <2>. PICK c \in Ctx : Run(c)
    BY <1>8
  <2>. SUFFICES ASSUME InACycle PROVE SnapshotInv'
    BY DEF Run, gcVars
  <2>1. /\ UNCHANGED <<gcVars, live, field, globals>>
        /\ \/ \E p \in frame[c] : LoadField(c, p) \/ Forget(c, p)
           \/ \E g \in Glob : LoadGlobal(c, g)
    BY DEF Run, Mutate, Allowed, ReadsOnly, LoadField, LoadGlobal, Forget
  <2>2. Rooted' \subseteq snapshot
    BY <2>1 DEF LoadField, LoadGlobal, Forget, Rooted, Closed, IInv, TypeOK, HeapTypeOK, Ptr
  <2>3. phase' # "crashed"
    BY DEF Run, Mutate, Allowed, gcVars
  <2>. QED BY HeapAssumption, <2>1, <2>2, <2>3 DEF gcVars, Closed
<1>9. CASE \E c \in Ctx, o \in Obj : Alloc(c, o)
  BY <1>9 DEF Alloc, Allowed, ReadsOnly
<1>10. CASE UNCHANGED vars
  BY <1>10 DEF vars, heapVars, gcVars, Closed, Rooted, HeldBy
<1>11. CASE Crash
  <2>1. NULL \in HeldBy(snapshot)
    <3>1. CASE \E g \in rootsLeft : NULL \in RootOf(g)
      BY <3>1 DEF RootOf, HeldBy, IInv, TypeOK
    <3>2. CASE phase = "trace" /\ \E o \in markQueue : NULL \in Visited(o)
      <4>1. markQueue \subseteq snapshot
        BY <3>2 DEF IInv, Traced
      <4>. QED BY <3>2, <4>1 DEF Visited, HeldBy
    <3>. QED BY <1>11, <3>1, <3>2 DEF Crash
  <2>2. HeldBy(snapshot)' = HeldBy(snapshot)
    BY <1>11 DEF Crash, HeldBy, heapVars
  <2>. QED BY <1>11, <2>1, <2>2 DEF Crash, heapVars, Closed, Rooted
<1>. QED BY <1>1, <1>2, <1>3, <1>4, <1>5, <1>6, <1>7, <1>8, <1>9, <1>10, <1>11 DEF Next, Cycle

(* A sweep keeps all that can be reached and frees all that could not be   *)
(* reached when the cycle began: the hand-over gave the allocator every    *)
(* object, and nothing is marked that was garbage then.                    *)
THEOREM SweepIsExact == ASSUME ReadsOnly PROVE Spec => FreesExactly
<1>1. Init => SnapshotInv
  BY DEF Init, SnapshotInv, InACycle
<1>2. IInv /\ SnapshotInv /\ [Next]_vars => SnapshotInv'
  BY SnapshotStep
<1>3. IInv /\ SnapshotInv /\ [Next]_vars =>
        [Sweep => Reachable \subseteq live' /\ live' \subseteq snapshot]_vars
  <2>. SUFFICES ASSUME IInv, SnapshotInv, Sweep
                PROVE  Reachable \subseteq live' /\ live' \subseteq snapshot
    OBVIOUS
  <2>1. phase = "sweep"
    BY DEF Sweep, Goto
  <2>2. Reachable \subseteq marked /\ marked \subseteq snapshot
    BY <2>1, ReachableMarked DEF SnapshotInv, InACycle
  <2>3. live = allocator
    BY <2>1 DEF IInv, TrackedOnce, HandedOff, Marking
  <2>. QED BY <2>2, <2>3 DEF Sweep, IInv, Traced
<1>. QED BY <1>1, <1>2, <1>3, Inductive, PTL DEF Spec, FreesExactly

(* A program survives a collection only without NULL: what the sweep finds *)
(* in reach has been visited, and poni_gc_mark dies of the first NULL it is *)
(* given; it is given none but those that could be reached at the start.   *)
THEOREM NullEndsIt == ASSUME ReadsOnly PROVE Spec => []NullIsFatal
<1>1. Init => SnapshotInv
  BY DEF Init, SnapshotInv, InACycle
<1>2. IInv /\ SnapshotInv /\ [Next]_vars => SnapshotInv'
  BY SnapshotStep
<1>3. IInv /\ SnapshotInv => NullIsFatal
  <2>. SUFFICES ASSUME IInv, SnapshotInv PROVE NullIsFatal
    OBVIOUS
  <2>1. CASE phase = "sweep"
    <3>1. Reachable \subseteq marked /\ markQueue = {}
      BY <2>1, ReachableMarked DEF IInv, FramesMarked
    <3>2. \A o \in Reachable : field[o] # NULL
      BY <3>1, HeapAssumption DEF IInv, Traced, TypeOK
    <3>3. \A g \in Glob : globals[g] # NULL
      BY <2>1, HeapAssumption DEF IInv, RootsMarked, Marking, TypeOK
    <3>. QED BY <2>1, <3>2, <3>3 DEF NullIsFatal, HeldBy
  <2>2. CASE phase # "sweep"
    BY <2>2 DEF NullIsFatal, SnapshotInv, InACycle
  <2>. QED BY <2>1, <2>2
<1>. QED BY <1>1, <1>2, <1>3, Inductive, PTL DEF Spec

-----------------------------------------------------------------------------
(* The lists of objects, whatever the program does                         *)

LEMMA ListsStep == ASSUME TypeOK, TrackedOnce, [Next]_vars PROVE TypeOK' /\ TrackedOnce'
<1>. USE DEF TypeOK, HeapTypeOK, HS!RvTypeOK, Ptr, Phases
<1>1. CASE Begin \/ AskHandoff \/ AskScan \/ ScanAgain
  <2>1. UNCHANGED <<live, own, allocator>>
    BY <1>1 DEF Begin, AskHandoff, AskScan, ScanAgain, heapVars
  <2>2. TrackedOnce'
    BY <2>1 DEF TrackedOnce
  <2>3. TypeOK'
    <3>1. CASE Begin
      BY <3>1 DEF Begin, Goto, heapVars, Reachable
    <3>2. CASE AskHandoff
      BY <3>2 DEF AskHandoff, Goto, HS!Ask, heapVars
    <3>3. CASE AskScan
      BY <3>3 DEF AskScan, Goto, HS!Ask, heapVars
    <3>4. CASE ScanAgain
      BY <3>4 DEF ScanAgain, Goto, HS!Ask, heapVars
    <3>. QED BY <1>1, <3>1, <3>2, <3>3, <3>4
  <2>. QED BY <2>2, <2>3
<1>11. CASE HandoffDone \/ ScanDone
  BY <1>11 DEF HandoffDone, ScanDone, Goto, HS!Proceed, heapVars, TrackedOnce
<1>2. CASE \E g \in Glob : VisitRoot(g)
  BY <1>2 DEF VisitRoot, RootOf, MarkAll, heapVars, TrackedOnce
<1>3. CASE TakeQueues
  <2>1. UNION {queues[c] : c \in Ctx} \subseteq Obj
    OBVIOUS
  <2>. QED BY <1>3, <2>1 DEF TakeQueues, MarkAll, heapVars, TrackedOnce
<1>4. CASE Trace \/ Crash
  BY <1>4 DEF Trace, Crash, Visited, Popped, heapVars, TrackedOnce
<1>5. CASE Sweep
  BY <1>5 DEF Sweep, Goto, Kept, Unmarked, TrackedOnce
<1>6. CASE \E c \in Ctx : PollHandoff(c)
  BY <1>6 DEF PollHandoff, HandedOver, LeftOver, HS!Answer, heapVars, TrackedOnce
<1>7. CASE \E c \in Ctx : PollScan(c)
  BY <1>7 DEF PollScan, RootsOf, HS!Answer, heapVars, TrackedOnce
<1>8. CASE \E c \in Ctx : Run(c)
  <2>. PICK c \in Ctx : Run(c)
    BY <1>8
  <2>1. HeapTypeOK' /\ live' = live
    BY DEF Run, Mutate, SetField, LoadField, LoadGlobal, Forget, SetGlobal, Storable
  <2>. QED BY <2>1 DEF Run, gcVars, TrackedOnce
<1>9. CASE \E c \in Ctx, o \in Obj : Alloc(c, o)
  <2>. PICK c \in Ctx, o \in Obj : Alloc(c, o)
    BY <1>9
  <2>1. TypeOK'
    BY DEF Alloc, New, BornMarked, Storable
  <2>2. TrackedOnce'
    BY DEF Alloc, New, TrackedOnce
  <2>. QED BY <2>1, <2>2
<1>10. CASE UNCHANGED vars
  BY <1>10 DEF vars, heapVars, gcVars, TrackedOnce
<1>. QED BY <1>1, <1>2, <1>3, <1>4, <1>5, <1>6, <1>7, <1>8, <1>9, <1>10, <1>11 DEF Next, Cycle, Poll

(* Every live object is in exactly one list, for every program: neither a  *)
(* hand-over (do_handoff, alloc_raw_bytes) nor a sweep loses or doubles    *)
(* one, so nothing leaks and nothing is freed twice.                       *)
THEOREM EverythingTracked == Spec => [](TypeOK /\ TrackedOnce)
<1>1. Init => TypeOK /\ TrackedOnce
  BY InitInv DEF IInv
<1>2. TypeOK /\ TrackedOnce /\ [Next]_vars => (TypeOK /\ TrackedOnce)'
  BY ListsStep
<1>. QED BY <1>1, <1>2, PTL DEF Spec
=============================================================================
