----------------------------- MODULE GcHandshake -----------------------------
(***************************************************************************)
(* The control of the concurrent collector of poniescript-gc               *)
(* (src/concurrent.rs): the collector thread started by gc_spawn and the   *)
(* mutator threads, each with a GcContext, and everything they synchronise *)
(* with: the two mutexes that are held across another acquisition or a     *)
(* wait (gc_flags_mutex, outstanding_threads), their condition variables   *)
(* as explicit wait sets, the request word, the busy flag and GC_FLAGS.    *)
(*                                                                         *)
(* A critical section that takes no second lock and does not wait          *)
(* (gc_request, gc_busy, queue_queue, allocator, available_threads) is one *)
(* step.  The heap is in GcCollect; what a scan leaves here is the number  *)
(* of vectors a context has pushed onto queue_queue.                       *)
(***************************************************************************)
EXTENDS Integers, FiniteSets

CONSTANTS
    Ctx,            \* the contexts that may be created
    NONE,           \* no owner: a free mutex
    GC,             \* the collector thread, as the owner of a mutex
    Calls,          \* the optional calls this embedding makes (see Optional)
    WORD,           \* the counters are words: they wrap at WORD (2^64 in the code)
    MaxCollects,    \* bound on the COLLECT requests sent
    MaxRounds       \* bound on the scan handshakes of one cycle

(* join: poni_gc_join with the caller's context; stop: a thread leaves and *)
(* its context is freed; late: a context is created although a collection  *)
(* was requested before; until: poni_gc_poll_until_cycle_finished.         *)
Optional == {"join", "stop", "late", "until"}

ASSUME CtxAssumption == IsFiniteSet(Ctx) /\ GC \notin Ctx /\ NONE \notin Ctx /\ GC # NONE
ASSUME CallsAssumption == Calls \subseteq Optional
ASSUME BoundAssumption == /\ MaxCollects \in Nat
                          /\ MaxRounds \in Nat \ {0}
                          /\ WORD \in Nat
                          /\ Cardinality(Ctx) < WORD

VARIABLES
    gcpc,           \* where the collector thread is
    round,          \* which handshake of the cycle: 0 hands over, k >= 1 is a scan
    taken,          \* the request the collector is serving
    request,        \* gc_request
    busy,           \* gc_busy
    flags,          \* GC_FLAGS
    available,      \* available_threads
    outstanding,    \* outstanding_threads
    outstMx,        \* who holds the mutex of outstanding_threads
    outstWait,      \* the collector waits on outstanding_thread_cv
    flagsMx,        \* who holds gc_flags_mutex
    flagsWait,      \* the contexts that wait on gc_flags_cv
    busyWait,       \* the contexts that wait on gc_busy_cv
    queued,         \* per context, the vectors of its roots in queue_queue
    pc,             \* where each mutator is
    call,           \* the blocking call each mutator is in
    flag,           \* GcContext.flag
    joinCalled,     \* the join handle has been taken
    sent            \* COLLECT requests sent so far (bounded by MaxCollects)

gcVars    == <<gcpc, round, taken>>
countVars == <<available, outstanding, outstMx, outstWait>>
flagVars  == <<flags, flagsMx, flagsWait>>
reqVars   == <<request, joinCalled, sent>>
busyVars  == <<busy, busyWait>>
ctxVars   == <<pc, call, flag, queued>>
vars == <<gcVars, countVars, flagVars, reqVars, busyVars, ctxVars>>

GC_FLAG_HANDOFF_ALLOCS == 1
GC_FLAG_SCAN == 2
GC_FLAG_DUMMY == 4
GC_FLAG_DEAD == 8
Has(f, bit) == (f \div bit) % 2 = 1

(* The flags of the k-th handshake of a cycle: the hand-over, then scans   *)
(* that toggle the dummy bit, so that two in a row always differ.          *)
HandshakeFlags_NoToggle(k) == IF k = 0 THEN GC_FLAG_HANDOFF_ALLOCS ELSE GC_FLAG_SCAN
HandshakeFlags_DummyAdds(k) == IF k = 0 THEN GC_FLAG_HANDOFF_ALLOCS
                               ELSE GC_FLAG_SCAN + k * GC_FLAG_DUMMY
HandshakeFlags(k) == CASE k = 0 -> GC_FLAG_HANDOFF_ALLOCS
                       [] k % 2 = 1 -> GC_FLAG_SCAN + GC_FLAG_DUMMY
                       [] OTHER -> GC_FLAG_SCAN

Wrap(n) == n % WORD

(* Who may write the flags: whoever could take gc_flags_mutex.             *)
FlagsMxFree_NotTaken == TRUE
FlagsMxFree == flagsMx = NONE

(* The test that ends the wait of a handshake, and the one under which the *)
(* last context to answer notifies the collector.                          *)
EverybodyAnswered_OffByOne == outstanding <= 1
EverybodyAnswered == outstanding = 0
LastAnswer_OffByOne(left) == left = 1
LastAnswer(left) == left = 0

(* COLLECT takes priority over SHUTDOWN.                                   *)
FirstTask_ShutdownFirst(req) == IF "shutdown" \in req THEN "x_notbusy" ELSE "hs_lock"
FirstTask(req) == IF "collect" \in req THEN "hs_lock" ELSE "x_notbusy"

(* Created and never forgotten: available_threads counts these.            *)
Counted == {c \in Ctx : pc[c] # "absent"}
Init ==
    /\ gcpc = "notbusy" /\ round = 0 /\ taken = {}
    /\ request = {} /\ joinCalled = FALSE /\ sent = 0
    /\ busy = FALSE /\ busyWait = {}
    /\ flags = 0 /\ flagsMx = NONE /\ flagsWait = {}
    /\ available = 0 /\ outstanding = 0 /\ outstMx = NONE /\ outstWait = FALSE
    /\ queued = [c \in Ctx |-> 0]
    /\ pc = [c \in Ctx |-> "absent"]
    /\ call = [c \in Ctx |-> "none"]
    /\ flag = [c \in Ctx |-> 0]

-----------------------------------------------------------------------------
(* The collector thread                                                    *)

GcGoto(here, there) == gcpc = here /\ gcpc' = there

(* mark_not_busy: clears the flag and wakes both condition variables; it   *)
(* does not hold gc_flags_mutex.  Once per turn of the loop and at the end.*)
MarkNotBusy ==
    /\ GcGoto("notbusy", "request") \/ GcGoto("x_notbusy", "x_flags")
    /\ busy' = FALSE /\ busyWait' = {}
    /\ flagsWait' = {}
    /\ UNCHANGED <<round, taken, countVars, flags, flagsMx, reqVars, ctxVars>>

(* Wait for a request, take the whole word and leave none.                 *)
TakeRequest ==
    /\ GcGoto("request", "markbusy")
    /\ request # {}
    /\ taken' = request /\ request' = {}
    /\ UNCHANGED <<round, countVars, flagVars, joinCalled, sent, busyVars, ctxVars>>

(* mark_busy; then COLLECT goes before SHUTDOWN.                           *)
MarkBusy ==
    /\ GcGoto("markbusy", FirstTask(taken))
    /\ busy' = TRUE /\ busyWait' = {}
    /\ round' = 0
    /\ UNCHANGED <<taken, countVars, flagVars, reqVars, ctxVars>>

(* handshake: lock outstanding, panic if somebody is still owed, else load *)
(* it with the number of contexts and keep the lock.                       *)
HandshakeLock ==
    /\ gcpc = "hs_lock" /\ outstMx = NONE
    /\ IF outstanding > 0
       THEN gcpc' = "panicked" /\ UNCHANGED <<outstanding, outstMx>>
       ELSE gcpc' = "hs_flags" /\ outstanding' = available /\ outstMx' = GC
    /\ UNCHANGED <<round, taken, available, outstWait, flagVars, reqVars, busyVars, ctxVars>>

(* The flags are stored under gc_flags_mutex, taken while outstanding is   *)
(* held, and released at once.                                             *)
StoreFlags ==
    /\ GcGoto("hs_flags", "hs_notify") /\ FlagsMxFree
    /\ flags' = HandshakeFlags(round)
    /\ UNCHANGED <<round, taken, countVars, flagsMx, flagsWait, reqVars, busyVars, ctxVars>>

NotifyFlags ==
    /\ GcGoto("hs_notify", "hs_wait") \/ GcGoto("x_notify", "done")
    /\ flagsWait' = {}
    /\ UNCHANGED <<round, taken, countVars, flags, flagsMx, reqVars, busyVars, ctxVars>>

(* while *outstanding > 0 { wait }: releases the lock and sleeps, or goes  *)
(* on and releases it for good.                                            *)
HandshakeWait ==
    /\ gcpc = "hs_wait"
    /\ outstMx' = NONE
    /\ IF EverybodyAnswered
       THEN gcpc' = (IF round = 0 THEN "roots" ELSE "take") /\ UNCHANGED outstWait
       ELSE gcpc' = "hs_sleep" /\ outstWait' = TRUE
    /\ UNCHANGED <<round, taken, available, outstanding, flagVars, reqVars, busyVars, ctxVars>>

HandshakeWake ==
    /\ GcGoto("hs_sleep", "hs_wait")
    /\ ~outstWait /\ outstMx = NONE
    /\ outstMx' = GC
    /\ UNCHANGED <<round, taken, available, outstanding, outstWait, flagVars, reqVars, busyVars, ctxVars>>

(* gc_visit_roots is local to the collector; the first scan comes next.    *)
VisitRoots ==
    /\ GcGoto("roots", "hs_lock")
    /\ round' = 1
    /\ UNCHANGED <<taken, countVars, flagVars, reqVars, busyVars, ctxVars>>

(* Take the whole queue_queue.  If nothing new was marked the cycle is     *)
(* over; otherwise trace and scan again, with the dummy bit toggled.       *)
TakeQueues ==
    /\ gcpc = "take"
    /\ queued' = [c \in Ctx |-> 0]
    /\ \/ gcpc' = "sweep" /\ UNCHANGED round
       \/ round < MaxRounds /\ gcpc' = "hs_lock" /\ round' = round + 1
    /\ UNCHANGED <<taken, countVars, flagVars, reqVars, busyVars, pc, call, flag>>

(* The sweep takes the allocator's lock only.  After it a SHUTDOWN that    *)
(* came with the COLLECT is obeyed.                                        *)
Sweep ==
    /\ GcGoto("sweep", IF "shutdown" \in taken THEN "x_notbusy" ELSE "notbusy")
    /\ UNCHANGED <<round, taken, countVars, flagVars, reqVars, busyVars, ctxVars>>

StoreDead ==
    /\ GcGoto("x_flags", "x_notify") /\ FlagsMxFree
    /\ flags' = GC_FLAG_DEAD
    /\ UNCHANGED <<round, taken, countVars, flagsMx, flagsWait, reqVars, busyVars, ctxVars>>

-----------------------------------------------------------------------------
(* poll_slow, called by the program, by join or by poll_until              *)

Goto(c, here, there) == pc[c] = here /\ pc' = [pc EXCEPT ![c] = there]

(* Where poll_slow returns to.                                             *)
AfterPoll(c) == IF call[c] = "none" THEN "run" ELSE "wait"

PollNew_ForgetsFlag(c) ==
    /\ pc[c] \in {"run", "poll"} /\ flag[c] # flags
    /\ pc' = [pc EXCEPT ![c] = "work"]
    /\ UNCHANGED <<gcVars, countVars, flagVars, reqVars, busyVars, call, flag, queued>>

(* The flags moved since this context last looked: remember them and work. *)
PollNew(c) ==
    /\ pc[c] \in {"run", "poll"} /\ flag[c] # flags
    /\ flag' = [flag EXCEPT ![c] = flags]
    /\ pc' = [pc EXCEPT ![c] = "work"]
    /\ UNCHANGED <<gcVars, countVars, flagVars, reqVars, busyVars, call, queued>>

PollSame(c) ==
    /\ Goto(c, "poll", AfterPoll(c)) /\ flag[c] = flags
    /\ UNCHANGED <<gcVars, countVars, flagVars, reqVars, busyVars, call, flag, queued>>

(* do_scan pushes one vector, even an empty one; do_handoff touches the    *)
(* allocator only.                                                         *)
VectorsPushed_OnHandoff(f) == IF Has(f, GC_FLAG_HANDOFF_ALLOCS) THEN 1 ELSE 0
VectorsPushed(f) == IF Has(f, GC_FLAG_SCAN) THEN 1 ELSE 0

PollWork(c) ==
    /\ Goto(c, "work", "ack")
    /\ queued' = [queued EXCEPT ![c] = @ + VectorsPushed(flag[c])]
    /\ UNCHANGED <<gcVars, countVars, flagVars, reqVars, busyVars, call, flag>>

(* *lock -= 1, and the last one wakes the collector.  Once the collector   *)
(* has panicked with the mutex it is poisoned: unwrap() then aborts the    *)
(* process (poll_slow is extern "C"), so there is no step.                 *)
PollAck(c) ==
    /\ outstMx = NONE /\ gcpc # "panicked"
    /\ Goto(c, "ack", AfterPoll(c))
    /\ outstanding' = Wrap(outstanding - 1)
    /\ outstWait' = (outstWait /\ ~LastAnswer(outstanding'))
    /\ UNCHANGED <<gcVars, available, outstMx, flagVars, reqVars, busyVars, call, flag, queued>>

-----------------------------------------------------------------------------
(* The calls of the mutators                                               *)

(* create_context_for_existing: counts the context in; its flag is 0.      *)
CreateContext(c) ==
    /\ Goto(c, "absent", "run")
    /\ ~joinCalled
    /\ "late" \in Calls \/ sent = 0
    /\ available' = available + 1
    /\ UNCHANGED <<gcVars, outstanding, outstMx, outstWait, flagVars, reqVars, busyVars,
                   call, flag, queued>>

(* free_context drops the box and nothing else.                            *)
FreeContext(c) ==
    /\ "stop" \in Calls
    /\ Goto(c, "run", "stopped")
    /\ UNCHANGED <<gcVars, countVars, flagVars, reqVars, busyVars, call, flag, queued>>

(* send_request(COLLECT); requests that are not taken yet coalesce.        *)
SendCollect(c) ==
    /\ pc[c] = "run" /\ sent < MaxCollects
    /\ request' = request \cup {"collect"} /\ sent' = sent + 1
    /\ UNCHANGED <<gcVars, countVars, flagVars, joinCalled, busyVars, ctxVars>>

(* poni_gc.h: every other thread must have shut down.                      *)
OthersGone(c) == \A d \in Ctx \ {c} : pc[d] \in {"absent", "stopped"}

(* join with a context: take the handle, send SHUTDOWN, then take part in  *)
(* safepoints until the flags say DEAD.                                    *)
Join(c) ==
    /\ "join" \in Calls /\ ~joinCalled /\ OthersGone(c)
    /\ Goto(c, "run", "lock")
    /\ joinCalled' = TRUE /\ request' = request \cup {"shutdown"}
    /\ call' = [call EXCEPT ![c] = "join"]
    /\ UNCHANGED <<gcVars, countVars, flagVars, sent, busyVars, flag, queued>>

(* send_request(r); poll_until_cycle_finished(): the sequence its comment  *)
(* gives for SHUTDOWN and the one test/main.c gives for COLLECT.           *)
RequestThenPollUntil(c, r) ==
    /\ "until" \in Calls /\ ~joinCalled
    /\ r = "shutdown" => OthersGone(c)
    /\ r = "collect" => sent < MaxCollects
    /\ Goto(c, "run", "lock")
    /\ request' = request \cup {r}
    /\ sent' = IF r = "collect" THEN sent + 1 ELSE sent
    /\ call' = [call EXCEPT ![c] = IF r = "collect" THEN "until" ELSE "closing"]
    /\ UNCHANGED <<gcVars, countVars, flagVars, joinCalled, busyVars, flag, queued>>

(* join_gc() with no context, the last call of that sequence.              *)
JoinWithoutContext(c) ==
    /\ Goto(c, "closing", "handle")
    /\ joinCalled' = TRUE /\ request' = request \cup {"shutdown"}
    /\ UNCHANGED <<gcVars, countVars, flagVars, sent, busyVars, call, flag, queued>>

(* Both calls take gc_flags_mutex first; join then checks for DEAD,        *)
(* poll_until first waits for the collector to be busy.                    *)
LockFlags(c) ==
    /\ Goto(c, "lock", IF call[c] = "join" THEN "check" ELSE "busy")
    /\ flagsMx = NONE
    /\ flagsMx' = c
    /\ UNCHANGED <<gcVars, countVars, flags, flagsWait, reqVars, busyVars, call, flag, queued>>

(* poll_until: wait on gc_busy_cv with gc_flags_mutex still held.          *)
AwaitBusy(c) ==
    /\ pc[c] = "busy" /\ c \notin busyWait
    /\ IF busy
       THEN pc' = [pc EXCEPT ![c] = "poll"] /\ UNCHANGED busyWait
       ELSE busyWait' = busyWait \cup {c} /\ UNCHANGED pc
    /\ UNCHANGED <<gcVars, countVars, flagVars, reqVars, busy, call, flag, queued>>

(* gc_flags_cv.wait: releases the mutex and sleeps.                        *)
WaitFlags(c) ==
    /\ Goto(c, "wait", "sleep")
    /\ flagsMx' = NONE
    /\ flagsWait' = flagsWait \cup {c}
    /\ UNCHANGED <<gcVars, countVars, flags, reqVars, busyVars, call, flag, queued>>

WakeFlags(c) ==
    /\ Goto(c, "sleep", "check")
    /\ c \notin flagsWait /\ flagsMx = NONE
    /\ flagsMx' = c
    /\ UNCHANGED <<gcVars, countVars, flags, flagsWait, reqVars, busyVars, call, flag, queued>>

(* With the mutex held: join looks for DEAD, poll_until for not busy.      *)
Finished(c) == IF call[c] = "join" THEN Has(flags, GC_FLAG_DEAD) ELSE ~busy

AfterCall(c) == CASE call[c] = "join" -> "handle"
                  [] call[c] = "until" -> "run"
                  [] OTHER -> "closing"

CheckAgain_NoPoll(c) ==
    /\ Goto(c, "check", "wait") /\ ~Finished(c)
    /\ UNCHANGED <<gcVars, countVars, flagVars, reqVars, busyVars, call, flag, queued>>

CheckAgain(c) ==
    /\ Goto(c, "check", "poll") /\ ~Finished(c)
    /\ UNCHANGED <<gcVars, countVars, flagVars, reqVars, busyVars, call, flag, queued>>

CheckDone(c) ==
    /\ Goto(c, "check", AfterCall(c)) /\ Finished(c)
    /\ flagsMx' = NONE
    /\ call' = [call EXCEPT ![c] = "none"]
    /\ UNCHANGED <<gcVars, countVars, flags, flagsWait, reqVars, busyVars, flag, queued>>

(* handle.join(): the collector thread has returned.                       *)
JoinThread(c) ==
    /\ Goto(c, "handle", "joined") /\ gcpc = "done"
    /\ UNCHANGED <<gcVars, countVars, flagVars, reqVars, busyVars, call, flag, queued>>

(* A condition variable may wake a sleeper that nobody notified.           *)
SpuriousWake ==
    /\ \/ /\ \E c \in flagsWait : flagsWait' = flagsWait \ {c}
          /\ UNCHANGED <<busyWait, outstWait>>
       \/ /\ \E c \in busyWait : busyWait' = busyWait \ {c}
          /\ UNCHANGED <<flagsWait, outstWait>>
       \/ /\ outstWait /\ outstWait' = FALSE
          /\ UNCHANGED <<flagsWait, busyWait>>
    /\ UNCHANGED <<gcVars, available, outstanding, outstMx, flags, flagsMx, reqVars, busy, ctxVars>>

-----------------------------------------------------------------------------
GcStep == \/ MarkNotBusy \/ TakeRequest \/ MarkBusy
          \/ HandshakeLock \/ StoreFlags \/ NotifyFlags \/ HandshakeWait \/ HandshakeWake
          \/ VisitRoots \/ TakeQueues \/ Sweep \/ StoreDead

PollStep(c) == PollNew(c) \/ PollSame(c) \/ PollWork(c) \/ PollAck(c)

CallStep(c) == \/ LockFlags(c) \/ AwaitBusy(c) \/ WaitFlags(c) \/ WakeFlags(c)
               \/ CheckAgain(c) \/ CheckDone(c) \/ JoinWithoutContext(c) \/ JoinThread(c)

ProgramStep(c) == \/ CreateContext(c) \/ FreeContext(c) \/ SendCollect(c) \/ Join(c)
                  \/ \E r \in {"collect", "shutdown"} : RequestThenPollUntil(c, r)

Next == \/ GcStep
        \/ \E c \in Ctx : PollStep(c) \/ CallStep(c) \/ ProgramStep(c)
        \/ SpuriousWake

(* The operating system runs every thread that can run, and a mutex that   *)
(* is free again and again is had at last: strong fairness, without which  *)
(* a sleeper that wakes spuriously for ever could starve the one that      *)
(* waits for its mutex.  A program polls again and again while it runs     *)
(* (ponyquad's frame loop); no call of the program is owed.                *)
Fairness == /\ SF_vars(GcStep)
            /\ \A c \in Ctx : SF_vars(PollStep(c) \/ CallStep(c))

Spec == Init /\ [][Next]_vars /\ Fairness

-----------------------------------------------------------------------------
(* Properties                                                              *)

GcPlaces == {"notbusy", "request", "markbusy", "hs_lock", "hs_flags", "hs_notify", "hs_wait",
             "hs_sleep", "roots", "take", "sweep", "x_notbusy", "x_flags", "x_notify", "done",
             "panicked"}
CtxPlaces == {"absent", "run", "work", "ack", "lock", "busy", "poll", "wait", "sleep", "check",
              "closing", "handle", "joined", "stopped"}
FlagValues == {0, 1, 2, 6, 8}

(* The types of the variables.                                             *)
TypeOK ==
    /\ gcpc \in GcPlaces /\ round \in Nat /\ taken \subseteq {"collect", "shutdown"}
    /\ request \subseteq {"collect", "shutdown"} /\ joinCalled \in BOOLEAN /\ sent \in Nat
    /\ busy \in BOOLEAN /\ busyWait \subseteq Ctx
    /\ flags \in FlagValues /\ flagsMx \in Ctx \cup {NONE} /\ flagsWait \subseteq Ctx
    /\ available \in Nat /\ outstanding \in 0..(WORD - 1)
    /\ outstMx \in {NONE, GC} /\ outstWait \in BOOLEAN
    /\ queued \in [Ctx -> Nat]
    /\ pc \in [Ctx -> CtxPlaces]
    /\ call \in [Ctx -> {"none", "join", "until", "closing"}]
    /\ flag \in [Ctx -> FlagValues]

(* The contexts that still owe an answer to the flags that are stored now. *)
Answering == {"work", "ack"}
Unanswered == {c \in Counted : flag[c] # flags \/ pc[c] \in Answering}

(* outstanding_threads is exactly the number of contexts that still owe an *)
(* answer (and, between loading it and storing the flags, of all of them): *)
(* poll_slow never counts twice, never for a question it was not asked,    *)
(* and never below zero.                                                   *)
CountExact ==
    flags # GC_FLAG_DEAD =>
        outstanding = Cardinality(IF gcpc = "hs_flags" THEN Counted ELSE Unanswered)

(* The collector takes gc_flags_mutex while it holds outstanding_threads;  *)
(* join takes them the other way round.  They never meet: whoever holds    *)
(* gc_flags_mutex then does not go on to lock outstanding_threads.         *)
NoLockCycle ==
    gcpc = "hs_flags" => \A c \in Ctx : flagsMx = c => pc[c] \notin Answering /\ flag[c] = flags

(* When the collector takes queue_queue after a scan, it holds exactly one *)
(* vector of every context: no scan is missing and none is left over from  *)
(* an earlier handshake.                                                   *)
ScansComplete == gcpc = "take" => \A c \in Counted : queued[c] = 1

(* A context asleep on gc_flags_cv has answered the flags that are stored, *)
(* unless the collector is about to notify it: no wake-up is lost between  *)
(* the look at the flags and the sleep (the comment on gc_flags_mutex).    *)
NoLostWakeup ==
    gcpc \notin {"hs_notify", "x_notify"} => \A c \in flagsWait : flag[c] = flags

(* The flags are only written when no context is still at work on the      *)
(* previous ones.                                                          *)
SettledBeforeNext == [][flags' # flags => Unanswered = {}]_vars

(* A COLLECT that was sent is served, also when SHUTDOWN came with it.     *)
RequestServed == ("collect" \in request) ~> (gcpc = "sweep")

(* poni_gc_join with a context returns, whatever the collector was doing.  *)
JoinReturns == \A c \in Ctx : (call[c] = "join") ~> (pc[c] = "joined")

(* The handshake implements the abstract rendezvous.                       *)
Asked == gcpc \in {"hs_notify", "hs_wait", "hs_sleep"}
RV == INSTANCE Rendezvous WITH asked <- Asked, pending <- IF Asked THEN Unanswered ELSE {}
RvSafety == RV!RvSafety
RvSpec == RV!RvSpec

-----------------------------------------------------------------------------
(* What the repository says and the code does not do                       *)

(* concurrent.rs asserts in handshake() that nobody is outstanding when a  *)
(* handshake starts.  A context created after a collection breaks it.      *)
HandshakeNeverPanics == gcpc # "panicked"
=============================================================================
