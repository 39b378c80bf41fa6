-------------------------- MODULE GcHandshakeProofs --------------------------
(***************************************************************************)
(* Proofs about GcHandshake, for any set of contexts and any bounds.  Type *)
(* correctness holds whatever calls the program makes; everything else     *)
(* needs that no context is created once a collection was requested        *)
(* (~Late), which GcHandshake's runs show to be necessary.                 *)
(***************************************************************************)
EXTENDS GcHandshake, FiniteSetTheorems, TLAPS

-----------------------------------------------------------------------------
(* The inductive invariant, in parts                                       *)

Late == "late" \in Calls

(* The contexts counted are those that were created.                       *)
AvailExact == available = Cardinality(Counted)

(* Where the collector is inside collect(), and where its thread is over.  *)
InCycle == gcpc \in {"hs_lock", "hs_flags", "hs_notify", "hs_wait", "hs_sleep", "roots", "take",
                     "sweep"}
Over == gcpc \in {"x_notify", "done"}

(* Who holds which mutex, from where each thread is.                       *)
HoldsFlagsMx(c) == \/ pc[c] \in {"busy", "poll", "wait", "check"}
                   \/ pc[c] \in Answering /\ call[c] # "none"
MutexInv == /\ outstMx = GC <=> gcpc \in {"hs_flags", "hs_notify", "hs_wait"}
            /\ \A c \in Ctx : flagsMx = c <=> HoldsFlagsMx(c)

(* A context is in a blocking call exactly at that call's places, and the  *)
(* sleepers are asleep.                                                    *)
CallInv == \A c \in Ctx :
    /\ pc[c] \in {"lock", "busy", "poll", "wait", "sleep", "check"} => call[c] # "none"
    /\ pc[c] \in {"absent", "run"} => call[c] = "none"
    /\ c \in flagsWait => pc[c] = "sleep"

(* What the flags are, from where the collector is in its cycle.           *)
FlagsInv == /\ flags = GC_FLAG_DEAD <=> Over
            /\ Asked => flags = HandshakeFlags(round)
            /\ gcpc \in {"roots", "take"} => flags = HandshakeFlags(round)
            /\ gcpc = "roots" => round = 0
            /\ gcpc = "take" => round >= 1
            /\ gcpc \in {"hs_lock", "hs_flags"} =>
                  IF round = 0 THEN flags \in {0, 2, 6} ELSE flags = HandshakeFlags(round - 1)
            /\ ~Over /\ (~InCycle \/ gcpc = "sweep") => flags \in {0, 2, 6}

(* Nothing is asked before the first COLLECT is sent.                      *)
SentInv == sent = 0 => /\ "collect" \notin request \cup taken
                       /\ ~InCycle
                       /\ flags \in {0, GC_FLAG_DEAD}

(* Outside a handshake every context has answered; inside, whoever works   *)
(* on an answer works on the flags that are stored.                        *)
Settled == ~Asked /\ ~Over => Unanswered = {}
AnswerInv == \A c \in Ctx :
    /\ pc[c] \in Answering \cup {"wait"} => flag[c] = flags
    /\ pc[c] = "absent" => flag[c] = 0

(* outstanding_threads, always.                                            *)
CountInv == /\ ~Over => outstanding =
                 Cardinality(IF gcpc = "hs_flags" THEN Counted ELSE Unanswered)
            /\ gcpc # "panicked"

(* Whose vector is in queue_queue.                                         *)
Scanned(c) == /\ Asked \/ gcpc = "take"
              /\ round >= 1
              /\ pc[c] # "absent" /\ flag[c] = flags /\ pc[c] # "work"
QueueInv == \A c \in Ctx : queued[c] = IF Scanned(c) THEN 1 ELSE 0

IInv == /\ TypeOK /\ AvailExact
        /\ MutexInv /\ CallInv /\ FlagsInv /\ SentInv
        /\ Settled /\ AnswerInv /\ CountInv /\ QueueInv /\ NoLostWakeup

-----------------------------------------------------------------------------
(* Types                                                                   *)

(* Every value a handshake stores is one of the flags' values.             *)
LEMMA HandshakeFlagsType ==
    ASSUME NEW k \in Nat
    PROVE  HandshakeFlags(k) \in {1, 2, 6}
BY DEF HandshakeFlags, GC_FLAG_HANDOFF_ALLOCS, GC_FLAG_SCAN, GC_FLAG_DUMMY

LEMMA AvailableFits ==
    ASSUME TypeOK, AvailExact
    PROVE  available \in 0..(WORD - 1)
<1>1. Counted \in SUBSET Ctx
  BY DEF Counted
<1>2. Cardinality(Counted) <= Cardinality(Ctx) /\ Cardinality(Counted) \in Nat
  BY <1>1, FS_Subset, FS_CardinalityType, CtxAssumption
<1>3. Cardinality(Ctx) \in Nat
  BY FS_CardinalityType, CtxAssumption
<1>. QED
  BY <1>2, <1>3, BoundAssumption DEF AvailExact

LEMMA WrapType ==
    ASSUME NEW n \in Int
    PROVE  Wrap(n) \in 0..(WORD - 1)
<1>1. WORD \in Nat /\ WORD > 0
  BY FS_CardinalityType, CtxAssumption, BoundAssumption
<1>. QED
  BY <1>1 DEF Wrap

LEMMA AddOne ==
    ASSUME NEW S, IsFiniteSet(S), NEW x, x \notin S
    PROVE  Cardinality(S \cup {x}) = Cardinality(S) + 1
BY FS_AddElement

LEMMA TypeStep ==
    ASSUME TypeOK, AvailExact, [Next]_vars
    PROVE  TypeOK' /\ AvailExact'
<1>. USE DEF TypeOK, AvailExact, Counted, GcPlaces, CtxPlaces, FlagValues, GcGoto, Goto,
             vars, gcVars, countVars, flagVars, reqVars, busyVars, ctxVars
<1>1. CASE MarkNotBusy
  BY <1>1 DEF MarkNotBusy
<1>2. CASE TakeRequest
  BY <1>2 DEF TakeRequest
<1>3. CASE MarkBusy
  BY <1>3 DEF MarkBusy, FirstTask
<1>4. CASE HandshakeLock
  BY <1>4, AvailableFits DEF HandshakeLock
<1>5. CASE StoreFlags
  BY <1>5, HandshakeFlagsType DEF StoreFlags
<1>6. CASE NotifyFlags
  BY <1>6 DEF NotifyFlags
<1>7. CASE HandshakeWait
  BY <1>7 DEF HandshakeWait, EverybodyAnswered
<1>8. CASE HandshakeWake
  BY <1>8 DEF HandshakeWake
<1>9. CASE VisitRoots
  BY <1>9 DEF VisitRoots
<1>10. CASE TakeQueues
  BY <1>10 DEF TakeQueues
<1>11. CASE Sweep
  BY <1>11 DEF Sweep
<1>12. CASE StoreDead
  BY <1>12 DEF StoreDead, GC_FLAG_DEAD
<1>13. ASSUME NEW c \in Ctx, PollNew(c) PROVE TypeOK' /\ AvailExact'
  <2>1. Counted' = Counted
    BY <1>13 DEF PollNew
  <2>2. TypeOK'
    BY <1>13 DEF PollNew
  <2>. QED
    BY <1>13, <2>1, <2>2 DEF PollNew
<1>14. ASSUME NEW c \in Ctx, PollSame(c) PROVE TypeOK' /\ AvailExact'
  BY <1>14 DEF PollSame, AfterPoll
<1>15. ASSUME NEW c \in Ctx, PollWork(c) PROVE TypeOK' /\ AvailExact'
  <2>1. VectorsPushed(flag[c]) \in Nat
    BY DEF VectorsPushed
  <2>2. Counted' = Counted
    BY <1>15 DEF PollWork
  <2>3. TypeOK'
    BY <1>15, <2>1 DEF PollWork
  <2>. QED
    BY <1>15, <2>2, <2>3 DEF PollWork
<1>16. ASSUME NEW c \in Ctx, PollAck(c) PROVE TypeOK' /\ AvailExact'
  <2>1. Wrap(outstanding - 1) \in 0..(WORD - 1)
    BY WrapType
  <2>2. outstWait' \in BOOLEAN
    BY <1>16 DEF PollAck
  <2>3. Counted' = Counted
    BY <1>16 DEF PollAck, AfterPoll
  <2>4. TypeOK'
    BY <1>16, <2>1, <2>2 DEF PollAck, AfterPoll
  <2>. QED
    BY <1>16, <2>3, <2>4 DEF PollAck
<1>17. ASSUME NEW c \in Ctx, LockFlags(c) PROVE TypeOK' /\ AvailExact'
  BY <1>17 DEF LockFlags
<1>18. ASSUME NEW c \in Ctx, AwaitBusy(c) PROVE TypeOK' /\ AvailExact'
  BY <1>18 DEF AwaitBusy
<1>19. ASSUME NEW c \in Ctx, WaitFlags(c) PROVE TypeOK' /\ AvailExact'
  BY <1>19 DEF WaitFlags
<1>20. ASSUME NEW c \in Ctx, WakeFlags(c) PROVE TypeOK' /\ AvailExact'
  BY <1>20 DEF WakeFlags
<1>21. ASSUME NEW c \in Ctx, CheckAgain(c) PROVE TypeOK' /\ AvailExact'
  BY <1>21 DEF CheckAgain
<1>22. ASSUME NEW c \in Ctx, CheckDone(c) PROVE TypeOK' /\ AvailExact'
  BY <1>22 DEF CheckDone, AfterCall
<1>23. ASSUME NEW c \in Ctx, JoinWithoutContext(c) PROVE TypeOK' /\ AvailExact'
  BY <1>23 DEF JoinWithoutContext
<1>24. ASSUME NEW c \in Ctx, JoinThread(c) PROVE TypeOK' /\ AvailExact'
  BY <1>24 DEF JoinThread
<1>25. ASSUME NEW c \in Ctx, CreateContext(c) PROVE TypeOK' /\ AvailExact'
  <2>1. Counted' = Counted \cup {c} /\ c \notin Counted
    BY <1>25 DEF CreateContext
  <2>2. IsFiniteSet(Counted)
    BY FS_Subset, CtxAssumption
  <2>3. Cardinality(Counted') = Cardinality(Counted) + 1
    BY <2>1, <2>2, AddOne
  <2>4. TypeOK'
    BY <1>25 DEF CreateContext
  <2>. QED
    BY <1>25, <2>3, <2>4 DEF CreateContext
<1>26. ASSUME NEW c \in Ctx, FreeContext(c) PROVE TypeOK' /\ AvailExact'
  BY <1>26 DEF FreeContext
<1>27. ASSUME NEW c \in Ctx, SendCollect(c) PROVE TypeOK' /\ AvailExact'
  BY <1>27 DEF SendCollect
<1>28. ASSUME NEW c \in Ctx, Join(c) PROVE TypeOK' /\ AvailExact'
  BY <1>28 DEF Join
<1>29. ASSUME NEW c \in Ctx, NEW r \in {"collect", "shutdown"}, RequestThenPollUntil(c, r)
      PROVE TypeOK' /\ AvailExact'
  <2>1. Counted' = Counted
    BY <1>29 DEF RequestThenPollUntil
  <2>2. sent' \in Nat
    BY <1>29 DEF RequestThenPollUntil
  <2>3. TypeOK'
    BY <1>29, <2>2 DEF RequestThenPollUntil
  <2>. QED
    BY <1>29, <2>1, <2>3 DEF RequestThenPollUntil
<1>30. CASE SpuriousWake
  <2>1. outstWait' \in BOOLEAN
    BY <1>30 DEF SpuriousWake
  <2>2. flagsWait' \subseteq Ctx /\ busyWait' \subseteq Ctx
    BY <1>30 DEF SpuriousWake
  <2>3. AvailExact'
    BY <1>30 DEF SpuriousWake
  <2>. QED
    BY <1>30, <2>1, <2>2, <2>3 DEF SpuriousWake
<1>31. CASE UNCHANGED vars
  BY <1>31
<1>. QED
  BY <1>1, <1>2, <1>3, <1>4, <1>5, <1>6, <1>7, <1>8, <1>9, <1>10, <1>11, <1>12, <1>13, <1>14, <1>15,
       <1>16, <1>17, <1>18, <1>19, <1>20, <1>21, <1>22, <1>23, <1>24, <1>25, <1>26, <1>27, <1>28,
       <1>29, <1>30, <1>31
  DEF Next, GcStep, PollStep, CallStep, ProgramStep

LEMMA InitTypes == Init => TypeOK /\ AvailExact
<1>. SUFFICES ASSUME Init PROVE TypeOK /\ AvailExact
  OBVIOUS
<1>1. Counted = {}
  BY DEF Init, Counted
<1>2. WORD > 0
  BY FS_CardinalityType, CtxAssumption, BoundAssumption
<1>3. AvailExact
  BY <1>1, FS_EmptySet DEF Init, AvailExact
<1>4. TypeOK
  <2>1. 0 \in 0..(WORD - 1) /\ {} \subseteq Ctx
    BY <1>2, BoundAssumption
  <2>2. gcpc \in GcPlaces /\ flags \in FlagValues
    BY DEF Init, GcPlaces, FlagValues
  <2>3. pc \in [Ctx -> CtxPlaces] /\ flag \in [Ctx -> FlagValues]
    BY DEF Init, CtxPlaces, FlagValues
  <2>. QED
    BY <2>1, <2>2, <2>3 DEF Init, TypeOK
<1>. QED
  BY <1>3, <1>4

(* The variables always have their types, and available_threads always     *)
(* counts the contexts created: whatever calls the program makes.          *)
THEOREM TypeCorrect == Spec => [](TypeOK /\ AvailExact)
<1>1. Init => TypeOK /\ AvailExact
  BY InitTypes
<1>2. TypeOK /\ AvailExact /\ [Next]_vars => TypeOK' /\ AvailExact'
  BY TypeStep
<1>. QED
  BY <1>1, <1>2, PTL DEF Spec

-----------------------------------------------------------------------------
(* Mutexes and places                                                      *)

LEMMA ControlStep ==
    ASSUME TypeOK, MutexInv, CallInv, [Next]_vars
    PROVE  MutexInv' /\ CallInv'
<1>. USE CtxAssumption DEF TypeOK, MutexInv, CallInv, HoldsFlagsMx, Answering, GcGoto, Goto,
             vars, gcVars, countVars, flagVars, reqVars, busyVars, ctxVars
<1>1. CASE MarkNotBusy
  BY <1>1 DEF MarkNotBusy
<1>2. CASE TakeRequest
  BY <1>2 DEF TakeRequest
<1>3. CASE MarkBusy
  BY <1>3 DEF MarkBusy, FirstTask
<1>4. CASE HandshakeLock
  BY <1>4 DEF HandshakeLock
<1>5. CASE StoreFlags
  BY <1>5 DEF StoreFlags, FlagsMxFree
<1>6. CASE NotifyFlags
  BY <1>6 DEF NotifyFlags
<1>7. CASE HandshakeWait
  BY <1>7 DEF HandshakeWait, EverybodyAnswered
<1>8. CASE HandshakeWake
  BY <1>8 DEF HandshakeWake
<1>9. CASE VisitRoots
  BY <1>9 DEF VisitRoots
<1>10. CASE TakeQueues
  BY <1>10 DEF TakeQueues
<1>11. CASE Sweep
  BY <1>11 DEF Sweep
<1>12. CASE StoreDead
  BY <1>12 DEF StoreDead, FlagsMxFree
<1>13. ASSUME NEW c \in Ctx, PollNew(c) PROVE MutexInv' /\ CallInv'
  BY <1>13 DEF PollNew
<1>14. ASSUME NEW c \in Ctx, PollSame(c) PROVE MutexInv' /\ CallInv'
  BY <1>14 DEF PollSame, AfterPoll
<1>15. ASSUME NEW c \in Ctx, PollWork(c) PROVE MutexInv' /\ CallInv'
  BY <1>15 DEF PollWork
<1>16. ASSUME NEW c \in Ctx, PollAck(c) PROVE MutexInv' /\ CallInv'
  BY <1>16 DEF PollAck, AfterPoll
<1>17. ASSUME NEW c \in Ctx, LockFlags(c) PROVE MutexInv' /\ CallInv'
  BY <1>17 DEF LockFlags
<1>18. ASSUME NEW c \in Ctx, AwaitBusy(c) PROVE MutexInv' /\ CallInv'
  BY <1>18 DEF AwaitBusy
<1>19. ASSUME NEW c \in Ctx, WaitFlags(c) PROVE MutexInv' /\ CallInv'
  BY <1>19 DEF WaitFlags
<1>20. ASSUME NEW c \in Ctx, WakeFlags(c) PROVE MutexInv' /\ CallInv'
  BY <1>20 DEF WakeFlags
<1>21. ASSUME NEW c \in Ctx, CheckAgain(c) PROVE MutexInv' /\ CallInv'
  BY <1>21 DEF CheckAgain
<1>22. ASSUME NEW c \in Ctx, CheckDone(c) PROVE MutexInv' /\ CallInv'
  BY <1>22 DEF CheckDone, AfterCall
<1>23. ASSUME NEW c \in Ctx, JoinWithoutContext(c) PROVE MutexInv' /\ CallInv'
  BY <1>23 DEF JoinWithoutContext
<1>24. ASSUME NEW c \in Ctx, JoinThread(c) PROVE MutexInv' /\ CallInv'
  BY <1>24 DEF JoinThread
<1>25. ASSUME NEW c \in Ctx, CreateContext(c) PROVE MutexInv' /\ CallInv'
  BY <1>25 DEF CreateContext
<1>26. ASSUME NEW c \in Ctx, FreeContext(c) PROVE MutexInv' /\ CallInv'
  BY <1>26 DEF FreeContext
<1>27. ASSUME NEW c \in Ctx, SendCollect(c) PROVE MutexInv' /\ CallInv'
  BY <1>27 DEF SendCollect
<1>28. ASSUME NEW c \in Ctx, Join(c) PROVE MutexInv' /\ CallInv'
  BY <1>28 DEF Join
<1>29. ASSUME NEW c \in Ctx, NEW r \in {"collect", "shutdown"}, RequestThenPollUntil(c, r)
      PROVE MutexInv' /\ CallInv'
  BY <1>29 DEF RequestThenPollUntil
<1>30. CASE SpuriousWake
  BY <1>30 DEF SpuriousWake
<1>31. CASE UNCHANGED vars
  BY <1>31
<1>. QED
  BY <1>1, <1>2, <1>3, <1>4, <1>5, <1>6, <1>7, <1>8, <1>9, <1>10, <1>11, <1>12, <1>13, <1>14, <1>15,
       <1>16, <1>17, <1>18, <1>19, <1>20, <1>21, <1>22, <1>23, <1>24, <1>25, <1>26, <1>27, <1>28,
       <1>29, <1>30, <1>31
  DEF Next, GcStep, PollStep, CallStep, ProgramStep

-----------------------------------------------------------------------------
(* The flags                                                               *)

(* Two handshakes in a row never store the same flags.                     *)
LEMMA HandshakeFlagsToggle ==
    ASSUME NEW k \in Nat
    PROVE  /\ HandshakeFlags(k + 1) # HandshakeFlags(k)
           /\ k >= 1 => HandshakeFlags(k) \in {2, 6}
           /\ HandshakeFlags(0) = 1
BY DEF HandshakeFlags, GC_FLAG_HANDOFF_ALLOCS, GC_FLAG_SCAN, GC_FLAG_DUMMY

LEMMA FlagsStep ==
    ASSUME TypeOK, FlagsInv, SentInv, gcpc' # "panicked", [Next]_vars
    PROVE  FlagsInv' /\ SentInv'
<1>. USE DEF TypeOK, FlagsInv, SentInv, InCycle, Over, Asked, GC_FLAG_DEAD, GcGoto, Goto,
             vars, gcVars, countVars, flagVars, reqVars, busyVars, ctxVars
<1>1. CASE MarkNotBusy
  BY <1>1 DEF MarkNotBusy
<1>2. CASE TakeRequest
  BY <1>2 DEF TakeRequest
<1>3. CASE MarkBusy
  BY <1>3 DEF MarkBusy, FirstTask
<1>4. CASE HandshakeLock
  BY <1>4 DEF HandshakeLock
<1>5. CASE StoreFlags
  <2>1. HandshakeFlags(round) \in {1, 2, 6}
    BY HandshakeFlagsType
  <2>. QED
    BY <1>5, <2>1 DEF StoreFlags
<1>6. CASE NotifyFlags
  BY <1>6 DEF NotifyFlags
<1>7. CASE HandshakeWait
  BY <1>7 DEF HandshakeWait, EverybodyAnswered
<1>8. CASE HandshakeWake
  BY <1>8 DEF HandshakeWake
<1>9. CASE VisitRoots
  BY <1>9 DEF VisitRoots
<1>10. CASE TakeQueues
  <2>1. HandshakeFlags(round) \in {2, 6}
    BY <1>10, HandshakeFlagsToggle DEF TakeQueues
  <2>. QED
    BY <1>10, <2>1 DEF TakeQueues
<1>11. CASE Sweep
  BY <1>11 DEF Sweep
<1>12. CASE StoreDead
  BY <1>12 DEF StoreDead, FlagsMxFree
<1>13. ASSUME NEW c \in Ctx, PollNew(c) PROVE FlagsInv' /\ SentInv'
  BY <1>13 DEF PollNew
<1>14. ASSUME NEW c \in Ctx, PollSame(c) PROVE FlagsInv' /\ SentInv'
  BY <1>14 DEF PollSame, AfterPoll
<1>15. ASSUME NEW c \in Ctx, PollWork(c) PROVE FlagsInv' /\ SentInv'
  BY <1>15 DEF PollWork
<1>16. ASSUME NEW c \in Ctx, PollAck(c) PROVE FlagsInv' /\ SentInv'
  BY <1>16 DEF PollAck, AfterPoll
<1>17. ASSUME NEW c \in Ctx, LockFlags(c) PROVE FlagsInv' /\ SentInv'
  BY <1>17 DEF LockFlags
<1>18. ASSUME NEW c \in Ctx, AwaitBusy(c) PROVE FlagsInv' /\ SentInv'
  BY <1>18 DEF AwaitBusy
<1>19. ASSUME NEW c \in Ctx, WaitFlags(c) PROVE FlagsInv' /\ SentInv'
  BY <1>19 DEF WaitFlags
<1>20. ASSUME NEW c \in Ctx, WakeFlags(c) PROVE FlagsInv' /\ SentInv'
  BY <1>20 DEF WakeFlags
<1>21. ASSUME NEW c \in Ctx, CheckAgain(c) PROVE FlagsInv' /\ SentInv'
  BY <1>21 DEF CheckAgain
<1>22. ASSUME NEW c \in Ctx, CheckDone(c) PROVE FlagsInv' /\ SentInv'
  BY <1>22 DEF CheckDone, AfterCall
<1>23. ASSUME NEW c \in Ctx, JoinWithoutContext(c) PROVE FlagsInv' /\ SentInv'
  BY <1>23 DEF JoinWithoutContext
<1>24. ASSUME NEW c \in Ctx, JoinThread(c) PROVE FlagsInv' /\ SentInv'
  BY <1>24 DEF JoinThread
<1>25. ASSUME NEW c \in Ctx, CreateContext(c) PROVE FlagsInv' /\ SentInv'
  BY <1>25 DEF CreateContext
<1>26. ASSUME NEW c \in Ctx, FreeContext(c) PROVE FlagsInv' /\ SentInv'
  BY <1>26 DEF FreeContext
<1>27. ASSUME NEW c \in Ctx, SendCollect(c) PROVE FlagsInv' /\ SentInv'
  BY <1>27 DEF SendCollect
<1>28. ASSUME NEW c \in Ctx, Join(c) PROVE FlagsInv' /\ SentInv'
  BY <1>28 DEF Join
<1>29. ASSUME NEW c \in Ctx, NEW r \in {"collect", "shutdown"}, RequestThenPollUntil(c, r)
      PROVE FlagsInv' /\ SentInv'
  BY <1>29 DEF RequestThenPollUntil
<1>30. CASE SpuriousWake
  BY <1>30 DEF SpuriousWake
<1>31. CASE UNCHANGED vars
  BY <1>31
<1>. QED
  BY <1>1, <1>2, <1>3, <1>4, <1>5, <1>6, <1>7, <1>8, <1>9, <1>10, <1>11, <1>12, <1>13, <1>14, <1>15,
       <1>16, <1>17, <1>18, <1>19, <1>20, <1>21, <1>22, <1>23, <1>24, <1>25, <1>26, <1>27, <1>28,
       <1>29, <1>30, <1>31
  DEF Next, GcStep, PollStep, CallStep, ProgramStep

-----------------------------------------------------------------------------
(* Answers and their count                                                 *)

LEMMA CountFacts ==
    ASSUME TypeOK
    PROVE  /\ IsFiniteSet(Counted) /\ IsFiniteSet(Unanswered)
           /\ Cardinality(Counted) \in Nat /\ Cardinality(Unanswered) \in Nat
           /\ Cardinality(Unanswered) = 0 <=> Unanswered = {}
<1>1. Counted \in SUBSET Ctx /\ Unanswered \in SUBSET Ctx
  BY DEF Counted, Unanswered
<1>2. IsFiniteSet(Counted) /\ IsFiniteSet(Unanswered)
  BY <1>1, FS_Subset, CtxAssumption
<1>. QED
  BY <1>2, FS_CardinalityType, FS_EmptySet

LEMMA RemoveOne ==
    ASSUME NEW S, IsFiniteSet(S), NEW x \in S
    PROVE  Cardinality(S \ {x}) = Cardinality(S) - 1 /\ Cardinality(S) \in Nat /\ Cardinality(S) > 0
<1>1. Cardinality(S) \in Nat /\ Cardinality(S) # 0
  BY FS_CardinalityType, FS_EmptySet
<1>. QED
  BY <1>1, FS_RemoveElement

(* A step that moves neither the collector nor anybody's debt keeps them.  *)
LEMMA DebtUnmoved ==
    ASSUME Settled, CountInv, Counted' = Counted, Unanswered' = Unanswered,
           UNCHANGED <<gcpc, outstanding>>
    PROVE  Settled' /\ CountInv'
BY DEF Settled, CountInv, Asked, Over

LEMMA AnswerStep ==
    ASSUME TypeOK, AvailExact, MutexInv, CallInv, FlagsInv, SentInv, Settled, AnswerInv, CountInv,
           ~Late, [Next]_vars
    PROVE  Settled' /\ AnswerInv' /\ CountInv'
<1>. USE DEF GcGoto, Goto, vars, gcVars, countVars, flagVars, reqVars, busyVars, ctxVars
<1>1. CASE MarkNotBusy
  <2>1. Counted' = Counted /\ Unanswered' = Unanswered
    BY <1>1 DEF MarkNotBusy, TypeOK, Counted, Unanswered, Answering
  <2>2. AnswerInv'
    BY <1>1 DEF MarkNotBusy, TypeOK, AnswerInv, Answering
  <2>. QED
    BY <1>1, <2>1, <2>2 DEF MarkNotBusy, Settled, CountInv, Asked, Over
<1>2. CASE TakeRequest
  <2>1. Counted' = Counted /\ Unanswered' = Unanswered
    BY <1>2 DEF TakeRequest, TypeOK, Counted, Unanswered, Answering
  <2>2. AnswerInv'
    BY <1>2 DEF TakeRequest, TypeOK, AnswerInv, Answering
  <2>. QED
    BY <1>2, <2>1, <2>2 DEF TakeRequest, Settled, CountInv, Asked, Over
<1>3. CASE MarkBusy
  <2>1. Counted' = Counted /\ Unanswered' = Unanswered
    BY <1>3 DEF MarkBusy, FirstTask, TypeOK, Counted, Unanswered, Answering
  <2>2. AnswerInv'
    BY <1>3 DEF MarkBusy, FirstTask, TypeOK, AnswerInv, Answering
  <2>. QED
    BY <1>3, <2>1, <2>2 DEF MarkBusy, FirstTask, Settled, CountInv, Asked, Over
<1>4. CASE HandshakeLock
  <2>1. Counted' = Counted /\ Unanswered' = Unanswered
    BY <1>4 DEF HandshakeLock, TypeOK, Counted, Unanswered, Answering
  <2>2. AnswerInv'
    BY <1>4 DEF HandshakeLock, TypeOK, AnswerInv, Answering
  <2>3. outstanding = 0
    BY <1>4, <2>1, CountFacts DEF HandshakeLock, Settled, CountInv, Asked, Over
  <2>. QED
    BY <1>4, <2>1, <2>2, <2>3 DEF HandshakeLock, AvailExact, Settled, CountInv, Asked, Over
<1>5. CASE StoreFlags
  <2>1. \A c \in Ctx : pc[c] # "wait"
    BY <1>5, CtxAssumption DEF StoreFlags, FlagsMxFree, MutexInv, HoldsFlagsMx
  <2>2. \A c \in Counted : flag[c] = flags /\ pc[c] \notin Answering
    BY <1>5 DEF StoreFlags, Settled, Asked, Over, Unanswered
  <2>3. \A c \in Ctx : pc[c] \notin Answering
    BY <2>2 DEF Counted, Answering
  <2>4. flags' # flags
    <3>1. round = 0 => HandshakeFlags(round) = 1
      BY HandshakeFlagsToggle
    <3>2. round # 0 => HandshakeFlags(round) # HandshakeFlags(round - 1)
      BY HandshakeFlagsToggle DEF TypeOK
    <3>. QED
      BY <1>5, <3>1, <3>2 DEF StoreFlags, FlagsInv
  <2>5. Counted' = Counted /\ Unanswered' = Counted
    BY <1>5, <2>2, <2>4 DEF StoreFlags, Counted, Unanswered
  <2>6. AnswerInv'
    BY <1>5, <2>1, <2>3 DEF StoreFlags, AnswerInv
  <2>. QED
    BY <1>5, <2>5, <2>6 DEF StoreFlags, Settled, CountInv, Asked, Over
<1>6. CASE NotifyFlags
  <2>1. Counted' = Counted /\ Unanswered' = Unanswered
    BY <1>6 DEF NotifyFlags, TypeOK, Counted, Unanswered, Answering
  <2>2. AnswerInv'
    BY <1>6 DEF NotifyFlags, TypeOK, AnswerInv, Answering
  <2>. QED
    BY <1>6, <2>1, <2>2 DEF NotifyFlags, Settled, CountInv, Asked, Over
<1>7. CASE HandshakeWait
  <2>1. Counted' = Counted /\ Unanswered' = Unanswered
    BY <1>7 DEF HandshakeWait, EverybodyAnswered, TypeOK, Counted, Unanswered, Answering
  <2>2. AnswerInv'
    BY <1>7 DEF HandshakeWait, EverybodyAnswered, TypeOK, AnswerInv, Answering
  <2>3. outstanding = 0 => Unanswered = {}
    BY <1>7, CountFacts DEF HandshakeWait, CountInv, Over
  <2>. QED
    BY <1>7, <2>1, <2>2, <2>3 DEF HandshakeWait, EverybodyAnswered, Settled, CountInv, Asked, Over
<1>8. CASE HandshakeWake
  <2>1. Counted' = Counted /\ Unanswered' = Unanswered
    BY <1>8 DEF HandshakeWake, TypeOK, Counted, Unanswered, Answering
  <2>2. AnswerInv'
    BY <1>8 DEF HandshakeWake, TypeOK, AnswerInv, Answering
  <2>. QED
    BY <1>8, <2>1, <2>2 DEF HandshakeWake, Settled, CountInv, Asked, Over
<1>9. CASE VisitRoots
  <2>1. Counted' = Counted /\ Unanswered' = Unanswered
    BY <1>9 DEF VisitRoots, TypeOK, Counted, Unanswered, Answering
  <2>2. AnswerInv'
    BY <1>9 DEF VisitRoots, TypeOK, AnswerInv, Answering
  <2>. QED
    BY <1>9, <2>1, <2>2 DEF VisitRoots, Settled, CountInv, Asked, Over
<1>10. CASE TakeQueues
  <2>1. Counted' = Counted /\ Unanswered' = Unanswered
    BY <1>10 DEF TakeQueues, TypeOK, Counted, Unanswered, Answering
  <2>2. AnswerInv'
    BY <1>10 DEF TakeQueues, TypeOK, AnswerInv, Answering
  <2>. QED
    BY <1>10, <2>1, <2>2 DEF TakeQueues, Settled, CountInv, Asked, Over
<1>11. CASE Sweep
  <2>1. Counted' = Counted /\ Unanswered' = Unanswered
    BY <1>11 DEF Sweep, TypeOK, Counted, Unanswered, Answering
  <2>2. AnswerInv'
    BY <1>11 DEF Sweep, TypeOK, AnswerInv, Answering
  <2>. QED
    BY <1>11, <2>1, <2>2 DEF Sweep, Settled, CountInv, Asked, Over
<1>12. CASE StoreDead
  <2>1. \A c \in Ctx : pc[c] # "wait"
    BY <1>12, CtxAssumption DEF StoreDead, FlagsMxFree, MutexInv, HoldsFlagsMx
  <2>2. \A c \in Ctx : pc[c] \notin Answering
    BY <1>12 DEF StoreDead, Settled, Asked, Over, Unanswered, Counted, Answering
  <2>. QED
    BY <1>12, <2>1, <2>2 DEF StoreDead, AnswerInv, Settled, CountInv, Asked, Over
<1>13. ASSUME NEW c \in Ctx, PollNew(c) PROVE Settled' /\ AnswerInv' /\ CountInv'
  <2>1. Counted' = Counted /\ Unanswered' = Unanswered
    BY <1>13 DEF PollNew, TypeOK, AnswerInv, Counted, Unanswered, Answering
  <2>2. AnswerInv'
    BY <1>13 DEF PollNew, TypeOK, AnswerInv, Answering
  <2>. QED
    BY <1>13, <2>1, <2>2, DebtUnmoved DEF PollNew
<1>14. ASSUME NEW c \in Ctx, PollSame(c) PROVE Settled' /\ AnswerInv' /\ CountInv'
  <2>1. Counted' = Counted /\ Unanswered' = Unanswered
    BY <1>14 DEF PollSame, AfterPoll, TypeOK, Counted, Unanswered, Answering
  <2>2. AnswerInv'
    BY <1>14 DEF PollSame, AfterPoll, TypeOK, AnswerInv, Answering
  <2>. QED
    BY <1>14, <2>1, <2>2, DebtUnmoved DEF PollSame
<1>15. ASSUME NEW c \in Ctx, PollWork(c) PROVE Settled' /\ AnswerInv' /\ CountInv'
  <2>1. Counted' = Counted /\ Unanswered' = Unanswered
    BY <1>15 DEF PollWork, TypeOK, AnswerInv, Counted, Unanswered, Answering
  <2>2. AnswerInv'
    BY <1>15 DEF PollWork, TypeOK, AnswerInv, Answering
  <2>. QED
    BY <1>15, <2>1, <2>2, DebtUnmoved DEF PollWork
<1>16. ASSUME NEW c \in Ctx, PollAck(c) PROVE Settled' /\ AnswerInv' /\ CountInv'
  <2>1. c \in Unanswered /\ Counted' = Counted
    BY <1>16 DEF PollAck, AfterPoll, TypeOK, Counted, Unanswered, Answering
  <2>2. Unanswered' = Unanswered \ {c}
    BY <1>16 DEF PollAck, AfterPoll, TypeOK, AnswerInv, Counted, Unanswered, Answering
  <2>3. AnswerInv'
    BY <1>16 DEF PollAck, AfterPoll, TypeOK, AnswerInv, Answering
  <2>4. ASSUME ~Over PROVE outstanding' = Cardinality(Unanswered') /\ Asked
    <3>1. Asked
      BY <2>1, <2>4 DEF Settled
    <3>2. outstanding = Cardinality(Unanswered)
      BY <2>4, <3>1 DEF CountInv, Asked
    <3>3. Cardinality(Unanswered') = outstanding - 1 /\ outstanding > 0
      BY <2>1, <2>2, <3>2, CountFacts, RemoveOne
    <3>4. outstanding - 1 \in 0..(WORD - 1) /\ WORD \in Nat
      BY <3>3, BoundAssumption DEF TypeOK
    <3>5. Wrap(outstanding - 1) = outstanding - 1
      BY <3>4 DEF Wrap
    <3>. QED
      BY <1>16, <3>1, <3>3, <3>5 DEF PollAck
  <2>. QED
    BY <1>16, <2>3, <2>4 DEF PollAck, Settled, CountInv, Asked, Over
<1>17. ASSUME NEW c \in Ctx, LockFlags(c) PROVE Settled' /\ AnswerInv' /\ CountInv'
  <2>1. Counted' = Counted /\ Unanswered' = Unanswered
    BY <1>17 DEF LockFlags, TypeOK, Counted, Unanswered, Answering
  <2>2. AnswerInv'
    BY <1>17 DEF LockFlags, TypeOK, AnswerInv, Answering
  <2>. QED
    BY <1>17, <2>1, <2>2, DebtUnmoved DEF LockFlags
<1>18. ASSUME NEW c \in Ctx, AwaitBusy(c) PROVE Settled' /\ AnswerInv' /\ CountInv'
  <2>1. Counted' = Counted /\ Unanswered' = Unanswered
    BY <1>18 DEF AwaitBusy, TypeOK, Counted, Unanswered, Answering
  <2>2. AnswerInv'
    BY <1>18 DEF AwaitBusy, TypeOK, AnswerInv, Answering
  <2>. QED
    BY <1>18, <2>1, <2>2, DebtUnmoved DEF AwaitBusy
<1>19. ASSUME NEW c \in Ctx, WaitFlags(c) PROVE Settled' /\ AnswerInv' /\ CountInv'
  <2>1. Counted' = Counted /\ Unanswered' = Unanswered
    BY <1>19 DEF WaitFlags, TypeOK, Counted, Unanswered, Answering
  <2>2. AnswerInv'
    BY <1>19 DEF WaitFlags, TypeOK, AnswerInv, Answering
  <2>. QED
    BY <1>19, <2>1, <2>2, DebtUnmoved DEF WaitFlags
<1>20. ASSUME NEW c \in Ctx, WakeFlags(c) PROVE Settled' /\ AnswerInv' /\ CountInv'
  <2>1. Counted' = Counted /\ Unanswered' = Unanswered
    BY <1>20 DEF WakeFlags, TypeOK, Counted, Unanswered, Answering
  <2>2. AnswerInv'
    BY <1>20 DEF WakeFlags, TypeOK, AnswerInv, Answering
  <2>. QED
    BY <1>20, <2>1, <2>2, DebtUnmoved DEF WakeFlags
<1>21. ASSUME NEW c \in Ctx, CheckAgain(c) PROVE Settled' /\ AnswerInv' /\ CountInv'
  <2>1. Counted' = Counted /\ Unanswered' = Unanswered
    BY <1>21 DEF CheckAgain, TypeOK, Counted, Unanswered, Answering
  <2>2. AnswerInv'
    BY <1>21 DEF CheckAgain, TypeOK, AnswerInv, Answering
  <2>. QED
    BY <1>21, <2>1, <2>2, DebtUnmoved DEF CheckAgain
<1>22. ASSUME NEW c \in Ctx, CheckDone(c) PROVE Settled' /\ AnswerInv' /\ CountInv'
  <2>1. Counted' = Counted /\ Unanswered' = Unanswered
    BY <1>22 DEF CheckDone, AfterCall, TypeOK, Counted, Unanswered, Answering
  <2>2. AnswerInv'
    BY <1>22 DEF CheckDone, AfterCall, TypeOK, AnswerInv, Answering
  <2>. QED
    BY <1>22, <2>1, <2>2, DebtUnmoved DEF CheckDone
<1>23. ASSUME NEW c \in Ctx, JoinWithoutContext(c) PROVE Settled' /\ AnswerInv' /\ CountInv'
  <2>1. Counted' = Counted /\ Unanswered' = Unanswered
    BY <1>23 DEF JoinWithoutContext, TypeOK, Counted, Unanswered, Answering
  <2>2. AnswerInv'
    BY <1>23 DEF JoinWithoutContext, TypeOK, AnswerInv, Answering
  <2>. QED
    BY <1>23, <2>1, <2>2, DebtUnmoved DEF JoinWithoutContext
<1>24. ASSUME NEW c \in Ctx, JoinThread(c) PROVE Settled' /\ AnswerInv' /\ CountInv'
  <2>1. Counted' = Counted /\ Unanswered' = Unanswered
    BY <1>24 DEF JoinThread, TypeOK, Counted, Unanswered, Answering
  <2>2. AnswerInv'
    BY <1>24 DEF JoinThread, TypeOK, AnswerInv, Answering
  <2>. QED
    BY <1>24, <2>1, <2>2, DebtUnmoved DEF JoinThread
<1>25. ASSUME NEW c \in Ctx, CreateContext(c) PROVE Settled' /\ AnswerInv' /\ CountInv'
  <2>1. ~InCycle /\ flags \in {0, GC_FLAG_DEAD}
    BY <1>25 DEF CreateContext, Late, SentInv
  <2>2. AnswerInv'
    BY <1>25 DEF CreateContext, TypeOK, AnswerInv, Answering
  <2>3. ASSUME ~Over PROVE Unanswered' = Unanswered
    <3>1. flags = 0
      BY <2>1, <2>3 DEF FlagsInv
    <3>. QED
      BY <1>25, <3>1 DEF CreateContext, TypeOK, AnswerInv, Counted, Unanswered, Answering
  <2>. QED
    BY <1>25, <2>1, <2>2, <2>3 DEF CreateContext, InCycle, Settled, CountInv, Asked, Over
<1>26. ASSUME NEW c \in Ctx, FreeContext(c) PROVE Settled' /\ AnswerInv' /\ CountInv'
  <2>1. Counted' = Counted /\ Unanswered' = Unanswered
    BY <1>26 DEF FreeContext, TypeOK, Counted, Unanswered, Answering
  <2>2. AnswerInv'
    BY <1>26 DEF FreeContext, TypeOK, AnswerInv, Answering
  <2>. QED
    BY <1>26, <2>1, <2>2, DebtUnmoved DEF FreeContext
<1>27. ASSUME NEW c \in Ctx, SendCollect(c) PROVE Settled' /\ AnswerInv' /\ CountInv'
  <2>1. Counted' = Counted /\ Unanswered' = Unanswered
    BY <1>27 DEF SendCollect, TypeOK, Counted, Unanswered, Answering
  <2>2. AnswerInv'
    BY <1>27 DEF SendCollect, TypeOK, AnswerInv, Answering
  <2>. QED
    BY <1>27, <2>1, <2>2, DebtUnmoved DEF SendCollect
<1>28. ASSUME NEW c \in Ctx, Join(c) PROVE Settled' /\ AnswerInv' /\ CountInv'
  <2>1. Counted' = Counted /\ Unanswered' = Unanswered
    BY <1>28 DEF Join, TypeOK, Counted, Unanswered, Answering
  <2>2. AnswerInv'
    BY <1>28 DEF Join, TypeOK, AnswerInv, Answering
  <2>. QED
    BY <1>28, <2>1, <2>2, DebtUnmoved DEF Join
<1>29. ASSUME NEW c \in Ctx, NEW r \in {"collect", "shutdown"}, RequestThenPollUntil(c, r)
      PROVE Settled' /\ AnswerInv' /\ CountInv'
  <2>1. Counted' = Counted /\ Unanswered' = Unanswered
    BY <1>29 DEF RequestThenPollUntil, TypeOK, Counted, Unanswered, Answering
  <2>2. AnswerInv'
    BY <1>29 DEF RequestThenPollUntil, TypeOK, AnswerInv, Answering
  <2>. QED
    BY <1>29, <2>1, <2>2, DebtUnmoved DEF RequestThenPollUntil
<1>30. CASE SpuriousWake
  <2>1. Counted' = Counted /\ Unanswered' = Unanswered
    BY <1>30 DEF SpuriousWake, TypeOK, Counted, Unanswered, Answering
  <2>2. AnswerInv'
    BY <1>30 DEF SpuriousWake, TypeOK, AnswerInv, Answering
  <2>. QED
    BY <1>30, <2>1, <2>2, DebtUnmoved DEF SpuriousWake
<1>31. CASE UNCHANGED vars
  <2>1. Counted' = Counted /\ Unanswered' = Unanswered
    BY <1>31 DEF TypeOK, Counted, Unanswered, Answering
  <2>2. AnswerInv'
    BY <1>31 DEF TypeOK, AnswerInv, Answering
  <2>. QED
    BY <1>31, <2>1, <2>2, DebtUnmoved
<1>. QED
  BY <1>1, <1>2, <1>3, <1>4, <1>5, <1>6, <1>7, <1>8, <1>9, <1>10, <1>11, <1>12, <1>13, <1>14, <1>15,
       <1>16, <1>17, <1>18, <1>19, <1>20, <1>21, <1>22, <1>23, <1>24, <1>25, <1>26, <1>27, <1>28,
       <1>29, <1>30, <1>31
  DEF Next, GcStep, PollStep, CallStep, ProgramStep

-----------------------------------------------------------------------------
(* Scans and wake-ups                                                      *)

LEMMA VectorsPushedValue ==
    ASSUME NEW f \in FlagValues
    PROVE  VectorsPushed(f) = IF f \in {2, 6} THEN 1 ELSE 0
BY DEF VectorsPushed, Has, FlagValues, GC_FLAG_SCAN

LEMMA QueueStep ==
    ASSUME TypeOK, FlagsInv, Settled, AnswerInv, QueueInv, SentInv, ~Late, [Next]_vars
    PROVE  QueueInv'
<1>. USE DEF TypeOK, QueueInv, Scanned, Asked, GcGoto, Goto, vars, gcVars, countVars, flagVars,
             reqVars, busyVars, ctxVars
<1>1. CASE MarkNotBusy
  BY <1>1 DEF MarkNotBusy
<1>2. CASE TakeRequest
  BY <1>2 DEF TakeRequest
<1>3. CASE MarkBusy
  BY <1>3 DEF MarkBusy, FirstTask
<1>4. CASE HandshakeLock
  BY <1>4 DEF HandshakeLock
<1>5. CASE StoreFlags
  <2>1. flags' # flags
    <3>1. round = 0 => HandshakeFlags(round) = 1
      BY HandshakeFlagsToggle
    <3>2. round # 0 => HandshakeFlags(round) # HandshakeFlags(round - 1)
      BY HandshakeFlagsToggle
    <3>. QED
      BY <1>5, <3>1, <3>2 DEF StoreFlags, FlagsInv
  <2>2. \A c \in Ctx : pc[c] # "absent" => flag[c] = flags
    BY <1>5 DEF StoreFlags, Settled, Over, Unanswered, Counted
  <2>. QED
    BY <1>5, <2>1, <2>2 DEF StoreFlags
<1>6. CASE NotifyFlags
  BY <1>6 DEF NotifyFlags
<1>7. CASE HandshakeWait
  <2>1. round = 0 => gcpc' \notin {"take", "hs_notify", "hs_wait"}
    BY <1>7 DEF HandshakeWait, EverybodyAnswered
  <2>. QED
    BY <1>7, <2>1 DEF HandshakeWait
<1>8. CASE HandshakeWake
  BY <1>8 DEF HandshakeWake
<1>9. CASE VisitRoots
  BY <1>9 DEF VisitRoots
<1>10. CASE TakeQueues
  BY <1>10 DEF TakeQueues
<1>11. CASE Sweep
  BY <1>11 DEF Sweep
<1>12. CASE StoreDead
  BY <1>12 DEF StoreDead, FlagsMxFree
<1>13. ASSUME NEW c \in Ctx, PollNew(c) PROVE QueueInv'
  BY <1>13 DEF PollNew
<1>14. ASSUME NEW c \in Ctx, PollSame(c) PROVE QueueInv'
  BY <1>14 DEF PollSame, AfterPoll
<1>15. ASSUME NEW c \in Ctx, PollWork(c) PROVE QueueInv'
  <2>1. flag[c] = flags
    BY <1>15 DEF PollWork, AnswerInv, Answering
  <2>2. Asked \/ Over
    BY <1>15 DEF PollWork, Settled, Unanswered, Counted, Answering
  <2>3. VectorsPushed(flag[c]) = IF Asked /\ round >= 1 THEN 1 ELSE 0
    <3>1. Over => flags = 8
      BY DEF FlagsInv, GC_FLAG_DEAD
    <3>2. Asked => flags = HandshakeFlags(round)
      BY DEF FlagsInv
    <3>3. round >= 1 => HandshakeFlags(round) \in {2, 6}
      BY HandshakeFlagsToggle
    <3>4. round = 0 => HandshakeFlags(round) = 1
      BY HandshakeFlagsToggle
    <3>. QED
      BY <2>1, <2>2, <3>1, <3>2, <3>3, <3>4, VectorsPushedValue DEF Over
  <2>. QED
    BY <1>15, <2>1, <2>2, <2>3 DEF PollWork, Over
<1>16. ASSUME NEW c \in Ctx, PollAck(c) PROVE QueueInv'
  BY <1>16 DEF PollAck, AfterPoll
<1>17. ASSUME NEW c \in Ctx, LockFlags(c) PROVE QueueInv'
  BY <1>17 DEF LockFlags
<1>18. ASSUME NEW c \in Ctx, AwaitBusy(c) PROVE QueueInv'
  BY <1>18 DEF AwaitBusy
<1>19. ASSUME NEW c \in Ctx, WaitFlags(c) PROVE QueueInv'
  BY <1>19 DEF WaitFlags
<1>20. ASSUME NEW c \in Ctx, WakeFlags(c) PROVE QueueInv'
  BY <1>20 DEF WakeFlags
<1>21. ASSUME NEW c \in Ctx, CheckAgain(c) PROVE QueueInv'
  BY <1>21 DEF CheckAgain
<1>22. ASSUME NEW c \in Ctx, CheckDone(c) PROVE QueueInv'
  BY <1>22 DEF CheckDone, AfterCall
<1>23. ASSUME NEW c \in Ctx, JoinWithoutContext(c) PROVE QueueInv'
  BY <1>23 DEF JoinWithoutContext
<1>24. ASSUME NEW c \in Ctx, JoinThread(c) PROVE QueueInv'
  BY <1>24 DEF JoinThread
<1>25. ASSUME NEW c \in Ctx, CreateContext(c) PROVE QueueInv'
  <2>1. ~InCycle
    BY <1>25 DEF CreateContext, Late, SentInv
  <2>. QED
    BY <1>25, <2>1 DEF CreateContext, InCycle
<1>26. ASSUME NEW c \in Ctx, FreeContext(c) PROVE QueueInv'
  BY <1>26 DEF FreeContext
<1>27. ASSUME NEW c \in Ctx, SendCollect(c) PROVE QueueInv'
  BY <1>27 DEF SendCollect
<1>28. ASSUME NEW c \in Ctx, Join(c) PROVE QueueInv'
  BY <1>28 DEF Join
<1>29. ASSUME NEW c \in Ctx, NEW r \in {"collect", "shutdown"}, RequestThenPollUntil(c, r)
      PROVE QueueInv'
  BY <1>29 DEF RequestThenPollUntil
<1>30. CASE SpuriousWake
  BY <1>30 DEF SpuriousWake
<1>31. CASE UNCHANGED vars
  BY <1>31
<1>. QED
  BY <1>1, <1>2, <1>3, <1>4, <1>5, <1>6, <1>7, <1>8, <1>9, <1>10, <1>11, <1>12, <1>13, <1>14, <1>15,
       <1>16, <1>17, <1>18, <1>19, <1>20, <1>21, <1>22, <1>23, <1>24, <1>25, <1>26, <1>27, <1>28,
       <1>29, <1>30, <1>31
  DEF Next, GcStep, PollStep, CallStep, ProgramStep

LEMMA WakeupStep ==
    ASSUME TypeOK, CallInv, AnswerInv, NoLostWakeup, [Next]_vars
    PROVE  NoLostWakeup'
<1>. USE DEF TypeOK, NoLostWakeup, CallInv, AnswerInv, Answering, GcGoto, Goto, vars, gcVars,
             countVars, flagVars, reqVars, busyVars, ctxVars
<1>1. CASE MarkNotBusy
  BY <1>1 DEF MarkNotBusy
<1>2. CASE TakeRequest
  BY <1>2 DEF TakeRequest
<1>3. CASE MarkBusy
  BY <1>3 DEF MarkBusy, FirstTask
<1>4. CASE HandshakeLock
  BY <1>4 DEF HandshakeLock
<1>5. CASE StoreFlags
  BY <1>5 DEF StoreFlags, FlagsMxFree
<1>6. CASE NotifyFlags
  BY <1>6 DEF NotifyFlags
<1>7. CASE HandshakeWait
  BY <1>7 DEF HandshakeWait, EverybodyAnswered
<1>8. CASE HandshakeWake
  BY <1>8 DEF HandshakeWake
<1>9. CASE VisitRoots
  BY <1>9 DEF VisitRoots
<1>10. CASE TakeQueues
  BY <1>10 DEF TakeQueues
<1>11. CASE Sweep
  BY <1>11 DEF Sweep
<1>12. CASE StoreDead
  BY <1>12 DEF StoreDead, FlagsMxFree
<1>13. ASSUME NEW c \in Ctx, PollNew(c) PROVE NoLostWakeup'
  BY <1>13 DEF PollNew
<1>14. ASSUME NEW c \in Ctx, PollSame(c) PROVE NoLostWakeup'
  BY <1>14 DEF PollSame, AfterPoll
<1>15. ASSUME NEW c \in Ctx, PollWork(c) PROVE NoLostWakeup'
  BY <1>15 DEF PollWork
<1>16. ASSUME NEW c \in Ctx, PollAck(c) PROVE NoLostWakeup'
  BY <1>16 DEF PollAck, AfterPoll
<1>17. ASSUME NEW c \in Ctx, LockFlags(c) PROVE NoLostWakeup'
  BY <1>17 DEF LockFlags
<1>18. ASSUME NEW c \in Ctx, AwaitBusy(c) PROVE NoLostWakeup'
  BY <1>18 DEF AwaitBusy
<1>19. ASSUME NEW c \in Ctx, WaitFlags(c) PROVE NoLostWakeup'
  BY <1>19 DEF WaitFlags
<1>20. ASSUME NEW c \in Ctx, WakeFlags(c) PROVE NoLostWakeup'
  BY <1>20 DEF WakeFlags
<1>21. ASSUME NEW c \in Ctx, CheckAgain(c) PROVE NoLostWakeup'
  BY <1>21 DEF CheckAgain
<1>22. ASSUME NEW c \in Ctx, CheckDone(c) PROVE NoLostWakeup'
  BY <1>22 DEF CheckDone, AfterCall
<1>23. ASSUME NEW c \in Ctx, JoinWithoutContext(c) PROVE NoLostWakeup'
  BY <1>23 DEF JoinWithoutContext
<1>24. ASSUME NEW c \in Ctx, JoinThread(c) PROVE NoLostWakeup'
  BY <1>24 DEF JoinThread
<1>25. ASSUME NEW c \in Ctx, CreateContext(c) PROVE NoLostWakeup'
  BY <1>25 DEF CreateContext
<1>26. ASSUME NEW c \in Ctx, FreeContext(c) PROVE NoLostWakeup'
  BY <1>26 DEF FreeContext
<1>27. ASSUME NEW c \in Ctx, SendCollect(c) PROVE NoLostWakeup'
  BY <1>27 DEF SendCollect
<1>28. ASSUME NEW c \in Ctx, Join(c) PROVE NoLostWakeup'
  BY <1>28 DEF Join
<1>29. ASSUME NEW c \in Ctx, NEW r \in {"collect", "shutdown"}, RequestThenPollUntil(c, r)
      PROVE NoLostWakeup'
  BY <1>29 DEF RequestThenPollUntil
<1>30. CASE SpuriousWake
  BY <1>30 DEF SpuriousWake
<1>31. CASE UNCHANGED vars
  BY <1>31
<1>. QED
  BY <1>1, <1>2, <1>3, <1>4, <1>5, <1>6, <1>7, <1>8, <1>9, <1>10, <1>11, <1>12, <1>13, <1>14, <1>15,
       <1>16, <1>17, <1>18, <1>19, <1>20, <1>21, <1>22, <1>23, <1>24, <1>25, <1>26, <1>27, <1>28,
       <1>29, <1>30, <1>31
  DEF Next, GcStep, PollStep, CallStep, ProgramStep

-----------------------------------------------------------------------------
(* The invariant, and what it gives                                        *)

LEMMA IInvInit == Init => IInv
<1>. SUFFICES ASSUME Init PROVE IInv
  OBVIOUS
<1>1. Counted = {} /\ Unanswered = {}
  BY DEF Init, Counted, Unanswered
<1>2. TypeOK /\ AvailExact
  BY InitTypes
<1>3. MutexInv /\ CallInv
  BY CtxAssumption DEF Init, MutexInv, CallInv, HoldsFlagsMx, Answering
<1>4. FlagsInv /\ SentInv
  BY DEF Init, FlagsInv, SentInv, Over, Asked, InCycle, GC_FLAG_DEAD
<1>5. Settled /\ AnswerInv /\ QueueInv /\ NoLostWakeup
  BY <1>1 DEF Init, Settled, AnswerInv, QueueInv, Scanned, Asked, Answering, NoLostWakeup
<1>6. CountInv
  BY <1>1, FS_EmptySet DEF Init, CountInv
<1>. QED
  BY <1>2, <1>3, <1>4, <1>5, <1>6 DEF IInv

LEMMA IInvStep == ~Late /\ IInv /\ [Next]_vars => IInv'
<1>. SUFFICES ASSUME ~Late, IInv, [Next]_vars PROVE IInv'
  OBVIOUS
<1>1. TypeOK' /\ AvailExact'
  BY TypeStep DEF IInv
<1>2. MutexInv' /\ CallInv'
  BY ControlStep DEF IInv
<1>3. Settled' /\ AnswerInv' /\ CountInv'
  BY AnswerStep DEF IInv
<1>4. FlagsInv' /\ SentInv'
  BY <1>3, FlagsStep DEF IInv, CountInv
<1>5. QueueInv'
  BY QueueStep DEF IInv
<1>6. NoLostWakeup'
  BY WakeupStep DEF IInv
<1>. QED
  BY <1>1, <1>2, <1>3, <1>4, <1>5, <1>6 DEF IInv

(* The inductive invariant holds of every behaviour in which no context is *)
(* created late.                                                           *)
THEOREM Inductive == ASSUME ~Late PROVE Spec => []IInv
<1>1. ~Late
  OBVIOUS
<1>. QED
  BY <1>1, IInvInit, IInvStep, PTL DEF Spec

(* outstanding_threads is exactly the number of contexts that owe an       *)
(* answer, so it never underflows and handshake() never panics.            *)
THEOREM CountIsExact == ASSUME ~Late PROVE Spec => [](CountExact /\ HandshakeNeverPanics)
<1>1. IInv => CountExact /\ HandshakeNeverPanics
  BY DEF IInv, CountInv, FlagsInv, CountExact, HandshakeNeverPanics
<1>. QED
  BY <1>1, Inductive, PTL

(* The opposite lock orders of handshake() and of join never deadlock.     *)
THEOREM LocksAreSafe == ASSUME ~Late PROVE Spec => []NoLockCycle
<1>1. IInv => NoLockCycle
  <2>. SUFFICES ASSUME IInv, gcpc = "hs_flags", NEW c \in Ctx, flagsMx = c
                PROVE  pc[c] \notin Answering /\ flag[c] = flags
    BY DEF NoLockCycle
  <2>1. HoldsFlagsMx(c)
    BY DEF IInv, MutexInv
  <2>2. c \in Counted
    BY <2>1 DEF HoldsFlagsMx, Counted, Answering
  <2>3. Unanswered = {}
    BY DEF IInv, Settled, Asked, Over
  <2>. QED
    BY <2>2, <2>3 DEF Unanswered
<1>. QED
  BY <1>1, Inductive, PTL

(* Every scan is there when the collector takes the queue, once.           *)
THEOREM ScansAreComplete == ASSUME ~Late PROVE Spec => []ScansComplete
<1>1. IInv => ScansComplete
  <2>. SUFFICES ASSUME IInv, gcpc = "take", NEW c \in Counted PROVE queued[c] = 1
    BY DEF ScansComplete
  <2>1. flag[c] = flags /\ pc[c] \notin Answering
    BY DEF IInv, Settled, Asked, Over, Unanswered
  <2>2. Scanned(c) /\ c \in Ctx
    BY <2>1 DEF IInv, FlagsInv, Scanned, Counted, Answering
  <2>. QED
    BY <2>2 DEF IInv, QueueInv
<1>. QED
  BY <1>1, Inductive, PTL

(* No wake-up on gc_flags_cv is lost.                                      *)
THEOREM WakeupsAreKept == ASSUME ~Late PROVE Spec => []NoLostWakeup
<1>1. IInv => NoLostWakeup
  BY DEF IInv
<1>. QED
  BY <1>1, Inductive, PTL

LEMMA FlagsMove ==
    ASSUME TypeOK, [Next]_vars, flags' # flags
    PROVE  StoreFlags \/ StoreDead
<1>. USE DEF GcGoto, Goto, vars, gcVars, countVars, flagVars, reqVars, busyVars, ctxVars
<1>. QED
  BY DEF Next, GcStep, PollStep, CallStep, ProgramStep, MarkNotBusy, TakeRequest, MarkBusy,
     HandshakeLock, NotifyFlags, HandshakeWait, HandshakeWake, VisitRoots, TakeQueues, Sweep,
     PollNew, PollSame, PollWork, PollAck, LockFlags, AwaitBusy, WaitFlags, WakeFlags, CheckAgain,
     CheckDone, JoinWithoutContext, JoinThread, CreateContext, FreeContext, SendCollect, Join,
     RequestThenPollUntil, SpuriousWake

(* The flags are never written over the head of a context at work.         *)
THEOREM FlagsSettle == ASSUME ~Late PROVE Spec => SettledBeforeNext
<1>1. IInv /\ [Next]_vars => [flags' # flags => Unanswered = {}]_vars
  <2>. SUFFICES ASSUME IInv, [Next]_vars, flags' # flags PROVE Unanswered = {}
    OBVIOUS
  <2>1. gcpc \in {"hs_flags", "x_flags"}
    BY FlagsMove DEF IInv, StoreFlags, StoreDead, GcGoto
  <2>. QED
    BY <2>1 DEF IInv, Settled, Asked, Over
<1>. QED
  BY <1>1, Inductive, PTL DEF Spec, SettledBeforeNext

-----------------------------------------------------------------------------
(* The handshake implements the rendezvous                                 *)

(* Only these steps move the question or anybody's debt.                   *)
LEMMA DebtSteps ==
    ASSUME TypeOK, AnswerInv, [Next]_vars, ~StoreFlags, ~StoreDead, ~HandshakeWait,
           \A c \in Ctx : ~PollAck(c) /\ ~CreateContext(c)
    PROVE  Asked' = Asked /\ Unanswered' = Unanswered
<1>. USE DEF TypeOK, AnswerInv, Asked, Counted, Unanswered, Answering, GcGoto, Goto, vars, gcVars,
             countVars, flagVars, reqVars, busyVars, ctxVars
<1>1. CASE MarkNotBusy
  BY <1>1 DEF MarkNotBusy
<1>2. CASE TakeRequest
  BY <1>2 DEF TakeRequest
<1>3. CASE MarkBusy
  BY <1>3 DEF MarkBusy, FirstTask
<1>4. CASE HandshakeLock
  BY <1>4 DEF HandshakeLock
<1>5. CASE StoreFlags
  BY <1>5
<1>6. CASE NotifyFlags
  BY <1>6 DEF NotifyFlags
<1>7. CASE HandshakeWait
  BY <1>7
<1>8. CASE HandshakeWake
  BY <1>8 DEF HandshakeWake
<1>9. CASE VisitRoots
  BY <1>9 DEF VisitRoots
<1>10. CASE TakeQueues
  BY <1>10 DEF TakeQueues
<1>11. CASE Sweep
  BY <1>11 DEF Sweep
<1>12. CASE StoreDead
  BY <1>12
<1>13. ASSUME NEW c \in Ctx, PollNew(c) PROVE Asked' = Asked /\ Unanswered' = Unanswered
  BY <1>13 DEF PollNew
<1>14. ASSUME NEW c \in Ctx, PollSame(c) PROVE Asked' = Asked /\ Unanswered' = Unanswered
  BY <1>14 DEF PollSame, AfterPoll
<1>15. ASSUME NEW c \in Ctx, PollWork(c) PROVE Asked' = Asked /\ Unanswered' = Unanswered
  BY <1>15 DEF PollWork
<1>16. ASSUME NEW c \in Ctx, PollAck(c) PROVE Asked' = Asked /\ Unanswered' = Unanswered
  BY <1>16
<1>17. ASSUME NEW c \in Ctx, LockFlags(c) PROVE Asked' = Asked /\ Unanswered' = Unanswered
  BY <1>17 DEF LockFlags
<1>18. ASSUME NEW c \in Ctx, AwaitBusy(c) PROVE Asked' = Asked /\ Unanswered' = Unanswered
  BY <1>18 DEF AwaitBusy
<1>19. ASSUME NEW c \in Ctx, WaitFlags(c) PROVE Asked' = Asked /\ Unanswered' = Unanswered
  BY <1>19 DEF WaitFlags
<1>20. ASSUME NEW c \in Ctx, WakeFlags(c) PROVE Asked' = Asked /\ Unanswered' = Unanswered
  BY <1>20 DEF WakeFlags
<1>21. ASSUME NEW c \in Ctx, CheckAgain(c) PROVE Asked' = Asked /\ Unanswered' = Unanswered
  BY <1>21 DEF CheckAgain
<1>22. ASSUME NEW c \in Ctx, CheckDone(c) PROVE Asked' = Asked /\ Unanswered' = Unanswered
  BY <1>22 DEF CheckDone, AfterCall
<1>23. ASSUME NEW c \in Ctx, JoinWithoutContext(c) PROVE Asked' = Asked /\ Unanswered' = Unanswered
  BY <1>23 DEF JoinWithoutContext
<1>24. ASSUME NEW c \in Ctx, JoinThread(c) PROVE Asked' = Asked /\ Unanswered' = Unanswered
  BY <1>24 DEF JoinThread
<1>25. ASSUME NEW c \in Ctx, CreateContext(c) PROVE Asked' = Asked /\ Unanswered' = Unanswered
  BY <1>25
<1>26. ASSUME NEW c \in Ctx, FreeContext(c) PROVE Asked' = Asked /\ Unanswered' = Unanswered
  BY <1>26 DEF FreeContext
<1>27. ASSUME NEW c \in Ctx, SendCollect(c) PROVE Asked' = Asked /\ Unanswered' = Unanswered
  BY <1>27 DEF SendCollect
<1>28. ASSUME NEW c \in Ctx, Join(c) PROVE Asked' = Asked /\ Unanswered' = Unanswered
  BY <1>28 DEF Join
<1>29. ASSUME NEW c \in Ctx, NEW r \in {"collect", "shutdown"}, RequestThenPollUntil(c, r)
      PROVE Asked' = Asked /\ Unanswered' = Unanswered
  BY <1>29 DEF RequestThenPollUntil
<1>30. CASE SpuriousWake
  BY <1>30 DEF SpuriousWake
<1>31. CASE UNCHANGED vars
  BY <1>31
<1>. QED
  BY <1>1, <1>2, <1>3, <1>4, <1>5, <1>6, <1>7, <1>8, <1>9, <1>10, <1>11, <1>12, <1>13, <1>14, <1>15,
       <1>16, <1>17, <1>18, <1>19, <1>20, <1>21, <1>22, <1>23, <1>24, <1>25, <1>26, <1>27, <1>28,
       <1>29, <1>30, <1>31
  DEF Next, GcStep, PollStep, CallStep, ProgramStep

(* Every step opens the question to all the contexts, answers it for one   *)
(* of them, closes it, or leaves it alone.                                 *)
LEMMA RendezvousStep ==
    ASSUME IInv, IInv', ~Late, [Next]_vars
    PROVE  [RV!RvNext]_(RV!rvVars)
<1>. USE DEF RV!RvNext, RV!rvVars
<1>0. Asked \in BOOLEAN /\ Asked' \in BOOLEAN
  BY DEF Asked
<1>1. CASE StoreFlags
  <2>1. ~Asked /\ Asked'
    BY <1>1 DEF StoreFlags, GcGoto, Asked
  <2>2. Unanswered' \in SUBSET Ctx
    BY DEF Unanswered, Counted
  <2>. QED
    BY <2>1, <2>2 DEF RV!Ask
<1>2. CASE StoreDead
  <2>1. ~Asked /\ ~Asked'
    BY <1>2 DEF StoreDead, GcGoto, Asked
  <2>. QED
    BY <1>0, <2>1
<1>3. CASE HandshakeWait
  <2>1. Asked /\ Unanswered' = Unanswered
    BY <1>3 DEF HandshakeWait, Asked, Unanswered, Counted, flagVars, ctxVars
  <2>2. CASE EverybodyAnswered
    <3>1. Unanswered = {}
      BY <1>3, <2>1, <2>2, CountFacts DEF IInv, CountInv, HandshakeWait, EverybodyAnswered, Over
    <3>2. ~Asked'
      BY <1>3, <2>2 DEF HandshakeWait, Asked
    <3>. QED
      BY <1>0, <2>1, <3>1, <3>2 DEF RV!Proceed
  <2>3. CASE ~EverybodyAnswered
    <3>1. Asked'
      BY <1>3, <2>3 DEF HandshakeWait, Asked
    <3>. QED
      BY <2>1, <3>1
  <2>. QED
    BY <2>2, <2>3
<1>4. ASSUME NEW c \in Ctx, PollAck(c) PROVE [RV!RvNext]_(RV!rvVars)
  <2>1. Asked' = Asked
    BY <1>4 DEF PollAck, Asked, gcVars
  <2>2. c \in Unanswered /\ Unanswered' = Unanswered \ {c}
    BY <1>4 DEF PollAck, AfterPoll, Goto, IInv, TypeOK, AnswerInv, Counted, Unanswered, Answering,
                flagVars, reqVars, busyVars
  <2>3. CASE Asked
    BY <2>1, <2>2, <2>3 DEF RV!Answer
  <2>4. CASE ~Asked
    BY <2>1, <2>4
  <2>. QED
    BY <2>3, <2>4
<1>5. ASSUME NEW c \in Ctx, CreateContext(c) PROVE [RV!RvNext]_(RV!rvVars)
  <2>1. ~Asked
    BY <1>5 DEF CreateContext, Late, IInv, SentInv, InCycle, Asked
  <2>2. ~Asked'
    BY <1>5, <2>1 DEF CreateContext, Asked, gcVars
  <2>. QED
    BY <1>0, <2>1, <2>2
<1>6. CASE /\ ~StoreFlags /\ ~StoreDead /\ ~HandshakeWait
           /\ \A c \in Ctx : ~PollAck(c) /\ ~CreateContext(c)
  <2>1. Asked' = Asked /\ Unanswered' = Unanswered
    BY <1>6, DebtSteps DEF IInv
  <2>. QED
    BY <2>1
<1>. QED
  BY <1>1, <1>2, <1>3, <1>4, <1>5, <1>6

(* The handshake implements the safety of the abstract rendezvous.         *)
THEOREM ImplementsRendezvous == ASSUME ~Late PROVE Spec => RvSafety
<1>1. Init => RV!RvInit
  BY DEF Init, RV!RvInit, Asked
<1>2. IInv /\ IInv' /\ [Next]_vars => [RV!RvNext]_(RV!rvVars)
  BY RendezvousStep
<1>. QED
  BY <1>1, <1>2, Inductive, PTL DEF Spec, RvSafety, RV!RvSafety
=============================================================================
