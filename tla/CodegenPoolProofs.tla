-------------------------- MODULE CodegenPoolProofs --------------------------
(***************************************************************************)
(* For any number of functions, threads and outputs, and whatever fails:   *)
(* the coordinator joins every thread that was started, and codegen()      *)
(* returns Ok only when nothing was lost.  Both rest on who still holds    *)
(* senders: a channel closes only when nobody is left to send on it.       *)
(***************************************************************************)
EXTENDS CodegenPool, TLAPS

Dealing == thread[First] \in {"absent", "dealing", "pushing"}
Owning(t) == \/ thread[t] \in {"compiling", "ending"}
             \/ (t = First /\ Dealing)

(* The types this argument needs.                                          *)
Types == /\ main \in {"spawn", "push", "globals", "prelude", "writers", "join_writers", "take",
                      "join"}
         /\ result \in {"none", "ok", "err", "panic"}
         /\ handles \subseteq Thread /\ toJoin \subseteq Thread
         /\ thread \in [Thread -> {"absent", "dealing", "pushing", "compiling", "ending", "done",
                                   "panicked"}]
         /\ share \in Thread
         /\ todo \in [Thread -> SUBSET Fun] /\ buffer \in [Thread -> Seq(Fun)]
         /\ senders \in [Out -> SUBSET (Thread \cup {Coordinator})]
         /\ queue \in [Out -> Seq(Seq(Fun))] /\ written \in [Out -> Seq(Fun)]
         /\ writer \in [Out -> {"absent", "writing", "done", "failed"}]

(* Only the first thread deals, and it does so until the last share.       *)
Dealt == /\ \A t \in Thread \ {First} : thread[t] \notin {"dealing", "pushing"}
         /\ \A t \in Thread \ {First} : thread[t] = "absent" <=>
               t > share \/ (t = share /\ thread[First] # "pushing")
         /\ ~Dealing => share = ThreadCount
         /\ main = "spawn" <=> thread[First] = "absent"
         /\ thread[First] = "absent" => share = 1
         /\ thread[First] = "pushing" => share < ThreadCount

(* A thread that may still send holds a sender of its channel; the first   *)
(* one, while it deals, holds one of each.                                 *)
Senders == /\ \A t \in Thread : Owning(t) => t \in senders[Channel(t)]
           /\ Dealing => \A w \in Out : First \in senders[w]

(* A writer that is done has emptied its channel, and nobody can send.     *)
WritersDone == \A w \in Out : writer[w] = "done" => queue[w] = <<>> /\ senders[w] = {}

(* The handles of all threads started so far are in join_handles, until    *)
(* they are taken, which is late enough.                                   *)
Before == {"spawn", "push", "globals", "prelude", "writers", "join_writers", "take"}
HandlesIn == main \in Before =>
                handles = {t \in Thread : IF t = First THEN main \notin {"spawn", "push"}
                                          ELSE t < share}
AfterWriters == main \in {"take", "join"} => \A w \in Out : writer[w] = "done"

(* At the joins: who is not waited for any more is done.                   *)
Joined == /\ main = "join" => \A t \in Thread \ toJoin : thread[t] = "done"
          /\ result = "ok" => main = "join" /\ toJoin = {}
          /\ \A t \in Thread : thread[t] \in {"ending", "done"} => todo[t] = {} /\ buffer[t] = <<>>

(* The text of a function is somewhere, as long as no writer gave up.      *)
Somewhere(f) == \/ \E t \in Thread : f \in todo[t] \cup Text(buffer[t])
                \/ \E w \in Out : \E b \in Text(queue[w]) : f \in Text(b)
                \/ \E w \in Out : f \in Text(written[w])
Accounted == (\A w \in Out : writer[w] # "failed") => \A f \in Fun : Somewhere(f)

IInv == /\ Types /\ Dealt /\ Senders /\ WritersDone /\ HandlesIn /\ AfterWriters /\ Joined
        /\ Accounted

-----------------------------------------------------------------------------
(* Small facts                                                             *)

(* Channels and owners are what they index.                                *)
LEMMA Indices == /\ \A t \in Thread : Channel(t) \in Out
                 /\ \A f \in Fun : Owner(f) \in Thread
                 /\ First \in Thread /\ Coordinator \notin Thread /\ 0 \in Out
<1>1. \A n \in Nat : n % NOut \in 0 .. NOut - 1 /\ n % ThreadCount \in 0 .. ThreadCount - 1
  BY PoolAssumption
<1>. QED BY <1>1, PoolAssumption DEF Channel, Owner, Thread, Out, Fun, First, Coordinator

(* The text of an extended or shortened buffer, and of two in a row.       *)
LEMMA TextFacts ==
  ASSUME NEW S
  PROVE  /\ Text(<<>>) = {}
         /\ \A s \in Seq(S) : \A x \in S : /\ Append(s, x) \in Seq(S)
                                         /\ Text(Append(s, x)) = Text(s) \cup {x}
         /\ \A s \in Seq(S) : s # <<>> => /\ Tail(s) \in Seq(S) /\ Head(s) \in S
                                          /\ Text(s) = {Head(s)} \cup Text(Tail(s))
         /\ \A s, u \in Seq(S) : s \o u \in Seq(S) /\ Text(s \o u) = Text(s) \cup Text(u)
<1>1. Text(<<>>) = {}
  BY DEF Text
<1>2. ASSUME NEW s \in Seq(S), NEW x \in S
      PROVE  Append(s, x) \in Seq(S) /\ Text(Append(s, x)) = Text(s) \cup {x}
  <2>1. Append(s, x) \in Seq(S) /\ DOMAIN Append(s, x) = DOMAIN s \cup {Len(s) + 1}
    OBVIOUS
  <2>2. \A i \in DOMAIN s : Append(s, x)[i] = s[i]
    OBVIOUS
  <2>3. Append(s, x)[Len(s) + 1] = x
    OBVIOUS
  <2>. QED BY <2>1, <2>2, <2>3 DEF Text
<1>3. ASSUME NEW s \in Seq(S), s # <<>>
      PROVE  Tail(s) \in Seq(S) /\ Head(s) \in S /\ Text(s) = {Head(s)} \cup Text(Tail(s))
  <2>1. /\ Tail(s) \in Seq(S) /\ Head(s) = s[1] /\ s[1] \in S
        /\ DOMAIN s = 1 .. Len(s) /\ Len(s) \in Nat \ {0}
        /\ DOMAIN Tail(s) = 1 .. Len(s) - 1
        /\ \A i \in 1 .. Len(s) - 1 : Tail(s)[i] = s[i + 1]
    BY <1>3
  <2>2. Text(s) \subseteq {Head(s)} \cup Text(Tail(s))
    <3>1. ASSUME NEW i \in 1 .. Len(s), i # 1 PROVE s[i] \in Text(Tail(s))
      <4>1. i - 1 \in 1 .. Len(s) - 1 /\ (i - 1) + 1 = i
        BY <2>1, <3>1
      <4>2. Tail(s)[i - 1] = s[i]
        BY <2>1, <4>1
      <4>. QED BY <2>1, <4>1, <4>2 DEF Text
    <3>. QED BY <2>1, <3>1 DEF Text
  <2>3. Text(Tail(s)) \subseteq Text(s)
    BY <2>1 DEF Text
  <2>4. Head(s) \in Text(s)
    BY <2>1 DEF Text
  <2>. QED BY <2>1, <2>2, <2>3, <2>4
<1>4. ASSUME NEW s \in Seq(S), NEW u \in Seq(S)
      PROVE  s \o u \in Seq(S) /\ Text(s \o u) = Text(s) \cup Text(u)
  <2>1. /\ s \o u \in Seq(S) /\ DOMAIN (s \o u) = 1 .. Len(s) + Len(u)
        /\ DOMAIN s = 1 .. Len(s) /\ DOMAIN u = 1 .. Len(u) /\ Len(s) \in Nat /\ Len(u) \in Nat
    OBVIOUS
  <2>2. \A i \in 1 .. Len(s) : (s \o u)[i] = s[i]
    OBVIOUS
  <2>3. ASSUME NEW i \in 1 .. Len(u) PROVE (s \o u)[Len(s) + i] = u[i]
    OBVIOUS
  <2>4. Text(s) \subseteq Text(s \o u)
    BY <2>1, <2>2 DEF Text
  <2>5. Text(u) \subseteq Text(s \o u)
    <3>1. ASSUME NEW i \in 1 .. Len(u) PROVE u[i] \in Text(s \o u)
      <4>1. Len(s) + i \in 1 .. Len(s) + Len(u)
        BY <2>1
      <4>. QED BY <2>1, <2>3, <4>1 DEF Text
    <3>. QED BY <2>1, <3>1 DEF Text
  <2>6. ASSUME NEW i \in 1 .. Len(s) + Len(u) PROVE (s \o u)[i] \in Text(s) \cup Text(u)
    <3>1. CASE i \in 1 .. Len(s)
      BY <2>1, <2>2, <3>1 DEF Text
    <3>2. CASE i \notin 1 .. Len(s)
      <4>1. i - Len(s) \in 1 .. Len(u) /\ Len(s) + (i - Len(s)) = i
        BY <2>1, <3>2
      <4>2. (s \o u)[i] = u[i - Len(s)]
        BY <2>3, <4>1
      <4>. QED BY <2>1, <4>1, <4>2 DEF Text
    <3>. QED BY <3>1, <3>2
  <2>. QED BY <2>1, <2>4, <2>5, <2>6 DEF Text
<1>. QED BY <1>1, <1>2, <1>3, <1>4

(* The same for the two kinds of sequences there are here.                 *)
LEMMA BufferFacts ==
  /\ Text(<<>>) = {}
  /\ \A s \in Seq(Fun) : \A x \in Fun : /\ Append(s, x) \in Seq(Fun)
                                      /\ Text(Append(s, x)) = Text(s) \cup {x}
  /\ \A s, u \in Seq(Fun) : s \o u \in Seq(Fun) /\ Text(s \o u) = Text(s) \cup Text(u)
BY TextFacts

LEMMA QueueFacts ==
  /\ \A s \in Seq(Seq(Fun)) : \A x \in Seq(Fun) : /\ Append(s, x) \in Seq(Seq(Fun))
                                              /\ Text(Append(s, x)) = Text(s) \cup {x}
  /\ \A s \in Seq(Seq(Fun)) : s # <<>> => /\ Tail(s) \in Seq(Seq(Fun)) /\ Head(s) \in Seq(Fun)
                                          /\ Text(s) = {Head(s)} \cup Text(Tail(s))
<1>. DEFINE S == Seq(Fun)
<1>. HIDE DEF S
<1>1. /\ \A s \in Seq(S) : \A x \in S : /\ Append(s, x) \in Seq(S)
                                      /\ Text(Append(s, x)) = Text(s) \cup {x}
      /\ \A s \in Seq(S) : s # <<>> => /\ Tail(s) \in Seq(S) /\ Head(s) \in S
                                       /\ Text(s) = {Head(s)} \cup Text(Tail(s))
  BY TextFacts
<1>. QED BY <1>1 DEF S

(* When the handles are taken, they are those of all threads: the writers  *)
(* are done, so nobody holds a sender, so the first thread has dealt.      *)
LEMMA AllPushed == ASSUME IInv, main = "take" PROVE handles = Thread
<1>. USE Indices, PoolAssumption
<1>1. senders[0] = {}
  BY DEF IInv, AfterWriters, WritersDone
<1>2. ~Dealing
  BY <1>1 DEF IInv, Senders
<1>3. share = ThreadCount
  BY <1>2 DEF IInv, Dealt
<1>4. handles = {t \in Thread : IF t = First THEN TRUE ELSE t < share}
  BY DEF IInv, HandlesIn, Before
<1>5. \A t \in Thread : t # First => t < share
  BY <1>3 DEF Thread, First
<1>. QED BY <1>4, <1>5

-----------------------------------------------------------------------------
(* One lemma per action                                                    *)

(* SpawnFirst keeps the invariant. *)
LEMMA SpawnFirstInv == ASSUME IInv, SpawnFirst PROVE IInv'
<1>. USE Indices, PoolAssumption DEF SpawnFirst, Running, Main, mainVars, threadVars, outVars
<1>1. Types'
  BY DEF IInv, Types
<1>2. Dealt'
  BY DEF IInv, Dealt, Types, Dealing
<1>3. Senders'
  BY DEF IInv, Senders, Types, Owning, Dealing, Dealt
<1>4. WritersDone'
  BY DEF IInv, WritersDone, Types, Senders, Dealing, Owning
<1>5. HandlesIn'
  BY DEF IInv, HandlesIn, Types, Dealt, Dealing, Before
<1>6. AfterWriters'
  BY DEF IInv, AfterWriters, Types
<1>7. Joined'
  BY DEF IInv, Joined, Types
<1>8. Accounted'
  BY DEF IInv, Accounted, Types, Somewhere
<1>. QED BY <1>1, <1>2, <1>3, <1>4, <1>5, <1>6, <1>7, <1>8 DEF IInv

(* PushFirst keeps the invariant. *)
LEMMA PushFirstInv == ASSUME IInv, PushFirst PROVE IInv'
<1>. USE Indices, PoolAssumption DEF PushFirst, Running, Main, mainVars, threadVars, outVars
<1>1. Types'
  BY DEF IInv, Types
<1>2. Dealt'
  BY DEF IInv, Dealt, Types, Dealing
<1>3. Senders'
  BY DEF IInv, Senders, Types, Owning, Dealing, Dealt
<1>4. WritersDone'
  BY DEF IInv, WritersDone, Types, Senders, Dealing, Owning
<1>5. HandlesIn'
  BY DEF IInv, HandlesIn, Types, Dealt, Dealing, Before
<1>6. AfterWriters'
  BY DEF IInv, AfterWriters, Types
<1>7. Joined'
  BY DEF IInv, Joined, Types
<1>8. Accounted'
  BY DEF IInv, Accounted, Types, Somewhere
<1>. QED BY <1>1, <1>2, <1>3, <1>4, <1>5, <1>6, <1>7, <1>8 DEF IInv

(* CompileGlobals keeps the invariant. *)
LEMMA CompileGlobalsInv == ASSUME IInv, CompileGlobals PROVE IInv'
<1>. USE Indices, PoolAssumption DEF CompileGlobals, Running, Main, AfterGlobals, SendersWithout, mainVars, threadVars, outVars
<1>1. Types'
  BY DEF IInv, Types
<1>2. Dealt'
  BY DEF IInv, Dealt, Types, Dealing
<1>3. Senders'
  BY DEF IInv, Senders, Types, Owning, Dealing, Dealt
<1>4. WritersDone'
  BY DEF IInv, WritersDone, Types, Senders, Dealing, Owning
<1>5. HandlesIn'
  BY DEF IInv, HandlesIn, Types, Dealt, Dealing, Before
<1>6. AfterWriters'
  BY DEF IInv, AfterWriters, Types
<1>7. Joined'
  BY DEF IInv, Joined, Types
<1>8. Accounted'
  BY DEF IInv, Accounted, Types, Somewhere
<1>. QED BY <1>1, <1>2, <1>3, <1>4, <1>5, <1>6, <1>7, <1>8 DEF IInv

(* GlobalsIce keeps the invariant. *)
LEMMA GlobalsIceInv == ASSUME IInv, GlobalsIce PROVE IInv'
<1>. USE Indices, PoolAssumption DEF GlobalsIce, Running, Exit, mainVars, threadVars, outVars
<1>1. Types'
  BY DEF IInv, Types
<1>2. Dealt'
  BY DEF IInv, Dealt, Types, Dealing
<1>3. Senders'
  BY DEF IInv, Senders, Types, Owning, Dealing, Dealt
<1>4. WritersDone'
  BY DEF IInv, WritersDone, Types, Senders, Dealing, Owning
<1>5. HandlesIn'
  BY DEF IInv, HandlesIn, Types, Dealt, Dealing, Before
<1>6. AfterWriters'
  BY DEF IInv, AfterWriters, Types
<1>7. Joined'
  BY DEF IInv, Joined, Types
<1>8. Accounted'
  BY DEF IInv, Accounted, Types, Somewhere
<1>. QED BY <1>1, <1>2, <1>3, <1>4, <1>5, <1>6, <1>7, <1>8 DEF IInv

(* WritePrelude keeps the invariant. *)
LEMMA WritePreludeInv == ASSUME IInv, WritePrelude PROVE IInv'
<1>. USE Indices, PoolAssumption DEF WritePrelude, Running, Main, mainVars, threadVars, outVars
<1>1. Types'
  BY DEF IInv, Types
<1>2. Dealt'
  BY DEF IInv, Dealt, Types, Dealing
<1>3. Senders'
  BY DEF IInv, Senders, Types, Owning, Dealing, Dealt
<1>4. WritersDone'
  BY DEF IInv, WritersDone, Types, Senders, Dealing, Owning
<1>5. HandlesIn'
  BY DEF IInv, HandlesIn, Types, Dealt, Dealing, Before
<1>6. AfterWriters'
  BY DEF IInv, AfterWriters, Types
<1>7. Joined'
  BY DEF IInv, Joined, Types
<1>8. Accounted'
  BY DEF IInv, Accounted, Types, Somewhere
<1>. QED BY <1>1, <1>2, <1>3, <1>4, <1>5, <1>6, <1>7, <1>8 DEF IInv

(* PreludeError keeps the invariant. *)
LEMMA PreludeErrorInv == ASSUME IInv, PreludeError PROVE IInv'
<1>. USE Indices, PoolAssumption DEF PreludeError, Running, Exit, mainVars, threadVars, outVars
<1>1. Types'
  BY DEF IInv, Types
<1>2. Dealt'
  BY DEF IInv, Dealt, Types, Dealing
<1>3. Senders'
  BY DEF IInv, Senders, Types, Owning, Dealing, Dealt
<1>4. WritersDone'
  BY DEF IInv, WritersDone, Types, Senders, Dealing, Owning
<1>5. HandlesIn'
  BY DEF IInv, HandlesIn, Types, Dealt, Dealing, Before
<1>6. AfterWriters'
  BY DEF IInv, AfterWriters, Types
<1>7. Joined'
  BY DEF IInv, Joined, Types
<1>8. Accounted'
  BY DEF IInv, Accounted, Types, Somewhere
<1>. QED BY <1>1, <1>2, <1>3, <1>4, <1>5, <1>6, <1>7, <1>8 DEF IInv

(* StartWriter keeps the invariant. *)
LEMMA StartWriterInv == ASSUME IInv, StartWriter PROVE IInv'
<1>. USE Indices, PoolAssumption DEF StartWriter, Running, mainVars, threadVars, outVars
<1>1. Types'
  BY DEF IInv, Types
<1>2. Dealt'
  BY DEF IInv, Dealt, Types, Dealing
<1>3. Senders'
  BY DEF IInv, Senders, Types, Owning, Dealing, Dealt
<1>4. WritersDone'
  BY DEF IInv, WritersDone, Types, Senders, Dealing, Owning
<1>5. HandlesIn'
  BY DEF IInv, HandlesIn, Types, Dealt, Dealing, Before
<1>6. AfterWriters'
  BY DEF IInv, AfterWriters, Types
<1>7. Joined'
  BY DEF IInv, Joined, Types
<1>8. Accounted'
  <2>1. (\A w \in Out : writer'[w] # "failed") => \A w \in Out : writer[w] # "failed"
    <3>0. PICK v \in Out : /\ \A u \in Out : writer[u] = "absent" <=> u >= v
                           /\ writer' = [writer EXCEPT ![v] = "writing"]
      OBVIOUS
    <3>1. writer[v] = "absent" /\ writer' = [writer EXCEPT ![v] = "writing"]
      <4>1. v >= v
        BY DEF Out
      <4>. QED BY <3>0, <4>1
    <3>2. \A w \in Out : writer'[w] # "failed" => writer[w] # "failed"
      BY <3>1 DEF IInv, Types
    <3>. QED BY <3>2
  <2>. QED BY <2>1 DEF IInv, Accounted, Somewhere
<1>. QED BY <1>1, <1>2, <1>3, <1>4, <1>5, <1>6, <1>7, <1>8 DEF IInv

(* JoinWriters keeps the invariant. *)
LEMMA JoinWritersInv == ASSUME IInv, JoinWriters PROVE IInv'
<1>. USE Indices, PoolAssumption DEF JoinWriters, Running, Main, mainVars, threadVars, outVars
<1>1. Types'
  BY DEF IInv, Types
<1>2. Dealt'
  BY DEF IInv, Dealt, Types, Dealing
<1>3. Senders'
  BY DEF IInv, Senders, Types, Owning, Dealing, Dealt
<1>4. WritersDone'
  BY DEF IInv, WritersDone, Types, Senders, Dealing, Owning
<1>5. HandlesIn'
  BY DEF IInv, HandlesIn, Types, Dealt, Dealing, Before
<1>6. AfterWriters'
  BY DEF IInv, AfterWriters, Types
<1>7. Joined'
  BY DEF IInv, Joined, Types
<1>8. Accounted'
  BY DEF IInv, Accounted, Types, Somewhere
<1>. QED BY <1>1, <1>2, <1>3, <1>4, <1>5, <1>6, <1>7, <1>8 DEF IInv

(* WriterFailed keeps the invariant. *)
LEMMA WriterFailedInv == ASSUME IInv, WriterFailed PROVE IInv'
<1>. USE Indices, PoolAssumption DEF WriterFailed, Running, Exit, mainVars, threadVars, outVars
<1>1. Types'
  BY DEF IInv, Types
<1>2. Dealt'
  BY DEF IInv, Dealt, Types, Dealing
<1>3. Senders'
  BY DEF IInv, Senders, Types, Owning, Dealing, Dealt
<1>4. WritersDone'
  BY DEF IInv, WritersDone, Types, Senders, Dealing, Owning
<1>5. HandlesIn'
  BY DEF IInv, HandlesIn, Types, Dealt, Dealing, Before
<1>6. AfterWriters'
  BY DEF IInv, AfterWriters, Types
<1>7. Joined'
  BY DEF IInv, Joined, Types
<1>8. Accounted'
  BY DEF IInv, Accounted, Types, Somewhere
<1>. QED BY <1>1, <1>2, <1>3, <1>4, <1>5, <1>6, <1>7, <1>8 DEF IInv

(* TakeHandles keeps the invariant. *)
LEMMA TakeHandlesInv == ASSUME IInv, TakeHandles PROVE IInv'
<1>. USE Indices, PoolAssumption DEF TakeHandles, Running, Main, mainVars, threadVars, outVars
<1>1. Types'
  BY DEF IInv, Types
<1>2. Dealt'
  BY DEF IInv, Dealt, Types, Dealing
<1>3. Senders'
  BY DEF IInv, Senders, Types, Owning, Dealing, Dealt
<1>4. WritersDone'
  BY DEF IInv, WritersDone, Types, Senders, Dealing, Owning
<1>5. HandlesIn'
  BY DEF IInv, HandlesIn, Types, Dealt, Dealing, Before
<1>6. AfterWriters'
  BY DEF IInv, AfterWriters, Types
<1>7. Joined'
  <2>1. toJoin' = Thread
    BY AllPushed
  <2>. QED BY <2>1 DEF IInv, Joined
<1>8. Accounted'
  BY DEF IInv, Accounted, Types, Somewhere
<1>. QED BY <1>1, <1>2, <1>3, <1>4, <1>5, <1>6, <1>7, <1>8 DEF IInv

(* JoinWorker keeps the invariant. *)
LEMMA JoinWorkerInv == ASSUME IInv, JoinWorker PROVE IInv'
<1>. USE Indices, PoolAssumption DEF JoinWorker, Running, mainVars, threadVars, outVars
<1>1. Types'
  BY DEF IInv, Types
<1>2. Dealt'
  BY DEF IInv, Dealt, Types, Dealing
<1>3. Senders'
  BY DEF IInv, Senders, Types, Owning, Dealing, Dealt
<1>4. WritersDone'
  BY DEF IInv, WritersDone, Types, Senders, Dealing, Owning
<1>5. HandlesIn'
  BY DEF IInv, HandlesIn, Types, Dealt, Dealing, Before
<1>6. AfterWriters'
  BY DEF IInv, AfterWriters, Types
<1>7. Joined'
  BY DEF IInv, Joined, Types
<1>8. Accounted'
  BY DEF IInv, Accounted, Types, Somewhere
<1>. QED BY <1>1, <1>2, <1>3, <1>4, <1>5, <1>6, <1>7, <1>8 DEF IInv

(* WorkerPanicked keeps the invariant. *)
LEMMA WorkerPanickedInv == ASSUME IInv, WorkerPanicked PROVE IInv'
<1>. USE Indices, PoolAssumption DEF WorkerPanicked, Running, Exit, mainVars, threadVars, outVars
<1>1. Types'
  BY DEF IInv, Types
<1>2. Dealt'
  BY DEF IInv, Dealt, Types, Dealing
<1>3. Senders'
  BY DEF IInv, Senders, Types, Owning, Dealing, Dealt
<1>4. WritersDone'
  BY DEF IInv, WritersDone, Types, Senders, Dealing, Owning
<1>5. HandlesIn'
  BY DEF IInv, HandlesIn, Types, Dealt, Dealing, Before
<1>6. AfterWriters'
  BY DEF IInv, AfterWriters, Types
<1>7. Joined'
  BY DEF IInv, Joined, Types
<1>8. Accounted'
  BY DEF IInv, Accounted, Types, Somewhere
<1>. QED BY <1>1, <1>2, <1>3, <1>4, <1>5, <1>6, <1>7, <1>8 DEF IInv

(* Return keeps the invariant. *)
LEMMA ReturnInv == ASSUME IInv, Return PROVE IInv'
<1>. USE Indices, PoolAssumption DEF Return, Running, Exit, mainVars, threadVars, outVars
<1>1. Types'
  BY DEF IInv, Types
<1>2. Dealt'
  BY DEF IInv, Dealt, Types, Dealing
<1>3. Senders'
  BY DEF IInv, Senders, Types, Owning, Dealing, Dealt
<1>4. WritersDone'
  BY DEF IInv, WritersDone, Types, Senders, Dealing, Owning
<1>5. HandlesIn'
  BY DEF IInv, HandlesIn, Types, Dealt, Dealing, Before
<1>6. AfterWriters'
  BY DEF IInv, AfterWriters, Types
<1>7. Joined'
  BY DEF IInv, Joined, Types
<1>8. Accounted'
  BY DEF IInv, Accounted, Types, Somewhere
<1>. QED BY <1>1, <1>2, <1>3, <1>4, <1>5, <1>6, <1>7, <1>8 DEF IInv

(* SpawnNext keeps the invariant. *)
LEMMA SpawnNextInv == ASSUME IInv, SpawnNext PROVE IInv'
<1>. USE Indices, PoolAssumption DEF SpawnNext, Running, mainVars, threadVars, outVars
<1>1. Types'
  BY DEF IInv, Types
<1>2. Dealt'
  BY DEF IInv, Dealt, Types, Dealing, First, Thread
<1>3. Senders'
  BY DEF IInv, Senders, Types, Owning, Dealing, Dealt
<1>4. WritersDone'
  BY DEF IInv, WritersDone, Types, Senders, Dealing, Owning
<1>5. HandlesIn'
  BY DEF IInv, HandlesIn, Types, Dealt, Dealing, Before
<1>6. AfterWriters'
  BY DEF IInv, AfterWriters, Types
<1>7. Joined'
  <2>1. main # "join"
    <3>1. First \in senders[0]
      BY DEF IInv, Senders, Dealing
    <3>. QED BY <3>1 DEF IInv, AfterWriters, WritersDone
  <2>2. share \in Thread /\ share # First
    BY DEF IInv, Types, First
  <2>3. \A t \in Thread : thread'[t] \in {"ending", "done"} => thread[t] = thread'[t]
    BY <2>2 DEF IInv, Types
  <2>. QED BY <2>1, <2>3 DEF IInv, Joined
<1>8. Accounted'
  BY DEF IInv, Accounted, Types, Somewhere
<1>. QED BY <1>1, <1>2, <1>3, <1>4, <1>5, <1>6, <1>7, <1>8 DEF IInv

(* PushHandle keeps the invariant. *)
LEMMA PushHandleInv == ASSUME IInv, PushHandle PROVE IInv'
<1>. USE Indices, PoolAssumption DEF PushHandle, Running, Enter, mainVars, threadVars, outVars
<1>1. Types'
  <2>1. share < ThreadCount
    BY DEF IInv, Dealt
  <2>2. share' \in Thread
    BY <2>1 DEF IInv, Types, Thread
  <2>. QED BY <2>2 DEF IInv, Types
<1>2. Dealt'
  <2>1. share < ThreadCount
    BY DEF IInv, Dealt
  <2>. QED BY <2>1 DEF IInv, Dealt, Types, Dealing, First, Thread
<1>3. Senders'
  BY DEF IInv, Senders, Types, Owning, Dealing, Dealt
<1>4. WritersDone'
  BY DEF IInv, WritersDone, Types, Senders, Dealing, Owning
<1>5. HandlesIn'
  <2>1. share < ThreadCount
    BY DEF IInv, Dealt
  <2>2. SUFFICES ASSUME main \in Before
        PROVE handles' = {t \in Thread : IF t = First THEN main \notin {"spawn", "push"}
                                          ELSE t < share'}
    BY DEF HandlesIn
  <2>3. handles = {t \in Thread : IF t = First THEN main \notin {"spawn", "push"} ELSE t < share}
    BY <2>2 DEF IInv, HandlesIn
  <2>4. share \in Thread /\ share # First
    BY <2>1 DEF IInv, Types, First
  <2>5. \A t \in Thread : t < share' <=> t < share \/ t = share
    BY <2>4 DEF Thread
  <2>6. handles' = handles \cup {share}
    OBVIOUS
  <2>. QED BY <2>3, <2>4, <2>5, <2>6
<1>6. AfterWriters'
  BY DEF IInv, AfterWriters, Types
<1>7. Joined'
  BY DEF IInv, Joined, Types
<1>8. Accounted'
  BY DEF IInv, Accounted, Types, Somewhere
<1>. QED BY <1>1, <1>2, <1>3, <1>4, <1>5, <1>6, <1>7, <1>8 DEF IInv

(* OwnShare keeps the invariant. *)
LEMMA OwnShareInv == ASSUME IInv, OwnShare PROVE IInv'
<1>. USE Indices, PoolAssumption DEF OwnShare, Running, Enter, mainVars, threadVars, outVars
<1>1. Types'
  BY DEF IInv, Types
<1>2. Dealt'
  BY DEF IInv, Dealt, Types, Dealing
<1>3. Senders'
  BY DEF IInv, Senders, Types, Owning, Dealing, Dealt
<1>4. WritersDone'
  BY DEF IInv, WritersDone, Types, Senders, Dealing, Owning
<1>5. HandlesIn'
  BY DEF IInv, HandlesIn, Types, Dealt, Dealing, Before
<1>6. AfterWriters'
  BY DEF IInv, AfterWriters, Types
<1>7. Joined'
  BY DEF IInv, Joined, Types
<1>8. Accounted'
  BY DEF IInv, Accounted, Types, Somewhere
<1>. QED BY <1>1, <1>2, <1>3, <1>4, <1>5, <1>6, <1>7, <1>8 DEF IInv

(* Compile(t) keeps the invariant. *)
LEMMA CompileInv == ASSUME NEW t \in Thread, IInv, Compile(t) PROVE IInv'
<1>. USE Indices, PoolAssumption DEF Compile, Running, Sent, Taken, mainVars, threadVars, outVars
<1>a. PICK f \in todo[t] : /\ todo' = [todo EXCEPT ![t] = @ \ {f}]
                           /\ LET b == Append(buffer[t], f)
                              IN  IF Full(b)
                                  THEN queue' = Sent(Channel(t), b) /\ buffer' = [buffer EXCEPT ![t] = <<>>]
                                  ELSE buffer' = [buffer EXCEPT ![t] = b] /\ UNCHANGED queue
  OBVIOUS
<1>b. f \in Fun /\ buffer[t] \in Seq(Fun) /\ Channel(t) \in Out
  BY DEF IInv, Types
<1>c. Append(buffer[t], f) \in Seq(Fun) /\ Text(Append(buffer[t], f)) = Text(buffer[t]) \cup {f}
  BY <1>b, BufferFacts
<1>d. <<>> \in Seq(Fun)
  OBVIOUS
<1>1. Types'
  <2>1. todo' \in [Thread -> SUBSET Fun]
    BY <1>a DEF IInv, Types
  <2>2. buffer' \in [Thread -> Seq(Fun)]
    <3>1. CASE Full(Append(buffer[t], f))
      <4>1. buffer' = [buffer EXCEPT ![t] = <<>>]
        BY <1>a, <3>1
      <4>. QED BY <4>1, <1>d DEF IInv, Types
    <3>2. CASE ~Full(Append(buffer[t], f))
      <4>1. buffer' = [buffer EXCEPT ![t] = Append(buffer[t], f)]
        BY <1>a, <3>2
      <4>. QED BY <4>1, <1>c DEF IInv, Types
    <3>. QED BY <3>1, <3>2
  <2>3. ASSUME NEW w \in Out PROVE Append(queue[w], Append(buffer[t], f)) \in Seq(Seq(Fun))
    BY <1>c, QueueFacts DEF IInv, Types
  <2>4. queue' \in [Out -> Seq(Seq(Fun))]
    <3>1. CASE Full(Append(buffer[t], f))
      <4>1. queue' = Sent(Channel(t), Append(buffer[t], f))
        BY <1>a, <3>1
      <4>. QED BY <4>1, <1>b, <2>3 DEF IInv, Types
    <3>2. CASE ~Full(Append(buffer[t], f))
      <4>1. queue' = queue
        BY <1>a, <3>2
      <4>. QED BY <4>1 DEF IInv, Types
    <3>. QED BY <3>1, <3>2
  <2>. QED BY <2>1, <2>2, <2>4 DEF IInv, Types
<1>2. Dealt'
  BY DEF IInv, Dealt, Types, Dealing
<1>3. Senders'
  BY DEF IInv, Senders, Types, Owning, Dealing, Dealt
<1>4. WritersDone'
  BY DEF IInv, WritersDone, Types, Senders, Dealing, Owning
<1>5. HandlesIn'
  BY DEF IInv, HandlesIn, Types, Dealt, Dealing, Before
<1>6. AfterWriters'
  BY DEF IInv, AfterWriters, Types
<1>7. Joined'
  BY DEF IInv, Joined, Types
<1>8. Accounted'
  <2>1. SUFFICES ASSUME \A w \in Out : writer[w] # "failed", NEW g \in Fun
        PROVE  Somewhere(g)'
    BY DEF Accounted
  <2>2. Somewhere(g)
    BY <2>1 DEF IInv, Accounted
  <2>3. CASE Full(Append(buffer[t], f))
    <3>1. queue' = [queue EXCEPT ![Channel(t)] = Append(@, Append(buffer[t], f))]
      BY <1>a, <1>b, <2>1, <2>3
    <3>2. queue'[Channel(t)] = Append(queue[Channel(t)], Append(buffer[t], f))
      BY <1>b, <3>1 DEF IInv, Types
    <3>3. Text(queue'[Channel(t)]) = Text(queue[Channel(t)]) \cup {Append(buffer[t], f)}
      BY <1>b, <1>c, <3>2, QueueFacts DEF IInv, Types
    <3>4. \A w \in Out : Text(queue[w]) \subseteq Text(queue'[w])
      BY <3>1, <3>3 DEF IInv, Types
    <3>5. \A u \in Thread : todo[u] \subseteq todo'[u] \cup {f}
      BY <1>a DEF IInv, Types
    <3>6. \A u \in Thread : u # t => buffer'[u] = buffer[u]
      BY <1>a, <2>3 DEF IInv, Types
    <3>7. CASE g \in Text(buffer[t]) \cup {f}
      BY <1>b, <1>c, <3>3, <3>7 DEF Somewhere
    <3>8. CASE g \notin Text(buffer[t]) \cup {f}
      BY <2>2, <3>4, <3>5, <3>6, <3>8 DEF Somewhere
    <3>. QED BY <3>7, <3>8
  <2>4. CASE ~Full(Append(buffer[t], f))
    <3>1. queue' = queue /\ buffer'[t] = Append(buffer[t], f)
      BY <1>a, <2>4 DEF IInv, Types
    <3>2. \A u \in Thread : u # t => buffer'[u] = buffer[u]
      BY <1>a, <2>4 DEF IInv, Types
    <3>3. \A u \in Thread : todo[u] \subseteq todo'[u] \cup {f}
      BY <1>a DEF IInv, Types
    <3>4. Text(buffer'[t]) = Text(buffer[t]) \cup {f}
      BY <1>c, <3>1
    <3>. QED BY <2>2, <3>1, <3>2, <3>3, <3>4 DEF Somewhere
  <2>. QED BY <2>3, <2>4
<1>. QED BY <1>1, <1>2, <1>3, <1>4, <1>5, <1>6, <1>7, <1>8 DEF IInv

(* Finish(t) keeps the invariant. *)
LEMMA FinishInv == ASSUME NEW t \in Thread, IInv, Finish(t) PROVE IInv'
<1>. USE Indices, PoolAssumption DEF Finish, Running, Enter, Sent, Taken, mainVars, threadVars, outVars
<1>1. Types'
  <2>1. buffer' \in [Thread -> Seq(Fun)]
    BY DEF IInv, Types
  <2>2. queue' \in [Out -> Seq(Seq(Fun))]
    <3>1. ASSUME NEW w \in Out PROVE Append(queue[w], buffer[t]) \in Seq(Seq(Fun))
      BY QueueFacts DEF IInv, Types
    <3>. QED BY <3>1 DEF IInv, Types
  <2>. QED BY <2>1, <2>2 DEF IInv, Types
<1>2. Dealt'
  BY DEF IInv, Dealt, Types, Dealing
<1>3. Senders'
  BY DEF IInv, Senders, Types, Owning, Dealing, Dealt
<1>4. WritersDone'
  BY DEF IInv, WritersDone, Types, Senders, Dealing, Owning
<1>5. HandlesIn'
  BY DEF IInv, HandlesIn, Types, Dealt, Dealing, Before
<1>6. AfterWriters'
  BY DEF IInv, AfterWriters, Types
<1>7. Joined'
  BY DEF IInv, Joined, Types
<1>8. Accounted'
  <2>1. SUFFICES ASSUME \A w \in Out : writer[w] # "failed", NEW g \in Fun
        PROVE  Somewhere(g)'
    BY DEF Accounted
  <2>2. Somewhere(g)
    BY <2>1 DEF IInv, Accounted
  <2>3. \A u \in Thread : u # t => buffer'[u] = buffer[u]
    BY DEF IInv, Types
  <2>4. CASE buffer[t] # <<>>
    <3>1. queue' = [queue EXCEPT ![Channel(t)] = Append(@, buffer[t])]
      BY <2>1, <2>4
    <3>2. queue'[Channel(t)] = Append(queue[Channel(t)], buffer[t])
      BY <3>1 DEF IInv, Types
    <3>3. Text(queue'[Channel(t)]) = Text(queue[Channel(t)]) \cup {buffer[t]}
      BY <3>2, QueueFacts DEF IInv, Types
    <3>4. \A w \in Out : Text(queue[w]) \subseteq Text(queue'[w])
      BY <3>1, <3>3 DEF IInv, Types
    <3>5. CASE g \in Text(buffer[t])
      BY <3>3, <3>5 DEF Somewhere
    <3>6. CASE g \notin Text(buffer[t])
      BY <2>2, <2>3, <3>4, <3>6 DEF Somewhere
    <3>. QED BY <3>5, <3>6
  <2>5. CASE buffer[t] = <<>>
    <3>1. queue' = queue /\ buffer'[t] = buffer[t]
      BY <2>5 DEF IInv, Types
    <3>. QED BY <2>2, <2>3, <3>1 DEF Somewhere
  <2>. QED BY <2>4, <2>5
<1>. QED BY <1>1, <1>2, <1>3, <1>4, <1>5, <1>6, <1>7, <1>8 DEF IInv

(* EndThread(t) keeps the invariant. *)
LEMMA EndThreadInv == ASSUME NEW t \in Thread, IInv, EndThread(t) PROVE IInv'
<1>. USE Indices, PoolAssumption DEF EndThread, Running, Enter, SendersWithout, mainVars, threadVars, outVars
<1>1. Types'
  BY DEF IInv, Types
<1>2. Dealt'
  BY DEF IInv, Dealt, Types, Dealing
<1>3. Senders'
  BY DEF IInv, Senders, Types, Owning, Dealing, Dealt
<1>4. WritersDone'
  BY DEF IInv, WritersDone, Types, Senders, Dealing, Owning
<1>5. HandlesIn'
  BY DEF IInv, HandlesIn, Types, Dealt, Dealing, Before
<1>6. AfterWriters'
  BY DEF IInv, AfterWriters, Types
<1>7. Joined'
  BY DEF IInv, Joined, Types
<1>8. Accounted'
  BY DEF IInv, Accounted, Types, Somewhere
<1>. QED BY <1>1, <1>2, <1>3, <1>4, <1>5, <1>6, <1>7, <1>8 DEF IInv

(* Ice(t) keeps the invariant. *)
LEMMA IceInv == ASSUME NEW t \in Thread, IInv, Ice(t) PROVE IInv'
<1>. USE Indices, PoolAssumption DEF Ice, Running, Enter, SendersWithout, mainVars, threadVars, outVars
<1>1. Types'
  BY DEF IInv, Types
<1>2. Dealt'
  BY DEF IInv, Dealt, Types, Dealing
<1>3. Senders'
  BY DEF IInv, Senders, Types, Owning, Dealing, Dealt
<1>4. WritersDone'
  BY DEF IInv, WritersDone, Types, Senders, Dealing, Owning
<1>5. HandlesIn'
  BY DEF IInv, HandlesIn, Types, Dealt, Dealing, Before
<1>6. AfterWriters'
  BY DEF IInv, AfterWriters, Types
<1>7. Joined'
  BY DEF IInv, Joined, Types
<1>8. Accounted'
  BY DEF IInv, Accounted, Types, Somewhere
<1>. QED BY <1>1, <1>2, <1>3, <1>4, <1>5, <1>6, <1>7, <1>8 DEF IInv

(* Receive(w) keeps the invariant. *)
LEMMA ReceiveInv == ASSUME NEW w \in Out, IInv, Receive(w) PROVE IInv'
<1>. USE Indices, PoolAssumption DEF Receive, Running, mainVars, threadVars, outVars
<1>1. Types'
  BY DEF IInv, Types
<1>2. Dealt'
  BY DEF IInv, Dealt, Types, Dealing
<1>3. Senders'
  BY DEF IInv, Senders, Types, Owning, Dealing, Dealt
<1>4. WritersDone'
  BY DEF IInv, WritersDone, Types, Senders, Dealing, Owning
<1>5. HandlesIn'
  BY DEF IInv, HandlesIn, Types, Dealt, Dealing, Before
<1>6. AfterWriters'
  BY DEF IInv, AfterWriters, Types
<1>7. Joined'
  BY DEF IInv, Joined, Types
<1>8. Accounted'
  <2>1. SUFFICES ASSUME \A v \in Out : writer[v] # "failed", NEW g \in Fun
        PROVE  Somewhere(g)'
    BY DEF Accounted
  <2>2. Somewhere(g)
    BY <2>1 DEF IInv, Accounted
  <2>3. /\ queue[w] \in Seq(Seq(Fun)) /\ queue[w] # <<>> /\ written[w] \in Seq(Fun)
        /\ queue'[w] = Tail(queue[w]) /\ written'[w] = written[w] \o Head(queue[w])
    BY DEF IInv, Types
  <2>4. /\ Head(queue[w]) \in Seq(Fun)
        /\ Text(queue[w]) = {Head(queue[w])} \cup Text(queue'[w])
    BY <2>3, QueueFacts
  <2>5. Text(written'[w]) = Text(written[w]) \cup Text(Head(queue[w]))
    BY <2>3, <2>4, BufferFacts
  <2>6. \A v \in Out : v # w => queue'[v] = queue[v] /\ written'[v] = written[v]
    BY DEF IInv, Types
  <2>. QED BY <2>2, <2>4, <2>5, <2>6 DEF Somewhere
<1>. QED BY <1>1, <1>2, <1>3, <1>4, <1>5, <1>6, <1>7, <1>8 DEF IInv

(* EndWriter(w) keeps the invariant. *)
LEMMA EndWriterInv == ASSUME NEW w \in Out, IInv, EndWriter(w) PROVE IInv'
<1>. USE Indices, PoolAssumption DEF EndWriter, Running, Closed, mainVars, threadVars, outVars
<1>1. Types'
  BY DEF IInv, Types
<1>2. Dealt'
  BY DEF IInv, Dealt, Types, Dealing
<1>3. Senders'
  BY DEF IInv, Senders, Types, Owning, Dealing, Dealt
<1>4. WritersDone'
  BY DEF IInv, WritersDone, Types, Senders, Dealing, Owning
<1>5. HandlesIn'
  BY DEF IInv, HandlesIn, Types, Dealt, Dealing, Before
<1>6. AfterWriters'
  BY DEF IInv, AfterWriters, Types
<1>7. Joined'
  BY DEF IInv, Joined, Types
<1>8. Accounted'
  BY DEF IInv, Accounted, Types, Somewhere
<1>. QED BY <1>1, <1>2, <1>3, <1>4, <1>5, <1>6, <1>7, <1>8 DEF IInv

(* WriteError(w) keeps the invariant. *)
LEMMA WriteErrorInv == ASSUME NEW w \in Out, IInv, WriteError(w) PROVE IInv'
<1>. USE Indices, PoolAssumption DEF WriteError, Running, mainVars, threadVars, outVars
<1>1. Types'
  BY DEF IInv, Types
<1>2. Dealt'
  BY DEF IInv, Dealt, Types, Dealing
<1>3. Senders'
  BY DEF IInv, Senders, Types, Owning, Dealing, Dealt
<1>4. WritersDone'
  BY DEF IInv, WritersDone, Types, Senders, Dealing, Owning
<1>5. HandlesIn'
  BY DEF IInv, HandlesIn, Types, Dealt, Dealing, Before
<1>6. AfterWriters'
  BY DEF IInv, AfterWriters, Types
<1>7. Joined'
  BY DEF IInv, Joined, Types
<1>8. Accounted'
  BY DEF IInv, Accounted, Types, Somewhere
<1>. QED BY <1>1, <1>2, <1>3, <1>4, <1>5, <1>6, <1>7, <1>8 DEF IInv

-----------------------------------------------------------------------------
(* The theorems                                                            *)

(* The initial states satisfy the invariant. *)
LEMMA InitInv == Init => IInv
<1>. SUFFICES ASSUME Init PROVE IInv
  OBVIOUS
<1>. USE Indices, PoolAssumption DEF Init
<1>1. Types
  BY DEF Types, ShareOf, Thread
<1>2. Dealt
  BY DEF Dealt, Dealing, Thread, First
<1>3. Senders
  BY DEF Senders, Owning, Dealing
<1>4. WritersDone /\ AfterWriters /\ Joined
  BY DEF WritersDone, AfterWriters, Joined
<1>5. HandlesIn
  <2>1. \A t \in Thread : ~(t < 1)
    BY DEF Thread
  <2>. QED BY <2>1 DEF HandlesIn
<1>6. Accounted
  BY DEF Accounted, Somewhere, ShareOf
<1>. QED BY <1>1, <1>2, <1>3, <1>4, <1>5, <1>6 DEF IInv

(* Every step keeps the invariant. *)
LEMMA StepInv == IInv /\ [Next]_vars => IInv'
<1>. SUFFICES ASSUME IInv, [Next]_vars PROVE IInv'
  OBVIOUS
<1>1. CASE Coordinate
  BY <1>1, SpawnFirstInv, PushFirstInv, CompileGlobalsInv, WritePreludeInv, StartWriterInv, JoinWritersInv, WriterFailedInv, TakeHandlesInv, JoinWorkerInv, WorkerPanickedInv, ReturnInv DEF Coordinate
<1>2. CASE Deal
  BY <1>2, SpawnNextInv, PushHandleInv, OwnShareInv DEF Deal
<1>3. ASSUME NEW t \in Thread, Work(t) PROVE IInv'
  BY <1>3, CompileInv, FinishInv, EndThreadInv DEF Work
<1>4. ASSUME NEW w \in Out, Write(w) PROVE IInv'
  BY <1>4, ReceiveInv, EndWriterInv DEF Write
<1>6. CASE Fault
  BY <1>6, GlobalsIceInv, PreludeErrorInv, IceInv, WriteErrorInv DEF Fault
<1>5. CASE UNCHANGED vars
  BY <1>5 DEF vars, mainVars, threadVars, outVars, IInv, Types, Dealt, Dealing, Senders, Owning,
             WritersDone, HandlesIn, AfterWriters, Joined, Accounted, Somewhere
<1>. QED BY <1>1, <1>2, <1>3, <1>4, <1>5, <1>6 DEF Next

(* The invariant holds in every reachable state. *)
THEOREM Inductive == Spec => []IInv
<1>. QED BY InitInv, StepInv, PTL DEF Spec

(* For any number of threads, functions and outputs, and whatever fails,   *)
(* codegen() returns Ok only when every function has been written and      *)
(* every thread it started has ended well.                                 *)
THEOREM OkLosesNothing == Spec => []NothingLost
<1>1. ASSUME IInv PROVE NothingLost
  <2>. SUFFICES ASSUME result = "ok" PROVE NothingLost
    BY DEF NothingLost
  <2>1. \A t \in Thread : thread[t] = "done" /\ todo[t] = {} /\ buffer[t] = <<>>
    BY <1>1 DEF IInv, Joined
  <2>2. \A w \in Out : writer[w] = "done" /\ queue[w] = <<>>
    BY <1>1 DEF IInv, Joined, AfterWriters, WritersDone
  <2>3. ASSUME NEW f \in Fun PROVE \E w \in Out : f \in Text(written[w])
    <3>1. Somewhere(f)
      BY <1>1, <2>2 DEF IInv, Accounted
    <3>. QED BY <3>1, <2>1, <2>2, BufferFacts DEF Somewhere
  <2>. QED BY <2>1, <2>2, <2>3 DEF NothingLost
<1>. QED BY Inductive, <1>1, PTL

(* The handles the coordinator takes are those of all threads.             *)
THEOREM AllAreJoined == Spec => NobodyForgotten
<1>1. ASSUME IInv, [Next]_vars PROVE [main' = "join" /\ main # "join" => toJoin' = Thread]_vars
  <2>. SUFFICES ASSUME Next, main' = "join", main # "join" PROVE toJoin' = Thread
    BY <1>1
  <2>1. CASE TakeHandles
    BY <1>1, <2>1, AllPushed DEF TakeHandles, Main
  <2>2. CASE Coordinate /\ ~TakeHandles
    BY <2>2 DEF Coordinate, Main, Exit, SpawnFirst, PushFirst, CompileGlobals, WritePrelude,
                StartWriter, JoinWriters, WriterFailed, JoinWorker,
                WorkerPanicked, Return
  <2>3. CASE Deal
    BY <2>3 DEF Deal, SpawnNext, PushHandle, OwnShare, mainVars
  <2>4. ASSUME NEW t \in Thread, Work(t) PROVE FALSE
    BY <2>4 DEF Work, Compile, Finish, EndThread, mainVars
  <2>5. ASSUME NEW w \in Out, Write(w) PROVE FALSE
    BY <2>5 DEF Write, Receive, EndWriter, mainVars
  <2>6. CASE Fault
    BY <2>6 DEF Fault, GlobalsIce, PreludeError, Ice, WriteError, Exit, mainVars
  <2>. QED BY <2>1, <2>2, <2>3, <2>4, <2>5, <2>6 DEF Next
<1>. QED BY Inductive, <1>1, PTL DEF Spec, NobodyForgotten
-----------------------------------------------------------------------------
(* Every function is in one place                                          *)

(* A function is with its owner, to be compiled or in its buffer; or it    *)
(* has left it for the owner's channel, and is in one buffer of the queue  *)
(* or written.                                                             *)
Distinct(s) == \A i, j \in DOMAIN s : s[i] = s[j] => i = j
Held(t) == todo[t] \cup Text(buffer[t])
Mine(t) == /\ \A f \in Held(t) : f \in Fun /\ Owner(f) = t
           /\ \A f \in Text(buffer[t]) : f \notin todo[t]
           /\ Distinct(buffer[t])
Gone(f, w) == f \in Fun /\ Channel(Owner(f)) = w /\ f \notin Held(Owner(f))
Line(w) == /\ \A i \in DOMAIN queue[w] : Distinct(queue[w][i])
           /\ \A i \in DOMAIN queue[w] : \A f \in Text(queue[w][i]) :
                 Gone(f, w) /\ f \notin Text(written[w])
           /\ \A i, j \in DOMAIN queue[w] : \A f \in Text(queue[w][i]) :
                 f \in Text(queue[w][j]) => i = j
           /\ \A f \in Text(written[w]) : Gone(f, w)
           /\ Distinct(written[w])
Once == (\A t \in Thread : Mine(t)) /\ (\A w \in Out : Line(w))

(* What is held only moves on: from the tasks to the buffer, and away.     *)
Shrinks == \A t \in Thread : Held(t)' \subseteq Held(t)

(* A sequence without repetitions stays one when something new is added.   *)
LEMMA DistinctFacts ==
  /\ Distinct(<<>>)
  /\ \A s \in Seq(Fun) : \A x \in Fun : Distinct(s) /\ x \notin Text(s) => Distinct(Append(s, x))
  /\ \A s, u \in Seq(Fun) :
        Distinct(s) /\ Distinct(u) /\ (\A f \in Text(u) : f \notin Text(s)) => Distinct(s \o u)
<1>1. Distinct(<<>>)
  BY DEF Distinct
<1>2. ASSUME NEW s \in Seq(Fun), NEW x \in Fun, Distinct(s), x \notin Text(s)
      PROVE  Distinct(Append(s, x))
  <2>1. /\ DOMAIN s = 1 .. Len(s) /\ DOMAIN Append(s, x) = 1 .. Len(s) + 1 /\ Len(s) \in Nat
        /\ \A i \in 1 .. Len(s) : Append(s, x)[i] = s[i]
        /\ Append(s, x)[Len(s) + 1] = x
    OBVIOUS
  <2>2. \A i \in 1 .. Len(s) : s[i] # x
    BY <1>2, <2>1 DEF Text
  <2>3. \A i, j \in 1 .. Len(s) : s[i] = s[j] => i = j
    BY <1>2, <2>1 DEF Distinct
  <2>4. \A i \in 1 .. Len(s) + 1 : i \in 1 .. Len(s) \/ i = Len(s) + 1
    BY <2>1
  <2>5. ASSUME NEW i \in 1 .. Len(s) + 1, NEW j \in 1 .. Len(s) + 1, Append(s, x)[i] = Append(s, x)[j]
        PROVE  i = j
    BY <2>1, <2>2, <2>3, <2>4, <2>5
  <2>. QED BY <2>1, <2>5 DEF Distinct
<1>3. ASSUME NEW s \in Seq(Fun), NEW u \in Seq(Fun), Distinct(s), Distinct(u),
             \A f \in Text(u) : f \notin Text(s)
      PROVE  Distinct(s \o u)
  <2>1. /\ DOMAIN s = 1 .. Len(s) /\ DOMAIN u = 1 .. Len(u) /\ Len(s) \in Nat /\ Len(u) \in Nat
        /\ DOMAIN (s \o u) = 1 .. Len(s) + Len(u)
        /\ \A i \in 1 .. Len(s) : (s \o u)[i] = s[i]
        /\ \A i \in Len(s) + 1 .. Len(s) + Len(u) : (s \o u)[i] = u[i - Len(s)]
    OBVIOUS
  <2>2. \A i \in 1 .. Len(s), j \in 1 .. Len(u) : s[i] # u[j]
    BY <1>3, <2>1 DEF Text
  <2>3. /\ \A i, j \in 1 .. Len(s) : s[i] = s[j] => i = j
        /\ \A i, j \in 1 .. Len(u) : u[i] = u[j] => i = j
    BY <1>3, <2>1 DEF Distinct
  <2>4. \A i \in 1 .. Len(s) + Len(u) :
            i \in 1 .. Len(s) \/ (i \in Len(s) + 1 .. Len(s) + Len(u) /\ i - Len(s) \in 1 .. Len(u))
    BY <2>1
  <2>5. ASSUME NEW i \in 1 .. Len(s) + Len(u), NEW j \in 1 .. Len(s) + Len(u),
               (s \o u)[i] = (s \o u)[j]
        PROVE  i = j
    <3>1. CASE i \in 1 .. Len(s)
      BY <2>1, <2>2, <2>3, <2>4, <2>5, <3>1
    <3>2. CASE j \in 1 .. Len(s)
      BY <2>1, <2>2, <2>3, <2>4, <2>5, <3>2
    <3>3. CASE i \notin 1 .. Len(s) /\ j \notin 1 .. Len(s)
      <4>1. u[i - Len(s)] = u[j - Len(s)] /\ i - Len(s) \in 1 .. Len(u) /\ j - Len(s) \in 1 .. Len(u)
        BY <2>1, <2>4, <2>5, <3>3
      <4>2. i - Len(s) = j - Len(s)
        BY <2>3, <4>1
      <4>. QED BY <2>1, <4>2
    <3>. QED BY <3>1, <3>2, <3>3
  <2>. QED BY <2>1, <2>5 DEF Distinct
<1>. QED BY <1>1, <1>2, <1>3

(* A channel and an output that are left alone.                            *)
LEMMA LineStays ==
  ASSUME Types, Once, Shrinks, NEW w \in Out, queue'[w] = queue[w], written'[w] = written[w]
  PROVE  Line(w)'
<1>1. Line(w)
  BY DEF Once
<1>2. \A f : Gone(f, w) => Gone(f, w)'
  BY Indices DEF Gone, Shrinks
<1>. QED BY <1>1, <1>2 DEF Line

(* A thread sends what it held.                                            *)
LEMMA LineGrows ==
  ASSUME Types, Once, Shrinks, NEW t \in Thread, NEW b \in Seq(Fun), Distinct(b),
         Text(b) \subseteq Held(t), \A f \in Text(b) : f \notin Held(t)',
         queue'[Channel(t)] = Append(queue[Channel(t)], b),
         written'[Channel(t)] = written[Channel(t)]
  PROVE  Line(Channel(t))'
<1>. DEFINE w == Channel(t)
            q == queue[w]
<1>1. w \in Out /\ Line(w) /\ Mine(t)
  BY Indices DEF Once
<1>2. \A f : Gone(f, w) => Gone(f, w)'
  BY Indices DEF Gone, Shrinks
<1>3. /\ q \in Seq(Seq(Fun)) /\ DOMAIN q = 1 .. Len(q) /\ Len(q) \in Nat
      /\ DOMAIN Append(q, b) = 1 .. Len(q) + 1
      /\ \A i \in 1 .. Len(q) : Append(q, b)[i] = q[i]
      /\ Append(q, b)[Len(q) + 1] = b
  <2>1. q \in Seq(Seq(Fun))
    BY <1>1 DEF Types
  <2>. HIDE DEF q
  <2>. QED BY <2>1
<1>4. \A i \in 1 .. Len(q) + 1 : i \in 1 .. Len(q) \/ i = Len(q) + 1
  BY <1>3
<1>5. \A f \in Text(b) : f \in Held(t) /\ f \in Fun /\ Owner(f) = t
  BY <1>1 DEF Mine
<1>6. \A f \in Text(b) : ~Gone(f, w) /\ Gone(f, w)'
  BY <1>5 DEF Gone
<1>7. \A i \in 1 .. Len(q) : /\ Distinct(q[i])
                             /\ \A f \in Text(q[i]) : Gone(f, w) /\ f \notin Text(written[w])
                             /\ \A j \in 1 .. Len(q) : \A f \in Text(q[i]) :
                                   f \in Text(q[j]) => i = j
  BY <1>1, <1>3 DEF Line
<1>8. \A f \in Text(written[w]) : Gone(f, w)
  BY <1>1 DEF Line
<1>9. Distinct(written[w])
  BY <1>1 DEF Line
<1>. HIDE DEF q, w
<1>10. \A i \in 1 .. Len(q) + 1 : Distinct(Append(q, b)[i])
  BY <1>3, <1>4, <1>7
<1>11. \A i \in 1 .. Len(q) + 1 : \A f \in Text(Append(q, b)[i]) :
          Gone(f, w)' /\ f \notin Text(written[w])
  BY <1>2, <1>3, <1>4, <1>6, <1>7, <1>8
<1>12. ASSUME NEW i \in 1 .. Len(q) + 1, NEW j \in 1 .. Len(q) + 1,
              NEW f \in Text(Append(q, b)[i]), f \in Text(Append(q, b)[j])
       PROVE  i = j
  <2>1. CASE i \in 1 .. Len(q) /\ j \in 1 .. Len(q)
    BY <1>3, <1>7, <1>12, <2>1
  <2>2. CASE i \in 1 .. Len(q) /\ j = Len(q) + 1
    BY <1>3, <1>6, <1>7, <1>12, <2>2
  <2>3. CASE i = Len(q) + 1 /\ j \in 1 .. Len(q)
    BY <1>3, <1>6, <1>7, <1>12, <2>3
  <2>. QED BY <1>4, <2>1, <2>2, <2>3
<1>13. /\ queue'[w] = Append(q, b) /\ written'[w] = written[w]
  BY DEF q, w
<1>14. \A f \in Text(written[w]) : Gone(f, w)'
  BY <1>2, <1>8
<1>15. Line(w)'
  BY <1>3, <1>9, <1>10, <1>11, <1>12, <1>13, <1>14 DEF Line
<1>. QED BY <1>15 DEF w

(* A writer takes the first buffer of its channel.                         *)
LEMMA LineMoves ==
  ASSUME Types, Once, Shrinks, NEW w \in Out, queue[w] # <<>>,
         queue'[w] = Tail(queue[w]), written'[w] = written[w] \o Head(queue[w])
  PROVE  Line(w)'
<1>. DEFINE q == queue[w]
            s == written[w]
<1>1. Line(w)
  BY DEF Once
<1>2. \A f : Gone(f, w) => Gone(f, w)'
  BY Indices DEF Gone, Shrinks
<1>3. q \in Seq(Seq(Fun)) /\ q # <<>> /\ s \in Seq(Fun)
  BY DEF Types
<1>4. \A i \in DOMAIN q : /\ Distinct(q[i])
                          /\ \A f \in Text(q[i]) : Gone(f, w) /\ f \notin Text(s)
                          /\ \A j \in DOMAIN q : \A f \in Text(q[i]) : f \in Text(q[j]) => i = j
  BY <1>1 DEF Line
<1>5. Distinct(s) /\ \A f \in Text(s) : Gone(f, w)
  BY <1>1 DEF Line
<1>6. queue'[w] = Tail(q) /\ written'[w] = s \o Head(q)
  OBVIOUS
<1>. HIDE DEF q, s
<1>7. /\ DOMAIN q = 1 .. Len(q) /\ Len(q) \in Nat \ {0} /\ Head(q) = q[1] /\ q[1] \in Seq(Fun)
      /\ DOMAIN Tail(q) = 1 .. Len(q) - 1
      /\ \A i \in 1 .. Len(q) - 1 : Tail(q)[i] = q[i + 1]
  BY <1>3
<1>8. \A i \in 1 .. Len(q) - 1 : i + 1 \in DOMAIN q /\ i + 1 # 1
  BY <1>7
<1>9. 1 \in DOMAIN q
  BY <1>7
<1>10. Text(s \o Head(q)) = Text(s) \cup Text(q[1])
  BY <1>3, <1>7, BufferFacts
<1>11. Distinct(s \o Head(q))
  BY <1>3, <1>4, <1>5, <1>7, <1>9, DistinctFacts
<1>12. \A f \in Text(s \o Head(q)) : Gone(f, w)'
  BY <1>2, <1>4, <1>5, <1>9, <1>10
<1>13. \A i \in 1 .. Len(q) - 1 : Distinct(Tail(q)[i])
  BY <1>4, <1>7, <1>8
<1>14. ASSUME NEW i \in 1 .. Len(q) - 1, NEW f \in Text(Tail(q)[i])
       PROVE  Gone(f, w)' /\ f \notin Text(s \o Head(q))
  <2>1. f \in Text(q[i + 1]) /\ i + 1 \in DOMAIN q /\ i + 1 # 1
    BY <1>7, <1>8, <1>14
  <2>2. f \notin Text(q[1])
    BY <1>4, <1>9, <2>1
  <2>. QED BY <1>2, <1>4, <1>10, <2>1, <2>2
<1>15. ASSUME NEW i \in 1 .. Len(q) - 1, NEW j \in 1 .. Len(q) - 1,
              NEW f \in Text(Tail(q)[i]), f \in Text(Tail(q)[j])
       PROVE  i = j
  <2>1. f \in Text(q[i + 1]) /\ f \in Text(q[j + 1]) /\ i + 1 \in DOMAIN q /\ j + 1 \in DOMAIN q
    BY <1>7, <1>8, <1>15
  <2>2. i + 1 = j + 1
    BY <1>4, <2>1
  <2>. QED BY <2>2
<1>. QED BY <1>6, <1>7, <1>11, <1>12, <1>13, <1>14, <1>15 DEF Line

(* A thread that keeps what it has.                                        *)
LEMMA MineStays ==
  ASSUME Once, NEW t \in Thread, todo'[t] = todo[t], buffer'[t] = buffer[t]
  PROVE  Mine(t)' /\ Held(t)' = Held(t)
BY DEF Once, Mine, Held

(* Compiling, with and without a full buffer.                              *)
LEMMA CompileOnce == ASSUME NEW t \in Thread, IInv, Once, Compile(t) PROVE Once'
<1>. USE Indices
<1>1. Types /\ Mine(t) /\ Channel(t) \in Out
  BY DEF IInv, Once
<1>2. PICK f \in todo[t] :
          /\ todo' = [todo EXCEPT ![t] = @ \ {f}]
          /\ LET b == Append(buffer[t], f)
             IN  IF Full(b)
                 THEN queue' = Sent(Channel(t), b) /\ buffer' = [buffer EXCEPT ![t] = <<>>]
                 ELSE buffer' = [buffer EXCEPT ![t] = b] /\ UNCHANGED queue
  BY DEF Compile, Taken
<1>. DEFINE b == Append(buffer[t], f)
<1>3. f \in Fun /\ buffer[t] \in Seq(Fun) /\ f \notin Text(buffer[t])
  BY <1>1 DEF Types, Mine
<1>4. b \in Seq(Fun) /\ Text(b) = Text(buffer[t]) \cup {f} /\ Distinct(b)
  BY <1>1, <1>3, BufferFacts, DistinctFacts DEF Mine
<1>5. written' = written
  BY DEF Compile, outVars
<1>6. todo'[t] = todo[t] \ {f} /\ \A u \in Thread \ {t} : todo'[u] = todo[u]
  BY <1>1, <1>2 DEF Types
<1>7. CASE Full(b)
  <2>1. buffer' = [buffer EXCEPT ![t] = <<>>] /\ queue' = Sent(Channel(t), b)
    BY <1>2, <1>7
  <2>2. buffer'[t] = <<>> /\ \A u \in Thread \ {t} : buffer'[u] = buffer[u]
    BY <1>1, <2>1 DEF Types
  <2>3. Held(t)' = todo[t] \ {f}
    BY <1>6, <2>2, BufferFacts DEF Held
  <2>4. Mine(t)'
    BY <1>1, <1>6, <2>2, <2>3, BufferFacts, DistinctFacts DEF Mine, Held
  <2>5. \A u \in Thread \ {t} : Mine(u)' /\ Held(u)' = Held(u)
    BY <1>6, <2>2, MineStays
  <2>6. Shrinks
    BY <2>3, <2>5 DEF Shrinks, Held
  <2>7. ASSUME NEW w \in Out PROVE Line(w)'
    <3>1. CASE queue'[w] = queue[w]
      BY <1>1, <1>5, <2>6, <3>1, LineStays
    <3>2. CASE queue'[w] # queue[w]
      <4>1. w = Channel(t) /\ queue'[w] = Append(queue[w], b)
        BY <1>1, <2>1, <3>2 DEF Sent, Types
      <4>2. Text(b) \subseteq Held(t) /\ \A g \in Text(b) : g \notin Held(t)'
        BY <1>1, <1>4, <2>3 DEF Held, Mine
      <4>. HIDE DEF b
      <4>. QED BY <1>1, <1>4, <1>5, <2>6, <4>1, <4>2, LineGrows
    <3>. QED BY <3>1, <3>2
  <2>. QED BY <2>4, <2>5, <2>7 DEF Once
<1>8. CASE ~Full(b)
  <2>1. buffer' = [buffer EXCEPT ![t] = b] /\ queue' = queue
    BY <1>2, <1>8
  <2>2. buffer'[t] = b /\ \A u \in Thread \ {t} : buffer'[u] = buffer[u]
    BY <1>1, <2>1 DEF Types
  <2>3. Held(t)' = Held(t)
    BY <1>4, <1>6, <2>2 DEF Held
  <2>4. Mine(t)'
    BY <1>1, <1>4, <1>6, <2>2, <2>3 DEF Mine
  <2>5. \A u \in Thread \ {t} : Mine(u)' /\ Held(u)' = Held(u)
    BY <1>6, <2>2, MineStays
  <2>6. Shrinks
    BY <2>3, <2>5 DEF Shrinks
  <2>7. \A w \in Out : Line(w)'
    BY <1>1, <1>5, <2>1, <2>6, LineStays
  <2>. QED BY <2>4, <2>5, <2>7 DEF Once
<1>. QED BY <1>7, <1>8

(* The final buffer.                                                       *)
LEMMA FinishOnce == ASSUME NEW t \in Thread, IInv, Once, Finish(t) PROVE Once'
<1>. USE Indices
<1>1. Types /\ Mine(t) /\ Channel(t) \in Out
  BY DEF IInv, Once
<1>2. /\ todo' = todo /\ written' = written /\ todo[t] = {}
      /\ queue' = IF buffer[t] # <<>> THEN Sent(Channel(t), buffer[t]) ELSE queue
      /\ buffer' = [buffer EXCEPT ![t] = <<>>]
  BY DEF Finish, Taken, outVars
<1>3. buffer'[t] = <<>> /\ \A u \in Thread \ {t} : buffer'[u] = buffer[u]
  BY <1>1, <1>2 DEF Types
<1>4. Held(t)' = {}
  BY <1>2, <1>3, BufferFacts DEF Held
<1>5. Mine(t)'
  BY <1>2, <1>3, <1>4, BufferFacts, DistinctFacts DEF Mine
<1>6. \A u \in Thread \ {t} : Mine(u)' /\ Held(u)' = Held(u)
  BY <1>2, <1>3, MineStays
<1>7. Shrinks
  BY <1>4, <1>6 DEF Shrinks
<1>8. ASSUME NEW w \in Out PROVE Line(w)'
  <2>1. CASE queue'[w] = queue[w]
    BY <1>1, <1>2, <1>7, <2>1, LineStays
  <2>2. CASE queue'[w] # queue[w]
    <3>1. w = Channel(t) /\ queue'[w] = Append(queue[w], buffer[t])
      BY <1>1, <1>2, <2>2 DEF Sent, Types
    <3>2. buffer[t] \in Seq(Fun) /\ Distinct(buffer[t]) /\ Text(buffer[t]) \subseteq Held(t)
      BY <1>1 DEF Types, Mine, Held
    <3>. QED BY <1>1, <1>2, <1>4, <1>7, <3>1, <3>2, LineGrows
  <2>. QED BY <2>1, <2>2
<1>. QED BY <1>5, <1>6, <1>8 DEF Once

(* A buffer is written, or lost with the writer that failed.               *)
LEMMA WriterOnce ==
  ASSUME NEW w \in Out, IInv, Once, Receive(w) \/ WriteError(w)
  PROVE  Once'
<1>1. Types /\ todo' = todo /\ buffer' = buffer
  BY DEF IInv, Receive, WriteError, threadVars
<1>2. \A t \in Thread : Mine(t)' /\ Held(t)' = Held(t)
  BY <1>1, MineStays
<1>3. Shrinks
  BY <1>2 DEF Shrinks
<1>4. \A v \in Out \ {w} : queue'[v] = queue[v] /\ written'[v] = written[v]
  BY <1>1 DEF Receive, WriteError, Types
<1>5. \A v \in Out \ {w} : Line(v)'
  BY <1>1, <1>3, <1>4, LineStays
<1>6. CASE Receive(w)
  <2>1. /\ queue[w] # <<>> /\ queue'[w] = Tail(queue[w])
        /\ written'[w] = written[w] \o Head(queue[w])
    BY <1>1, <1>6 DEF Receive, Types
  <2>2. Line(w)'
    BY <1>1, <1>3, <2>1, LineMoves
  <2>. QED BY <1>2, <1>5, <2>2 DEF Once
<1>7. CASE WriteError(w)
  <2>1. queue'[w] = <<>> /\ written'[w] = written[w]
    BY <1>1, <1>7 DEF WriteError, Types
  <2>2. \A f : Gone(f, w) => Gone(f, w)'
    BY <1>3, Indices DEF Gone, Shrinks
  <2>3. Line(w)'
    BY <2>1, <2>2 DEF Once, Line
  <2>. QED BY <1>2, <1>5, <2>3 DEF Once
<1>. QED BY <1>6, <1>7

(* Everything else leaves the functions where they are.                    *)
LEMMA OthersOnce ==
  ASSUME IInv, Once, todo' = todo, buffer' = buffer, queue' = queue, written' = written
  PROVE  Once'
BY DEF Once, Mine, Line, Held, Gone

LEMMA StepOnce == IInv /\ Once /\ [Next]_vars => Once'
<1>. SUFFICES ASSUME IInv, Once, [Next]_vars PROVE Once'
  OBVIOUS
<1>. USE DEF mainVars, threadVars, outVars
<1>1. CASE Coordinate
  BY <1>1, OthersOnce DEF Coordinate, SpawnFirst, PushFirst, CompileGlobals, WritePrelude, StartWriter,
        JoinWriters, WriterFailed, TakeHandles, JoinWorker, WorkerPanicked, Return
<1>2. CASE Deal
  BY <1>2, OthersOnce DEF Deal, SpawnNext, PushHandle, OwnShare
<1>3. ASSUME NEW t \in Thread, Work(t) PROVE Once'
  <2>1. CASE EndThread(t)
    BY <2>1, OthersOnce DEF EndThread
  <2>. QED BY <1>3, <2>1, CompileOnce, FinishOnce DEF Work
<1>4. ASSUME NEW w \in Out, Write(w) PROVE Once'
  <2>1. CASE EndWriter(w)
    BY <2>1, OthersOnce DEF EndWriter
  <2>. QED BY <1>4, <2>1, WriterOnce DEF Write
<1>5. CASE Fault
  <2>1. CASE GlobalsIce \/ PreludeError \/ \E t \in Thread : Ice(t)
    BY <2>1, OthersOnce DEF GlobalsIce, PreludeError, Ice
  <2>. QED BY <1>5, <2>1, WriterOnce DEF Fault
<1>6. CASE UNCHANGED vars
  BY <1>6, OthersOnce DEF vars
<1>. QED BY <1>1, <1>2, <1>3, <1>4, <1>5, <1>6 DEF Next

(* Whatever fails, no function is written twice (mem::take empties the     *)
(* buffer that is sent, and a task belongs to one thread).                 *)
THEOREM WrittenOnce == Spec => []NothingTwice
<1>1. Init => Once
  <2>. SUFFICES ASSUME Init PROVE Once
    OBVIOUS
  <2>1. \A t \in Thread : todo[t] = ShareOf(t) /\ buffer[t] = <<>>
    BY DEF Init
  <2>2. \A w \in Out : queue[w] = <<>> /\ written[w] = <<>>
    BY DEF Init
  <2>3. \A t \in Thread : Mine(t)
    BY <2>1, BufferFacts, DistinctFacts DEF Mine, Held, ShareOf
  <2>4. \A w \in Out : Line(w)
    BY <2>2, BufferFacts, DistinctFacts DEF Line
  <2>. QED BY <2>3, <2>4 DEF Once
<1>2. Once => NothingTwice
  <2>. SUFFICES ASSUME Once, NEW w \in Out, NEW v \in Out, NEW i \in DOMAIN written[w],
                       NEW j \in DOMAIN written[v], written[w][i] = written[v][j]
                PROVE  w = v /\ i = j
    BY DEF NothingTwice
  <2>1. Gone(written[w][i], w) /\ Gone(written[v][j], v)
    BY DEF Once, Line, Text
  <2>2. w = v
    BY <2>1 DEF Gone
  <2>. QED BY <2>2 DEF Once, Line, Distinct
<1>. QED BY <1>1, <1>2, StepOnce, Inductive, PTL DEF Spec

(* The variables keep their types, and a buffer that is full has been      *)
(* sent before the next function is compiled (handle_tasks).               *)
THEOREM BuffersStayShort == Spec => []TypeOK
<1>. DEFINE Short == \A t \in Thread : Len(buffer[t]) < CHUNK_SIZE
<1>1. Init => Short
  BY PoolAssumption DEF Init
<1>2. IInv /\ Short /\ [Next]_vars => Short'
  <2>. SUFFICES ASSUME IInv, Short, [Next]_vars PROVE Short'
    OBVIOUS
  <2>. USE DEF mainVars, threadVars, outVars
  <2>1. CASE buffer' = buffer
    BY <2>1
  <2>2. ASSUME NEW t \in Thread, Compile(t) PROVE Short'
    <3>1. \A u \in Thread \ {t} : buffer'[u] = buffer[u]
      BY <2>2 DEF Compile, IInv, Types
    <3>2. Len(buffer'[t]) < CHUNK_SIZE
      <4>1. \/ buffer' = [buffer EXCEPT ![t] = <<>>]
            \/ \E f \in todo[t] : /\ buffer' = [buffer EXCEPT ![t] = Append(buffer[t], f)]
                                  /\ ~Full(Append(buffer[t], f))
        BY <2>2 DEF Compile, Taken
      <4>2. ASSUME NEW f \in todo[t], buffer' = [buffer EXCEPT ![t] = Append(buffer[t], f)],
                   ~Full(Append(buffer[t], f))
            PROVE  Len(buffer'[t]) < CHUNK_SIZE
        <5>1. f \in Fun /\ buffer[t] \in Seq(Fun) /\ buffer'[t] = Append(buffer[t], f)
          BY <4>2 DEF IInv, Types
        <5>2. Append(buffer[t], f) \in Seq(Fun)
          BY <5>1
        <5>3. Len(Append(buffer[t], f)) \in Nat
          BY <5>2
        <5>. QED BY <4>2, <5>1, <5>3, PoolAssumption DEF Full
      <4>3. CASE buffer' = [buffer EXCEPT ![t] = <<>>]
        <5>1. buffer'[t] = <<>>
          BY <4>3 DEF IInv, Types
        <5>. QED BY <5>1, PoolAssumption
      <4>. QED BY <4>1, <4>2, <4>3
    <3>. QED BY <3>1, <3>2
  <2>3. ASSUME NEW t \in Thread, Finish(t) PROVE Short'
    <3>1. \A u \in Thread \ {t} : buffer'[u] = buffer[u]
      BY <2>3 DEF Finish, IInv, Types
    <3>2. buffer'[t] = <<>>
      BY <2>3 DEF Finish, Taken, IInv, Types
    <3>. QED BY <3>1, <3>2, PoolAssumption
  <2>4. CASE Coordinate
    BY <2>1, <2>4 DEF Coordinate, SpawnFirst, PushFirst, CompileGlobals, WritePrelude, StartWriter,
        JoinWriters, WriterFailed, TakeHandles, JoinWorker, WorkerPanicked, Return
  <2>5. CASE Deal
    BY <2>1, <2>5 DEF Deal, SpawnNext, PushHandle, OwnShare
  <2>6. ASSUME NEW t \in Thread, EndThread(t) PROVE Short'
    BY <2>1, <2>6 DEF EndThread
  <2>7. ASSUME NEW w \in Out, Write(w) PROVE Short'
    BY <2>1, <2>7 DEF Write, Receive, EndWriter
  <2>8. CASE Fault
    BY <2>1, <2>8 DEF Fault, GlobalsIce, PreludeError, Ice, WriteError
  <2>9. CASE UNCHANGED vars
    BY <2>1, <2>9 DEF vars
  <2>. QED BY <2>2, <2>3, <2>4, <2>5, <2>6, <2>7, <2>8, <2>9 DEF Next, Work
<1>3. IInv /\ Short => TypeOK
  BY DEF IInv, Types, TypeOK
<1>. HIDE DEF Short
<1>. QED BY <1>1, <1>2, <1>3, Inductive, PTL DEF Spec
==============================================================================
