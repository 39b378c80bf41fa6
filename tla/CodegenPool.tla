----------------------------- MODULE CodegenPool -----------------------------
(***************************************************************************)
(* The threads of code generation (CodegenCoordinator::codegen): the       *)
(* coordinator starts one thread, which starts the others and compiles the *)
(* last share itself; each sends the C text of its functions over the      *)
(* channel of one writer; a writer ends when every sender of its channel   *)
(* has been dropped; the coordinator joins the writers, then the workers.  *)
(* Any of them may fail on the way.                                        *)
(*                                                                         *)
(* The text of a function is the function; each is one unit long.          *)
(***************************************************************************)
EXTENDS Naturals, Sequences

CONSTANTS
    NFun,           \* functions to compile: 1 .. NFun
    ThreadCount,    \* codegen_threads
    NOut,           \* output files, each with its channel and its writer
    CHUNK_SIZE,     \* a buffer this long is sent
    Faults          \* what can go wrong: "ice", "write", "prelude"

ASSUME PoolAssumption == /\ NFun \in Nat /\ ThreadCount \in Nat \ {0} /\ NOut \in Nat \ {0}
                         /\ CHUNK_SIZE \in Nat \ {0}
                         /\ Faults \subseteq {"ice", "write", "prelude"}

Fun == 1 .. NFun
Thread == 1 .. ThreadCount
First == ThreadCount            \* started by the coordinator; takes the last share
Out == 0 .. NOut - 1
Coordinator == 0                \* as the holder of a sender

VARIABLES
    main,       \* where the coordinator is
    result,     \* what became of codegen(): "ok", "err" or "panic"; the process then ends
    thread,     \* where each codegen thread is
    share,      \* the next share the first thread deals with
    todo,       \* per thread, the functions it still has to compile, in their order
    buffer,     \* per thread, Codegen.current_buffer
    senders,    \* per channel, who holds a sender of it
    queue,      \* per channel, the buffers sent and not received
    writer,     \* where each writer is
    written,    \* per output, what has been written
    handles,    \* join_handles
    toJoin      \* the handles the coordinator took out of it

mainVars == <<main, result, handles, toJoin>>
threadVars == <<thread, share, todo, buffer>>
outVars == <<writer, written>>
vars == <<mainVars, threadVars, senders, queue, outVars>>

(* Functions are dealt out in turn; channels too, from 1 on, but the first *)
(* thread's own share goes to channel 0.                                   *)
Owner(f) == IF f % ThreadCount = 0 THEN ThreadCount ELSE f % ThreadCount
ShareOf(t) == {f \in Fun : Owner(f) = t}
Channel(t) == IF t = First THEN 0 ELSE t % NOut

Init == /\ main = "spawn" /\ result = "none" /\ handles = {} /\ toJoin = {}
        /\ thread = [t \in Thread |-> "absent"] /\ share = 1
        /\ todo = [t \in Thread |-> ShareOf(t)] /\ buffer = [t \in Thread |-> <<>>]
        /\ senders = [w \in Out |-> IF w = 0 THEN {Coordinator, First} ELSE {First}]
        /\ queue = [w \in Out |-> <<>>]
        /\ writer = [w \in Out |-> "absent"] /\ written = [w \in Out |-> <<>>]

Running == result = "none"

-----------------------------------------------------------------------------
(* The codegen threads                                                     *)

Enter(t, here, there) == Running /\ thread[t] = here /\ thread' = [thread EXCEPT ![t] = there]

(* The first thread starts one thread after the other, each with a sender  *)
(* of its own, and pushes its handle after it has started.                 *)
SpawnNext ==
    /\ Running /\ thread[First] = "dealing" /\ share < ThreadCount
    /\ thread' = [thread EXCEPT ![First] = "pushing", ![share] = "compiling"]
    /\ senders' = [senders EXCEPT ![Channel(share)] = @ \cup {share}]
    /\ UNCHANGED <<mainVars, share, todo, buffer, queue, outVars>>

PushHandle ==
    /\ Enter(First, "pushing", "dealing")
    /\ handles' = handles \cup {share} /\ share' = share + 1
    /\ UNCHANGED <<main, result, toJoin, todo, buffer, senders, queue, outVars>>

OwnShare ==
    /\ Enter(First, "dealing", "compiling") /\ share = ThreadCount
    /\ UNCHANGED <<mainVars, share, todo, buffer, senders, queue, outVars>>

(* The receiver of a channel is gone when its writer gave up, and sending  *)
(* to it fails, which is ignored.                                          *)
Sent(w, b) == IF writer[w] = "failed" THEN queue ELSE [queue EXCEPT ![w] = Append(@, b)]

Full_OneLate(b) == Len(b) > CHUNK_SIZE
Full(b) == Len(b) >= CHUNK_SIZE

(* mem::take: what has been sent is not in the buffer any more.            *)
Taken_Cloned(b) == Tail(b)
Taken(b) == <<>>

(* compile_function appends to the buffer, which is sent when it is full.  *)
Compile(t) ==
    /\ Running /\ thread[t] = "compiling"
    /\ \E f \in todo[t] :
          /\ \A g \in todo[t] : f <= g
          /\ todo' = [todo EXCEPT ![t] = @ \ {f}]
          /\ LET b == Append(buffer[t], f)
             IN  IF Full(b)
                 THEN queue' = Sent(Channel(t), b) /\ buffer' = [buffer EXCEPT ![t] = Taken(b)]
                 ELSE buffer' = [buffer EXCEPT ![t] = b] /\ UNCHANGED queue
    /\ UNCHANGED <<mainVars, thread, share, senders, outVars>>

(* After the tasks, one final buffer.                                      *)
Finish_NoFinalBuffer(t) ==
    /\ Enter(t, "compiling", "ending") /\ todo[t] = {}
    /\ UNCHANGED <<mainVars, share, todo, buffer, senders, queue, outVars>>
Finish(t) ==
    /\ Enter(t, "compiling", "ending") /\ todo[t] = {}
    /\ queue' = IF buffer[t] # <<>> THEN Sent(Channel(t), buffer[t]) ELSE queue
    /\ buffer' = [buffer EXCEPT ![t] = Taken(@)]
    /\ UNCHANGED <<mainVars, share, todo, senders, outVars>>

(* What a thread owns is dropped at its end, or when it unwinds.           *)
SendersWithout(h) == [w \in Out |-> senders[w] \ {h}]

EndThread(t) ==
    /\ Enter(t, "ending", "done")
    /\ senders' = SendersWithout(t)
    /\ UNCHANGED <<mainVars, share, todo, buffer, queue, outVars>>

(* An internal compiler error.                                             *)
Ice(t) ==
    /\ "ice" \in Faults /\ todo[t] # {}
    /\ Enter(t, "compiling", "panicked")
    /\ senders' = SendersWithout(t)
    /\ UNCHANGED <<mainVars, share, todo, buffer, queue, outVars>>

-----------------------------------------------------------------------------
(* The writers                                                             *)

(* The prelude, which the coordinator made before it started the writer,   *)
(* comes first; then buffers as they come.                                 *)
Receive(w) ==
    /\ Running /\ writer[w] = "writing" /\ queue[w] # <<>>
    /\ written' = [written EXCEPT ![w] = @ \o Head(queue[w])]
    /\ queue' = [queue EXCEPT ![w] = Tail(@)]
    /\ UNCHANGED <<mainVars, threadVars, senders, writer>>

(* recv fails: nothing is queued and every sender has been dropped.        *)
Closed_NothingQueued(w) == queue[w] = <<>>
Closed(w) == queue[w] = <<>> /\ senders[w] = {}
EndWriter(w) ==
    /\ Running /\ writer[w] = "writing" /\ Closed(w)
    /\ writer' = [writer EXCEPT ![w] = "done"]
    /\ UNCHANGED <<mainVars, threadVars, senders, queue, written>>

(* An I/O error, of any write or of the flush, ends the writer and drops   *)
(* its receiver with what is queued.                                       *)
WriteError(w) ==
    /\ "write" \in Faults
    /\ Running /\ writer[w] = "writing"
    /\ writer' = [writer EXCEPT ![w] = "failed"]
    /\ queue' = [queue EXCEPT ![w] = <<>>]
    /\ UNCHANGED <<mainVars, threadVars, senders, written>>

-----------------------------------------------------------------------------
(* The coordinator                                                         *)

Main(here, there) == Running /\ main = here /\ main' = there
Exit(here, how) == Running /\ main = here /\ result' = how /\ UNCHANGED main

SpawnFirst ==
    /\ Main("spawn", "push")
    /\ thread' = [thread EXCEPT ![First] = "dealing"]
    /\ UNCHANGED <<result, handles, toJoin, share, todo, buffer, senders, queue, outVars>>

PushFirst ==
    /\ Main("push", "globals")
    /\ handles' = handles \cup {First}
    /\ UNCHANGED <<result, toJoin, threadVars, senders, queue, outVars>>

(* The initialisers of the globals are compiled by the coordinator, with a *)
(* Codegen that has the spare sender of channel 0 and is then dropped.     *)
AfterGlobals_KeepsSender == senders
AfterGlobals == SendersWithout(Coordinator)
CompileGlobals ==
    /\ Main("globals", "prelude")
    /\ senders' = AfterGlobals
    /\ UNCHANGED <<result, handles, toJoin, threadVars, queue, outVars>>

GlobalsIce ==
    /\ "ice" \in Faults
    /\ Exit("globals", "panic")
    /\ UNCHANGED <<handles, toJoin, threadVars, senders, queue, outVars>>

(* A prelude of its own is written before the writers start; if that fails *)
(* codegen() returns at once.                                              *)
WritePrelude ==
    /\ Main("prelude", "writers")
    /\ UNCHANGED <<result, handles, toJoin, threadVars, senders, queue, outVars>>

PreludeError ==
    /\ "prelude" \in Faults
    /\ Exit("prelude", "err")
    /\ UNCHANGED <<handles, toJoin, threadVars, senders, queue, outVars>>

StartWriter ==
    /\ Running /\ main = "writers"
    /\ \E w \in Out : /\ \A v \in Out : writer[v] = "absent" <=> v >= w
                      /\ writer' = [writer EXCEPT ![w] = "writing"]
                      /\ main' = IF w = NOut - 1 THEN "join_writers" ELSE main
    /\ UNCHANGED <<result, handles, toJoin, threadVars, senders, queue, written>>

(* The writers are joined in order; an error panics, and the scope then    *)
(* waits for those that still run.                                         *)
JoinWriters ==
    /\ Main("join_writers", "take")
    /\ \A w \in Out : writer[w] = "done"
    /\ UNCHANGED <<result, handles, toJoin, threadVars, senders, queue, outVars>>

WriterFailed ==
    /\ Exit("join_writers", "panic")
    /\ \A w \in Out : writer[w] \in {"done", "failed"}
    /\ \E w \in Out : writer[w] = "failed"
    /\ UNCHANGED <<handles, toJoin, threadVars, senders, queue, outVars>>

(* The workers are joined after the writers: the handles are taken out of  *)
(* join_handles once.                                                      *)
TakeHandles ==
    /\ Main("take", "join")
    /\ toJoin' = handles /\ handles' = {}
    /\ UNCHANGED <<result, threadVars, senders, queue, outVars>>

JoinWorker ==
    /\ Running /\ main = "join"
    /\ \E t \in toJoin : thread[t] = "done" /\ toJoin' = toJoin \ {t}
    /\ UNCHANGED <<main, result, handles, threadVars, senders, queue, outVars>>

WorkerPanicked ==
    /\ Exit("join", "panic")
    /\ \E t \in toJoin : thread[t] = "panicked"
    /\ UNCHANGED <<handles, toJoin, threadVars, senders, queue, outVars>>

Return ==
    /\ toJoin = {} /\ Exit("join", "ok")
    /\ UNCHANGED <<handles, toJoin, threadVars, senders, queue, outVars>>

Coordinate == \/ SpawnFirst \/ PushFirst \/ CompileGlobals \/ WritePrelude
              \/ StartWriter \/ JoinWriters \/ WriterFailed
              \/ TakeHandles \/ JoinWorker \/ WorkerPanicked \/ Return
Deal == SpawnNext \/ PushHandle \/ OwnShare
Work(t) == Compile(t) \/ Finish(t) \/ EndThread(t)
Write(w) == Receive(w) \/ EndWriter(w)
Fault == \/ GlobalsIce \/ PreludeError
         \/ \E t \in Thread : Ice(t)
         \/ \E w \in Out : WriteError(w)

Next == \/ Coordinate \/ Deal \/ Fault
        \/ \E t \in Thread : Work(t)
        \/ \E w \in Out : Write(w)

(* The operating system runs every thread that can run; nothing has to     *)
(* fail.                                                                   *)
Fairness == /\ WF_vars(Coordinate) /\ WF_vars(Deal)
            /\ \A t \in Thread : WF_vars(Work(t))
            /\ \A w \in Out : WF_vars(Write(w))

Spec == Init /\ [][Next]_vars /\ Fairness

-----------------------------------------------------------------------------
(* Properties                                                              *)

(* The types of the variables; a buffer that is full has been sent.        *)
TypeOK ==
    /\ main \in {"spawn", "push", "globals", "prelude", "writers", "join_writers", "take", "join"}
    /\ result \in {"none", "ok", "err", "panic"}
    /\ handles \subseteq Thread /\ toJoin \subseteq Thread
    /\ thread \in [Thread -> {"absent", "dealing", "pushing", "compiling", "ending", "done",
                              "panicked"}]
    /\ share \in Thread
    /\ todo \in [Thread -> SUBSET Fun] /\ buffer \in [Thread -> Seq(Fun)]
    /\ \A t \in Thread : Len(buffer[t]) < CHUNK_SIZE
    /\ senders \in [Out -> SUBSET (Thread \cup {Coordinator})]
    /\ queue \in [Out -> Seq(Seq(Fun))] /\ written \in [Out -> Seq(Fun)]
    /\ writer \in [Out -> {"absent", "writing", "done", "failed"}]

Text(s) == {s[i] : i \in DOMAIN s}

(* When codegen() returns Ok, every function has been written, and nothing *)
(* failed unnoticed or is still at work: no buffer is left in a thread, in *)
(* a channel, or with a writer that gave up.                               *)
NothingLost ==
    result = "ok" => /\ \A f \in Fun : \E w \in Out : f \in Text(written[w])
                     /\ \A t \in Thread : thread[t] = "done"
                     /\ \A w \in Out : writer[w] = "done"

(* No function is ever written twice: in one buffer, in two, or to two     *)
(* outputs.                                                                *)
NothingTwice ==
    \A w, v \in Out : \A i \in DOMAIN written[w], j \in DOMAIN written[v] :
        written[w][i] = written[v][j] => w = v /\ i = j

(* The coordinator takes the handles while other threads push them: it is  *)
(* late enough for none to be left out, because the writers end only after *)
(* the first thread has dropped its senders.                               *)
NobodyForgotten == [][main' = "join" /\ main # "join" => toJoin' = Thread]_vars

(* codegen() comes to an end, with failures and without: no writer waits   *)
(* for a sender that nobody will drop.                                     *)
Terminates == <>(result # "none")
==============================================================================
