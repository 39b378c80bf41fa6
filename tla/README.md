# PonieScript: a TLA+ model of its garbage collector and of its compiler

PonieScript is a small garbage-collected language that compiles to C. Three parts of it have
to agree for a program to be memory safe, and none of them can be tested well in isolation:

* **the concurrent collector** (`poniescript-gc/src/concurrent.rs`): a thread that stops and
  asks every mutator thread for its roots through a lock, a counter and a word of flags;
* **the cycle** it runs with the answers: hand-over of allocations, roots, repeated scans,
  tracing, sweep;
* **the shadow-stack frames** that generated code fills in before a call
  (`poniescript-core/src/codegen/single_codegen.rs`), which are all the collector ever sees of
  a function's locals.

A fourth part is modelled because it is concurrent as well: **the threads of code generation**
(`poniescript-core/src/codegen.rs`), with their channels, writers and joins. A fifth because
every pass of the compiler trusts it: **the arena** (`poni-arena`) that holds the syntax tree and
does Rust's borrow checking at run time, behind `unsafe`.

And then **the compiler itself**, from the tokens of a source to the call of the code generator:
the two parsers as stack machines, and the passes (binder, initialization order, type checker,
dead code elimination, closure conversion) in the order and with the error exits of `main()`, run
on families of whole programs. What each pass promises is used by those that follow it, and the
properties say those promises: it is there that a compiler breaks, and a test has one program.

The first five are model-checked on small instances with TLC and proved for all values of the
constants with TLAPS, as far as that goes; so are the two parsers, for sources and headers of any
length, the driver around the passes, and the order in which variables are initialized. The other
passes are model-checked.

Source paths are relative to `src/`. `PROJECT.json` maps every definition to its lines.

## 1. Inventory

| Component | State | Operations | Properties that make it correct | Here |
|---|---|---|---|---|
| Collector: threads, handshake, join (`poniescript-gc/src/concurrent.rs`) | `GC_FLAGS`, `gc_flags_mutex`/`_cv`, `outstanding_threads`/`_cv`, `available_threads`, `gc_request`, `gc_busy`, join handle; per context `flag` | `gc_thread_main`, `handshake`, `poll_slow`, `join`, `poll_until_cycle_finished`, `send_request`, `create_context_for_existing`, `free_context` | every question is answered once by every context; counter exact; no deadlock, no lost wake-up; requests served | modelled |
| Collector: cycle (same file, `hot_reload.rs`, `poni_gc.h`) | mark bits, `own_allocs`, `allocations`, `queue_queue`, mark queue, `GC_ALLOCATE_MARKED` | `alloc_raw_bytes`, `do_handoff`, `do_scan`, `collect`, `process_queue`, `sweep` | nothing reachable is freed; nothing is freed twice or leaked; garbage goes; the cycle ends | modelled |
| Code generator: frames (`codegen/single_codegen.rs`) | `GCFrame` (`next_alloc_slot`, `avail_slots`, `saved`, `written`), `block_scopes`, `TypedVal`s | `allocate_slot`, `free_slots`, `save_gc_values`, `Drop for TypedVal`, compile of blocks, `if`, calls, assignments | one slot per live value; what is live at a call is in the frame; the C is valid | partly |
| Code generator: threads (`codegen.rs`) | channels and their senders, shares and buffers, outputs, worker handles | spawn, deal out, compile, send, write, join | it ends; every thread is joined; no text is lost or written twice | modelled |
| Single-threaded collector (`single_thread.rs`, `lib.rs`) | allocation list, queue, threshold | `alloc`, `collect`, `visit_frames` | as for the concurrent cycle; frame layout agrees with `poni.h` | not modelled |
| Arena (`poni-arena/src/lib.rs`) | cells with borrow counts, keys, proxies | `push`, `get`, `get_mut`, `get_proxy`, `commit_proxy`, drops, iterators | readers xor writer per object; keys stable over a commit; references stay good | modelled, but for iterators |
| Parser (`parser.rs`, `module.rs`) | lookahead, scopes, scope name, closure, `fun_vars`, `in_member_initializer`, `had_error` | one function per production, error recovery in `block` | its own state nests as the source does; failures are reported; recovery ends | modelled |
| Parser of C headers (`glue/parser.rs`) | lookahead, brackets skipped, class being read | `top_level`, `var`, `fun`, `class`, `eat_until` | never takes the inside of a body for a declaration | modelled |
| Binder (`binder.rs`) | `name_map`, stack of `NameChecker`s | `resolve_unbound*`, `visit_type`, `visit_function`, `visit_class`, `bind` | a name gets the innermost entry that the function can reach | modelled, but for imported and local classes |
| Initialization order (`init_ordering.rs`) | visit marks, order | `push_dfs`, `topological_sort` | what an initializer reads comes first | modelled |
| Type checker (`typecheck.rs`, `typ.rs`, `db.rs`) | types of variables, functions and nodes; `current_class`, `return_types`, `break_exprs` | `check_expr`, `promote_expr`, `do_promote_expr`, `compute_assignable`, `compute_intersect`, `check_modules` | each value has the type of the place it goes to | partly |
| Dead code elimination (`dead_code.rs`) | the tree | `elim_expr`, `elim_stmt`, `elim_sequence` | what runs stays | modelled, but for a few expressions |
| Closure conversion (`closure_convert.rs`) | classes of closures, owners of variables | `visit_variable`, `replace_vars`, `identify_*` | a captured variable can be reached from `this` | modelled |
| Database and driver (`db.rs`, `error.rs`, `main.rs`) | interning tables, `errors` | passes in a fixed order, an exit code for each failure | no code for a program with an error; an error is told | partly |
| Code generator: text of expressions (`single_codegen.rs`, `builtins/`) | output buffer | one printer per expression | evaluation order; access through `this` | those two, as `Effects` and `Reach` |
| Lexer, source map (`lexer.rs`, `source.rs`) | position, line starts | next token; offset to line | - | what the lexer gives the parser (`NextToken`); the rest left out: functions of text |
| Runtime library (`poniescript-rt`, `poni.h`) | buffers, arrays | reserve, push, format | capacity suffices, contents survive growth | not modelled |
| Language server (`poniescript-lsp`) | document store, project caches | change, close, publish | diagnostics belong to the text shown | not modelled |
| Game host and hot reload (`ponyquad`, `poni_hot.h`) | library handle, function pointers, preserved globals | load, reload, frame loop | a failed reload leaves a usable program | not modelled |
| Build tool, documentation generator | none that lasts | read config, write files | - | left out: pure I/O |
| GC pointer wrappers (`pointers.rs`, `primitives.rs`) | none | - | rely on `NoDangling` | left out |

### How the modelled parts interact

    mutator thread                       collector thread
    --------------                       ----------------
    generated code                       gc_thread_main
      | save_gc_values -> gc_frame.ptrs    | waits on gc_request
      | poni_gc_alloc  -> own_allocs       | handshake(): outstanding := available,
      | poni_gc_poll   -> poll_slow  <-----|   GC_FLAGS := HANDOFF | SCAN(+DUMMY) | DEAD,
      |   do_handoff   -> allocator        |   notify gc_flags_cv, wait for outstanding = 0
      |   do_scan      -> queue_queue ---->| visit roots, take queues, trace, scan again
      |   outstanding -= 1, notify ------->| sweep

Shared state: the flags word, two mutexes that are held across another acquisition or a wait
(`gc_flags_mutex`, `outstanding_threads`), three condition variables, the request word, the
busy flag, the queue of queues, the allocator. They are taken in opposite orders by
`handshake()` (counter, then flags) and by `join` (flags, then counter), and only the protocol
keeps the two apart.

The compiler is one thread but for code generation:

    tokens -> Parser --.                        .-> errors: report_errors, exit 1 2 3 4 7
    headers -> Glue ---+-> db, ast -> bind -> order -> check -> dead code -> closures -> outputs -> generate
                             |          (Driver, Compiler: an action per pass; InitOrder)               |
                             `-- Arena: every pass works on a proxy and commits it      CodegenPool, GcSlots

The passes communicate through the database and the tree alone. A pass returns whether it failed;
some write to `db.errors` and return success, and `main()` has to look there as well.

### What is hard to test

`PROJECT.json` lists every hazard with its line. The groups:

* **Interleavings**: counter against flags (`concurrent.rs:222`), opposite lock orders
  (`:388`), a look at the flags and the sleep that follows (`:369`), a busy window that can be
  missed (`:253`), frames that move between scans (`:418`).
* **Sequences of legal calls**: a context created after a collection (`:536`); slots handed
  out, freed and handed out again over nested branches (`single_codegen.rs:382`).
* **Stale state**: marks that survive a cycle (`:152`, `:339`), slots written once and then
  skipped (`single_codegen.rs:718`).
* **Bounds**: own allocations handed over at 4096 in the middle of a cycle (`:106`), the
  counter at zero.
* **Liveness**: does the scan loop end (`:443`), does `join` return in the middle of a cycle
  (`:513`), is a COLLECT served that comes with a SHUTDOWN (`:566`).
* **Passes that rely on each other**: the class a captured variable is put in against the chain
  that the code generator follows (`closure_convert.rs:295`), what is found beyond the upper bound
  of a name lookup (`binder.rs:160`), types that become known after their expressions were checked
  (`typecheck.rs:579`), errors a pass writes down without failing (`main.rs:404`).
* **Recovery**: parser state that is put back by hand on each way out (`parser.rs:1834`), progress
  after an error (`parser.rs:1579`), messages that are suppressed (`parser.rs:163`).
* **Builds**: state changes inside `debug_assert!` (`single_codegen.rs:394`).

## 2. Modules

| Module | What it is |
|---|---|
| `Rendezvous` | abstract: the collector asks, every context answers that question once, the collector goes on |
| `GcHandshake` | the collector thread and the contexts, lock by lock; implements `Rendezvous` |
| `GcHeap` | abstract: a heap a program may rely on; the collector may only reclaim what cannot be reached |
| `GcCollect` | a collection cycle over that heap, its handshakes taken from `Rendezvous`; implements `GcHeap` |
| `GcSlots` | the code generator's frame of one function, with the C it emits run along one path |
| `CodegenPool` | the threads, channels and writers of code generation, with their failures |
| `BorrowRules` | abstract: a key names one object, an object has readers or one writer, a double borrow is refused |
| `Arena` | the cell, its proxy, their tables and the borrows; implements `BorrowRules` |
| `Parser` | the recursive-descent parser over its tokens, its call stack a variable |
| `Glue` | the parser of C headers, likewise |
| `Syntax` | what `main()` does with both: imports, then sources; instantiates `Glue`, extends `Parser` |
| `Db`, `Types`, `Program` | the state of the database, its errors and the nodes; types with assignability and intersection; what the passes ask of both |
| `Binder`, `Typecheck`, `DeadCode`, `Closures` | one pass each, as an operator from a state of the database to the next |
| `InitOrder` | the pass that sorts variables, as a machine: one action per kind of node that the search comes to, its call stack a variable; and what the order is for |
| `Driver` | `main()` after the parsers, around `InitOrder`: one action per pass (one per declaration for the type checker), with its exits; what the other passes do is a parameter |
| `Compiler` | `Driver` with the passes |
| `Typed`, `Effects`, `Reach` | what the code generator relies on: types of places, runs of a program before and after, access through `this` |
| `GcHandshakeProofs`, `GcCollectProofs`, `GcSlotsProofs`, `CodegenPoolProofs`, `ArenaProofs`, `GlueProofs`, `SyntaxProofs`, `DriverProofs` | the theorems |
| `MCGcHandshake`, `MCGcCollect`, `MCGcSlots`, `MCCodegenPool`, `MCArena`, `MCSyntax`, `MCCompiler` | sets, vocabularies, programs, symmetry and operator choices for TLC |

The composition is by abstraction: `GcHandshake` shows the locks and counters to implement
`Rendezvous` (`RvSafety`, `RvSpec`); `GcCollect` has an `INSTANCE` of `Rendezvous` and takes
`Ask`, `Answer` and `Proceed` from it, so that the cycle need not carry the places of the mutexes along. `GcCollect` takes a context's frame at its word: it is the set of pointers
the context holds. Whether generated code really puts them there is the question of `GcSlots`.

### GcHandshake

One action per step between two points where another thread can act. `gcpc` is where the
collector thread is in `gc_thread_main`/`collect`/`handshake`, `pc[c]` where a mutator is in
`poll_slow`, `join` or `poll_until_cycle_finished`, `call[c]` which of the latter two it is in.
A mutex is its owner; a condition variable is the set of its sleepers, and a notify empties it;
`SpuriousWake` takes anybody out at any time. Critical sections that take no second lock and do
not wait are one step. The poisoning of a mutex by a panic is the missing step in `PollAck`:
`poll_slow` is `extern "C"`, so the panic of its `unwrap` aborts the process. `poni_gc_poll`'s
fast path reads the flags without a lock; that is `PollNew`/`PollSame`, one read of an atomic.

What a program may do is the constant `Calls`. The header asks some things of the embedding and
they are guards: at `join` and at a SHUTDOWN every other context is gone (`OthersGone`).

### GcCollect

One action per handshake answer, per root visited, per object traced, and per step of
`collect`. Objects hold one pointer, which gives chains, cycles, sharing and garbage; `NONE` stands
for a place whose type the generated visitors leave out, `NULL` for the null pointer in a place that
they do visit: a global before its initializer has run, or an optional place that holds nil (a
function value without a closure is another). They give `poni_gc_mark` whatever is there
(`codegen.rs:408`, `414`, `532`, `543`), and the concurrent one reads a header behind it without a
look (`concurrent.rs:472`): that is `Crash`, the end of the process. `Ops`
are the program's heap operations (`"nil"`: it has optional types), `CycleOps` those it may use while a cycle runs. `KeepsMark`
says whether setting the tag of a new object keeps the mark bit it was born with:
`poni_gc_alloc_tagged` and `alloc<T>` both store the whole header word, so it is FALSE in all
runs; the proofs do not depend on it. `snapshot` is history.

### GcSlots

`Codegen` walks a function, so the compiler's state (`frame`, `held`, `blocks`) and the run of
the emitted C (`ptrs`, `scope`) are in one state machine: each step emits C, and runs it if
the innermost block is on the path. `OpenIf(own, c)` chooses the path. A loop is an `if` whose
body is emitted once. `stale` is history: values that were assigned after their slot was
written, or whose slot was first written in a branch the path did not take.
`DebugAssertions` is the build: `allocate_slot` and `free_slots` change `saved` inside
`debug_assert!`, which a release build compiles away.

### CodegenPool

`main` is where the coordinator is in `codegen()`: it starts the thread with the last share and
compiles the initialisers of the globals meanwhile, with the spare sender of channel 0; that
thread starts the others, each with a sender of its own. A channel is a sequence of buffers and
the set of those who hold a sender; it is closed when both are empty. A thread that panics
unwinds, and what it owns is dropped, its senders too. `Fault` holds what can go wrong: an
internal compiler error in a function or an initialiser, an I/O error of a writer or of the
prelude. `result` ends the system: the process exits with what `codegen()` returned. The text of
a function is the function, one unit long, and `CHUNK_SIZE` counts units.

### Arena

`owner` is who can be used: the cell, a proxy that borrows it mutably, or the read-only arena it
was turned into. What Rust checks at compile time is a guard: a function that takes `self` or
`&mut self` needs that no borrow lives (`Free`), one that takes `&self` does not. Keys count from
1, as the `NonZeroU32` of the code does; `Where` and `Index` are the split at `parent_len()`. A
borrow (`guards`) remembers its parent and its key, as `ArenaBorrow` does in a debug build, and
the address it was made with. `buffer` and `boxes` are the buffers of the two vectors: a push may
move them or not. Every proxy is committed in the end, as in all passes (`binder.rs:1027`,
`typecheck.rs:3135`, `dead_code.rs:474`). `KeepsRules` reads the tables off: `BorrowRules` knows
objects where `Arena` knows keys and indexes, so a commit that swapped two objects, or a counter
that was forgotten and made an innocent pass panic, would not be a step of it.

### Parser, Glue, Syntax

`stack` holds what the active functions of the parser still have to do, and a production is an
action that replaces its own entry by the entries of its body; so every state between two tokens is
a state of the model. `?` is one operator, `SyntaxError`: it throws entries away up to the nearest
block, which is the only place that catches, and with them the entries that would have put
`scopes`, `closure`, `path`, `fun_vars` and `in_member_initializer` back. `env` holds these. The
tokens of a source are chosen as they are taken, from one vocabulary. Panics of the parser end in a
`pc` of their own. Of the tree only the kind of the last expression is kept, since that is what the
parser looks back at. The lexer gives a token, the end of the file, or, for a character it does not know, what looks like
the end though more tokens may follow (`NextToken`). `Glue` has the brackets it has taken as history
(`gOpen`), and `Syntax` those of a source (`brackets`, as long as it has no error), which
`AcceptsOnlyNested` is about: whatever message was suppressed while recovering, a source with
brackets that do not pair does not get to the binder.

### Db, Program, the passes, InitOrder, Driver, Compiler

A state of the database is a record: the tree as a sequence of nodes (kind, children, type, and
what the kind needs), variables, functions, classes, closures, `name_map`, the declarations of
the modules, and the three ways to fail: `had_error`, `db.errors`, a panic. A pass is an operator on
it that follows the functions of its source file, early returns included: an `Err` keeps what was
changed so far. `Visit` in `Typecheck` is one recursive operator for `check_expr`, `promote_expr` and
the checks of declarations, which call each other. Interned types are values. The tree stands in for the arena, whose rules are those of
`Arena`; every pass commits its proxy.

`InitOrder` is the exception. `push_dfs` and the visitor call each other to any depth, and here their
stack is a variable, so that the ordering can be proved about without recursion. `search.stack` has what is still
to be done, the next thing first: `visit` a node, put a variable into the order once its
initializer has been visited (`push`), go through the initializers of a `class` that a `new`
constructs, one by one (`init`), and `leave` a function or a class. `search.map` is the visitor's map.
What makes the code's stack overflow, a function or a `new` inside of itself with no
variable entered in between, is the panic of `Enter`. As in `main()`, the list that is sorted is
taken out of the database meanwhile: a `new` of that class finds no initializers in it
(`SortGlobals`, `SortClass`, `PutBack`; the globals are put back before the classes are sorted
rather than after, since nothing reads them there).

`Driver` extends it and runs the passes as `main()` does: `BindPass`, the ordering (`OrderGlobals`,
`OrderStep`, `OrderEnd`), `Signatures` and one `CheckPass` per declaration (the type checker goes on after an error), `Checked` with the functions of `--bind`,
`DeadCodePass`, `ClosurePass`, `Outputs`, `Generate`, `TestCompiled`. What the operating system and the C compiler do,
and whether the code generator panics, is nondeterministic. `exit` is the exit code, and `report_errors` turns it
into the verdict of a test. `before` keeps the tree for the comparison of `SameEffects`. `Driver`
knows no more of the other passes than a parameter (`DoBind`, `DoCheck`, ...) and what `PassesReport` says of
it, and can be reasoned about without the trees; `Compiler` extends it with the modules of the
passes, and `Compiler.cfg` gives the parameters their operators.

The properties are stated with what the code generator does, since that is who believes the passes:
`Typed` says which type each child of a node must have for the C to be right; `Effects` gives the
runs of a body as sequences of prints, with both outcomes of a condition, in the order in which the
C evaluates (the value of a write to a member before its object, the arguments of a builtin before its object); `Reach` walks the generated access paths (`get_class_list`, `lookup_var_in_parent`,
`find_function_depth`).

## 3. Runs

| Run | Bounds | Question and answer |
|---|---|---|
| `handshake_safety` | 3 contexts; polls, requests, leaving, join, poll-until; 2 COLLECTs, 2 scans | `TypeOK`, `CountExact`, `NoLockCycle`, `ScansComplete`, `NoLostWakeup`, `SettledBeforeNext`, refinement `RvSafety` hold |
| `handshake_live` | 2 contexts; join; 2 COLLECTs, 2 scans | `RequestServed`, `JoinReturns`, refinement with liveness `RvSpec` hold |
| `handshake_panic` | 2 contexts; late | **violated**: `HandshakeNeverPanics` |
| `collect_reads` | 2 contexts, 3 objects, 1 global, THRESHOLD 2, 2 cycles; any operation between cycles, loads and forgets in them | `NoDangling`, `TrackedOnce`, `CleanWhenIdle`, `FreesExactly`, `NullIsFatal`, refinement `ImplementsHeap` hold; 895,157 states |
| `collect_ends` | 2 contexts, 2 objects, 1 cycle; allocation, stores of pointers and of nil, loads in it | `CycleEnds` holds |
| `collect_stale` | 1 context, 2 objects, 2 cycles; allocation and stores in them | **violated**: `NoDangling` |
| `slots` | 3 values, 4 slots, 3 nested blocks, debug build | `TypeOK`, `SlotsExclusive`, `SavedUnlessStale` hold |
| `slots_release` | as above, release build | **violated**: `SavedAtCall` |
| `arena` | 3 objects, 3 borrows at a time | `TypeOK`, `CountsExact`, `NoAlias`, `BorrowsValid`, refinement `KeepsRules` hold |
| `codegen_pool` | 3 threads, 2 outputs, 5 functions, buffers of 2; every failure | `TypeOK`, `NothingLost`, `NothingTwice`, `NobodyForgotten`, `Terminates` hold |
| `syntax` | sources of up to 8 tokens from 11 vocabularies; headers of up to 8, 9 and 11 tokens from 3 | `Balanced`, `AcceptsOnlyNested`, `Aligned`, `ParsersEnd` hold; 759,173 states |
| `compiler` | 8,338 programs with their command lines, in nine families; loops of 2 turns; 325,681 states | `StopsAtErrors`, `PassesReport`, `InOrder`, `WellTyped`, `SameEffects`, `ThisReaches` hold |

### Why the bounds are enough

* *Handshake.* Every property relates the collector to one context or two contexts to each
  other; a third gives the counter a value that is neither first nor last. Two scans have
  different flags, which is all the dummy bit is for; a third repeats the first. Two COLLECTs
  make one coalesce with, precede or follow the other. `WORD` is 8 rather than 2^64: it only
  has to exceed the number of contexts for the wrap-around to be visible. The safety properties
  are also proved for any number of contexts, requests and scans. `MaxRounds` cuts the scan
  loop; that it ends by itself is `CycleEnds` of `GcCollect`.
* *Collect.* Three objects give a chain whose middle is known to nobody else, a cycle and an
  unreachable pair; two contexts let a pointer pass from one frame to the other between two
  scans; two cycles show what the first leaves behind. `CycleEnds` is checked with two objects:
  a bounded `Obj` also bounds the number of scans, so the run does not show that a program
  cannot keep the cycle going by allocating for ever. (It cannot with what is allocated in the
  cycle and born marked; it can with what the tag unmarks, since each scan then finds news.)
* *Slots.* Three values fill an `if` with its value, the kept value of its then branch and one
  variable; four slots are one more than three values can hold. Depth 3 is a branch in a
  branch. Steps only concern the innermost block and the frame.
* *Pool.* Three threads are one the coordinator starts and two that it starts in turn; two
  outputs make two threads share a channel while the third is alone with the globals' sender;
  five functions give shares of two and of one, and with buffers of two a buffer that is sent
  full, one that is sent at the end, and a thread with nothing left for its last buffer.
* *Syntax.* Each vocabulary can write the constructs of one part of the grammar and break them at
  every token. The longest way to a state that matters is a declaration in a block in a function
  with an error inside: seven tokens. Lexer errors are possible at one kind of token.
* *Compiler.* All programs share their declarations: two globals, a class with two variables, a
  method and a class inside of it, two functions, one of which has a parameter of each type; the
  holes differ. `Lines` has every command line with a good program and with one that each pass
  rejects. `Orders` has every way in which two globals and two variables of a class can need each
  other directly, through a function or through a class. `Namings` uses each kind of name in a
  method, in a method of an inner class, in a function and in an initializer. `ClosureTests` has
  functions in functions, loops and methods, in each other and side by side, that read each
  combination of two of the variables around them. `Typings` puts every leaf, every unary and every
  binary combination of a few into a variable of every kind of type, or of none; `Uses` does the
  same for members, elements, builtins and loops, `Annotations` and `Lambdas` for types that are
  declared or inferred. `DeadCodes` has two parts that print, return or both in the kinds of
  expression that `Mixes` lists, and the places where the pass loses something next to the like where it does
  not (`Losses`), in a statement, a declaration and a branch. Two turns of a loop show what comes after
  `break` and after `continue`.
* *Arena.* Three objects are one in the cell and two in a proxy, whose order the commit must
  keep, or two and one; three borrows are two readers and one that comes between. The arena goes
  round from cell to proxy or read-only and back as often as it likes.

### Fairness

* `GcHandshake`: strong fairness of the collector's step and of each context's poll or call
  step. The operating system runs every thread that can run; it has to be *strong* because a
  step that takes a mutex is enabled and disabled again while others take it, and because
  spurious wake-ups could otherwise starve a waiter for ever. Polling is owed: ponyquad's frame
  loop polls each frame, and generated code at its safepoints. No *request* or other call is owed.
* `GcCollect`: weak fairness of `Cycle` and of each context's `Poll`; nobody owes a collection.
* `GcSlots`: none; it is a compiler and one path, and all its properties are safety. `Arena`:
  none either, for the same reason.
* `Syntax`: weak fairness of its one thread. `Driver`, `Compiler`: none; all their properties are safety, and the
  search for an order does not always end.
* `CodegenPool`: weak fairness of the coordinator, of the dealing, of each thread and of each
  writer: the operating system runs them, and each, once it can take its step, can go on being
  able to. `Fault` is left out: nothing has to fail.
* `CHECK_DEADLOCK FALSE` where the system may stop: after `join` the collector thread has
  returned and its contexts have no more calls; a panicked collector; a process that a NULL has ended; at the bound on cycles a
  program without operations; `CodegenPool` when `codegen()` has come to its end; `Arena` after a panic; `Syntax` and `Compiler` when `main()` has returned. The other runs check for deadlock.

## 4. Proofs

All theorems are checked by TLAPS to the last leaf. They assume the named assumptions of the
modules and nothing else: `CtxAssumption`, `CallsAssumption`, `BoundAssumption` (fewer
contexts than a counter can count), `HeapAssumption`, `CollectAssumption`, `SlotsAssumption`,
`PoolAssumption`, `DatabaseAssumption` (the parser left no errors behind).

**`GcHandshakeProofs`.** `TypeCorrect` holds for every choice of `Calls`. For programs without
late contexts `Inductive` proves an invariant from which the rest follows. `CountExact` alone
is not inductive: that `outstanding` counts the unanswered is preserved by `StoreFlags` only if
*nobody* is unanswered then, i.e. every context has the flags that are stored and works on no
others; and an answer only decrements what it was counted in because `flag[c] = flags` while a
context works. So the invariant says, for each place of the collector, whether the contexts are
settled (before the flags are stored, and after the count came to 0), and who still has what
flags otherwise. The number of queued vectors is tied to it: a context has pushed its scan if
and only if it is done with the working step of this round. `NoLockCycle` falls out: at
`hs_flags` everybody is settled, and the holder of `gc_flags_mutex` then has nothing to answer.
From the same invariant come `SettledBeforeNext` and the refinement of `Rendezvous`.

**`GcCollectProofs`.** `EverythingTracked` holds for every program. `Inductive` is for programs
whose `CycleOps` are loads and forgets (that restriction is the hypothesis `ReadsOnly` of the
theorems; the run `collect_stale` shows that it is needed). The
invariant is: what is marked and not in the queue has only marked successors; every marked
object is live; while tracing, roots already visited are marked; and the part that makes
repeated scans work: when a scan of a context found nothing new, everything in its frame was
marked then, and a load from a marked object whose successors are marked keeps it so. At the
sweep the marked set is therefore closed and holds the roots, hence contains `Reachable`
(which is defined as an intersection of closed sets, so that no recursion or induction is
needed). `FreesExactly` needs the converse too: marks are only given to what could be reached
at `Begin`, which `snapshot` remembers. `NullEndsIt` uses both: a root or an object that is visited has
been marked, so the NULL that ends the process was within reach at `Begin`, and at the sweep
everything within reach has been visited without one.

**`GcSlotsProofs`.** `TypeCorrect` is for both builds: what holds slots in the open blocks is
kept apart, and the value of an open branch waits without a slot (`Structure`). For a debug
build `Invariant` adds `Kept`: the frame's books are exact (`FrameExact`), and a written slot
of a value that is not stale holds that value; `CallSaved` adds that between save and return
every saved slot is written. `FrameExact` is preserved by the four ways of ending a block or branch only
because the slots freed there are held by that block's variables and by nobody else, which is
what `Structure` is for. `SlotsAreExclusive` and `SavedWherePossible` follow.

**`CodegenPoolProofs`.** Why may the coordinator take the handles when it does, without a lock
around the whole? Because the writers have ended by then; so no channel has a sender; so the
first thread, which holds one of each while it deals, is past dealing; so it has pushed every
handle (`AllAreJoined`). And why is nothing lost when `codegen()` returns Ok? The invariant says
where each function's text is: still to be compiled, in its thread's buffer, in a channel, or
written, unless a writer failed. A thread that is done has nothing left and an empty buffer, a
writer that is done has an empty channel and no senders, and Ok is only returned when all of
both are done (`OkLosesNothing`). What makes that inductive is that whoever may still send
holds a sender, and keeps it until it has nothing more to send. That nothing is written twice
(`WrittenOnce`) holds even when writers fail. Its invariant, `Once`, is that a function is with its
owner, in one buffer of the owner's channel, or written, and nowhere else; each step either leaves
what a thread holds or moves it on (`Shrinks`), so a function that has gone never comes back to be
sent again. `BuffersStayShort` is the type invariant.

**`ArenaProofs`.** `CountsExact` is not inductive by itself: `Drop` takes a count back where the
borrow says it was taken from, and that is the right entry only if the key has not moved since
(`Parents`), which holds because a commit needs all borrows gone. A mutable borrow clears a flag
when it is dropped, which is right only if it was the only one (`Exclusive`). With these,
`BorrowsAreSound` and the refinement follow: a key's guards are the guards of its object since no
object is there twice (`Distinct`). There are no assumptions on the constants. The question the
code asks itself in `commit_proxy` ("Do we need to copy the borrowed value from the Proxy?",
`lib.rs:405`) has the answer no: the proxy's tables are blank by then (`BlankTables`).

**`GlueProofs`.** `Aligned` relates the brackets that are open to the one call that is about to
run; to be inductive it has to speak of all calls that are still to come back. So each entry of the
call stack is given what it does to the open brackets (`Fits`): `(` and `{` open one, `)` and an
`eat_until` close the one they were called for, the members of a struct start and end inside its
braces, everything else leaves things as they are. `Along` chains them: some sequence of open
brackets leads from what is open now, entry by entry, to nothing open at the end. The parser of
headers never catches an error: the first one throws the whole stack away, and `Along` has nothing
left to say.

The proof found a mistake in the property. As it was stated before, `Aligned` excused structs with
a brace inside only, and held on every header of up to eleven tokens; the induction failed at
`EatUntil`, and the state it failed in can be reached with fifteen:
`PS_CLASS() struct X { PS_VAR() int x } ; PS_VAR()`. A variable without its semicolon lets
`eat_until(Semicolon)` take the `}` of the struct, and the parser then takes the rest of the
header for members of it. `gDb.unended` records that it happened, and `Aligned` leaves such headers
out; it is now a theorem for headers of any length (`GlueAligned`).

**`SyntaxProofs`.** `Balanced` counts, on the call stack, the entries that will put back a scope, a
closure, a part of the name, `fun_vars` or `in_member_initializer`. Counts are not enough:
`LeaveClosure`, `FunEnd` and `MemberEnd` restore what was *saved in their entry*, so the invariant
says of every such entry that what it saved is right for the entries under it (`Saved`), at every
depth. What is handed on to be called later (the element of a `list`, the option of a `maybe`) must
not be one of them (`Sound`). After an error that travelled up only the last part of `Balanced` is
left, that there is a scope for every `pop_scope` to come: `SyntaxError` cuts the stack at the
nearest block and so only ever removes entries, and a caught error leaves scopes behind rather than
taking one too many. Most actions replace one entry that puts
nothing back by others (`Plain`), and one lemma, `GoOn`, serves them all. The theorems are about
`SyntaxSpec`, the parsers in the order in which `main()` runs them, for a header and a
source of any length: `SourcesBalanced` and `HeadersAligned`, which takes the invariant of
`GlueProofs` through the instance. The invariant was checked by TLC on sources of up to seven
tokens before.

**`DriverProofs`.** Both theorems are for every program, every command line and whatever the passes do,
as long as they report as `PassesReport` says: that is their hypothesis, an action property that
the run `compiler` checks of the real passes. It includes that the binder leaves what can be
sorted (`Sortable`: what nodes name is there, and each list has the declarations that belong in it).

*No code for a program with an error, and no pass after a panic* (`DriverStops`). The invariant adds what
is known of the errors between the passes (`Known`): after the binder there may be some that it
did not return, which the look at `db.errors` after the sorting finds; the type checker's result is
exact, and must be, since `--pretty-print` returns 0 on its word alone. A pass added to `main()`
has to be one of the two kinds, or the proof stops there.

*Variables are initialized before they are read* (`VariablesInOrder`), through any chain of
functions and classes. That the order is right when the pass is over says nothing of the
middle of a search, so the invariant (`Searching`) has to say what a half-done search is good for.
Its parts:

* `Marks`: each variable of the list is in the order, or its entry is in the map; the entry is
  `TRUE` for what the search is inside of (a `push` on the stack, one for each) and for what it
  has ordered; what is neither is still in the queue. So nothing is lost or ordered twice.
* `Ready`: for each variable of the order there is a set of nodes that has its initializer,
  has with each node all that runs with it (`Covers`), and reads nothing of the list but what is further to the
  front. Such a set contains everything in `Running`, whatever its depth.
* `Half`: the same for each `push` on the stack, but with a set that is closed only *up to* what
  the items above it are still going to visit, and reads only what is ordered or is pushed by an item above. When the
  item comes to the top nothing is above it, `Half` becomes `Ready`, and the variable goes to the
  end of the order.
* `Others`: lists that have been sorted stay sorted, those that come later are untouched, and
  the one being sorted is empty in the database.

The two middle parts hold as long as no error has been written down. A step replaces the first item of
the stack by others, and one lemma, `ReplacedAt`, says when that keeps `Half` for all the items
below; each action has then to show where the nodes went: into the new items, or into the
set (`XKeeps`, one lemma for each). What the search skips, it skips for a reason that the proof has to
give: a variable that is not in the map belongs to another list or is ordered already; one
with `TRUE` is an error. `Searching` was checked by TLC on the run `compiler` before it was
proved. It shows as well what the order relies on: that a variable node has no children, and that no two
variables have one declaration.

`Running` is a recursive function. What it computes is proved by induction in terms of a set: a set of numbers
that has 0 and with each number the next is `Nat`, by the least element that is missing
(`Induction`, from `WFMin`); so such a function exists (`SomeGrows`), and is below each
closed set (`RunningWithin`).

**Only model-checked**: liveness (`RequestServed`, `JoinReturns`, `CycleEnds`, `Terminates`,
`ParsersEnd`, and the liveness half of `RvSpec`), since ENABLED and fairness are out of the prover's
reach; `AcceptsOnlyNested`, which would need for each production what `Along` has for the headers; and what the other passes promise: `WellTyped`, `SameEffects`, `ThisReaches` and
`PassesReport`. Those passes are `RECURSIVE` operators over trees that they change as they go, and such a
module has no SMT backend. Written as machines, as `InitOrder` is, they could be proved about in the same way.

## 5. Where the code and its documentation disagree

Shown by a run (see `findings` in `PROJECT.json`):

1. A context created after a collection answers a question it was not asked; the counter wraps
   and the next handshake panics (`handshake_panic`).
2. A mark given during a cycle to an own allocation survives into the next cycle, which then
   frees what only that object holds (`collect_stale`).
3. In a release build of the compiler no value is ever saved (`slots_release`).

Met while modelling, without a run of their own. In the collector and the frames:

* An object allocated in a cycle is born marked, but setting its tag stores the whole header
  word (`concurrent.rs:127`, `:163`); it is swept if the threshold hands it over in time.
* Stores have no write barrier (`single_codegen.rs:2621` says so); a store during a cycle can
  hide an object from it. This is why the theorems are about programs that only read then.
* `free_context` does not lower `available_threads` (`concurrent.rs:606`); after it a handshake
  waits for ever. `poni_gc.h:106` mentions this for join.
* A slot that was written is never written again, so a reassigned variable is saved with its
  old pointer (`single_codegen.rs:718`), and one first saved in a branch not taken is not saved
  at all. `SavedUnlessStale` excuses exactly these. The shortest path in a debug build:
  `x = new A; f(); x = new A; f()`. The first call allocates a slot for `x`, writes it and notes it in
  `written`; the second finds it there and writes nothing, and a collection in it sees the old
  object, but not the one that `x` holds (`SavedAtCall` says that it should).
* A NULL within reach ends the process at the next collection (`NullIsFatal`; the single-threaded
  `poni_gc_mark` checks, `single_thread.rs:67`). Globals are NULL until their initializers have run,
  and a function value may have no closure (`.closure = NULL`). The collection at exit that a test
  asks for (`poni_standalone.h:33`) is meant to make "sure that GC integration at least basically
  works"; it does so for programs without such a place.
* `new` allocates before it evaluates its initializers (`single_codegen.rs:1868`), and the memory is not
  cleared: a collection in one of them visits what was there before. `New` of `GcHeap` is one step.
* An object that is handed over by the threshold between the last scan and the sweep is freed while
  it is held (`concurrent.rs:106`); and a program that allocates between any two scans keeps the
  cycle going. The runs do without: see their programs and bounds.
* Parameters have no slots (`single_codegen.rs:2706`), and global initialisers and `poni_init`
  are compiled with frames disabled (`codegen.rs:763`).
* The single-threaded collector queues frame candidates without marking them
  (`single_thread.rs:123`), and `GcFrame::read_ptr` skips 16 bytes of a header that `poni.h`
  declares with 24.
* `send_request(SHUTDOWN); poll_until_cycle_finished(); join_gc()` can sleep for ever, which its
  comment (`concurrent.rs:232`) says it avoids: the busy window may have passed before the wait.
  And `mark_not_busy` notifies `gc_flags_cv` without `gc_flags_mutex` (`concurrent.rs:374`): a
  notify between the caller's look at `busy` (260) and its sleep (258) is lost.
* The then value of an `if` keeps its slot in the else branch, where its C variable is not in
  scope (`single_codegen.rs:1185`; the comment at 2811 says that what is sent is always valid C).

In the parsers and the driver; the models do what the code does:

* `class A { fun () {} }` panics at an `unwrap` that a comment calls safe (`parser.rs:1972`).
* An early return leaves `in_member_initializer`, the closure, the scopes and `fun_vars` as they
  are, and code that follows an error is then reported falsely. The first half of `Balanced` is
  about sources without an error that travelled up.
* A brace inside a struct of a header ends the struct (`glue/parser.rs:259`), and a variable without
  its semicolon takes the brace that ends it along (`glue/parser.rs:491`); `Aligned` leaves such
  structs out. `PS_MEMBER` outside of the known forms is a `todo!()`.
* `do_c_modules` parses the first import only (`main.rs:217`).
* A source whose last character is not recognized has no error: the lexer gives an end of file for such a
  character, without being at its end, and the parser believes it (`lexer.rs:616`).
  `NextToken` does so too, and tokens may follow such an end.
* A token that comes with a lexer error suppresses the parser's message, and a lexer error that upsets
  no production sets no `had_error`: `main()` finds it in `db.errors` after the ordering only. The
  inputs of `Driver` are sources without such an error (`DatabaseAssumption`).

In the passes; again the models do what the code does, and the programs or the property leave out
what breaks it, as said here:

* `push_dfs` keeps its marks, so two ways to one variable are reported as a cycle
  (`init_ordering.rs:17`); such a program stops there. A function that calls itself, in an
  initializer, makes the search endless. While the variables of a class are sorted they are not in
  the class (`main.rs:369`), so a `new` of that class in one of its own initializers is not followed;
  `InOrder` leaves that out, since it initializes the variables of another object. The object of a `new` is not visited, and methods called on objects are not followed; the
  families have no initializer that does either.
* `had_error` of imported functions is dropped, and an unresolved C struct is only reported; the
  driver's look at `db.errors` catches both. Local classes are not found, since the function's name is not on their
  path.
* An expression that is checked again after a promotion panics ("Tried to typecheck Promote"), as
  in `make(1).go()`; so do `(1, return) * 2`, a tuple promoted to an option of a tuple, and a range
  promoted to an option. A panic is an end of the model as it is of the compiler.
* A `break` is converted to what the loop is wanted as rather than to the loop's type
  (`typecheck.rs:889`, against the comment there): `let s: str_buf = loop { break "x" }` converts
  twice. `WellTyped` leaves out loops that are converted themselves.
* Options of value types have no code yet (`todo!` at `single_codegen.rs:2477`); `Unfinished`.
* A variable of a class that is read before the class has been checked is `Unassigned`, which goes
  anywhere; and a literal that is assigned through a range property stays open. The programs do
  without.
* An `if` without `else` whose branch does not return is taken for an expression that does not
  return (`dead_code.rs:255-260`, against the comment at 235-239): `print(if c { return }); print(2)`
  loses the second print. In a statement it is the type that counts, and nothing is lost. And when an
  argument of a call does not return, what is kept are the arguments, but not the callee
  (`elim_sequence`), which the C evaluates before them: `{ print(1); g }(return)` loses the print.
  Both are in `DeadCodes`; `SameEffects` excepts functions that have such a place (`Loses`), and
  without either part of the exception TLC finds it violated.
* An initializer in `object.new B { m: 1 }` is looked up before the type is known (`binder.rs:597`) and
  always rejected; `tests/closure/nested_class.poni:28` has a TODO.
* Only reads put a variable into a closure's class (`closure_convert.rs`): one that is assigned only, and the
  object of a `new`, are not converted. A function in a method that captures no local gets no class
  though it may need the object of the method; `ThisReaches` excepts it as `Selfless`. A `self`
  that is made up for a captured variable is printed as the innermost `this`
  (`single_codegen.rs:2097`).

## 6. What the models leave out

* `GcHandshake`: the contents of queues and heap; the poisoning of any mutex but the counter's;
  weak memory (flags and counters are atomics or under locks). A second `join` by another
  context: the header forbids it.
* `GcCollect`: objects with several pointers, strings and other objects without any; the
  visitor's dispatch on tags; `try_lock` failing at the threshold is the second disjunct of
  `Alloc`; a `new` whose initializers allocate themselves, which is one step here. The concurrent marking of contexts' scans needs no lock of
  its own in the model: `do_scan` does not mark, it queues.
* `GcSlots`: tuples (several slots), parameters, `return` and `break`, the second turn of a
  loop, array literals under construction.
* `Arena`: iterators, which hold a cursor and nothing else; the plain `Arena`'s `get` and
  `get_mut`, which Rust checks; a release build, which leaves out tables and checks and relies on
  the debug build having been run; the unwinding after a panic.

* `Parser`, `Glue`: names and values of tokens beyond what scopes need, locations, doc comments,
  the tree. The lexer.
* The passes: arity of `lerp`, most builtin methods, `init` as a name, annotations, imported
  classes, classes in functions, the order of value types (`sort_value_types`; its exit 5 is for a cycle, and a type
  is interned after those it is made of, so none can arise), the `Unbound` nodes the
  language server wants, wording of errors.

## 7. Not modelled, and why

The single-threaded collector is the concurrent cycle without its handshakes; its known faults are
above. Lexer and source map are functions of text, for which the unit tests of the repository are
the better tool. Runtime library, language server and hot reload are sequential code around C
memory, an editor's protocol and the dynamic linker: what can go wrong there is mostly in what they
call. The build tool and the documentation generator read and write files, once.

What could be added next: tuples and `return` in `GcSlots`, and then the composition of its
`SavedAtCall` with the frames of `GcCollect`; the cache of the language server
(`poniescript-lsp/src/document.rs`) against the text shown; a reload that fails half-way
(`ponyquad/src/hot.rs`).
