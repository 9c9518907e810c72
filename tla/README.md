# mslang: specifications, model checking and proofs

`mslang` (the Rust crate under `src/src/`) is a scripting language: a lexer, a
parser, a bytecode compiler, a stack VM with exceptions, generators and
coroutines, a generational and concurrent garbage collector, a standard library
and a C API.  This directory holds TLA+ modules translated from that code, the
TLC configurations that check them on small instances, and theorems about them
that TLAPS checks for every value of the constants.

Files are named by the end of their path below the crate's `src/` or `src/vm/`:
`mod.rs` alone is `vm/mod.rs`, `gc/major.rs` is `vm/gc/major.rs`, `statement.rs`
is `compiler/statement.rs`.  The language's documents, like `05-control-flow.md`,
are in `docs/mslang/`.

## 1. Inventory

| component | state it keeps | operations | interacts with | modelled in |
|---|---|---|---|---|
| event loop (`mod.rs:84-200, 898-1444`) | `ready_queue`, `paused`, `timers`, `inflight_futures`, `external_completions`, the coroutine inside `run_loop` | `event_loop_run`: fire timers, drain completions, pop and run, wake selects, sleep, report deadlock | everything that parks a coroutine | `EventLoop` |
| channels (`async_runtime/channel.rs`, SEND/RECEIVE/FOR_ITER, `close()`) | buffer, closed, waiting senders (with values), waiting receivers | send, receive, iterate, close | moves coroutines to `ready_queue` | `EventLoop`, `FifoChannel` |
| select (SELECT, `try_wake_selects`) | the parked case table | select, select with default, `select {}` | polls the channels' state | `EventLoop` |
| futures and join handles (`object.rs:771-815`, `async_runtime/join_handle.rs`, AWAIT, GO, async calls) | pending/resolved/rejected; result, error, done, cancel_requested | async call, go, await, join, cancel, settle | `wake_waiters` | `EventLoop` |
| async stdlib (`stdlib/async.rs`) | timers | `sleep`, `timeout` | settles futures from the loop | `EventLoop` |
| http client (`stdlib/http.rs`) | one detached thread per request | `get`, `post`, `request` | posts completions | its future only |
| C API: async and channels (`capi/call.rs`) | VM mutex, per-channel mutex and condition variables, `thread_waiters` | msCallAsync, msAwait, msFutureResolve/Reject, msChannelSend/Recv/Close | other threads use the same channels and futures | `ThreadChannel`, `ThreadFuture` |
| C API: values (`capi/value.rs`) | (none; the objects that its handles hold) | compare, convert, index, slice, change containers | copies of the language's operators and methods | `CValue` |
| C API: the rest (`capi/*.rs`) | handles, roots, registered classes and modules | conversions | one lock per VM | roots: `GenerationalHeap` |
| interpreter: exceptions (`mod.rs:3343-3530`) | handlers, defers, pending unwind, boundary | throw, unwind, finally, with, defer, early exits | nested `run_loop` for native callbacks | `Unwinding` |
| interpreter: the rest (`mod.rs:2160-5700`) | frames, value stack, open upvalues, generators, globals, nested `run_loop`s | calls, captures, operators, containers, classes, iteration | natives that call back | `Calls`, `Machine` |
| objects (`object.rs`, parts of `mod.rs`) | lists, dicts, sets, iterators, instances | operators, equality and hash, indices, slices, iteration, attributes | - | `Objects` |
| builtins; list, dict, set (`builtins.rs`, `stdlib/{list,dict,set}.rs`) | (none) | functions and methods, some call back | `call_value` | `Natives` |
| compiler (`compiler/*.rs`) | units, scopes, locals, upvalues, loops, open finallys | statements and expressions to code | its slots are the interpreter's stack | `Codegen` |
| lexer, parser (`lexer/mod.rs`, `parser/*.rs`) | position, open brackets, last token | tokens, trees | pure functions of the source | `Lexer`, `Parser` |
| garbage collector, heap (`vm/gc.rs`, `gc/*.rs`) | young, old and large objects, card table, header bits (colour, generation, age, finalizer, pin), byte count and thresholds | allocate, minor, major, full, write barrier | roots of the VM | `GenerationalHeap` |
| garbage collector, concurrent cycle (`gc/major.rs`, `safepoint.rs`, `sweep.rs`, `barrier.rs`) | phase, managed objects, gray queue, active workers, safepoint, pending flags, messages | start, worker loop, rendezvous, finish marking, sweep, reconcile, shutdown | three kinds of threads over the program's heap | `ConcurrentMark` |
| module loader (`module/*.rs`, `mod.rs:5719`, `capi/module.rs:344`) | search paths, `safe_mode`, native modules and libraries, cache, `loading_stack`, the VM's table of globals | resolve, load, import | a nested `run_loop` on the importer's frames and handlers | `Modules` |
| stdlib: numbers, heaps, text (`stdlib/{heapq,math,string}.rs`) | (none; a heap is a list of the program) | functions of modules, methods of strings | called by CALL | `Sifting`, `Heapq`, `Maths`, `Strings` |
| stdlib: the rest | (mostly none) | pure functions, I/O | called by CALL | - |
| REPL, command line, error reporting | the VM between inputs | read, run, print | `reset_execution_state` | what an input inherits: `Unwinding`, `Modules` |

**What is hard.**  Coroutines are *values* moved by hand between `run_loop`, the
ready queue, the paused list and two queues per channel; SEND, RECEIVE, FOR_ITER
and SELECT each carry their own copy of the hand-over code; an instruction that
parks is re-executed, resumed after itself, or rewound by a byte count; futures
have three independent settlers (coroutine, timer, background thread); whether
the loop should wait, report a deadlock or end is decided from several queues
at once.  In the C API the same channels and futures are used from threads under
two different locks.  In the collector, marker threads race the mutator.  In the
interpreter, an exception, a defer and a native callback each suspend what was
going on, in fields that are single.  The compiler keeps a picture of the value
stack that the interpreter never checks.  The list, with lines, is under
`hazards` in `PROJECT.json`.

**What makes each component correct.**  *Event loop*: every live coroutine is in
exactly one place; a coroutine whose operation could go on is never given up;
ready coroutines run in order; the loop ends.  *Channels*: FIFO, at most once,
never overfilled, no value or slot withheld from someone who waits for it.
*Futures*: settled once, always by somebody, with every waiter woken.
*Exceptions*: handlers and defers belong to the frames that registered them, an
exception that escapes from a callback reaches the function that called back.
*Compiler and interpreter*: a program does what its tree means; closures of one
variable share it.  *C API, values*: a handle answers as the value in it would to a
script.  *Lexer, parser*: a tree is read back as it was
written, and what is misspelt is refused.
*heapq*: no call loses an element or leaves the list out of order for the next one.
*Collector*: nothing reachable is freed, every reference into a moved object is
updated, garbage goes.  *Modules*: each body runs once.

## 2. Plan

| order | modules | of what | checked | proved |
|---|---|---|---|---|
| 1 | `EventLoop` | scheduler, channels, select, futures, handles, timers, completions | done | every safety property (`EventLoop_proofs`) |
| 2 | `FifoChannel` | what a channel promises (abstract) | done | that `EventLoop` implements it (`EventLoop_proofs`) |
| 3 | `ThreadChannel`, `ThreadFuture` | the C API's thread-level channels, `msCallAsync`, `msAwait`, `msFutureResolve` | done | every safety property |
| 4 | `Unwinding` | throw, handlers, finally, with, early exits, defer, the unwind boundary of native callbacks | done | every safety property |
| 5 | `GenerationalHeap` | minor, major and full collections of a stopped program, card table, write barrier | done | every property |
| 6 | `ConcurrentMark` | the concurrent cycle: marker threads, barrier, handshakes, sweep | done | every safety property |
| 7 | `Codegen`, `Objects`, `Natives`, `Calls`, `Machine`, `Meaning` | compiler and interpreter, against what trees mean | done | - (recursive) |
| 8 | `Lexer`, `Parser`, `Grammar`, `Phrases` | characters to tokens to trees, against the documented grammar | done | - (recursive) |
| 9 | `Modules` | resolution, cache, import cycles, a module that fails, waits or is caught inside its importer | done | every safety property |
| 10 | `CValue` | comparison, conversion, indices, slices and containers of the C API (`capi/value.rs`), against the language's | done | - (recursive) |
| 11 | `Sifting`, `Strings`, `Maths` | `heapq`, the methods of strings and the module `string`, `math` on integers, as natives of the interpreter's | done | - |
| 12 | `Heapq` | a list kept as a heap by the calls of `heapq`, a turn of a loop at a time | - | every property (`Heapq_proofs`) |

Left of the plan: coroutines in `Machine` (it has generators, not `go` and
channels); `json` and `regex`.  The remaining abstract specification worth stating is a language with
coroutines, which `Meaning` would have to become.

`EventLoop` is composed with `FifoChannel` by INSTANCE, once per channel.
`Machine` extends `Calls`, `Natives` and `Objects`; `MCMachine` compiles its
programs with `Codegen`, takes what they mean from `Meaning`, writes them down
with `Grammar` and reads them with `Parser`, which extends `Lexer`.  `Natives` takes the
operators of `Sifting` and those of `Strings` and `Maths` by INSTANCE; `Heapq` extends
`Sifting`, so that what is proved is about the definitions that programs run.

## 3. Modules and their correspondence to the code

### EventLoop

One state is one point between two instructions or between two phases of
`event_loop_run`.  `phase` walks through the loop body: `timers`
(`check_timers`), `drain` (`drain_external_completions`), `pop` (the `match` on
`ready_queue.pop_front()`), `run` (`run_loop` with `current`), `exited`.

A *program* is not given: the running coroutine chooses its next operation from
the constant `Ops`, at most `MaxSteps` times, and may end, normally or with an
uncaught exception, at any time.  So one run covers every program of that
length.  Bytecode is abstracted to the one thing that matters to scheduling:
`redo[c]` is the operation a parked coroutine executes *again* when resumed
(AWAIT and SELECT move `ip` back to themselves, so their redo is themselves), or
`Fresh` when the operation was completed for it by whoever woke it (SEND,
RECEIVE and FOR_ITER served by a partner).  While a coroutine waits in a channel
its redo remembers what it waits with, because `close()` rewinds it: a sender by
one byte (SEND again), a receiver by four.  Four bytes are FOR_ITER, or LOAD_GLOBAL
(three bytes) and RECEIVE; after LOAD_LOCAL (two) they end inside another
instruction (`Wild`).

| model | code |
|---|---|
| `ready`, `paused`, `timers`, `inflight`, `completions` | `EventLoop.ready_queue`, `.paused`, `.timers` (by deadline), `VM.inflight_futures`, `external_completions` |
| `kind`, `resolves`, `done`, `cancelled` | which of `Coroutine.future` and `.handle` is set, the future, the JoinHandle's `done`/`result`/`error` and `cancel_requested` |
| `buffer`, `closed`, `waitingSenders`, `waitingReceivers` | the fields of `MsChannel` |
| `sent`, `delivered` | history: values are numbered per channel in the order they are offered |
| `Send`, `Receive`, `Iterate`, `Select`, `Poll` | the opcodes; `Poll` is SELECT with a default |
| `Await`, `Join` | AWAIT on a future, on a JoinHandle |
| `Finish`, `EndOk`, `EndError` | the part of `event_loop_run` after `run_loop` |
| `CancelledAtSafepoint` | `check_cancel_safepoint` |
| `FireTimer` … `ReturnDeadlock` | the rest of the loop, one action per branch |

Abstractions.  Values other than channel values carry no data.  A timer's
deadline is only its position in the queue: it is filed anywhere, and a timer
may be due whenever the loop looks, except that after sleeping the first one
*is* due.  An exception either ends the coroutine or is caught (`Throws`); the
handlers are the subject of a later module.  `select` picks any ready case, as
the code draws at random.

`MCEventLoop` gives channel capacities and case sets their values.

### ThreadChannel

The embedding program's threads use the channels of the scripts.  Two locks are
involved: the VM mutex (fast paths, and everything coroutines do) and the
channel's own `sync_mutex` with its two condition variables (`send_blocking`,
`recv_blocking`).  Neither excludes the other, so a critical section of the VM
mutex that uses the buffer and then the waiting lists is two actions, and what
remains of it is `half`: `CoSend` and `CoPush`, `CoReceive` and `CoRefill`,
`SendFast` and `SendAnnounces`, `Close` and `CloseReleases`.  `ReceiveFast` is one
action: `msChannelRecv` keeps the buffer borrowed from the pop to its return.  `half = Nothing` is the VM mutex being free.

`pc[t]` walks a thread through the blocking paths: `toSend`/`toReceive` (waits
for `sync_mutex`), `testSend`/`testReceive`, `sleepSend`/`sleepReceive` (tested,
not yet asleep), `waitSend`/`waitReceive`, then `check`, `push` or `pop`.
`Condvar::wait` may return by itself.

The buffer is a `RefCell` that both locks reach.  One borrow is taken to be
indivisible; that two meet ends the process, as a panic in an `extern "C"` function
does.  Two threads' borrows meet in `Collide`.  In `ReceiveAborts` `msChannelRecv` meets
its own: the borrow of the `if let` (`call.rs:599`) lives until the end of the body,
where a coroutine that waits to send makes it borrow again (`call.rs:602`), after its
value and that sender have been popped.  So a thread never moves a waiting coroutine's
value into the buffer; coroutines do (`MovesIn`).  `NothingLostOrDuplicated` says
nothing of a process that has ended.  What an unsynchronised `VecDeque` does to memory is
not modelled.

Coroutines are reduced to SEND and RECEIVE here (`EventLoop` has the rest).
`co[c]` says how a waiting coroutine was resumed; `noValue` and `sentToClosed` are resumptions whose value stack is not what the instruction
leaves behind, and the model does not follow such a coroutine further.

### ThreadFuture

Futures between threads and coroutines: `msCallAsync` and `msAwait` pump the event
loop under the VM mutex, so `lock` is held by the pumping thread over several
actions (`EndTask`, `TaskAwaits`, `PumpReturns`); every other critical section is
one action.  A coroutine is named by the future it settles.  `signals` is the
side table `thread_waiters`; `flag[t]` is the Boolean that the thread's condition
variable protects, so `WaitEnds` needs it (the code tests it in a loop, under its
mutex).  `msAwait` is `Await`, pumping, `Recheck`, `Register`, `WaitEnds`,
`Reread`: one action per critical section, in the code's order.
`msFutureResolve` and `msFutureReject` are `Settle` (under the VM mutex) and one
`Notify` per signal taken (after it).

### Unwinding

Exceptions inside one coroutine: `throw` and `drive_unwind`, the opcodes
TRY_ENTER to CLEAR_CURRENT_EXC, EXEC_DEFER and RETURN, the code that
`compile_try`, `compile_with`, `compile_return`, `compile_break` and
`compile_continue` emit, `call_function`, and `reset_execution_state`.

| model | code |
|---|---|
| `frames` | `call_stack`; of a frame `exc`, `flushing`, `base` are `current_exc`, `defer_flushing`, `defer_stack_base`; `blocks` is where `ip` is; `leaving` is `ip` at EXEC_DEFER |
| `handlers`, `defers` | `exception_handlers` (`level` stands for `catch_address`), `defer_stack` |
| `pending`, `escaped`, `boundary` | `pending_unwind`, `escaped_exc`, `unwind_boundary` |
| `rust` | what the Rust stack will return to: native functions that run (`native`), and `drive_unwind`s that called one in a defer (`unwind`) |
| `mode` | `run` (run_loop, before an instruction), `native`, `unwind` (in the loop of `drive_unwind`), `resumed` (the same, when run_loop took it up again after a closure in defer), `late` (it has ended, and run_loop fetches an instruction without testing `stop_depth` again), `unwound` (an inner `drive_unwind` returned to an outer one), or how the program ended |

A program is any nesting of the statements: the running frame picks its next one.
What the compiler knows at that point (`try_depth`, `finally_stack`, the
innermost loop) is computed from `blocks`, so `Return`, `Break` and `Continue`
pop as many handlers, and run the same inlined finallys in the same order, as
the code they compile to; an inlined finally remembers as a set, `rest`, the
statements whose finallys are still to be inlined.  `Throw` stands for THROW and
RETHROW.  `Call` calls a closure or a native function; a native function calls
closures (`NativeCallsBack`) as often as it likes and may go on after an
exception escaped, as `map`, `filter` and `reduce` do.  `Fail` is an `Err` that
is no exception (a wrong argument count, an unknown attribute); what the next
REPL input clears is cleared at once, and `Exec` is that input.

Left out: what an exception contains; the value stack; generator frames and
coroutine switches (a coroutine keeps all this state to itself); native
functions passed as callbacks; an inlined finally that jumps out of itself, and
programs on which the compiler does not terminate (`Compiles`): see the
divergences.

### Codegen, Machine and what they need

The compiler and the interpreter, checked together: a program is a tree, `Codegen`
compiles it, `Machine` runs the code, and when it is over the global that every
program ends by setting is what `Meaning` says of the tree.

* `Codegen` is the compiler (`compiler/mod.rs`, `statement.rs`, `expression.rs`): one
  operator per `compile_…` function, from a compiler state to the next.  A state
  holds the open units (functions: code, locals, upvalues, scope depth), the loops,
  `try_depth`, `finally_stack`, the global and nonlocal declarations.  Instructions
  are records; jumps lead to instructions instead of distances in bytes.
* `Objects` is `object.rs` with the operators of `mod.rs`: arithmetic with the
  overflow rules (`IntBits` = 12 bits where the code has 64), comparisons, equality,
  hashability, indices and slices, iterators, attribute lookup along parents.
* `Natives` are the builtins and the methods of lists, dicts and sets, by what they
  do to the heap.  One that calls back (`map`, `filter`, `reduce`, sorts with a key)
  is a job that the interpreter takes up after each call.
* `Calls` holds the variables of the interpreter and its calling convention: frames
  and their slots, closures, bound methods, classes and `__init__`, generators,
  natives; `nested` stands for the `run_loop`s inside the first, with what is done
  with their results.  `cells` and `open` are the upvalues and `open_upvalues`.
* `Machine` is `run_loop` (one action per group of opcodes), `drive_unwind`
  (`Resume`, `Escape`, `FlushDefer`, `Handle`, `PopFrame`) and the return of a nested
  loop (`LeaveNested`).  Execution is deterministic; the program is chosen in `Init`.
* `Meaning` is not a translation of code but the reference: an evaluator of trees
  with environments and cells, where an exception or an early exit is a way for a
  statement to end, without stack, slots, handlers or jumps.  It shares `Objects` and
  `Natives` with the machine: the run compares control, scoping, calls, captures and
  exceptions, and exercises the operators on data, but says nothing of an operator
  that both take from `Objects`.

Left out of the compiler: imports, `async`, `select`, `go` and `<-`, f-strings, line
tables, the limits on constants, slots and jumps.  Left out of the interpreter:
`__cause__` and tracebacks, `print`, `str` and `repr`, floats, `hash` and `id`, the
collector, coroutines and channels, functions' `.name`, the methods of strings,
`STACK_MAX` and `MAX_CALL_DEPTH`, IMPORT.  Programs that meet a divergence listed
below are left out of the run, by the predicate `Fits` or by a snippet's `unfit`.

### CValue

The functions of `capi/value.rs` on values and containers, by what they return, what they
do to the objects and whether they set the VM's error.  They share neither indices nor
slices nor comparisons with the interpreter but have their own (`resolve_index`,
`compute_slice_bounds`, `compare_objects`, `is_hashable`), with C integers, statuses
and NULL.  `HandlesAgree` calls every one of them with what a script has left in a
list: values of each type, equal and identical ones, empty and nested containers, and
indices from -4 to 4.  `InLanguage` is what the script itself would get, from `Objects`
and `Natives`; `Differs` is where that is something else, case by case (section 4).
Equality, lookup in dicts and sets and truth are the same code in both, so that the run
says of them only how they are called.

### Lexer, Parser, Grammar and Phrases

A text is a sequence of lines, a line a string that TLC takes apart by character.  `Lexer` has one
operator per function of `lexer/mod.rs` that reads something: words, numbers in four
bases with their exponents, strings with escapes, comments, operators by the longest
match, and the rule for newlines (`NewlineCounts`, from the last token and the open
brackets).  A token is a record; what cannot be read is `Error`.  An integer is worth
what its digits say up to `MaxLiteral` (the code's is `i64::MAX`; the model's is small
enough for the run to step over it), a float keeps its parts instead of a value; columns,
the wording of errors and the rewriting of CRLF are left out.  `Parser` has the parser,
one operator per parse function, from tokens and a position to a tree and a position;
`Read` is both.

`Grammar` is the reference, written from the documentation's tables of operators,
literals and precedences and its rule for the end of a line (`03-syntax.md`): it writes
a tree as text with as few parentheses as the table asks for, and a token with as few
spaces as keep it apart from the next (`RunsOn`); between a number and a word there is
always one, as `1else` is an exponent without digits to the lexer.  `Phrases` are trees
that try it and, in `Misspelt`, texts the documentation does not allow.
`ReadsAsWritten` says that the parser finds the tree in every way to write it down -
characters with and without spaces and comments, lines broken after operators and inside
brackets, empty lines, statements next to each other inside a block - and that it refuses
what is misspelt.

### GenerationalHeap

The stop-the-world collector of `vm/gc.rs`.  One state is one point of a program
between two uses of the heap; a minor or a major collection is one action, as the
program stands still meanwhile.

| model | code |
|---|---|
| `young`, `old`, `los` | `young_objects`, `old_objects`, `los_objects` |
| `fields` | the `Object::Ref`s in a list, dict, instance, …; a string has none |
| `age`, `finalizer`, `pinned` | bits of `gc_meta` (the generation is the list; a large object's header reads Young) |
| `roots` | value stack, globals, deferred calls, `current_exc`, in-flight futures |
| `dirty`, `bytes`, `promotionAge` | `card_table.dirty`, `bytes_allocated`, `promotion_age` |
| `AllocYoung`, `AllocLarge`, `Store`, `SetFlag`, `Configure` | `gc_alloc_*`, `alloc_los`, a write followed by `write_barrier_obj`, `msOnFinalize` and `set_pinned`, `gc.set_promotion_age` |
| `MinorGc`, `MajorGc` | `minor_gc` with `run_adaptive_tuning`; `major_gc` with `sweep_heap`, `sweep_los`, `run_finalizers` |
| `CollectMinor`, `CollectMajor`, `BeginFull` and `EndFull` | `gc_minor_only`, `gc_major_only`, `gc_full`; `maybe_gc` runs one of these |

A reference is *which object* it leads to, so that forwarding a slot leaves its value
alone, and a slot the collector does not forward becomes `Gone`.  A program never uses
a `Gone` pointer in the model: what follows is undefined behaviour.  The worklist
loops are `Reach`, the least set that is closed under the references the loop
follows; their order does not matter because marking and copying are idempotent.
When a collection runs is left open: the thresholds can be set to anything
(`gc.set_threshold`).  Addresses, sizes (an object counts 1, a large one
`LargeBytes`), statistics and the other tuning rules are left out.

`careful` is a history variable: it is lost at the uses the collector does not
survive (see the divergences), which are: a minor collection that leaves an object
young although an old one refers to it; a major collection while there are young
objects or cards; a finalizer or a pin.  `CarefulUseIsSafe`,
`CollectionsAreInvisible` and `FullLeavesNoGarbage` speak of what happens before;
`RootsNeverDangle` and `BytesAreExact` of everything.

The VM's own lists, closures and instances come from `alloc_*`, outside of this heap:
`forward_slot` and `mark` skip them.  The heap serves `gc_alloc_*`.

### ConcurrentMark

The concurrent major collection.  Four kinds of actor share the heap: the program
(the *mutator*), `gc_threads` marker threads, the coordinator, which drains the queue
once more when the markers have gone and sweeps, and the mutator's own safepoint,
where it ends the marking and, later, the cycle.

| model | code |
|---|---|
| `young`, `old`, `fields`, `roots`, `dirty` | as in `GenerationalHeap` |
| `color`, `gray` | the colour bits of `gc_meta`; `gray_queue` (last in, first out) |
| `phase`, `managed`, `dead` | `GcRuntime.phase`, `gc_managed`, `sweep_dead_old` |
| `requested`, `parked`, `closure`, `reconcile` | `SafepointState`, `closure_pending`, `sweep_reconcile_pending` |
| `trigger`, `cpc`, `todo` | the coordinator's channel, where it is, and what of `gc_managed` it has still to look at |
| `mark`, `held`, `active` | per marker: where it is in `worker_loop`, the object it has popped; the shared counter |
| `mpc`, `shades`, `goal` | the mutator: inside `shade_if_white`, parked or joining; what it has to shade; whether it waits for the end of a cycle |
| `Alloc`, `Assign`, `Load`, `Store`, `ShadeTest`, `ShadePaint` | the program; a store is the write, the card and the list of shades, then one test and one painting per shade, because the code does them in two steps |
| `Begin`, `Pop`, `Enter`, `Trace`, `Quit`, `Receive`, `Join` | `init_concurrent_mark`, `worker_loop` and `drain_gray`, the coordinator's loop |
| `AskToTerminate`, `Release1`, `BeginSweep`, `Sweep`, `AskToReconcile`, `Release2` | `run_major_cycle`, with `request_and_wait`, `release` and the spin |
| `Park`, `Wake` | `check_and_park`, then `finish_mark_termination` or `reconcile_sweep` |
| `Want`, `FullMinor`, `FullMajor`, `ShutDown`, `Joined` | `complete_concurrent_cycle_if_pending`, then `gc_full`, `gc_major_only`, `gc.set_concurrent(false)` or the end of the VM |

Abstractions.  An object has one reference.  What survives a minor collection is
promoted (age 1).  `Trace` shades the child and blackens the object in one step: the
test of the child's colour is an atomic exchange in the code, and no step between the
two depends on their order.  Thresholds and the timer are left open, so a cycle may
begin whenever there is none; a cycle the timer starts is one `maybe_gc` starts.
`gc_enabled` is not modelled.  Large objects are left out, as nothing in the program
calls `alloc_los` (one that is allocated while a cycle runs would be swept by
`sweep_los` when it ends), and finalizers and pins are, too.  The sweep of an object
makes every reference to it `Gone` at once; the box's address may be allocated again.

`careful` is lost when a cycle begins while a young object refers to an old one
(marking does not look through young objects: the divergence of `gc.rs:1632`), and at
the careless stop-the-world collections of `GenerationalHeap`; the program is not
followed any further.  `doomed` remembers what was unreachable when a cycle began.

The last look at the roots, at the end of marking, passes over what is not in
`gc_managed`, as `scan_roots_gray` does (`gc/major.rs:57`): objects that were promoted
while the cycle marked are neither shaded nor looked through, and nothing may hang on
their being so.

### Modules

An import executes the module's code by a second `run_loop` on top of the importer's,
on the same call stack and exception handlers, with `self.globals` exchanged.  One
action is one statement of the running frame, or one way for a nested `run_loop` to
return.

| model | code |
|---|---|
| `safe`, `cache`, `loading` | `safe_mode`, `ModuleResolver.cache`, `.loading_stack` (a set) |
| `modules` | the `MsModule`s ever allocated: the key each was allocated for, and whether `exports` and `globals` were put into it |
| `loads` | the `load_module`s on the Rust stack: key, shell, the globals that `execute_module` keeps, the frames that `run_top_level_chunk` cuts back to |
| `globals` | whose table `VM.globals` is |
| `frames`, `tries` | `call_stack` (whose code, top level or function, open tries), `exception_handlers` |
| `yielding` | a yield signal that a nested `run_loop` left behind |
| `mode` | the interpreter runs, an `Err` is on its way out, or the host is between two inputs |
| `Resolve`, `SearchRoots`, `Key` | `resolve`, `resolve_embedded`, steps 1 to 4 of `load_module` |
| `native`, `libs` | `native_modules`; `loaded_libs`, with the import that loaded each |
| `ImportKnown`, `ImportLibrary`, `ImportNotFound`, `ImportBroken`, `ImportExecutes` | `load_module`, by where it leaves: native or cached, `load_native_module`, no such module or too deep, `cleanup_failed_load`, execution |
| `LoadSucceeds`, `LoadFails` | the rest of `run_top_level_chunk`, `execute_module` and `load_module` on Ok and on Err |
| `Halt`, `AwaitInLoad`, `PastEnd` | what makes a nested `run_loop` return Ok, and what a frame meets whose own HALT did |
| `EnterTry`, `ExitTry`, `Throw`, `Fail`, `Call`, `Return` | the statements that matter to the loader |
| `ScriptFails`, `NextInput` | `main.rs`, the REPL |

A file is a path, a search path a sequence of directories, and a file may at any time
fail to be read or compiled.  A dynamic library may fail to load, too; what its
`msModuleInit` does besides registering the one module it defines is left out, and a VM
without `msVmNew` is one whose directories have no libraries.  What the globals hold,
the value stack, defers and other coroutines are left out.

### Sifting, Heapq, Strings, Maths

`Sifting` is `heapq.rs`.  A call is a record that each turn of `sift_up` or `sift_down`
changes, so that the same operators serve two modules: `Natives` runs a call to its
end (`Ran`), and `Heapq` makes each turn a step of a machine whose program may call any
function of the module next, or change the list in another way.

| model | code |
|---|---|
| `items`, `hole` | the list, the index that `sift_up` and `sift_down` move |
| `left` | the counter of `heapify_items`, whose loop calls `sift_down` |
| `out` | what has been taken out, or not put in: `heap_pop`'s `root`, what `push_pop` gives back |
| `at` | the loop the call is in, or how it ends: `less` may fail in any turn, and what it leaves is what there is |
| `Heapify`, `HeapPush`, `HeapPop`, `PushPop` | the calls up to their loops |
| `heaped` | history: `heapify` was called and nothing but these functions touched the list since |

A call that raises leaves the list as far as it was sifted; what a pop had taken out
by then is lost to the program (`heapq.rs:184`), which is why `NothingLost` counts `out`.

`Strings` has the twelve methods of strings, the module `string`, and `int()` and
`str()`: a string is a sequence of code points (those of identifiers and names are one
symbol), and letters and white space are ASCII's.  `Maths` has what `math` does with
integers.  A program that uses one of the modules is taken to have imported it: the
module is found among the globals, an attribute it does not have is a NameError
(`mod.rs:4848`), and its functions are natives called `heapq.heapify` and so on.
Arities are looked up by bare name in the code (`mod.rs:2279`); where two functions
share one, the table has what suits both, and so does `Arity`.

### FifoChannel

The promise of a channel, whatever its capacity: offers are received at most
once, in order; closing withdraws exactly the offers that were not accepted into
the buffer.  `EventLoop!ChannelsAreFifo` instantiates it once per channel, the
pending values being those in the buffer followed by those of waiting senders.

## 4. Runs

| run | cfg | shows |
|---|---|---|
| channels | `MCChannels.cfg` | `ChannelDiscipline`, `LeavesOnlyTheStuck` and the refinement of `FifoChannel` (`ChannelsAreFifo`) with go, send, receive, iterate, select, default, close and cancel |
| futures | `MCFutures.cfg` | `ExactlyOnePlace`, `NoLostWakeup`, `SomeoneWillSettle`, `SettlesOnce`, `ReadyIsFifo`, and under `FairSpec` `EventuallyReturns` and `ScheduledWakes`, with go, async calls, await, sleep, timeout, http, select and send |
| threads | `MCThreads.cfg` | `NothingLostOrDuplicated`, `AtMostOneOver`, `PartnersMeet` of `ThreadChannel` |
| thread_futures | `MCThreadFuture.cfg` | `AwaitTellsTheTruth`, `SignalIsKept`, `NoCoroutineForgotten`, and `TakenSignalEndsWait` under `FairSpec`, of `ThreadFuture` |
| unwinding | `MCUnwinding.cfg` | `HandlersMatchFrames`, `DefersBelongToFrames`, `EscapedIsTaken` of `Unwinding` |
| heap | `MCGenerationalHeap.cfg` | `RootsNeverDangle`, `CarefulUseIsSafe`, `BytesAreExact`, `CollectionsAreInvisible`, `FullLeavesNoGarbage` of `GenerationalHeap` |
| concurrent_gc | `MCConcurrentMark.cfg` | `NothingDangles`, `RendezvousIsReal`, `IdleIsClean`, `CycleFreesGarbage`, and under `FairSpec` `CycleEnds` and `WaitEnds`, of `ConcurrentMark` |
| modules | `MCModules.cfg` | `LoadsAreTracked`, `GlobalsNest`, `CacheIsHonest`, `OneModulePerFile`, `SafeModeHolds` of `Modules` |
| codegen | `MCMachine.cfg` | `MeansTheTree`, `UpvaluesMatchStack`, `ReadsAsWritten` of `Machine`, `HandlesAgree` of `CValue` |
| close_receive | `FindingClose.cfg` | a violation of `ResumesAtAnInstruction` |
| settled | `FindingSettled.cfg` | a violation of `SettlingWakesThreads` |
| boundary | `FindingBoundary.cfg` | a violation of `NativeUnharmed` |

The type invariants of the modules that have theorems are theorems (section 5), and
the runs do not repeat them.

**Bounds, and why they are enough.**

`channels`, `futures`: three coroutines are enough for each shape the code
distinguishes: two partners and a third that overtakes, waits behind, or closes.
`channels` has one unbuffered and one one-slot channel, which reach each branch of
SEND and RECEIVE (rendezvous, full, empty, refill), and three operations per
coroutine, which let one create, use and close; nobody awaits there, so what
`LeavesOnlyTheStuck` says of futures and handles is shown by its theorem.  `futures` has two futures (a race of
settlers on one and a second to await meanwhile), two operations per coroutine and a
one-slot channel that both sides of a select can use.

`threads`: two threads and two coroutines with two operations each on a channel with
one slot; one thread in its blocking path and one under the VM mutex are what it
takes to interleave the locks, and two coroutines fill both waiting lists.  Threads
are alike and coroutines are alike: `Alike` is the symmetry.  `thread_futures`: three
threads (one that awaits, two that race to settle, or two that await and one that
settles), five calls between them, which is enough to create two futures, await both
and settle one, and one await per coroutine; no symmetry, because it checks liveness.
Its threads may all be done, or stranded (see below), so it does not check for
deadlock.

`unwinding`: three frames (a caller, a native function's callback, and a defer or a
callee of that), two open statements at once in all frames together and at most one
of each kind (loop, try with clauses, try with finally, with), plus the finally that
an early exit inlines; that tells own handlers from outer ones.  Two pending defers
are one per frame or two in one; two entries of `rust` are a callback inside a
callback, or a native function in a defer inside `drive_unwind`.  The theorems hold
without the bounds.

`heap`: three objects make a chain (root, old, young; or a pair and an unreachable
third, whose name is used again), one slot each is enough to lose a reference, two
roots hold a parent and a child at once; promotion ages 1 and 2 tell objects that are
promoted at once from objects that stay young; one flag, one large object.  Objects
are alike and roots are alike: `Symmetry`.  `Adaptive` is FALSE, the theorems hold for
both.  The program may stop allocating with nothing left to do, so deadlock is not
checked.

`concurrent_gc`: two objects and two roots (two parents of one child, or a parent and a
child that a store cuts off) and two marker threads, which is what it takes for one to
leave while the other has popped an object; the coordinator is a third marker.
`MaxNew` = 1: one young object at a time and, during a cycle, one object that the
cycle does not manage.  `MinorAt` leaves `gc_minor_only` out of `ConcurrentSweep`, where
it may read cards of freed boxes (see the divergences).  It checks liveness, so it has
no symmetry.  The theorems hold for any number of objects, roots and markers.  Deadlock
is not checked: the program may stop, and it is not followed past a careless start.

`modules`: the script's directory and the standard library's; one name that has a file
in both, one that is another path to the first of these files and has an embedded module
(so that one name stands for two keys, by `@std`, and safe mode changes what it stands
for, and two names stand for one), and two names that are neither file nor embedded,
each with a library, one in either directory: both define the same module, which has the
name of one of them, so that an import by a library ends well, ends in an ImportError
although the library stays, or fails because the module is there; it is the one native
module there is.  Two loads at a time make a cycle of imports and reach the limit of the
depth; three modules are a complete one, its importer and one that is loaded again after
it failed; three frames are script, module and a function of it, or two modules; one
handler is enough for an exception to be caught by another frame than the one that threw
it, or to be dropped with its frame.

`codegen`: one initial state per program.  41 snippets about control, closures,
exceptions, defers, comprehensions and generators run in pairs, the second after the
first, because what one leaves on the stack, in the handlers or among the locals is
what the next one trips over.  73 about values, containers, strings, heaps, natives that call back,
iterators, generators, classes and `with` run in seven contexts (in a function, a
try, a loop, a defer, a callback, a generator, a method) and each before 10 others.
The phrases for the parser are every operator as an operand of every other and every
statement beside every other.  One more program leaves 24 values for the C API;
indices from -4 to 4 lie before, inside and after lists and strings of up to three
elements, and steps of 3 and 4 skip them.  The bounds are the programs: the machine itself has
none.  Programs end, so deadlock is not checked.

**Findings.**  Three runs expect a violation; each is a disagreement between the code
and its documentation (quoted under `findings`):

| run | what the code does |
|---|---|
| close_receive | `close()` resumes a waiting `<-ch` inside another instruction |
| settled | a future settled between `msAwait`'s look and its registration, or by the end of its coroutine, strands the thread |
| boundary | an exception that waited for a closure in defer goes on to the boundary of a native function's callback, and `run_loop` then executes one instruction of the function that called the native one |

**Divergences without a run.**  The models of the first group of components also
reach these states; no property listed above excludes them, because the code does not.

* `mod.rs:1264`: a coroutine that waits in a channel is neither ready nor paused, so
  `event_loop_run` returns Ok while it is alive
  (`08-concurrency.md:276`: the program exits after all coroutines
  have completed).  `LeavesOnlyTheStuck` is what remains true: those it leaves behind
  are all in a queue, and none of them could go on.
* `mod.rs:3987`: FOR_ITER on a channel never looks at `cancel_requested`, so a
  cancelled coroutine goes on receiving (`08-concurrency.md:127`: it terminates
  at its next await or channel operation).
* `mod.rs:1914`: `cancel()` of a coroutine that is parked in `select` sets a flag that
  `try_wake_selects` does not look at; its joiner is told of a deadlock
  (`tasks/59-select.md:655`: cancel wakes it with an error).
* `mod.rs:1274`: `try_wake_selects` runs only when nothing is ready, so coroutines
  that keep each other ready starve a select whose case is ready.
* `mod.rs:1147`: two selects on the two sides of an unbuffered channel never see each
  other and are reported as a deadlock (`08-concurrency.md:261`).
* `channel.rs:101`: a blocked thread and a fast path may fill the same last slot
  (`capi/call.rs:504`: a full buffer blocks the thread); `AtMostOneOver` is what
  remains true.
* `channel.rs:121`: `notify_all_thread_waiters` does not take `sync_mutex`; between a
  thread's test and its wait nobody hears it, and the thread sleeps on in a closed
  channel (`capi/call.rs:621`: wakes all waiting coroutines *and threads*).
* `capi/call.rs:547`: `msChannelSend` puts its value into the buffer and makes a waiting
  receiver ready as it is, behind its RECEIVE and with nothing pushed (`mod.rs:4053`:
  when it is woken the sender has pushed the value).  `msChannelClose`
  (`call.rs:664`) lets a waiting SEND go on as if it had succeeded (`call.rs:660`: it
  is retried and throws).  These are the states `noValue` and `sentToClosed`.
* `capi/call.rs:602`: `msChannelRecv` with a value in the buffer and a coroutine that
  waits to send borrows the buffer while it is borrowed, and the process ends
  (`capi/call.rs:600`: it wakes a waiting coroutine sender, if there is one); the action
  `ReceiveAborts`.
* `channel.rs:112`: `recv_blocking` pops what another thread has taken since it
  looked, and `msChannelRecv` returns nil from an open channel (`channel.rs:106`).

* `statement.rs:826`: the handler of a try is gone when an except clause runs, and
  when a finally inlined by `return`, `break` or `continue` runs: an exception in
  one of them skips that try's finally, or the outer finallys and clauses
  (`05-control-flow.md:206`: the finally block always executes).
* `statement.rs:1330`: a loop inside an except clause has the `try_depth` of the
  clause, which is less than the depth noted for its finally, so a `break` of the
  loop runs the finally, and the end of the statement runs it again.
* `statement.rs:725`: an inlined finally is compiled in the loops and tries of the
  exit.  A `break` in it, meant for a loop around the try, leaves a loop around the
  exit instead, with the handler already deregistered; a `return` in it makes the
  compiler inline it again, without end.
* `statement.rs:1016`: `with` is not in `finally_stack`: `return`, `break` and
  `continue` leave it without `__exit__` (`05-control-flow.md:388`).
* `mod.rs:4647`, `statement.rs:1052`: `break` in an except clause leaves
  `current_exc` set, and a later FINALLY_END or end of a `with` in the function
  throws it; an inner try in a finally or a clause loses the outer one's.
* `mod.rs:3404`: the defers of a frame run before its own handlers are tried,
  although the function does not return (`05-control-flow.md:308`).
* `mod.rs:3350`: a closure in defer that throws and catches an exception takes
  `pending_unwind` as its cause: the original exception is gone and the function
  goes on behind its throw (`05-control-flow.md:316`, rule 3: it goes on outward).
* `mod.rs:3518`: a function with defers that is called from a closure in defer is
  taken for the frame the exception was parked in, and gets it.
* `mod.rs:3420`: when the callback of a native function in defer throws, an outer
  `drive_unwind` goes on after an inner one; it may leave `pending_unwind` set
  with nobody waiting for it.
* `stdlib/list.rs:250`: `map`, `filter` and `reduce` call back again after an
  exception escaped; a native function in the next callback throws it there.
* `mod.rs:2761`: `call_function` sets no boundary for a native callee, so an
  exception from *its* callbacks redirects the frame that called the outer one.
* `mod.rs:3506-3529`: `run_loop` tests `stop_depth` before it takes up an unwinding that
  waited for a closure in defer, and not after: one instruction of the caller's frame
  runs inside a native's callback, a generator's `close()` or any nested loop.  For
  native callbacks this is the run `boundary`.

The compiler and the interpreter; programs that meet these are left out of the run
`codegen`.

* `statement.rs:719`: in `try { return 5 } finally { x = 1 }`, when the finally is the
  first to declare `x`, STORE_LOCAL overwrites the value that waits on the stack (the
  comment there: the finally has no net effect on the stack and the value stays on top).
* `mod.rs:4435`: STORE_UPVALUE peeks, so each assignment to a nonlocal leaves a value on the
  stack; a tuple assignment to nonlocals stores one element in all of them.
* `compiler/mod.rs:373`: the NIL that reserves a loop's slot is itself inside the outer
  loop, so that a nested `for` pushes its slots again each time round (`:363`: slots are
  used again so that the stack does not grow with the loops).
* `compiler/expression.rs:811`: a comprehension takes its slots from the number of locals, which
  is not the height of the stack when temporaries wait, after a branch that declared a
  local and was not taken, after a nested `for`, after an assignment to a nonlocal.
  Reading a local whose declaring branch was not taken reads a temporary; capturing it
  and returning panics.
* `mod.rs:3456`: a variable that a try body assigned first is gone when an exception
  truncates the stack; upvalues above the new height stay open.
* `compiler/mod.rs:308`: CLOSE_UPVALUE of a captured comprehension variable acts on the
  copy of the result that is on top (`tasks/28-closures.md:367`: the slot on top of the
  stack *is* the variable's; `:565`: upvalues are closed when the variable leaves its
  scope), and the upvalue dangles.
* Tuple assignment to undeclared names in a function stores globals (`03-syntax.md:598`: it
  creates locals); compound assignment evaluates `o` and `i` of `o[i] += e` twice; a local
  recursive function finds itself among the globals; a slot above 255 is truncated; at top
  level `for` variables are slots, while `=` stores globals.
* A generator expression has no POP behind YIELD, so each resumption leaves a value in its
  snapshot.  A generator suspended inside a try leaves its handler in
  `exception_handlers`; an uncaught exception in a generator ends the program.
* A generator's frame keeps the `defer_stack_base` of its creation: iterated after a
  `defer` of its caller, it runs the caller's defers when it ends.
* A constructor that throws (`mod.rs:2617`): `__init__` runs in a nested loop without an
  unwind boundary; when the caller has a handler, the exception is popped and the instance
  pushed, no clause matches, and it is thrown again.  `invoke_method` (`mod.rs:2656`) is
  the same.
* Extra arguments of a method call (`mod.rs:2465`) stay in the slots of its locals.
* `with` inside an except clause passes the outer exception to `__exit__` when its body
  ends normally, and throws it again if the answer is falsy.  On an instance of a class
  `__exit__` gets the context as `error_type` and the others moved up by one
  (`05-control-flow.md:373`).
* A throw in an except clause passes by its own finally; a try/finally inside an except
  clause throws the exception that is being handled (`mod.rs:4659`: an exception that was
  handled must not be thrown again).
* `gen_call_method` is one slot of the VM: `f = g.__next__`, a method call on another
  generator, `f()` is an error.
* `super.m()` in a closure inside a method takes the closure for the receiver
  (`mod.rs:5170`); `super` looks its class up by its global name at run time.
* Instances are not equal to themselves for `in`, dicts and sets (`object.rs:2515`), but
  are for `==`.  Integers and floats beyond 2^53 are equal with different hashes.
* A dict or set literal with an unhashable key panics (`mod.rs:4346`), where a
  comprehension throws (`mod.rs:4265`).
* `g.close()` called from a defer during an unwinding takes the pending exception as its
  cause, and it ends with the generator.

The parser:

* `lexer/mod.rs:125`: inside a block no newline becomes a token, so a statement that begins
  with `(`, `[`, `-`, `*` or `<-` goes on with the previous one, and a bare `return`,
  `yield` or `throw` takes the next statement for its operand (`03-syntax.md:14`: a line
  that begins with an operator is no continuation).  A semicolon is a token that no rule
  of the parser takes.  A line that ends in `<-` is not continued at top level.

The C API's values; `Differs` leaves these out of `HandlesAgree`:

* `value.rs:1583`: msDictGet, msDictGetDefault, msDictRemove, msDictContains and msDictFrom
  look a key up without asking whether it has a hash: for a list it panics inside an
  `extern "C"` function.  msDictSet asks (`:1631`).
* `value.rs:917`: `is_hashable` refuses instances, classes, functions and iterators, which
  are keys in the language.
* `value.rs:795`: bools and nils are ordered in C, an error in the language.
* `value.rs:1222`: msListSlice with a negative step takes element 0 when both bounds lie
  before the list; the language's slice is empty.
* `value.rs:1468`: msListInsert takes a place outside the list for its end or start, where
  `insert` has an error.
* `value.rs:252`: msTypeof of an exception or an exception class is nil, but msIsNil is
  false.
* As documented there: msDictGet of an absent key is NULL (`get` gives nil), msSetRemove of
  an absent element is fine (`remove` has an error), msConvertList takes no iterator.

The module loader; the model reaches them but for the first, which is about values.

* LOAD_GLOBAL reads `VM.globals`, which are the importer's while an imported function
  runs: `increment` of the documented counter does not find `count`
  (`09-modules.md:137-155`), and a function of a module that calls another one by name
  finds it only where the importer has one of that name.  A variable at top level is
  not exported (`09-modules.md:108`: all declarations are).
* `mod.rs:5731`, `:5760`: an `@std` import is not `safe_restricted`, so when the standard
  library has no such file, and nothing embedded either, `load_native_module` looks for a
  library of that name in all of `search_paths`, the current directory first, in safe
  mode too (`tasks/45-module-system.md:50`: the prefix `@std` makes sure that only the
  standard library's directory is searched).  `SafeModeHolds` is what remains true.
* `capi/module.rs:379`: a library registers its module under a name of its own choosing;
  with another name than the import's, the import is an ImportError, but the module is
  in `native_modules` and from then on comes before a file of that name, in safe mode and
  without `@std`, too.
* `mod.rs:3435`: an exception that a module's body throws is caught by its importer's
  handler inside the nested `run_loop`.  The importer goes on there, with the module's
  globals; its HALT ends the module's load, the module counts as complete although its
  code did not end (`mod.rs:5829`: a complete module for the imports that follow), and
  the importer's own loop then stops with "ip past end of bytecode"
  (`tasks/45`: the import throws ImportError).
* `mod.rs:3619`: HALT of a module closes all open upvalues, those of the importer's
  functions, too.
* `mod.rs:5284`: a top-level `await` in a module returns from the nested `run_loop`; the
  module counts as loaded with what it had declared so far, the rest of it never runs,
  and the yield signal is taken later by an instruction that did not set it.

The collector:

* `gc.rs:1632`: `major_gc` does not look through young objects, so an old object that is
  reachable only through a young one is freed; with the default promotion age of 2,
  also in `gc_full`, whose minor collection leaves new objects young (`gc.rs:1559`:
  it marks *all* objects reachable from the roots).
* `gc.rs:1414`: an object that is promoted while a child of it stays young gets no card,
  and a card is dropped by the collection that leaves its child young (`gc.rs:1504`:
  the write barrier will mark it again; there is no write).  The next minor collection
  frees the child's old box under the reference.
* `gc.rs:1508`: the comment says that the dirty set has been through `retain_valid`; the
  stop-the-world `major_gc` never calls it, so the next minor collection reads the type
  tag of a freed box.
* `gc.rs:1680`: an object that is kept for its finalizer or its pin is not marked, so what
  it refers to is freed.
* `capi/gc.rs:127`: `msWriteBarrier` does not know the overwritten value and shades the
  new one alone.  While marking, a reference that C code reads out of an object,
  overwrites there and puts into an object allocated meanwhile, which is black, leads
  to an object that nobody marks, and it is freed while it is reachable
  (`gc/sweep.rs:22`: white objects are not reachable).  With `Box(now)`
  alone for `Shades`, three objects and two roots, TLC finds this trace in
  `ConcurrentMark`.
* `mod.rs:1476`: `gc_minor_only` does not look at the phase (`mod.rs:1508`: collections
  are skipped while a concurrent cycle is in progress).  While marking that is
  harmless (checked); while sweeping, the card table may hold boxes that the
  coordinator has freed and that are only removed by `reconcile_sweep`.
* `mod.rs:1577`: a cycle that the timer asks for begins although `gc.disable()` was
  called: the test of `gc_enabled` that the comment relies on comes afterwards
  (`mod.rs:1512`).
* `gc.rs:1614`: `c_roots`, which `msRoot` fills, is no root of any collection
  (`capi/gc.rs:48`: a registered object is not collected).
* `capi/gc.rs:377`: `msGcCollect` decides by `is_obj_reachable` (`mod.rs:1700`), which
  looks at the roots alone, so the C finalizer of an object that is reachable through
  another one runs while the object lives on (`capi/gc.rs:132`).

**Fairness.**  `FairSpec` has weak fairness of the VM thread's next step (the
loop and the running coroutine are one thread that the operating system
schedules) and of each background request (http workers run in their own thread,
with a deadline on the request, convert panics, and always push a completion).
In `ThreadFuture`, `FairSpec` has strong fairness of each thread: the operating
system runs it, and the VM mutex (a `parking_lot` lock, which hands itself over
fairly from time to time) is granted in the end to a thread that asks for it
again and again; starting a call is not assumed.
In `ConcurrentMark`, `FairSpec` has weak fairness of every marker, of the coordinator
and of what the mutator owes (a barrier it has begun, the rest of a full collection, a
shutdown), and strong fairness of `Park`: `run_loop` calls `maybe_gc` before every
instruction (`mod.rs:3526`), so that a program that goes on comes by a safepoint again
and again, though the barrier in between disables it; a program that waits for the end
of a cycle does nothing but poll.  A program that sleeps in a native function, or that
has ended without its VM being dropped, holds a cycle up; the model has neither.
Nothing else is assumed: which operation a coroutine picks, and when a timer is
due before the loop sleeps, stays free.  That programs are bounded (`MaxSteps`)
is what makes `EventuallyReturns` true at all; it says that the *loop* adds no
endless behaviour of its own.

Every property has a mutant in `PROJECT.json`: a slip in one definition (a
forgotten refill, a copied coroutine, an overfull buffer, …) that breaks it.
The mutated definitions stand beside the ones they replace, as
`<Definition>_<Slip>`, and are used nowhere.

## 5. Proofs

Every safety property, invariant or action property, of `EventLoop`, `ThreadChannel`,
`ThreadFuture`, `Unwinding`, `GenerationalHeap`, `ConcurrentMark` and `Modules` that a
passing run checks is a theorem of its specification, for all values of the constants, and
the refinement of `FifoChannel` is, too.  Each proof has the same shape: an inductive
invariant `Inv`; a lemma that `Init` implies it; for each action, or group of actions
that change the state alike, a lemma that the action preserves each part it may
disturb; `Spec => []Inv`; and a theorem for each property that follows.  The proofs
are in modules of their own beside the component's, the definitions of the inductive
invariants at their heads.

| module | theorem | of |
|---|---|---|
| `EventLoop_proofs` | `TypeCorrect` | `TypeOK` |
| | `ChannelsAreDisciplined` | `ChannelDiscipline` |
| | `ExactlyOnePlaceAlways` | `ExactlyOnePlace` |
| | `NoWakeupIsLost` | `NoLostWakeup` |
| | `SomeoneAlwaysSettles` | `SomeoneWillSettle` |
| | `LeavesOnlyTheStuckAlways` | `LeavesOnlyTheStuck` |
| | `SettledOnce` | `SettlesOnce`, an action property |
| | `ReadyIsAQueue` | `ReadyIsFifo`, an action property |
| | `ChannelsImplementFifo` | `ChannelsAreFifo`, the refinement |
| | `ChannelsSkipNothing` | `NoneMissing` of every channel's `FifoChannel`: no offer is skipped |
| `ThreadChannel_proofs` | `TypeCorrect`, `PartnersAlwaysMeet`, `AtMostOneOverAlways`, `NothingIsEverLostOrDuplicated` | the invariants of the run `threads` |
| `ThreadFuture_proofs` | `TypeCorrect`, `AwaitTellsTheTruthAlways`, `SignalIsKeptAlways`, `NoCoroutineForgottenAlways` | the invariants of the run `thread_futures` |
| | `SettledForGood` | no step changes the state of a settled future |
| `Unwinding_proofs` | `HandlersMatchFramesAlways`, `DefersBelongToFramesAlways`, `EscapedIsTakenAlways` | the invariants of the run `unwinding` |
| `GenerationalHeap_proofs` | `TypeCorrect`, `RootsAreSafe`, `CareIsEnough`, `BytesNeverDrift`, `InvisibleCollections`, `FullIsComplete` | the properties of the run `heap` |
| `ConcurrentMark_proofs` | `TypeCorrect`, `RendezvousIsRealAlways`, `IdleIsCleanAlways`, `NothingEverDangles`, `CycleFreesItsGarbage` | the safety properties of the run `concurrent_gc` |
| `Heapq_proofs` | `TypeCorrect` | the places a call looks at are places of the list |
| | `ListsLoseNothing` | `NothingLost`, for any values and any comparison |
| | `HeapsStayHeaps` | `HeapStaysHeap` and `PopsTheLeast`, given `Ordering` |
| | `PopsTakeALeast` | `TakesALeast`: what is popped is least of all there was, given `Ordering` |
| | `EveryCallMovesOn` | `CallsMoveOn`: each turn ends the call or brings it nearer to its end |
| `Modules_proofs` | `LoadsAreTrackedAlways`, `GlobalsNestAlways`, `CacheIsHonestAlways`, `OneModulePerFileAlways`, `SafeModeHoldsAlways` | the invariants of the run `modules` |

**Assumptions.**  Only the named assumptions on constants that the modules state, which
TLC evaluates in each run: bounds are naturals and capacities are naturals
(`ConstantsAssumption` of `EventLoop` and of `Unwinding`); threads are finitely many,
and are neither coroutines nor the value that stands for nobody (`ThreadsAssumption`;
they are finitely many because the property counts those that hold a value);
`FuturesAssumption`, `HeapAssumption` (objects are finitely many) and
`MarkAssumption` (objects and markers are, and the coordinator is not a worker);
`ConstantsAssumption` of `Modules` (files and search paths are what they are called, an
embedded or a native module has a name, no pseudo path is the mark for no file; nothing
says that two names have different
files).  `HeapsStayHeaps` and `PopsTakeALeast` have a hypothesis of their own, `Ordering`: all values of the list
can be compared, and in a weak order.  That is what ints, floats other than NaN, or
strings give (`object.rs:1708`).  Where others are mixed a comparison raises, and then
the list is in partial order only, as the comment at `heapq.rs:60` says; ints among
floats are compared as floats, and that is no order any more beyond 2^53.  The other
three theorems of `Heapq_proofs` assume nothing.

**The arguments.**

*EventLoop, channels.*  `ChannelDiscipline` with `TypeOK` is inductive: every operation
that changes a channel is one of `Take`, `Give`, `Store`, `WaitsToSend`,
`WaitsToReceive` and `Close`; there is one lemma for each, under the guard it is called
with.

*EventLoop, coroutines.*  `ExactlyOnePlace` counts places; `PlaceInv` says the same with
injective queues that are pairwise disjoint, which is what appending and removing
preserve.  The other parts are needed because of each other: that nobody who waits
for something settled stays paused (`PausedInv`) needs that whoever ends says so
(`LifeInv`: a handle is done exactly when its coroutine has ended, only async calls
settle a future by ending) and that wake-ups take all waiters out of `paused`
(`PlaceInv`: or one would be left in a second place); that every pending future has
somebody to settle it (`PromiseInv`) needs that a coroutine settles the future it was
born with.  `Busy` ties `phase` to `current` and `outcome`.  `EndConcludes` and
`StepKinds` sum the actions up: a step lets a coroutine go on, concludes one (settling
and waking together), belongs to the loop, or pops the ready queue.
`LeavesOnlyTheStuck` joins them: a coroutine that has not ended is in a place
(`PlaceInv`), when the loop has given up that is neither the processor nor the ready
queue, in a channel it waits with reason (`ChannelDiscipline`), and what is paused waits
for something open (`PausedInv`) that no timer and no request will settle, or for a
select without a ready case (`OnlyTheStuckArePaused`).

*EventLoop implements FifoChannel.*  The mapping takes the pending values to be the
buffer followed by the values of the waiting senders.  Each channel operation is a
step of `FifoChannel` or a stutter: a value that moves from a waiting sender into the
freed slot stays where it is in the abstract queue (this is where
`ChannelDiscipline` is needed: senders wait only behind a full buffer), a rendezvous
is an offer that is received at once, `close` withdraws what was not accepted.
What the promise comes to is `NoneMissing`, an invariant of every step of `FifoChannel`
and so of every channel (`ChannelsSkipNothing`): values being numbered as they are
offered, the i-th one received is i, and the pending ones go on from there.

*ThreadChannel.*  Neither lock protects the buffer, so the bound on it is a bound with
reservations: `RoomIsReserved` counts a place that somebody under either lock has seen
free and not filled yet, of which there is one per lock at the most (`MutexExcludes`,
`HalfIsFast`).  `NothingLostOrDuplicated` is inductive with `SendersCarry`: a thread in
its sending path has a value; a process that has ended takes no further step.

*ThreadFuture.*  A signal is in one of three places: registered with its future
(`RegisteredWaits`), in the hands of the one thread that took it (`TakenWaits`, and no
other has it), or set (`WokenIsSettled`, of a settled future).  Hence a thread that is
woken reads an answer, and the answer is final (`SettledForGood`).  `TaskInv` says
where coroutines are: paused on what is pending, or once in the ready queue.

*Unwinding.*  `HandlersMatchFrames` is not inductive by itself.  `Match` says that the
handlers are exactly the try bodies that are being executed, in the order of frames and
levels, from the blocks of *all* frames; an early exit pops a number of handlers which
is computed from the blocks it leaves, so the invariant has to say that an inlined finally
belongs to a statement below it and that those below its target are not being left
(`Nested`); `Sections` divides `defer_stack` by the frames' bases, which are ascending.
The parts are stated of arbitrary stacks (`Good(fs, hs, ds)`), so that an action that
unwinds can be followed through its intermediate values.  `BoundaryInv` says that the
outermost native function was entered without a boundary and the inner ones each from a
callback of one, so the boundary is set whenever none of them runs by itself; from that
`EscapedIsTaken` follows.  The invariant does not mention the bounds.

*GenerationalHeap.*  `IInv` adds to the properties that every reference leads to a live
object or is `Gone` (without it, what a root loads from a slot could be a name that is
registered nowhere), that the three lists are disjoint (or a promoted object would be
counted twice), that names out of use and large objects have no references (or a new
large object would inherit some), and that nothing is flagged under careful use (or an
unmarked object would survive).  `Reach` contains its start, is closed, and is the least
such set (`ReachBounds`, `ReachIsClosed`, `ReachIsLeast`); hence a survivor's child
survives, a card's child survives, and a marked object's child is marked
(`SurvivorFacts`, `MarkedFacts`); hence no live object loses a reference
(`MinorKeepsFields`, `MajorKeepsFields`), and the least closed set before and after is
the same one (`LeastAgrees`, `SameView`).

*ConcurrentMark.*  `ThreadInv` is the protocol: per phase, where the coordinator may be
and what the safepoint, the flags and the channel say meanwhile (`IdleInv`, `MarkInv`,
`SweepInv`), how many markers trace (`MarkerInv`), and that the mutator is parked
exactly when it says so.  `ColorInv` is the tricolour argument without paths: whatever
was not garbage when the cycle began is black or in *every* set that contains the
markers' sources (the gray queue, what a marker carries, what the barrier still has to
shade) and is closed under references from white object to white object
(`Protected`).  Stated over all closed sets it needs no induction on paths, and a
store that cuts a path keeps it because the barrier's shade becomes a source first.
When the sources are empty at the end of marking, the empty set is closed, so all of
it is black, and `SweepIsRight` follows.  That is why the last look at the roots need not
see what was promoted meanwhile: all that it leads to was reachable when the cycle
began, or is not managed and never swept.  `GarbageIsWhite` is the converse for
`CycleFreesGarbage`: what was garbage is never seen again by anybody.

*Heapq.*  In the middle of a call the list is a heap but for one place.  `Sinking` says
it of `sift_down`: below the places that `heapify` has not come to, each element is at
most its children, except at the hole, and what is above the hole is at most what is
below it.  `Rising` says it of `sift_up`.  A turn moves the hole by one level and
keeps this, and where the loop ends the exception is empty.  That the first element of
a heap is the least (`PopsTheLeast`) is an induction on places by the parent's,
whose principle takes an operator; it is by the least counterexample (`WFMin`) instead.  `NothingLost` is a bijection between
places: a turn composes it with an exchange of two, whatever was compared.
`PopsTakeALeast` joins these: at most one element is out, what was given is that one and
those in the list, and the one is least among them.  `EveryCallMovesOn` is the measure
that ends each loop: the places left to sink, then the levels to the list's end; it
needs no order, so a comparison that contradicts itself cannot keep a call going.

*Modules.*  The run's invariants support each other: that a load ends by taking its own
key out of `loading` needs that no key is loaded twice (`LoadsAreTracked`), which
needs that a loading key is cached and so never missed (`CacheIsHonest`).
`OneModulePerFile` follows from `FilledIsCached`: a complete module is the one its key
is cached as, and a key that is cached is neither loaded nor replaced.  `SafeModeHolds`
needs what `resolve` finds: the first directory that has the file (`MinIs`), and in safe
mode there is one directory (`KeyIs`, `LibraryKeepsInv`).  Frames and
handlers do not occur in the invariant: it holds wherever exceptions go, whoever's HALT
ends a load and however many frames are left.

**What stays with TLC.**  Liveness under fairness (`EventuallyReturns`, `ScheduledWakes`,
`TakenSignalEndsWait`, `CycleEnds`, `WaitEnds`) and ENABLED are outside TLAPS's reach.
`MeansTheTree`, `UpvaluesMatchStack` and `ReadsAsWritten` are about modules that
declare recursive operators (compiling, evaluating, scanning and parsing are recursive),
as do `HandlesAgree`'s; they switch off TLAPS's SMT backend, and all but the second are
inductions over trees, texts or containers, whose principles take an operator as
parameter.  `Heapq`'s theorems have no run of their own, as lists of any length over any
values are no instance for TLC; the operators they are about are run by the programs
of `codegen`, against a `Meaning` that calls the same natives.  For `Strings` and `Maths`
that run only shows that both ways of calling them agree.

## 6. Not modelled

See `components` in `PROJECT.json` for each part and the reason.  In short:
coroutines inside `Machine`, floats, exception chains and the limits of the stack are
left out there; `json`, `regex`, encodings, hashing, random numbers, the formatting of
floats, and file, network and terminal I/O are left out altogether.
