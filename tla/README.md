# A verification of Binaryen's core in TLA+

Binaryen reads a WebAssembly module, runs a pipeline of passes over its
functions and writes it again.  The passes themselves are about a hundred
rewritings of expressions; what they all stand on is a small core that is
concurrent, stateful or a delicate graph algorithm, and that is hard to test:

* the helper threads and their pool,
* the runner that spreads passes over those threads,
* the arena every thread allocates expressions from,
* the iterator over strongly connected components,
* the whole-program effects computed with it, which later passes trust, and
* the interning stores of names and types, which every thread shares.

Two of the passes have a protocol or a fixed point of their own rather than a
rewriting rule, and are modelled on top: OnceReduction, which decides for the whole
program which calls never have to be made, and Asyncify, which makes a program that
its host can pause and resume.

This directory models that core, checks it with TLC on small instances and
proves the safety of the six parts above for every instance with TLAPS; section 5 says
what is left out.
`PROJECT.json` lists the components, the runs, the mutants that show that each
property can fail, the source lines behind each definition, the findings, the
hazards and the theorems.

## 1. Inventory

| component | state | operations | talks to |
|---|---|---|---|
| Thread pool (`support/threads.*`) | the singleton `pool`, `creationMutex`, `workMutex`, `threadMutex`, `threads`, `running`, `ready`; of each helper its mutex, condition variable, `doWork`, `done` | `get`, `initialize`, `work`, `notifyThreadIsReady`, `Thread::work`, `mainLoop`, destructors | called by PassRunner and `ParallelFunctionAnalysis`; calls back their closures |
| Pass runner (`passes/pass.cpp`, `passes/pass-utils.h`) | `passes`, the local `stack`, the atomic `nextFunction`, the module | `run`, `flush`, `runPass`, `runPassOnFunction`, `handleAfterEffects` | pool; passes; cached effects in the module |
| Arena (`support/mixed_arena.h`) | chunks, index, owner thread, atomic `next` | `allocSpace`, `clear`, destructor | every pass, from every thread |
| Components (`support/strongly_connected_components.h`) | work stack, Tarjan stack, `elementInfo`, `currRoot` | `stepToNextGroup`, `stepToNextElem`, `push` | `pushChildren` of the subclass; the caller's loop |
| Global effects (`passes/GlobalEffects.cpp`) | `Function::effects`, `Module::indirectCallEffects`, call graph | `analyzeFuncs`, `buildCallGraph`, `propagateEffects` | component iterator; every pass that asks for the effects of a call |
| Interning (`support/istring.cpp`, `wasm/wasm-type.cpp`) | global tables under mutexes, thread-local caches; the temporary types of each `TypeBuilder` | `interned`, `TypeBuilder::build`, constructors of single types | everything, on every thread |
| OnceReduction (`passes/OnceReduction.cpp`) | which globals may be "once", the once global of each function, the globals each function sets; old and new copy of the latter | scan, optimizer over the dominator tree, fixed-point loop, simplification of once functions | pass runner, which runs scan and optimizer in parallel |
| Asyncify (`passes/Asyncify.cpp`) | of the pass: which functions can change the state, the lists; of the module it makes: `__asyncify_state`, `__asyncify_data`, the stacks in memory | analysis, rewriting of control flow, of locals, assertions; `start_unwind`, `stop_unwind`, `start_rewind`, `stop_rewind` | the host, which calls these and the exports in turns |
| Delta debugging, wasm-reduce | working set, partitions | `accept`, `reject` | external test command |
| Dataflow analyses (`analysis/`) | block states, worklist | transfer, join | control-flow graphs |
| Module splitting | placeholder table slots | split, lazy loading | the host |
| IR, parsers, binary format, validator, interpreter, other passes, tools, C API | data | conversions and rewritings | - |

What makes each of them correct:

* Pool: a call of `work` blocks until all tasks are done; each task is run
  once; no wakeup is lost; the process can always go on and exit.
* Pass runner: each function is processed by the passes in their order, by one
  thread at a time, and a module pass sees all functions at the same point;
  cached effects never promise less than the code may do.
* Arena: allocations do not overlap whatever thread asked for them; none is
  lost; the walk over the list ends.
* Components: exactly the strongly connected components, each once, callees
  before callers.
* Global effects: what is cached covers every execution.
* Interning: one identity for a name or a type, on every thread and for ever; no
  temporary type, which its builder frees, is ever reachable from a canonical one;
  whether `build` fails depends on what is built and on nothing else.
* OnceReduction: the host cannot tell the module from what it was; the loop ends.
* Asyncify: a program that was paused and resumed does what it would have done if
  the host had answered at once; each fiber's stack is used within its limits and
  left empty; what the lists keep from being instrumented traps with the assertions on.

Hard behaviours: helpers that report, look for work and fall asleep while work
arrives; thread creation that fails half way; spurious wakeups; several clients;
one atomic counter shared by the workers of a flush; the lock-free list of side
arenas; caches that outlive what they were computed from; a caller that pulls
elements out of an iterator between two searches; threads that intern the same
thing at the same time, with addresses freed by one taken by the other; a fixed
point over facts that the pass changes as it goes; a host that interleaves the
pauses of several fibers.

## 2. Modules

### ThreadPool, WorkPool, ThreadPoolSpurious

`ThreadPool` has one action per stretch of code between two points at which a
thread may block.  Its variables have the names of the code; `pc[c]` is where a
client thread is in `get`, `initialize`, `work` or the destruction of the pool,
and `step[w]` where a helper is in `mainLoop`.

| action | code |
|---|---|
| `Call`, `Get`, `Publish` | `ThreadPool::get` and its caller |
| `InitializeOneCore`, `Initialize`, `Spawn`, `SpawnFails`, `InitializeReturns` | `initialize` and its early returns |
| `Work`, `RunSequentially`, `LockWork`, `Reset`, `Hand`, `WorkReturns` | `work` |
| `Block`, `WakeSpuriously`, `Resume` | `condition.wait(lock, areThreadsReady)` |
| `Check`, `RunTask`, `Notify`, `Park` | the blocks of `mainLoop` |
| `Destroy`, `DestroyThread`, `Join`, `ClearDone` | `threads.clear()` and the destructors, from `initialize` or at exit |

A helper's own mutex is held across steps only while it runs a closure, so
`step[w] # "task"` is the condition for locking it.  `notify_one` on the pool's
condition variable wakes some blocked client or nobody.  A closure is the number
of times it still has to be called: `More` until the last call, `Finished` then.

`WorkPool` is the promise: closures of a call are called until they answer
`Finished`, several at once only for the owner of the helpers, and the call
returns when all have.  `ImplementsWorkPool` is the refinement, with
`owner <- workMutex` and `todo` put together from what the helpers and the
caller still hold.

`ThreadPoolSpurious` adds one action: a helper wakes though nobody notified it.
It is kept apart because the code is not correct under it (section 4), and so
the theorems are about `ThreadPool`, where a helper's wait ends only by
`notify_one`.  The client's wait has a predicate and may end at any time in both.

### PassRunner, PassOrder

`PassRunner` is `run()`: the loop over passes with its stack, `flush`, the
closures of the workers with their shared counter, `runPassOnFunction` and
`handleAfterEffects`, and the debug mode that runs one pass after the other.  The
pool appears as what `WorkPool` promises: closures are called until they finish,
then `work` returns.  A function is the log of the passes that changed it and the
set of effects they added; the cache `effects[f]`, `indirectCallEffects` is filled
by `ComputeEffects`, the pass generate-global-effects in short, which reuses cached
effects as the code does.  `pass.relevant` stands for `runsOnFunction`, which
`FilteredPass` narrows, and `skipped` for `--skip-pass`.  What calls lead to is
`Closure`, the least set of functions that holds the first ones and is left by no edge.

`PipelinesAssumption` states what is taken for granted of the passes: those that compute
effects change no code, and a function-parallel pass that adds effects runs on all
functions.  `SpillPointers` is the only such pass; the filtered runners (of Inlining,
Asyncify, DeadArgumentElimination and `opt-utils.h`) wrap none.  Were one
wrapped, the caches of the functions it leaves alone would not hold what it adds to the others.

What a function goes through in the end is `For`, the last value of `Selected`: of
the first k passes those that are for it.  `MCPassRunner` checks that this is
`SelectSeq`.

`PassOrder` is the abstract specification: every function goes through the passes
meant for it, in order; function-parallel ones at its own pace, module passes
together with all other functions.  It has no threads, stack or counter.

### MixedArena

`allocSpace` for several threads: the walk along `next`, the side arena made when
the end is reached, `compare_exchange_strong`, the side arena deleted when it is
not needed, and the bump allocator in two steps, so that two threads in the same
arena would disturb each other.  Memory is a set of allocations, each with its
arena, chunk and first byte.  `Destroy` is the destructor with its recursion down
the list.  `Chain` and `After` are the arenas linked from the first one, and behind
a given one: least sets closed under `next`.

### SCCs, GlobalEffects

`SCCs` is Tarjan's algorithm as the code has it, with an explicit work stack on
which a node stays while its children are processed, and with the caller's
`stepToNextElem` between searches.  `pushChildren` may push in any order, as
the hash sets it iterates over do.  The reference is `Reach`, the least set that holds a
node and is left by no edge, and from it `Connected` and `Component`; `MCSCCs` checks that
`Reach` agrees with the paths of the community module Graphs.

`GlobalEffects` extends `SCCs` and runs it on the call graph that
`buildCallGraph` makes of functions and heap types.  What the pass has to cover is
defined independently, as `Execution`: the functions that can be entered from a
function, by direct calls or by indirect ones to a referenced function of a
subtype or an inexact import, their effects, a trap where a type has no function
and where a function can be entered again.  Functions have no `try`, so every throw
leaves its function.  `IsModule` says what a module is: a forest of types, records of the
right form, imports without calls.

A function makes its calls of one callee either as return calls (`returns`) or as ordinary
ones.  A return call that may throw sets `hasReturnCallThrow` in place of `throws_`
(effects.h:1361-1376, 1399-1405), which `walk(Function*)` turns into a throw of the function
(:193-195); `ReturnThrows` and `Walk` are this.  The scan of `analyzeFuncs` clears `throws_`
alone and finds no return call again, so two things are not as one expects, and the
properties say so:

* `LosesThrow`: the throw of an indirect return call with cached effects is gone
  if the function also has a call whose effects are not cached (section 4);
* `Spurious`: `hasReturnCallThrow` stays, is cached, and counts as a throw the
  next time a caller is walked, although nothing may throw.

What was cached before (`Earlier`) is right: the effects of the execution, with or without a
`hasReturnCallThrow` that was kept so; what a further run makes of caches that have lost a
throw is left out.  The effects of `PassRunner` are such as no scan loses.

### Callers, CanonicalTable, TypeStore, StringStore, Stores

`CanonicalTable` is what an interning store promises: an atomic table from values to
identities that is only ever extended, and calls that are answered with the
identities of the values they asked for.  Whether a call may end early depends on
its values alone (`Refused`).

| `StringStore` | code in `IString::interned` |
|---|---|
| `Call` | the caller, outside every lock |
| `LookUpLocal` | the thread-local set is asked |
| `LookUpGlobal` | the mutex is taken, the global set is asked |
| `Copy` | the copy in the arena, the insertions in both sets, the mutex released |
| `TakeString` | the return |

| `TypeStore` | code |
|---|---|
| `Begin` | `TypeBuilder` with its entries and temporary infos, filled by the caller |
| `Construct` | `HeapType(Signature)` and its like: a trivial group, inserted at once |
| `Prepare` | `updateReferencedHeapTypes` and the checks before the insertion |
| `Insert`, `Publish` | `RecGroupStore::insert` under its mutex, found or new; the types moved to `globalHeapTypeStore` and no longer temporary |
| `Unique` | a duplicate is recorded and freed; groups a binary could not tell apart are refused |
| `Return` | the result or the error, and the destructor of what the builder still owns |

A type is its content, which is opaque, and its references.  `SameGroup` is
`RecGroupEquator`: own references by index, others by identity.  `Shape` is what is
left of a content when it is written in a binary.  Addresses that are freed are used
again at once (`MCPlacements` takes the lowest), as an allocator would, so that a
reference left behind names another thread's group.  Errors of validation are early
returns of the same form as the forward reference, which stands for them.
`globalHeapTypeStoreMutex` is only taken with `RecGroupStore::mutex` held and is so
never waited for; it is part of `Publish`.  Tuples are left out: `TupleStore` is a
third table of the same kind.  `buildRecGroup` ends with inserting into it the tuples of the
types it returns (wasm-type.cpp:2665-2687); the programs of the model have none.

The identity of a type is its unfolded structure (`Unfold`), and what a caller asks
for is the structure of its program (`Meaning`), computed without regard to any
store.  `ImplementsTypeTable` says that these agree whatever other threads build.

`Stores` is both, for the same threads (`Callers`), each in one call at a time.

### OnceReduction, OnceExecution

`OnceReduction` is the pass: `Scan` of each function in any order, `Combine`,
`Optimize` of each function in any order, `EndIteration` with its comparison of
counts, and `OptimizeBody` of the once functions in module order.  A body is a
sequence of calls, sets, reads, other effects, returns and ifs whose arms hold none;
the dominator tree of such a body is the path of items before, so `Walk` carries what
has been written and drops at the end of an if what only one live arm wrote.
`AssertionsHold` are the two assertions of the source.  `ModulesAssumption` says what a
module and a body are (`IsBody`), and `NamesAssumption` that the fake global of an idempotent
function (`module.fake`) is none of the module's globals, which is all that
`getValidGlobalName` (:437) sees to: two functions may share one (section 4).  TLC checks both
for the modules of the run.  The entry block (`Entry`) ends with the first if, as it does
without exception handling; with it a call ends a block, too (`doEndCall`, cfg-traversal.h:346).

`OnceExecution` runs a module under a host that calls exports in any order, decides
the ifs that are its own and calls back from effects.  `SameBehaviour` compares what
it sees before and after the pass, for modules in which no fake global is shared.

The modules of the run keep to what the pass takes for granted and does not check.
The exit logic of a once function that only calls another one is removed with the
remark that the behaviour stays the same (:583).  It does not where the global does not
start at zero (`test/lit/passes/once-reduction.wast:639` shows such a module), where
something else sets it (:516 there), where two once functions share one global, or where the
called function is only annotated as idempotent and calls back.  So all globals start at zero
and are shared by nobody, and sets from elsewhere occur only where no exit
logic is removed.

The last case deserves a word.  Let `a` be a once function that calls `b`, and `b` be
annotated as idempotent and call `a`, which it is: calls after the first do nothing.
`optimizeOnceBodies` asks whether `b` is "once" (:550), not whether it has exit logic, and
`a` loses its own; a call of either then never ends, which is what the comment at :592 wants
to avoid.  `ExitsAreKept` (section 5) is true of this module: the one function without exits
calls a function that did not lose any.  It had none to lose.

### Asyncify, AsyncifyExecution

`Asyncify` has the three parts of the pass: `ModuleAnalyzer` (`Scanned`,
`PropagateBack`, `CanChangeState` with the remove, add and only lists),
`AsyncifyFlow` (`CallSupport`, `LinearArms`, `Process`) and `AsyncifyLocals` (`Liveness`,
`Instrument`).  Bodies are flat IR: statements on locals, with blocks, loops, ifs,
branches and returns.  The index of a call is its place in the body, a condition a set of
tests of which one must hold.  The optimizations between the two rewritings are left
out; which locals are saved is found by the liveness analysis on the rewritten body, as in the
code.

`AsyncifyExecution` runs the rewritten module.  A fiber is a call of the export, with
a stack of its own; the fibers share the state and the data pointer.  `CallExport`
runs until the call ends or an import without an answer unwinds, `HostStopsUnwind` and
`HostStartsRewind` are what the header of the pass (:189-197) tells the host to do.
The reference is `Original`, the module from before the pass with the same answers at
hand.

The header (:171-178) names `get_state` among the imports the pass turns into calls
of its own runtime; the code (:586-598) ends with an error on it.  A runtime inside the
module is not modelled, so this is noted here only.  What `TrapsForAReason` says of
the assertions has a limit of its own: they are in functions that are not
instrumented, so an instrumented function whose indirect call is ignored does not notice.

## 3. Runs

| run | instance | what it shows |
|---|---|---|
| `threadpool` | 2 clients, 0-2 cores, the first thread may fail to start, closures of up to 2 calls | safety, refinement of `WorkPool`, every call returns |
| `threadpool_spurious` | 1 client, 2 helpers | finding 1 |
| `threadpool_start_failure` | 1 client, the second thread cannot be created | finding 2 |
| `passrunner` | 3 workers, up to 3 functions, 10 pipelines, both modes | order, exclusion, caches, termination |
| `passrunner_indirect` | the same | finding 3 |
| `arena` | 3 threads, chunks of 4 bytes, 4 allocations of 3 kinds | disjointness, no loss, no waste, termination |
| `sccs` | all 512 graphs of 3 nodes, 4 of 4 nodes, 4 inputs | components, order, invariants of the stack |
| `global_effects` | 2 functions, an import, 3 types in a chain, calls and return calls, open and closed world, 4 states of the cache with and without `hasReturnCallThrow` | the cached effects cover every execution, but for `LosesThrow`, and nothing is invented, but for `Spurious` |
| `stores` | 2 threads, 3 calls, 3 type builders of up to 4 groups and a single type, 2 names, 12 addresses | both stores implement a table; no temporary type escapes |
| `once` | 165 modules of 3 or 4 functions, 2 globals; 2 calls by the host, 3 answers | assertions, behaviour, termination |
| `once_tail_calls` | a module with tail calls of a once function | finding 4 |
| `asyncify` | 140 modules of 4 functions, 11 x 11 bodies and 19 settings of the lists; 2 fibers, stacks of 3 and of 16 words, 3 answers | behaviour, stacks, traps |

Why the bounds are enough to be interesting.  Two clients compete for the pool
and for its creation; two helpers can report in either order, and one can run
behind while the other is already waiting; two calls per closure tell `More` from
`Finished`.  In `threadpool` only the first thread may fail to start: a later
failure is finding 2, which would stop everything.  Three workers and three
functions let one worker take two functions, several run dry, and the last index
be an import.  Three threads make the list of side arenas two long, with a loser
of the exchange that has to go on behind the winner; a request of five bytes is
more than a chunk.  Three nodes have every shape of nested and overlapping cycles
but a cross edge between two cycles, for which there are the graphs of four.

In `stores` a call of one thread runs beside two of the other, so that a duplicate can
appear at any point of a build and its address be taken while the
build goes on; the programs have a duplicate in themselves, a group with references of
both kinds, an error after results, and a collision in a binary.  In `once` four functions hold a
chain of once functions, a cycle and two users of it, and two calls by the host tell a function
that ran from one that did not.  In `asyncify` every pair of parts puts each form of control flow
before and after each other one; three answers are two pauses of one fiber and one of the other, or
three passes through a loop; a stack of three words is too small for some of
the frames and just large enough for others.

Bounds that are not in the code: `NumCores`, `MaxTasks`, `MaxAllocs`, `MaxCalls`,
`MaxScript`, `MaxAnswers`, `Fuel` (of an execution: calls by one call of the host; one that
runs out is not compared), `Room` (the memory behind a stack, so that an overrun is
seen and not lost), `MaxArenas` (never reached: a thread makes at most one arena, and the
five allowed leave room for a mistake to show), and in
`ThreadPoolSpurious` the number of spurious wakeups.

Deadlock is checked in every run but `threadpool_start_failure`, where the
deadlock is the subject, and `asyncify`, where the host may stop at any point and does
so after a trap or the last answer.  `Exited`, `Done`, `Finished`, `Stopped` and `Exit`
are the stuttering steps of a process that has ended or has nothing more to do.

Fairness.  The operating system runs every thread that can run: weak fairness of
each helper, of each client once it is inside the pool, of each worker and of a
thread inside `allocSpace`; OnceReduction as a whole goes on until it is done.  Mutexes need no more, as each is waited for by a
bounded number of steps of others.  Nothing forces a client to call, a thread to
fail or the process to exit.  `CallsReturn` further assumes that condition
variables wake clients for no reason only finitely often, as a thread that is
woken all the time holds `threadMutex` again and again.  It starts, for `work`,
where the client has `workMutex`: a `std::mutex` is not fair, so a client may wait
for it as long as others keep calling.

## 4. Findings

1. `threads.cpp:112`: the helper waits without a predicate.  After a spurious
   wakeup it reports ready a second time; `ready` can reach `threads.size()`
   while another helper is still at work, and `work` returns early.
2. `threads.cpp:145`: `threads.clear()` runs under `threadMutex`.  A helper that
   has started needs that mutex to report, and the destructor joins it: `get`
   deadlocks where the comment promises to go on with one thread.
3. `pass.cpp:1122`: the cached effects of indirect calls are cleared only after
   passes that are not function-parallel; `spill-pointers`, which is, adds effects
   and leaves them.
4. `OnceReduction.cpp:320`: a tail call of a once function that has run becomes a nop,
   and with it goes the return.  Execution goes on after it.

Because of 3, `EffectsCover` leaves out functions that reach an indirect call in
pipelines with such a pass: a second generate-global-effects takes over what is
stale.  All other pipelines, and all other functions of these, are covered, for any module
(section 5); and without such a pass the caches of indirect calls are covered as well, so
that 3 is the only way for them to be wrong.

Two more are exceptions stated in the properties, not runs of their own: no comment
or test speaks of these cases.

* `GlobalEffects.cpp:75`: a function with a throwing `return_call_ref` or
  `return_call_indirect` whose effects are cached, and another call whose effects are not,
  loses the throw when generate-global-effects runs again.  The return call has set
  `hasReturnCallThrow` only, the scan clears the `throws_` that `walk` made of it and
  does not find it again, the type is not in `indirectCalledTypes` since it
  is known, and `throws()` (effects.h:231) does not look at `hasReturnCallThrow`.  The effects
  cached then, of this function and of all that call it, do not cover what happens.
  Without `LostThrows`, TLC finds `EffectsCoverExecutions` and
  `IndirectEffectsCoverExecutions` violated in the run `global_effects`.
* `OnceReduction.cpp:437`: beside a global `$f` and no other, the idempotent functions `$f` and `$f_1`
  both get the fake global `f_1`, since `getValidGlobalName` (names.h:76-81) looks at the
  globals of the module and not at the names given out.  After a call of one the
  other counts as called.  Without `IsInjective(module.fake)`, TLC finds `SameBehaviour` violated in the
  run `once`, by the module `SharedFake`; `AssertionsHold` and `Terminates` hold of it.

## 5. Proofs

Every theorem holds for any value of the constants that satisfies the named assumptions of
its module.  The pattern is the same throughout: the property is not inductive, so there is
a strengthened invariant, one lemma per action that this action keeps it with a step per
conjunct, one that puts them together (`NextInv`), and PTL, which makes an invariant of the
specification of it.

### The pool: ThreadPoolProofs

`THEOREM Spec => []P` for the five invariants of the run `threadpool`, for any set of
clients, any number of helpers and of tasks, any core counts and any set of threads that
may fail to start.  The assumptions are `ClientsAssumption`, `NumCoresAssumption`,
`CoreCountsAssumption`, `SomeCoreCountAssumption` (the machine has some number of cores),
`MayFailAssumption` and `MaxTasksAssumption`: the kinds of the constants.  The strengthening is

    IInv == TypeOK /\ Locks /\ Calls /\ HelpersInv /\ Fresh /\ Count

* `Locks`: which `pc` holds which mutex, so that there is one client in
  `initialize` or the locked part of `work`;
* `Calls`: what a client's locals and `running` are at each `pc`;
* `HelpersInv`: which helpers exist, and that a helper with work or with the
  request to end is not asleep;
* `Fresh`: no helper exists before its turn in `initialize`, and those the
  destructor has come past have ended;
* `Count`: while somebody waits for the helpers, `ready` is the number of those
  that have reported, a cardinality of a set of helpers; once nobody does, all
  have.

`Count` carries the argument: `ready = threads` means that every helper has
reported, hence none has its closure any more.

`SomebodyGoesOn` is freedom from deadlock, for any clients and helpers: while a client is
inside a call, the guard of some step holds (`HelperCan`, `ClientCan`, which are the guards
of the actions; that they agree with `ENABLED` cannot be proved here).  A client that waits
does so for the holder of a mutex or for a helper: `Waits` says that it sleeps only while a
helper has yet to report, and joins only a helper it has told to end.  The one
exception is `Stranded`: a helper is being joined by `initialize`, under the mutex that it
needs.  `StrandedByFailure` shows that finding 2 is the only way there, as it takes a thread
other than the first that cannot be created.

`PoolImplementsPromise` is the refinement: initial states map to initial states and
each step to a step of `WorkPool` or a stutter.  It needs `Own`, that a client has closures
just while it is in `work`, one for each helper, and that there is no pool of one helper.
Most steps are stutters because `todo` is put together from what is handed out and what is
not; `RunTask` is the call of a task, `WorkReturns` and the early returns are returns.

### The pass runner: PassRunnerProofs

For any workers, pipelines and modules (`WorkersAssumption`, `ModulesAssumption`,
`PipelinesAssumption`).

    PInv == Types /\ StackInv /\ DebugInv /\ WorkersInv /\ Overshoot /\ Logged

The stack is the part of the pipeline between `Base` and the current pass; a worker is at
a function that the counter has gone past and nobody else has; the counter is past the end
by at most the number of workers that have finished; and `Logged` says how far each function
has come: to `Base` before it is claimed, to the worker's place in the stack while it is at
work, to the end of the stack after that.  From this follow `TypeCorrect`,
`FunctionsNotShared` and the refinement `PassesInOrder`: the pass that is appended to a log
is the one due, and a module pass finds every function at its own place.

How far a function has come is a prefix of `Selected`, a recursive function on the places
of the pipeline.  That it exists and grows by one pass at a time is induction.  The
induction theorems of the library take operators and are out of reach, but `SetInduction`,
the same for a set of numbers, follows from the theorem that `<` on the naturals is
well founded, and is enough.

    EInv == EffectTypes /\ Resets /\ CoverInv

is what `EffectsCover` needs.  While a stack is being run some functions have been through
a pass that adds effects and others have not; `Pending` are these passes.  `CoverInv`: cached
effects cover all that can be reached, up to what is pending.  `Resets`: a function that is
through with a pending pass has no cached effects, so that when the flush returns either
nothing was pending or nothing is cached.  `ComputedCovers` is the main lemma: effects
computed while some caches are known cover what can be reached, since the search
leaves a function aside only if a cache covers it.  `CachedEffectsCover` follows, and
`IndirectCachesCover`: without a function-parallel pass that adds effects, finding 3 cannot happen.

The rest of `AllPassesRun` but for fairness: `EndsWithAllPasses`, that `run` never ends with a
pass left out or left on the stack, from `PInv`; and a measure that every step of any thread
advances (`RunGoesOn`), in this order: the place in the pipeline, the stage of a flush, the
shared counter, what one worker has left to do at its function.  `RunIsBounded` gives the
bounds; the counter passes the last function at most once per worker.

### The arena: MixedArenaProofs

For any threads, chunk size and requests (`CreatorAssumption`, `ChunkAssumption`,
`RequestsAssumption`, `BoundsAssumption`): all four invariants, the type invariant
and the action property `ListOnlyGrows`.

    IInv == TypeOK /\ Unlinked /\ Ahead /\ OnePerThread /\ Kept /\ Bump /\ NoOverlap

`Ahead` is the idea of the code that no line of it states: whatever a thread owns is
still ahead of its walk, so that reaching the end means that it owns nothing and may link
an arena of its own.  It holds because only the thread itself adds an arena of its own and
the list only grows at its end.  `Bump` says that between `Align` and `Take` the thread is at
an arena of its own, and that all allocations of the last chunk end before the index.

`AllocSpaceReturns` needs more than that guards hold, as the walk starts again after each
lost exchange.  `ListHasAnEnd`: the list is not a ring, since it grows only by an arena that
nothing links to (`Unlinked`).  `WalkGoesOn`: each step of a thread leaves it with less of
the list ahead or at a later stage, whoever won.  `WalkNotOutrun`: others add to what is
ahead only if they have no arena in the list yet, and then one, by `OnePerThread`.

### Components and effects: SCCsProofs, GlobalEffectsProofs

`SCCsProofs`: for any graph, any input and any order of children (`GraphAssumption`:
a node has finitely many of them; `InputsAssumption`) the groups delivered are the strongly
connected components of what was reached, each after those it has edges to.

    IInv == Types /\ Numbers /\ WorkStackInv /\ Lowlinks /\ Ordered /\ Belongs /\ Parts /\ Emitting

* `Numbers`: indices are dense and the stack is ordered by them;
* `WorkStackInv`: the opened items of the work stack are the way down to the current element,
  and what lies on top of the last one are its children;
* `Lowlinks`: a lowlink is the index of an element of the stack that can be reached, and no
  larger than that of any child already looked at;
* `Ordered`: elements of the stack reach all later ones;
* `Belongs`: an element that is done stays on the stack because it leads to one that is not,
  to which it has passed on its lowlink;
* `Parts`, `Emitting`: what has left the stack is what was delivered, and what is left to
  deliver of the component is the top of the stack.

`Belongs` is what makes a root a root: an element with its own index as lowlink that is
done leads nowhere below itself, so all above it is its component.

`EndsWithAll` is the goal of `DeliversAll`: what has been visited at the end has the input in
it and is left by no edge, because the children of an item that is done are visited.
`IterationGoesOn` is its measure: elements visited, inputs taken, then what is still on the
work stack and on the Tarjan stack.

`GlobalEffectsProofs` builds on it, for any module and any effects cached before
(`EffectsAssumption`, `ModulesAssumption`).  It has three parts: what `Execution` is in terms of
reachability; what `analyzeFuncs` and `buildCallGraph` make of a module (`InfoRight`,
`Analyzed`), cached effects that are reused and throws that are lost (`LosesThrow`) included;
and an invariant of `propagateEffects`,

    GInv == IInv /\ Analyzed /\ RootsSeen /\ Progress /\ Flows /\ Sourced /\ Stored

that speaks of single edges only: what a node has covers what its children have, what it
does itself, and a trap if it is on a cycle or is a type without functions (`Flows`); and what
it has comes from a function it reaches (`Sourced`).  `HandledCovered` goes from edges
to executions: the nodes whose effects are within a set are closed under edges, given that the
set has the throws that get lost on the way (`Spared`).  The endless
recursion needs an argument of its own (`EndlessCovered`): a function that can enter itself
is on a cycle of the graph, or a cache answered for one of the calls on the way, and
then covers all of it.

`EndsWithEveryFunction` and `PassGoesOn` carry the end of the iteration over to the pass: every
function is a root, and a component is stored before the iterator moves on.

### The interning stores: TypeStoreProofs, StoresProofs

`TypeStoreProofs` proves the type invariant and `NoTemporaryLeaks` of the store of
types, for any set of threads, of addresses, of leaves and of programs, and any
allocator.  The assumptions are `NoThreadAssumption` (`Callers`), `PlacementsAssumption`,
that the allocator returns distinct free addresses, `ProgramsAssumption`, that groups
have types and refer to groups of their own program (`IsProgram`), and
`ContentsAssumption`, that leaves have contents of the known kinds.  The strengthening is

    TypesInv == HeapInv /\ CanonicalInv /\ OwnershipInv /\ ... BuilderInv(t) ...

* `CanonicalInv`: canonical groups are alive and name canonical groups only; one that is
  temporary is being published by the thread that holds the mutex;
* `OwnershipInv`: what a builder still owns (`Mine`: its groups ahead, and the current one
  unless the store has it) is alive, is not canonical, and is nobody else's, so that freeing
  it hurts nobody even when addresses are used again;
* `BuilderInv`: for each builder the position of its loop (`LoopInv`), that groups already
  built go by the names of the results (`NamesInv`), that groups not yet looked at name only
  groups of the same builder and the one between `Prepare` and `Insert` only canonical ones
  or itself (`InputInv`), and that results are settled (`ResultsInv`).

The argument turns on `Prepare`.  A reference is renamed to a result, which is canonical, or
stays on a group that is not built yet, which is still temporary; a temporary group other
than the own one is the error.  So what reaches `Insert` names canonical groups or itself.
`Steps` is the lemma that reduces an action to what it does to its own thread; a lemma
per action uses it.

Its second part proves `ImplementsTypeTable` on top of it: every step of a builder is one
of the table of structures or a stutter.  The structure of a group is what `Unfold` makes
of it, a function that is defined by its own values; that there is one, and one only, is
not free.  The invariant says what makes it so, and what calls have been given:

    TableInv == StructuresInv /\ \A t : builder[t].pc # "idle" => CallInv(t)

* `StructuresInv`: the canonical groups name only each other (`Closed`), without cycles
  but inside a group (`Grounded`: every set of them has one that names no other of
  the set), their structures solve the equations of `Unfold`, and no two are equal;
* `CallInv`: results have the structures of `Meaning` of the caller's own program, what is
  still to be built is as the caller gave it, the group between `Prepare` and `Insert` is its
  program's group with the results in place of the names, and earlier meanings did not
  collide.

`OneSolution` is the uniqueness: a smallest group at which two solutions differ has all
that it names in common.  So a new group extends the solution and leaves the others'
structures alone (`UnfoldWith`), and so `RecGroupEquator`, which compares references out
of a group by identity, compares structures (`SameStructure`, from `StructuresInv` alone).
`ImageMeant` joins the two sides: the group that `Insert` looks up has, or would have, the
structure that the program means.  Both errors of `build()` are found to be the program's
own: forward references by `LaterMeans`, where the code looks at `temp` flags of groups
that other threads publish meanwhile (`TablePrepare`), collisions by `SameErased`.
`Meaning` is a recursive function as well; its values exist by `SetInduction`, which is the
library's induction for a set in place of a predicate (`MeaningFacts`).

`StoresProofs` proves the invariant of the store of names and the refinement
`ImplementsNameTable` for any threads and any names: initial states map to initial states
and every step to a step of the table or a stutter.  The invariant says that texts and
addresses of the global set determine each other, that each cache is a part of the global
set, and that a name about to be copied is in no set.  It then carries all four results
over to `Stores`, the specification of the run `stores`: a step of one store is a stutter
of the other.

### OnceReduction: OnceReductionProofs

For any functions, any bodies and any globals (`ModulesAssumption`: finitely many functions
in some order, finitely many private globals, and calls and annotations that name functions of
the module; `NamesAssumption`).  First `AssertionsHold`.
The assertion that no iteration finds fewer globals than the one before is not obvious,
as every iteration turns calls and sets into nops in the code that the next one looks at.

    OnceInv == Shape /\ GlobalsAreOnce /\ FoundKept /\ AtFirst /\ Lasting

`Known` is what the entry block of a body writes, given what the functions it calls write,
without the walk: the union over the items that are reached before the first if
(`FoundIsKnown`).  Then

* a walk takes nothing from it (`NoneLost`): an item becomes a nop when items before it have
  written what it writes, and of these the first is still there.  This holds of a tail
  call, too: without it more items are reached, which is finding 4 but can only
  add to what is known;
* it grows with what is known of the functions that are called (`KnownMonotone`);
* so after the first iteration every function writes what its set says, whatever the
  optimizers have done to it (`Lasting`), the sets of an iteration contain those of the one
  before, and `Count` adds up to no less (`CountMonotone`).  In the first iteration the
  set of a once function need not be contained, which is why `last` starts at 0: the mutant
  that starts it with the once globals fails.

`Walk`, `Straight` and `Count` are folds.  A fold is a function of sets that the library
chooses by its recursion; `FoldExists` and `TallyExists` say that there is one, by
`CountedInduction` on the number of items, and `FoldRuns` gives the accumulators one by one.

The loop of the pass has no limit in the code.  `IterationsAreBounded`: a set found is one of
once globals, so no count exceeds that of all of them in every function (`MostFound`); the
bodies to do are a suffix of the module's order.  `PassGoesOn`: every step ends a phase, raises
`last`, or does a function.

`ExitsAreKept` is about the last phase, which takes the exit logic from functions that only
call other once functions, one after the other and in view of those it has done.

    ExitInv == NamesKept /\ NotRemovedYet /\ GuardsKept /\ NoOwnCalls /\ ExitsKept

A function that loses its exits calls one that has not lost them *so far*, so a set of functions
without exits has a member, the last one done, that calls out of the set, unless that one
calls itself.  The code has no test for this.  It need not, and the proof shows why: the walk
of a once function knows, behind the guard, that its global is set (`OnceWalked`), so the
optimizer has made a nop of such a call in the first iteration, and guards survive every walk
(`GuardWalked`).  That `Optimize` comes before `OptimizeBody` is what this rests on.

### Only model-checked

Liveness itself (`CallsReturn`, `AllPassesRun`, `AllocSpaceReturns`, `DeliversAll`, `PassEnds`,
`Terminates`): fairness speaks of `ENABLED`, which TLAPS does not reach, and the step from a
measure to an end is induction over data.  What is proved of them is stated above: the state in
which each ends is the right one, every step advances a bounded measure, or, for the pool, some
step can always be taken.
`SameBehaviour` and the properties of Asyncify, whose executions and rewritings are
recursive operators on bodies; tlapm cannot reason about a module that declares any, and
a statement about all executions is induction over them.
`ThreadPoolSpurious`, which violates what is proved of `ThreadPool`.

## 6. What is not modelled

Expressions and what passes do to them: the semantics of WebAssembly is a
specification of its own.  `PassRunner` has no nested runners (they run on one
function, in the thread of their pass), no validation between passes and no DWARF.
`ArenaVector` is not modelled.  Data races on `Function::effects` between workers,
the memory order of the atomics (all are sequentially consistent in the code) and
running out of memory are left out.  Of the interning of types, `TupleStore` and the
tuples of a builder are not modelled, nor references of a builder to types that were built
before it: a program brings all the groups that it names.  Of OnceReduction, bodies nest ifs one level deep
and have no loops.  Of Asyncify, a runtime written inside the module, exceptions, and the
optimizations between the two rewritings are left out.  The remaining components are
listed in `PROJECT.json` with the reason.

## 7. Plan

Done, in this order: the pool with its proof, the pass runner, the arena, the components,
the global effects; the stores of names and types with their proofs, OnceReduction and
Asyncify, each with the executions it must preserve.  Next:

1. `DeltaDebugger`: `accept` and `reject` over all monotone and non-monotone
   tests of a small set; it ends, and what is left is minimal.
2. `MonotoneAnalyzer` over `UniqueDeferredQueue`: the result is the least fixed
   point, whatever the order of blocks.
3. The placeholders of module splitting, and a runtime of Asyncify inside the module.
4. `PassRunner` with nested runners; `ArenaVector` on top of `MixedArena`.

A composition of `PassRunner` with `ThreadPool` in place of its promise is not planned.
`WorkPool` says how often a closure is called, which the closure decides in `PassRunner` and a
bound in `ThreadPool`; the refinement would have to foresee it.
