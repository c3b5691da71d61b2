# A TLA+ model of QuickJS-Swift

QuickJS-Swift binds the QuickJS engine (C, `Sources/QuickJSC`) to Swift
(`Sources/QuickJS`). The engine's language implementation is vendored; what the
repository adds, and what this project models first, is the part where the two
meet: jobs and timers driven by the thread's run loop, native modules in the
engine's module lists, and objects owned on both sides. Of the engine the project
models the parts that are protocols rather than computations: promises and async
functions, async generators, the collector of cycles, iteration over a Map that
changes, and the two places where threads meet, worker message pipes and
`Atomics.wait`.

## 1. Inventory

| Component | State | Operations | Correct when |
|---|---|---|---|
| Event loop (`JSRunloop.swift`, `JSContext.swift`, job list in `quickjs.c`) | `rt->job_list`, `rt->current_exception`, the run loop's observers and timers, which JSContexts are retained | `eval`, `call`, `getException`, `enableRunloop`, `setTimeout`, `flushPendingJobs` from an observer, release of a JSContext | jobs run in order and are not left behind; timers fire once; exceptions are reported by the call that raised them; no freed object is used |
| Modules (`JSModule.swift`, `JSContext.swift`, `quickjs.c`) | `ctx->loaded_modules`, the flags of each `JSModuleDef`, `JSContext.modules`, the C stack of the traversals | `JSContext.module`, `JSModule.function`, `eval(type: .module)`, `import()`; resolve, create, link, evaluate; their failures | each module runs once, after what it imports; nothing freed is referenced; failures leave nothing half-done |
| Object lifetimes (all Swift files, `JS_FreeContext`, `JS_FreeRuntime`) | reference counts on both sides | creating and dropping runtimes, contexts, values, modules, timers | the engine's runtime goes after everything in it |
| Worker message pipe (`quickjs-libc.c`) | message list, mutex, byte in an OS pipe, reference count | `postMessage`, `onmessage`, `js_os_poll`, ends of the threads | FIFO, no missed wake-up, freed with the last owner |
| Native function calls (`JSFunction.swift`) | the function's unretained pointer to itself | `buildFunction`, `callRealFunction` | arguments and results live long enough |
| Conversions (`JSValue.swift`, `JS_ToInt32Free` and its relatives in `quickjs.c`) | none | `init?(context, value)` and `jsValue` of the Swift types; modulo, saturating and clamping conversions | they agree with the language; values survive a round trip |
| Promises and async functions (`quickjs.c`) | state, result and two reaction lists of a promise, `already_resolved` of a pair of functions, counters of `Promise.all` and its relatives, suspended functions | `resolve`, `reject`, `then`, `finally`, `all`, `allSettled`, `any`, `race`, `await`, the two kinds of jobs | settled once; each reaction runs once and in order; a function is resumed once per `await` |
| Async generators (`quickjs.c`) | queue of requests, state, frame, waiting continuations | `next`, `return`, `throw`; the body's `yield`, `await`, end | requests answered in order, none forgotten; the assertions hold |
| Reference counts and cycle collector (`quickjs.c`) | counts, marks, three lists | reference and release, `free_zero_refcount`, the passes of `JS_RunGC` | exactly what cannot be reached is freed; counts are restored |
| Map and Set (`quickjs.c`) | records with locks, hash table, iterators, calls of `forEach` | `get`, `set`, `delete`, `clear`, `next`, `forEach`, finalizers | a walk sees each entry once, uses no freed record; the table finds every key in the form in which it was set |
| `Atomics.wait`, `notify` (`quickjs.c`) | mutex, list of waiters on the threads' stacks, condition variables | wait with and without a limit, notify | no lost wake-up, no waiter outlives its frame |
| os timers, signals, file handlers (`quickjs-libc.c`) | lists in `JSThreadState` | `js_os_poll` | |
| Parser, compiler, interpreter, built-ins, `libregexp`, `libunicode`, `cutils` | | | vendored, not modelled |

How they interact. The application calls `JSContext.eval`; a script calls native
functions of modules, which call back into Swift; promises and `import()` append
to the runtime's job list. The run loop calls each Runloop module's observer
before it looks at timers, and the observer runs jobs, of every context of the
runtime, until the list is empty or a job throws. A timer calls its function
through the context. All of this is one thread: what is hard is not parallelism
but *who is still there when a callback comes*, the runtime-wide state (job list,
pending exception) seen by several contexts, failures in the middle of recursive
traversals, and re-entry of the engine from native functions. Workers are real
threads; they share message pipes and, through SharedArrayBuffers, memory and the
list of `Atomics.wait`.

The hazards, with the line where each bites and the property that covers it, are
in `PROJECT.json` under `hazards`.

## 2. Modules

| Module | Models |
|---|---|
| `EventLoop` | job list, run loop, timers, exceptions, release of contexts |
| `MCEventLoop` | instance for TLC (symmetry of contexts) |
| `EventLoopProofs` | its theorems |
| `ModuleLoader`, `MCModuleLoader`, `ModuleLoaderProofs` | the modules of one context; names, import graphs and scripts for TLC; theorems |
| `Lifetime`, `MCLifetime`, `LifetimeProofs` | who owns what, teardown of a context and of the runtime; theorems |
| `Channel` | abstract specification: a FIFO channel that is closed once |
| `WorkerPipe`, `WorkerPipeProofs` | the message pipe of two threads; it implements `Channel` |
| `Promise`, `PromiseProofs` | promises, resolving functions, jobs, combinators, `finally`, async functions; theorems |
| `AsyncGenerator`, `AsyncGeneratorProofs` | one async generator; theorems |
| `AtomicsWait`, `AtomicsWaitProofs` | waiters and notifiers of several threads; theorems |
| `CycleGC`, `MCCycleGC` | reference counts and the collection of cycles |
| `Conversions` | numbers between Swift and JavaScript |
| `EcmaMap` | abstract specification: a Map as the language defines it, a list with holes |
| `MapRecords`, `MCMapRecords`, `MapRecordsProofs` | records, hash table and walkers of a Map; they implement `EcmaMap`; theorems |

Operators called "Faulty variant of ..." are small deliberate bugs (a wrong end of
a list, a missing guard); they are not part of any specification and only serve
to show that a property notices them.

### EventLoop

`jobs` is `rt->job_list`, `exception` is `rt->current_exception` (as the identity
of who threw it), `observers` and `armed` are what Swift has added to the run
loop, `live` says which JSContext objects are retained. `phase` is the stage of
the loop's turn: Swift code, observers, sleep, timers. One action is one
callback, except that `flushPendingJobs` is one action per job (`FlushJob`) and
one for its end (`FlushEnds`), as other jobs can be added in between.

A run of JavaScript (`Script`) may enqueue a job, call `setTimeout`, both or
neither, and ends normally, after having caught an exception, or by throwing.
`JobsMayThrow` says whether `JS_ExecutePendingJob` may return a negative value.
Reactions of ordinary promises never do so; those of promise subclasses and
custom capabilities can. `EarlyRelease` says whether the application drops a
JSContext that still has jobs or timers. `dangling` records a use of a freed
JSContext (timer) or JSFunction (job of a released context).

Left out: run loops nested in callbacks; observers in other run loop modes;
time. A timer may be due at any moment, which covers all fire dates.

### ModuleLoader

`def` holds the `JSModuleDef`s by address; `flags` is the set of the flags that are
set: those the traversals use (`resolved`, `func_created` as `created`,
`instantiated` as `linked`, `evaluated`, `eval_mark`, `eval_has_exception` as
`exc`) and two of the model, `exported` (Swift has set the exports) and `unbound`
(an export was added after the variables had been created). `req` and `tgt` are
the request entries, `swift` the keys of `JSContext.modules`. Modules are added at
the end of the list and addresses grow, so `loaded` is the set of the addresses in
the list. `stack` is
the C stack: a `base` frame for each `JS_EvalFunctionInternal`, and a frame for
each module a traversal is in. A traversal looks at one request per step. A
failure sets `failing` and unwinds frame by frame with the clean-up each frame
does. Addresses are never reused, so that the use of a freed definition, or of a
missing variable, is visible: it sets `fault`, after which nothing more happens.
`RequestsLoaded` says which loaded modules keep a pointer to a freed one at all.
With `Reentrant` native functions that the code of a module calls may evaluate
modules, up to `MaxDepth` evaluations on the stack.

Abstractions: which names a module exports is not modelled, so linking a
JavaScript module may succeed or fail; a name that cannot be loaded stands for
missing files and for files with syntax errors; the modules `std` and `os` that
every context registers behave like native modules and are left out; the purge
with `JS_FREE_MODULE_NOT_RESOLVED` in `JS_RunModule` cannot be reached with
something to free that differs from the list as modelled, since every module
there is marked resolved on entry; allocation failures are left out.

### Lifetime

One runtime and several contexts. `pc` is the stage of a JSContext's life: its
stored properties go one after the other, `core`, `runtime`, `modules`, in the
order of their declaration. `Deinit` is what happens when owners change: the
wrapper's `deinit` calls `JS_FreeContext`, the runtime's calls `JS_FreeRuntime`,
which fails its assertion (`aborted`) if an object is left. A function object of
a module is owned by nobody until a script imports the module (`autoFree: false`),
hence `leaked`. The application may drop the runtime, contexts, values, modules
and timers in any order.

### WorkerPipe and Channel

The sender's steps are lock, write the byte if the list is empty, append and
unlock; the receiver's are select, lock, take, read the byte if that was the
last message, unlock, call the handler. The bytes in the OS pipe are shared and
select reads them without the mutex. References of one thread that are always
released together (the thread's own and its Worker object's) count as one.
A message that cannot be decoded is reported and skipped: it counts as handled.
`WriteMayFail` lets `write` fail, which the code takes for a success.
This binding registers the `os` module with the initialiser of `std`
(`JSRuntime.swift:35`), so that `os.Worker` cannot be reached from scripts as
the code stands; it does prepare contexts for workers (`JSRuntime.swift:46`).

`Channel` has three actions: post, handle, close. The pipe implements it with
the messages in the receiver's hands put before those in the list, and `closed`
for `freed`.

### Promise

`heap` holds the promises (`state`, `result`, `reactions`), the pairs of resolving
functions with the flag that the two share (`pair`, and in `resolved` those whose
flag is set), the jobs of this context, the counters of the combinators and the async functions. The engine's functions
(`fulfill_or_reject_promise`, `perform_promise_then`, `js_promise_resolve` ...) are
operators from heap to heap, with the names of the source. JavaScript code is a
frame of `stack` (handler, `then` method of an object, body of an async function)
in which further operations of the script happen before it returns, throws or
awaits. The loop of `Promise.all` and its relatives is a frame too, with one step
for each element. The list of elements may name a promise twice; with `AnyOrder`
it is in any order, without it oldest first, which keeps the instances small. A
value is a promise, a plain value, an object with a `then` method or
one whose `then` cannot be read; which plain value it is does not matter. A
reaction has a number, so that the order can be stated. Left out: subclasses of
`Promise`, iterables that throw, the tracker of unhandled rejections.
`allSettled` gives each of its two element functions a flag of its own, where the
language has one for both; since an element is a promise, only one is called.

### AsyncGenerator

`queue`, `state` and `frame` are the fields of `JSAsyncGeneratorData`; `awaits` and
`returns` count the continuations that wait for a promise. `ResumeNext` is
`js_async_generator_resume_next` with its loop; requests come at any time, from
the body too. With `AwaitMayFail` a continuation cannot be registered, which the
callers ignore: the generator then stays busy for good (`lost`). Two more things
the code does are in the model and in `NobodyForgotten`: a generator that has
ended answers a single request when its `return` is settled and leaves the others
until the next call, and continuations of `return` do not look at the queue.
Code that runs inside the engine's functions through accessors on
`Object.prototype` is left out.

### AtomicsWait

`listed` and `place` are `js_atomics_waiter_list`, `linked` the flag in a waiter,
`mutex` the global mutex. A critical section is one step, except that of `wait`:
between its comparison and its sleep another thread may write memory. A script
that writes a cell notifies all its waiters afterwards (`notifying`); without that
idiom there is nothing to promise. A condition variable wakes a thread that was
signalled, whose time is up, or for no reason. As in the code, a thread that is
notified and whose limit passes before it runs returns "timed-out" though `notify`
counted it, and one that wakes for no reason returns "ok"; `told` and
`OkMeansNotified` say so.

### CycleGC

`count`, `mark` and `edges` of the nodes, the runtime's lists `gc`, `tmp` and `zero`.
Scripts add and remove references only when the engine is at rest: a collection,
like the cascade of `free_zero_refcount`, runs to its end, one list entry per
step, and its intermediate states are checked too. Objects may be kept as zombies
until the end of `gc_free_cycles`; auxiliary nodes (shapes, variable references,
contexts, async states) are freed at once, and a context takes the shape of arrays
along if it was its last owner. Reachability from the roots is the
reference. The order of children is that of the lists instead of that of the
properties. Weak references and finalizers that run JavaScript code are left out.

### Conversions

A state is a question with its answers. `W`, `P`, `D` stand for 32, 53 and 64 bits:
the code depends on `W < P < D` only, so a format of 4, 6 and 9 bits shows every
case: every double of that format (both zeros, infinities, NaN), every integer.
A C cast of a double that does not fit its type may give any result. The
conversions are compared with their definition in the language; the limits that
the code has are part of the statements: 2^63 passes the saturation test of
`JS_ToInt64Sat` and meets an undefined cast; `Int.max` comes back as `Int.min`;
`UInt` above 2^32 - 1 traps. Arrays are not modelled: `Array.init?` converts the
array itself where it needs its length (`JSValue.swift:260`), so that `[3]` becomes
three strings, two of them `"undefined"`, or `nil` where the elements are numbers,
and any array of two becomes empty; `Array.jsValue` ends the process. No document or
test of the repository says what should come out.

### MapRecords and EcmaMap

Records are numbered in the order of the list. A hash is the set of its bits, and
a bucket the set of those that the mask `size - 1` leaves; other buckets stay
empty. A key is a number with its tag: any number may come as an integer and as a
double, because arithmetic leaves integers in doubles (`quickjs.c:17834`), and the
two forms may have two hashes (`quickjs.c:45465`); only -0.0 is normalised.
`HashFinds` therefore promises a key in the form in which it was set: a number that
was set as an integer need not be found as a double. `ref` counts the record itself
and each walker that has come to it; a deleted record stays in the list, empty,
while it is locked. A walker is an iterator or a call of `forEach`; calls nest,
callbacks change the map, return or throw.

A value may be an iterator of the same map, to which nothing else refers any more:
`owner` is then its record, and the iterator is finalized where the code frees the
value, in `set`, `delete` and `clear`, in the middle of these functions. `Clear` and
`ClearStep` are the loop of `js_map_clear`, one record per step: `el` is the next
record, read before the current one is deleted. If the value of the current one is
an iterator that alone kept the next record, empty, in the list, the loop goes on
to a freed record (`quickjs.c:45713`). The model then stops in the state `lost`;
it is the exception that `RecordsSound` names. No script runs within the loop, so
that it is one step of `EcmaMap`.

The map and its iterators may be collected as a
cycle, and then the finalizers run in any order. `Slacks` is the room that the
allocator adds to a new table: the size is then not the power of two that the
comment at `hash_size` asks for, which is harmless because `& (size - 1)` is used
everywhere, but leaves buckets empty. `EcmaMap` knows no records: entries and
holes, and an index per walk that stops only behind the last entry.
`WeakMap` and `WeakSet` are not modelled.

## 3. Runs

Passing runs:

| Run | Checks | Instance |
|---|---|---|
| `event_loop` | order of jobs, no sleep with jobs except after an exception, own exceptions, no dangling use when contexts are released only at rest; every job runs, every timer fires | 2 contexts, 3 jobs, 2 timers, 2 observers, jobs may throw |
| `modules` | a loaded module points to a freed one only if that imports it in turn; modules run once and in order, nothing half-done | 3 files: the first imports the second, the second the third, the third none or one of the others, and each of the first two one name more, which may fail to load; 1 native module, 1 unloadable name; 7 definitions |
| `modules_cycles` | one definition per file, frames keep their modules, evaluations end | files importing each other, nested evaluations up to depth 2 |
| `lifetime` | what the assertion of `JS_FreeRuntime` can fail over | 2 contexts, 2 values and 1 timer each, dropped in any order |
| `worker_pipe` | byte and list agree, freed with the last owner, FIFO (refinement), messages handled | 4 messages, 2 other events |
| `promise` | one way to settle, reactions once and in order, combinators, one continuation per await | 2 promises to begin with, 3 operations of scripts (jobs and handlers not counted), combinators over up to 2 promises, oldest first |
| `async_generator` | assertions, one thread of control, nobody forgotten, order, nothing after the end | 5 requests, 2 awaits, registrations may fail |
| `atomics_wait` | living waiters in the list, no lost wake-up, "ok" is deserved, waits end | 3 threads (2 may block), 2 cells, 4 calls |
| `cycle_gc` | frees exactly the unreachable, counts and marks restored, assertions | 2 objects, a shape, a context that takes it along, 4 references |
| `conversions` | engine conversions against the language; round trips | integers of 4 and 9 bits, doubles of 6 bits precision with 1 bit after the point, all exponents up to the last case of `JS_ToInt64` |
| `map_records` | locks and records, hash table, `EcmaMap` (refinement) | 2 iterators that may be values of the map, 1 `forEach`, 3 records, 0 and 1 as integers and as doubles, a table that grows at the second record |

One run, `event_loop_release`, shows a disagreement between the code and what the
repository says (`findings` in `PROJECT.json` quotes it). No script leaves a job
behind there, so that the timer's closure is the only way left to a released
JSContext. The trace: `enableRunloop`, a script that calls `setTimeout`, release of
the context, a turn of the loop, the timer calls the freed object.

Behaviours of the code that the models contain and that a reader of the code
should know of, though no document contradicts them outright:

* A job that throws ends the flush (`JSContext.swift:120`); the jobs behind it wait
  while the loop sleeps. `SleepsWithJobsOnlyAfterException` and `EveryJobRuns` name
  this case.
* A failed evaluation frees native modules that were registered and not imported
  yet (`quickjs.c:33440`).
* A load failure in an import circle leaves a pointer to a freed module (the comment
  at `quickjs.c:33585`: "XXX: should free all the unresolved dependencies"), and so
  does a failed evaluation. `RequestsLoaded` says that this happens within circles
  only: a loaded module keeps such a pointer only to a module that imports it in
  turn. A later traversal that follows it sets `fault`.
* `JSModule.function` looks neither at whether the module has been imported, after
  which an export gets no variable (`quickjs.h:1030`: "can only be called before the
  module is instantiated"), nor at whether a failed evaluation has freed it
  (`JSModule.swift:104`). The model sets `unbound` or `fault`.
* An evaluation inside another that fails after loading frees the modules of the
  outer one (`quickjs.c:33440`); `FramesKeepModules` excepts this step and no other.
  What the outer evaluation then does is a `fault` as soon as it looks at one of
  them. Pointers to the freed modules stay behind without a circle too, so that
  `RequestsLoaded` is stated for `~Reentrant`.
* `Map.prototype.clear` goes on to a freed record if the value it has just freed was
  an iterator that kept that record in the list (`quickjs.c:45713`; state `lost`).
* A number that is a key of a Map as an integer need not be found as a double
  (`quickjs.c:45465`), as `HashFinds` says.
* An application that registers a module, keeps no value, timer or module, drops the
  JSRuntime and then the JSContext ends in the assertion at `quickjs.c:1979`: the
  JSContext releases its stored properties in the order `core`, `runtime`, `modules`
  (`JSContext.swift:28`), so that `JS_FreeRuntime` runs while the module in the
  dictionary still owns the engine's context.
* That assertion also fails when a value, a timer or a JSModule
  outlives the runtime, none of which owns it, and over a function that no script
  imports, which nobody frees (`JSFunction.swift:53`). `AbortsOnlyOverLeftovers`
  names these cases.
* With `WriteMayFail` a message may be in the list without its byte in the pipe
  (`quickjs-libc.c:3441`).

Why the bounds are enough. With two contexts one can flush the jobs of the
other and outlive it; two observers make one dead and one live; three jobs let a
throwing job leave two behind. In `ModuleLoader` three files, a native module and a missing one give every shape of a
request (fresh, loaded, half-way, native, missing), a module that two others import,
and a circle of two that the first one loaded is not part of; seven definitions let
an evaluation fail and another one find what was left. Four messages let the list become empty and fill again twice. Three
operations on promises let one be resolved with another that is settled in
between, and a combinator's elements be settled before and after it is called.
Five requests and two awaits put requests before, during and after the life of a
generator. Three threads are two waiters and a notifier, or a waiter that is
overtaken; the fourth call is a second wait or notify. Four references on four
nodes make two cycles, or one with an entry and an exit. Three records let a map
grow, lose a locked record and grow behind it, and `clear` lose the record behind
the one whose value it frees. The
statements that are proved below hold without the bounds' being small.

Deadlock is checked for `EventLoop`, where a run loop goes on for ever. The
others stop when their bounds are used up, or when everything has been released.

Fairness. `EventLoop`: the thread executes the callbacks of a turn it has begun;
Swift code returns to the run loop; the fire date of an armed timer comes. The
last needs strong fairness because the loop may leave its sleep for other
reasons. `EveryTimerFires` also rests on the bound on jobs: with an endless
chain of jobs `flushPendingJobs` never returns, and timers starve.
`ModuleLoader`: the thread does not stop inside the engine. `WorkerPipe`: a
thread goes on with what it has begun, scripts return; nothing obliges the
sender to post, and no fairness of the mutex is assumed beyond the bound on
messages. Other events are bounded because timers and file handlers come before
ports in `js_os_poll` and could keep messages waiting for ever. `AtomicsWait`: a
thread that can proceed does so (`Proceed`: it takes a free mutex, returns from a
condition variable that was signalled or whose limit has passed, finishes a
notification); nothing obliges a thread to call, and no spurious wake-up is
assumed.

## 4. Proofs

For every value of the constants that satisfies the assumptions of the modules
(bounds are naturals, flags are Booleans). No set has to be finite except that of
the walkers of `MapRecords`, whose number the counts of the records must hold.

* `EventLoopProofs`. `TypeCorrect`. `JobOrder`: `JobsRunInOrder` is inductive
  together with the types: the ids in the list are consecutive and continue the
  last one run. `SleepsFlushed`: strengthened to "while the observers are called,
  either a live observer is still to come, or the list is empty, or an exception
  is pending, or no observer is live". `OwnException`: inductive, because
  `JS_Throw` replaces the pending value before `getException` takes it.
  `QuiescentReleaseIsSafe` assumes `~EarlyRelease`: the owner of every job and
  of every armed timer is live.
* `LifetimeProofs`. `TypeCorrect`. `ContextsNeverAbort`, without an assumption on the
  application: when `JS_FreeRuntime` runs no JSContext holds the runtime, so each
  has released `core` already and its wrapper is left to the others that
  `AbortsOnlyOverLeftovers` names; an aborted process takes no further step.
* `WorkerPipeProofs`. `TypeCorrect`. `PipeInv`: the mutex is held by the thread in its critical
  section, the count is the number of owners. From it `NeverFreedInUse`;
  `SelectIsRight`, which assumes `~WriteMayFail` and follows the byte through
  the states of both threads; and `ImplementsChannel`: every step is a step of
  `Channel` or leaves it alone.

* `AsyncGeneratorProofs`. One invariant carries all six theorems: the types and the
  five properties, with `OnlyYields` (before its end a generator has answered with
  yields only), `SomebodyAnswers` (which state has which continuation) and
  `OutOfReach` (a collected generator is not held). Every action ends in
  `js_async_generator_resume_next` or leaves its inputs as that function wants
  them, so the heart of the proof is the lemma `ResumeStep` about it; the actions
  only establish its precondition. `NoAssertionFails`, `SingleControl`,
  `RequestsRemembered`, `RequestOrder`, `NothingAfterDone` follow.
* `AtomicsWaitProofs`. `NoLostWakeup` is not inductive: a cell may be written
  between the comparison and the sleep. `ComparedInv` says the same of a thread
  there, and `MutexInv` that no notifier can pass in between. `ToldInv` follows a
  signal to the result, for `OkIsDeserved`; `PlaceInv` says that the next waiter
  comes last. `WaitersOnList`: no pointer into a stack frame outlives it.
* `MapRecordsProofs`. `InvCorrect`: the inductive invariant. The count of a record is
  one for its entry, if it is not empty, plus the number of walkers that have come
  to it, and the record is in the list exactly while the count is positive
  (`RefInv`); an iterator to which only a value refers is alive, the record of that
  value is full and has no second one (`Owned`); the loop of `clear` has emptied every record
  that it has passed (`Passed`); the table holds the full records, each in the bucket of its key
  (`TableInv`); full records have different, normalised keys and are counted
  (`KeyInv`). The engine's functions are operators on the map, and there is one lemma
  for each: what it keeps of the invariant and what it does to the entries.
  `RecordsCorrect` (no freed record is used, until `clear` is lost if it ever is) and
  `HashCorrect` (a lookup finds a key that was set in the same form, and nothing with
  another key, after every growth of the table) follow.
  `ImplementationCorrect`: every step is a step of `EcmaMap` or leaves it alone. A
  record that has been freed is a hole of the abstract list, and a walk's index is
  the record it has come to, so it matters that the next full record behind a
  locked one is found even if the locked one was deleted or the map cleared. The
  entries are gone for scripts when `clear` begins; that none is left when it ends
  is what `Passed` is for.
* `ModuleLoaderProofs`. Without any hypothesis, circular imports and nested
  evaluations included: `TypeCorrect`; `OneDefinition` for `OneDefinitionPerFile`; and
  `FramesKept` for `FramesKeepModules`. The last rests on `OwnedInv`: a frame that
  frees its module when it fails is one that resolves it, the frames above it resolve
  as well, and no other frame has the module; so what a failed load frees has no
  other frame, whatever evaluations are below.
  With `~Reentrant`: `StackInvariant` says that
  the stack is one evaluation with the frames of one traversal above it, and that
  each frame has set its traversal's flag, hence that no module has two frames.
  `RequestsFound` for `RequestsLoaded`, with circular imports and every failure. It is
  not inductive; `CircleInv` adds: the stack goes along imports (`WayInv`), so that a
  module met twice closes a circle; a request is met by a module that imports it in
  turn, or by a loaded one that no frame on the stack may free (`SafeInv`); the
  requests of an evaluated module are met by evaluated ones, which no failure frees,
  or lie within a circle (`DoneInv`, and `HereInv` for the evaluation under way);
  `eval_mark` is set on the stack only (`MarkInv`), and never together with
  `evaluated` (`FlagInv`); a module has run once if it is evaluated or in its body,
  and else never (`OnceInv`). The same invariant gives `EvaluationOrder` for
  `EvaluatedAfterImports`.
  With `~Reentrant` and without circular imports (`Acyclic`: for each content of the
  files there is a grading of the names that goes down along imports):
  `NothingLeft` for `NothingHalfDone`. It rests on `EvalInv`: the stack is a path down the grading, so a traversal never
  comes back to a module it is in (`PathInv`); a request of a loaded module leads to
  a loaded module, or a frame is about to look at it and will free its module
  if that fails (`RequestInv`); the requests that an evaluation has behind it
  have succeeded, or the frame above, or the exception, is about the last of them
  (`BehindInv`); a module that was created or linked and not evaluated is the root
  of the evaluation under way or imported by another such module (`BegunInv`). When
  the evaluation returns, the one of greatest grade among those that are left
  would have no importer, so none is left. In a circle there is no grading to argue
  along; there `NothingHalfDone` is model-checked in the run `modules`.

* `PromiseProofs`. Assumes only `PromiseBounds` and `KindsAssumption`. `InvAlways`: one
  inductive invariant, `Inv`, carries the five results. None of them is inductive by
  itself, because an operation on one promise runs through the others: settling
  makes jobs of reactions, a reaction calls resolving functions or an element
  function, and that one may settle the promise of a combinator. The parts of `Inv`:
  - `Shape` and `RefInv`: every number in a list, job or frame refers to an object
    that exists. `TypeCorrect`.
  - `WayInv`, for `SettledOnce`: a pending promise has exactly one unused pair or one
    thenable job. The job of a thenable makes the next pair in the step that removes
    the job, so the way is handed on and never doubled.
  - `OrderInv`, for `AnsweredInOrder`: the numbers in the lists of a pending promise
    are all that were given out; the jobs of a settled one are those that have not
    run, in order.
  - `ContInv`, for `ResumedOnce`: the continuation of a suspended function is in
    both lists of one promise, at one place, or in one job.
  - `PrivateInv`, `ScriptsInv`: the pair of a combinator is called by its element
    functions and its own reactions only, scripts never get hold of it. Without
    that nothing could be said about when its promise is settled.
  - `DoneInv`: for each element that the loop has passed, the element function is
    in the lists of a pending promise, or in a job, or has been called: nothing is
    lost.
  - `CountInv`: the count of remaining elements is the number of those not called
    yet, plus one while the loop runs. `ZeroInv`: when it is zero the promise has
    been settled.
  - `CalledInv`, `JustInv`: an element function is called with the outcome of its
    promise, and a settled combinator has the promises that justify its outcome.
  - `FramesInv`: only the topmost frame is a loop, and a function runs in one frame.

  The operators from heap to heap have one lemma each for every part; the actions
  are put together from those. `CombinatorsJustified` follows when no frame
  and no job is left: every element has been called or waits for a pending
  promise, so the count says whether an outcome is due. TLC has checked `Inv` as an
  invariant for three operations and two nested frames (1.6 million states) before
  it was proved.

Type invariants: those of the eight modules above are proved (`TypeCorrect`; in
`MapRecords` as part of `InvCorrect`); that of `CycleGC` is the first conjunct of an
invariant that its run checks.

Only model-checked: liveness (fairness is beyond the prover), and everything
about `CycleGC` and `Conversions`. The conversions rest on powers of two and on
rounding, which the prover cannot compute for an unknown width; the collector on folds and
transitive closure over the graph of references, about which it cannot reason
by induction. That circular imports leave nothing half-way is checked in `modules`, that
evaluations end when imports are circular and evaluations nest in `modules_cycles`.

## 5. Plan

Done: the modules above. What could come next:

1. `OsLoop`: timers, signals and file handlers of `js_os_poll` on the main thread.
   The binding never calls `js_std_loop`, which is why it comes last.
2. A formulation of the passes of `CycleGC` without folds, with an invariant for each
   pass (the count of a node is the number of references from outside of the
   nodes visited), so that `CollectsExactly` can be proved and not only checked.
3. `WeakMap` and `WeakSet`, and weak references in `CycleGC`.

## 6. Not modelled

Of the 69,262 lines of the implementation most are the vendored language
implementation: parser, compiler, interpreter, built-in objects, regular
expressions, big numbers, and Unicode tables (some of them generated). They are
sequential and dominated by data: there is no protocol in them that a model
checker would exercise, and a model that stood for a large share of these lines
would be a second interpreter. What the models cover is the part with state that
several parties share. Standard input and output (`std`, most of `os`) are wrappers
of C library functions. Global properties are single engine calls. Allocation
failures are left out, except where a caller ignores them (`AsyncGenerator`).
