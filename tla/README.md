# V8, verified in parts

TLA+ models of the concurrent and re-entrant parts of V8 as it is in `src/`
(the version with full-codegen, Crankshaft and concurrent recompilation), TLC
runs on small instances, and TLAPS proofs. Paths below are relative to
`src/src/` unless they start with `src/`.

V8 is for the most part a sequential program: one thread at a time owns an
isolate and runs JavaScript in it. What tests reach badly is what happens
around that thread: a compiler thread, sweeper threads, a profiler thread and
signal handlers that share queues and flags with it; other threads that ask it
to stop; embedder threads that take turns in the isolate; and collections that
start in the middle of an operation and run callbacks of the embedder. The
project models these, in the order of the plan below.

## 1. Inventory

The parts that keep state worth modelling. `PROJECT.json` lists every other
part as well, with the reason why it is left out.

**Concurrent recompilation** (`optimizing-compiler-thread.cc`, with
`compiler.cc:1040-1190`, `runtime.cc:8360-8720`, `runtime-profiler.cc`).
State: a bounded ring of jobs with a mutex and a semaphore, an unbounded output
queue, a cyclic buffer of on-stack-replacement (OSR) jobs, the order
`CONTINUE/FLUSH/STOP` with its own semaphore, held-back signals, the code entry
of each closure, the state of each back edge. Operations: mark, queue, optimize,
install, enter OSR code, age, flush, stop. The main thread and the compiler
thread share the queues, the semaphores and one bit of the stack guard.
Hard: a flush that catches the compiler thread anywhere; jobs that are in two
structures; a collection inside an operation that then flushes it away.
Correct if every job is owned by exactly one place, no function is left in the
recompile queue, every flush and stop is answered and leaves nothing behind.

**UnboundQueue** (`unbound-queue-inl.h`). A lock-free list between one producer
and one consumer; used by the compiler thread (output) and by the CPU profiler
(code events). Hard: the producer frees nodes behind the consumer's back.
Correct if it is a first-in first-out queue and touches no freed node.

**Input queue ring** (`optimizing-compiler-thread.cc:109-117, 271-285`,
`.h:116-121`). `shift`, `length`, a fixed array; enqueue at both ends. Correct
if it is a double-ended queue of its capacity.

**CPU profiler** (`cpu-profiler.cc`, `circular-queue-inl.h`). Code events from the
VM thread (UnboundQueue) and ticks from a signal handler (a fixed ring of
entries with a full/empty marker each) are merged by a third thread in the order
of numbers stamped on them; stopping drains both. Hard: the number is read in
the handler, so the interleaving of handler and event fixes the order; a full
ring drops ticks. Correct if ticks are symbolized after exactly the code events
that preceded them and nothing blocks the merge.

**StackGuard and ThreadManager** (`execution.cc:390-620`, `v8threads.cc`). A word of
interrupt flags and two limits per thread, set from any thread under a lock,
postponed by scopes, cleared by `Continue`; archived and restored when embedder
threads take turns (`Locker`, `Unlocker`), lazily if possible. Hard: a request
arriving while the thread it is meant for is being archived, restored or
postponed. Correct if requests stay with the thread they were made to until they
are handled, and a set flag shows in the limits exactly if it is not postponed.

**Incremental marking** (`incremental-marking.cc`, `mark-compact.cc`). Colours, a
marking deque that overflows, a progress bar in large arrays, a write barrier
between mutator and marker (which cells and freshly made descriptor arrays do
without), scavenges that move objects the deque refers to, and a pause that takes
over what is left on a deque of its own. Correct if no black object points at a
white one between two steps, the deque has all that is to be scanned, and no
collection frees what can be reached.

**Store buffer** (`store-buffer.cc`). Old-to-new slots, filtered, compacted, and
given up for whole pages when they are too many. Correct if a scavenge finds
every old-to-new pointer.

**Sweeper threads** (`sweeper-thread.cc`, `mark-compact.cc:560-600, 3959-4132`,
`spaces.cc:2659-2720`). Pages are claimed with a compare-and-swap; free lists move
from a thread's private list to one the main thread steals from, while it
allocates; four semaphore protocols between them (start, end, steal, stop).
Correct if a page is swept once, its memory is on one list, no collection marks
with a sweeper running, the account of unswept memory covers what is missing,
and every wait returns.

**Global handles** (`global-handles.cc`). Nodes in blocks, a free list, a doubly
linked list of the blocks in use, a list of the nodes the scavenger looks at, and
weak callbacks that may do anything, collect included, in the middle of the pass
over these lists. Correct if every node is on the lists it belongs to, and a pass
that is not overtaken by another leaves no dead handle without its callback.

**Compilation dependencies** (`objects.cc:11541-11760`, `mark-compact.cc:2633-2686`,
`compiler.cc:131-166`). A map or property cell lists, in one packed array divided into
groups, the compilations and the code that rely on something about it. Operations:
insert, rename a compilation to its code, roll back, tell a whole group, clear what
a collection found dead. Hard: every insertion and removal moves entries of other
groups, a compilation registers long before it is code, and the array's own
allocation may be the collection that changes it. Correct if nobody who relies on an
assumption is forgotten and nothing deleted stays listed.

**Optimized code and the deoptimizer** (`deoptimizer.cc:260-480`, `runtime.cc:8360-8470`,
`objects.cc:9497-9660`, `objects-inl.h:5070-5085`). The code of each closure, the
optimized code map that closures of one function share, and three weak lists of each
native context: closures with optimized code, code in use, code out of use. Hard: what
the deoptimizer unlinks it finds on a list that every write of a closure's code and
every collection has to keep up; marked code stays active. Correct if that list is
complete, marked code has no closure left, and nothing refers to freed code.

**Smaller ones**: `CallOnce` (`once.cc`), the debugger's command queues (`debug.cc:3700-3830`),
the Windows condition variable (`platform/condition-variable.cc`).

How they meet: the compiler thread talks to the main thread through
UnboundQueue and the stack guard's `INSTALL_CODE` flag; collections call
`Flush` and `AgeBufferedOsrJobs`; the profiler uses UnboundQueue; ThreadManager
archives the stack guard; the collector drives incremental marking, the store
buffer, the sweepers and the global handles in its prologue and epilogue. A
recompilation registers with `DependentCode` while its graph is built and is aborted
through it; a group that is told marks code, which the deoptimizer unlinks;
installation puts code on the lists of its native context.


## 2. Plan

Written so far, in this order:

| module | what it is |
|---|---|
| `FifoQueue` | abstract: first-in first-out queue between two threads |
| `UnboundQueue` | the lock-free queue, access by access; implements `FifoQueue` |
| `BoundedDeque` | abstract: double-ended queue of bounded length |
| `InputQueue` | the ring of jobs; implements `BoundedDeque` |
| `OptimizingCompilerThread` | concurrent recompilation; takes the output queue as the sequence of `FifoQueue` and the input queue as that of `BoundedDeque` |
| `MCOptimizingCompilerThread` | instances of it for TLC |
| `BoundedFifo` | abstract: first-in first-out queue of bounded length |
| `SamplingCircularQueue` | the ring of ticks: state and operations, no specification of its own |
| `CpuProfiler` | VM thread, signal handler and processor thread over that ring, which implements `BoundedFifo`; the two unbounded queues are sequences |
| `PendingRequests` | abstract: the requests of each thread inside V8, to which a request adds and only handling removes |
| `StackGuard` | flags, nesting and limits: state and operations, no specification of its own |
| `ThreadManager` | threads that take turns with `Locker` and `Unlocker` over one `StackGuard`, and the interrupt handler; implements `PendingRequests` |
| `GlobalHandles` | nodes, blocks, lists, and passes of weak callbacks nested in one another |
| `IncrementalMarking` | mutator, marker, scavenger and the pause over a small heap |
| `SweeperThreads` | sweeper threads and the main thread |
| `DependencyGroups` | abstract: who relies on each assumption, and who has been told that it failed |
| `DependentCode` | the packed array of one object, and the life of compilations and code listed in it; implements `DependencyGroups` |
| `OptimizedCode` | closures, their optimized code, the code map and the lists of the native contexts, through installation, deoptimization and collections |
| `MCThreadManager`, `MCGlobalHandles`, `MCIncrementalMarking`, `MCSweeperThreads`, `MCDependentCode`, `MCOptimizedCode` | instances for TLC |
| `QueueProofs`, `OptimizingCompilerThreadProofs`, `CpuProfilerProofs`, `ThreadManagerProofs`, `GlobalHandlesProofs`, `IncrementalMarkingProofs`, `SweeperThreadsProofs`, `CodeProofs` (of `OptimizedCode` and `DependentCode`) | the proofs |

Next, most important first:

1. `StoreBuffer`: filtering, exempted pages, the bounded old part; in
   `IncrementalMarking` the scavenger finds every old-to-new pointer.
2. `CallOnce`, the debugger's queues.
3. A composed model of `OptimizingCompilerThread` over `UnboundQueue` and `InputQueue`.

## 3. Conventions

*Steps.* One action is what a thread does between two accesses to state another
thread can see. Everything the code does in between is part of the action,
trailing calls included. A critical section is one step, from its first access
to its last. A signal handler runs on the thread it interrupts: that thread takes
no step until the handler returns. A collection may start wherever the main
thread allocates, and is an action enabled there.

*Memory.* The models are sequentially consistent. The unbound queue and the
sampling ring publish with release stores and read with acquire loads, and the
job queue, stack guard and semaphores lock; `running_` of the CPU profiler is a
plain bool, read afresh in each round because opaque calls stand between the
reads.

`parallel_sweeping_` of a page is exchanged without a barrier. The free lists of a
page reach the main thread through `Concatenate`, under both lists' mutexes, and
what a thread did before it signals `end_sweeping_semaphore_` is seen by whoever
has waited for that. The one unlocked read, `category->top_ != NULL` at the start
of `Concatenate`, may be stale and is a choice in the model.

*Faults.* A definition whose comment starts with "Fault:" is a plausible mistake
in the definition that follows it, and is used nowhere. `PROJECT.json` pairs it
with the property that TLC must then find violated.

*Bounds.* A constant whose comment says "bound" limits the model, not the code.

## 4. What is modelled

### UnboundQueue

`Node` is the set of node addresses, so that an address freed by the producer can
be allocated again while the consumer runs: this is what makes a dangling pointer
visible. `first_`, `divider_`, `last_` and `next` are those of the code. The
producer's `Enqueue` is split at the publication of `last_` and at each node it
deletes, the consumer's `Dequeue`, `IsEmpty` and `Peek` at their read of `last_`
and their write of `divider_`; the destructor runs once both are done. The
mapping to `FifoQueue` reads the records behind `divider_` up to `last_`; the
auxiliary variables `chain`, `dividerAt` and `lastAt` say which nodes those are
and never influence a step.

### InputQueue

The array, `input_queue_shift_` and `input_queue_length_`. `IsQueueAvailable` and
the enqueue are two critical sections; `room` is what the main thread remembers
between them. The array starts with any contents.

### OptimizingCompilerThread

| state | code |
|---|---|
| `jobs` | the `RecompileJob`s alive and the fields of their `CompilationInfo` that matter: closure, loop (OSR entry), waiting for installation |
| `code` | the code entry of a closure: full code, the builtins that mark it or hold it in the queue, optimized |
| `edge`, `nesting` | state of each back edge of each full code, `allow_osr_at_loop_nesting_level` |
| `input`, `output`, `osrBuffer`, `osrCursor` | the two queues and the OSR buffer |
| `inputSem`, `stopSem`, `stopThread`, `blockedJobs`, `installFlag` | semaphores, `stop_thread_`, `blocked_jobs_`, `INSTALL_CODE` |
| `main`, `request`, `installing`, `resume` | where the main thread is and what it holds |
| `thread`, `current` | the same for the compiler thread |

Compiler thread: `ThreadWait`, `ThreadContinue`/`ThreadStop`/`ThreadFlush` (the
switch on the order in `Run`), `CompileNextTake` / `Enqueue` / `Request`
(`CompileNext` between its three shared accesses), `FlushInputTake` / `Wait`,
`FlushContinue`, `FlushSignal`. Main thread: marking and patching by the runtime
profiler, calls of marked functions up to `QueueForOptimization` and, as a step
of its own, the signal after it; back edges (`AtPatchedBackEdge`, `EnterOsr`,
`RequestOsr`, `QueueOsr`); the stack check that installs
(`HandleInstallCode` and one step for each job); `Deoptimize`; `Flush`,
`FlushUnblockAndSignal`, `FlushQueues`; `Stop` in its parts;
`AgeBufferedOsrJobs`. `Flush` is enabled in the middle of a recompilation and an
installation, because both allocate; `resume` says where it returns to.

What compilation does is left out: a job either bails out or gives code. When the
profiler raises the nesting level of a code (`PatchBackEdges`), the loops of the level
are patched or not (`AttemptOnStackReplacement`): whether the full code is
`optimizable()` at that moment, which the failed compilation of any of its closures
ends, is not a variable of the model.
A closure whose code was optimized and a function that was deoptimized again are
the same closure with a different `code`, so histories of any length are covered.

### SamplingCircularQueue and CpuProfiler

The ring has `marker`, `record` and the two positions; `writing` and `reading` are
what its producer and its consumer know between `StartEnqueue` and
`FinishEnqueue`, and between `Peek` and `Remove`. A tick in the ring has its
`order` and whether its sample is complete (`whole`).

`CpuProfiler` has three actors. The VM thread starts and stops sessions, numbers
(`NumberEvent`) and queues (`EnqueueEvent`) code events and adds ticks of its own.
The signal handler interrupts it anywhere: `HandleSignalDrop`, or
`HandleSignalStart` and `HandleSignalFinish`. The processor thread goes through
`Run` and `ProcessOneSample` test by test; `draining` is set once it has left the
loop on `running_`. `codeMap` counts the code events applied, which is all that
the order of merging can be judged by. `order` does not wrap in the model: that
takes 2^32 events between two looks of the processor.

### StackGuard, ThreadManager and PendingRequests

`thread_local` is `StackGuard::thread_local_` (flags, nesting, the two limits and
the real ones) and `roots` the limits in the heap's root list that generated code
looks at. A stack limit is a model value that says whose stack it is on. Every
operation is a function from one `ThreadLocal` to the next.

In `ThreadManager` a thread is in the isolate's lock or not (`owner`), archived
lazily (`lazy`) or eagerly (`archive`), and has a stack of scopes open: lockers,
unlockers, preemptions (`RuntimePreempt` opens an unlocker) and
`PostponeInterruptsScope`s. Locker and Unlocker are several actions each, since
requests come without the isolate's lock, from any thread, at any point: before a
restore, between restore and `InitThread`, between the write of a scope's nesting
and the limits. `StackCheck` and the `Handle...` actions are
`HandleStackGuardInterrupt` stage by stage. `PendingRequests` has only a set of
requests for each thread inside V8 and the one that is current; `Holder` maps the
current thread to whoever's state is in `thread_local_`, which with lazy
archiving need not be the owner of the lock.

### GlobalHandles

`state`, `dep` (dependent, independent, partially dependent) and `space` of each
node; the free list as a sequence from its head; `first`, `next` and `prev` for
the blocks in use; `list` is `new_space_nodes_`. `Collect` begins a pass: it
decides which weak handles die, as the two `Identify...` functions do, and
promotes new-space objects. `Visit` is one round of the loop of
`PostGarbageCollectionProcessing`; inside a callback every operation is enabled,
`Collect` included, which pushes another pass and makes the outer ones stale
(`post_gc_processing_count_`). `Destroy` moves nodes and blocks as `Release` and
`DecreaseUses` do, below the feet of an iteration. What a callback must do (dispose
or revive its handle) is taken from the assertion after it.

### IncrementalMarking

The heap is a graph over named addresses. `Large` is a large array with one slot
for a chunk and a progress bar; cells; old-space addresses; two semispaces.
`color` is the pair of mark bits. Mutator: `Allocate`, `Write` with
`BaseRecordWrite`, `WriteCell` without barrier, `CopyElements` with `RecordWrites`,
a no-marking scope and the stores in it, `LeftTrim` with `TransferMark`. It can
write only what it can reach. Marker: `Start`, `StepSweeping`, `StepMarking` (one
entry of the deque; a longer step is several), `SweepPage` for lazy sweeping.
`Scavenge` is atomic and moves or promotes every survivor to any free address. A
full collection is a pause of many steps: `CollectGarbage` (finish the incremental
cycle, or abort it), `Hurry`, `Finalize` with the cells and the overflow taken
over, `MarkRoot`, `EmptyMarkingDeque`, `RefillMarkingDeque`, `SweepSpaces`, which
frees what is white, at once or on pages it leaves to the lazy sweeper.

The marks of a dead semispace are cleared by the scavenge that leaves it and not
by the next one before it is used again (`PrepareForScavenge`): nothing reads them
in between.

### SweeperThreads

Memory is counted in pages: what sweeping a page yields is the page's name, so
that a page swept twice or memory on two lists shows. A thread waits for the start
semaphore, tests `stop_thread_`, walks over the pages of both spaces (`Claim`,
`Sweep`, `Concatenate` for each) and signals the end. The main thread allocates,
asks for progress (`EnsureSweeperProgress`, `Progress`: steal from each thread,
then maybe wait for all), collects (`Prepare`, `PrepareForMarkCompact`,
`SweepSpaces` or `SweepSpacesPrecisely`, `StartSweeping`, and during evacuation
steals without waiting, as `SequentialSweepingScope` says), and stops the threads
one after the other, from any point of the mutator.

### DependentCode and DependencyGroups

`dep` is the array: `count` is its counters, `entry` its places, with NULL for
`undefined`. `Put` (`Insert`, `ExtendGroup`), `RemoveOnce` (`RemoveCompilationInfo`),
`DeoptimizeDependentCodeGroup` and `ClearNonLiveDependentCode` give each place the entry
that the loops of the code leave there, so that what one group does to another shows: an
insertion moves the first entry of each later group behind its last, a removal fills the
gap in each group with its last entry, a collection keeps entries in their order (the one
with `i` kept entries before it goes to place `i`). `Rollback` undoes the registrations
group after group, one after the other (`Removed`). `Insert` is split at the allocation of a longer
array: until `InsertIntoCopy`, collections may dispose of queued compilations and
forget dead code, and what is copied then is the array as it is by then.
Compilations go from `graph` (the only state in which they register, `current`) to
`queued` (where a collection may delete them) to `codegen`, in which the code registers
for the maps it embeds and takes the compilation's places (`Update`). `uses` is
`dependencies_`, group by group; `assumes` is what a code object relies on, an
auxiliary variable. Addresses of compilations and code are used again.

In `DependencyGroups` a group is a set, registering joins it, and a failed assumption
tells all members at once. The mapping reads the groups off the array and takes aborted
compilations and marked code for those who have been told.

### OptimizedCode

Closures of one function literal (`code`), the code map, and for each native context the
three weak lists as sets: no step depends on their order. A closure is `Dead` before it
is made and after a collection. `ReplaceCode` is `JSFunction::ReplaceCode` with its two
list operations; the stubs that make closures from the code map do the same in generated
code. `queued` counts the recompilations of a closure that are under way; an on-stack replacement gives a
closure other code than the code map has. `frames` are the activations of optimized code;
lazy deoptimization of one is its return. `DeoptimizeMarked` marks code and does what
`DeoptimizeMarkedCodeForContext` does for the contexts it is given: all, or the one of the
function in `DeoptimizeFunction`. A scavenge takes dead closures off the lists; a full
collection also frees code to which only weak references are left, and processes or
flushes the code map.

## 5. What the runs check

| run | shows | size |
|---|---|---|
| `unbound_queue` | the node-level queue is a first-in first-out queue, no access to a freed node, `Enqueue` returns | 4 addresses, 2 records |
| `input_queue` | the ring is a double-ended queue; the room that was seen is there | 3 jobs, 4 slots |
| `oct_jobs` | every job has one owner, the compiler thread never finds the queue empty after a signal, no function is left in the recompile queue without a job, no request to install is lost, flush and stop leave nothing behind, one OSR job for an entry, no patched back edge is out of reach of `Revert` and none keeps a stack check without a job; with held-back signals, and with a compilation delay that leaves jobs to `Stop` | 2 closures of one code with 2 loops, 3 jobs, input 2, OSR 2 |
| `oct_liveness` | flush and stop are answered; a queued function gets code back | 2 closures, 2 jobs, input 1, no OSR |
| `cpu_profiler` | ticks are handed over in order, symbolized with the code map of their moment; stopping drains and returns | ring of 2, 3 events a session, 2 ticks of the VM thread at once |
| `thread_manager` | the StackGuard of each thread is intact wherever it is kept; generated code's limit shows a request exactly if there is one to handle; requests stay with their thread (`PendingRequests`); they are handled | 2 threads, 4 of the 7 kinds of request, 3 and 2 scopes at once, 2 places on the second stack |
| `global_handles` | nodes, blocks and lists agree; the scavenger's list is complete; no dead handle is left without its callback | 3 blocks of one node, 2 nested passes |
| `incremental_marking_old` | no black object sees a white one; nothing reachable is freed; the pause ends | array of one chunk, a cell, 2 old objects, deque of 2 |
| `incremental_marking_scavenge` | the deque has what is left to scan, at its present address; nothing reachable is freed | array of 2 chunks, 1 old address, semispaces of one address, deque of 2 |
| `sweeper_threads` | pages are swept once, memory is on one list; no sweeper while marking; the account of unswept memory; waits return | 2 threads, 2 and 3 pages, concurrent sweeping |
| `dependent_code` | whoever relies on an assumption is listed until told; no deleted compilation and no freed code is listed; the array is the sets of `DependencyGroups` | 2 compilations, 1 code object, 3 groups, 2 registrations each |
| `optimized_code` | the list that the deoptimizer walks has exactly the closures with optimized code; code is on the list its mark calls for and not freed under a reference; marking unlinks | 3 closures, 2 native contexts, 3 code objects, 2 activations, 2 jobs for a closure |

The largest runs (`oct_jobs` and `global_handles` with 2.4 million states each,
`incremental_marking_scavenge` with 0.8 million, `optimized_code` with 0.5 million) take about two minutes
or less.
Types are part of the invariants `GuardInv`, `NodesAccounted`, `ReachableIntact`,
`NoDanglingEntry` and `FunctionsListed`; those of the other modules are proved.

*Why the sizes are enough.* Four node addresses allow a list of two records, the
divider node and one free node to be reused while the consumer is between two
accesses. Four ring slots with three jobs put the front in every place with every
fill. Three jobs allow one in each of the input queue, the compiler thread and the
output queue at the same time, and an OSR buffer smaller than the number of jobs
makes entries wrap around and be evicted; the margin of four between the two
queues in the code only postpones that. The loops follow one another, and their
level may be raised without a patch; with one loop inside the other and two levels
(`Nested`, `MaxNesting = 2`), so that one level may be patched and the other not, TLC
finds nothing else (10.5 million states, four minutes), and `BackEdgesRevertibleTheorem`
is for any nesting. Two entries and three
events let the handler wrap around the ring, find it full, and fall behind by more
than one event.

Two threads can each be archived lazily and eagerly, be inside a Locker within an
Unlocker, and come back at another place of the stack; the four kinds of request
cover the ones a nested preemption, an exception, the debugger and a plain flag
take through the handler. Blocks of one node join and leave the list of used
blocks at every creation and disposal, so that three of them give the pass a
block before, at and behind its place; what larger blocks add (a list of free
nodes that spans blocks) is there with one node each as well. A deque of two
entries overflows with three objects; a second array chunk, a second semispace
and a second old address each add one case (bar in the middle, promotion or
copy, an object written after it was scanned), and the two marking runs divide
them. Two spaces with one and two pages beside the first let each of two threads
come to a page before, after and while the other has it, and find only claimed
pages.

Of the five groups of the array three are enough for a group before, at and behind
the one that changes, one of them that of embedded maps, which compilations do not
enter; two registrations let a compilation be in two groups, or twice in one; with three
registrations TLC finds nothing else (426,000 states, three minutes). Two closures in one
native context share the code map, the third shows what one context's lists are to another;
three code objects are one in the code map, one from on-stack replacement, and one out of
use, and two activations let code be left while an older activation of it goes on; two
jobs for one closure, of which the second is queued after on-stack replacement and a
deoptimization, end in either order of installation and disposal.

*Symmetry* is used for jobs, which are addresses, for closures where all have
the same code or each its own, for loops of the same depth, for blocks and for old addresses; not in runs with
liveness properties; also for compilations, code objects, and closures of one native
context. `global_handles` has a VIEW that leaves out links of blocks
that are not in use, which no step reads.

*Deadlock* is allowed in the recompilation and unbound queue runs: after `Stop`
and after the destructor nothing is left to do. The others check it.

## 6. Fairness

`UnboundQueue`: the producer finishes an `Enqueue` it has begun (WF).

`OptimizingCompilerThread`: the compiler thread is scheduled (WF on its steps).
The main thread's waits return (WF on the steps of `Flush` and `Stop`). It also
finishes what it began: a recompilation and an installation are SF, because
collections, which may come in between any number of times but not for ever,
disable them for a while. Handling `INSTALL_CODE` is SF as well: every function
entry and every loop has a stack check, so JavaScript comes to one again and
again, though not before anything else happens. No function is called, marked or
optimized out of fairness.

`CpuProfiler`: WF for the processor thread and the handler; SF for the expiry
of the timer, since elapsed time only grows but each test may come too early; WF
for `Join`. Neither code events nor signals are assumed to come.

`ThreadManager`: a thread inside V8 goes on with what it has begun, and JavaScript
comes to a stack check again and again (WF); no request, no Locker and no
preemption is assumed to come. `RequestHandled` excepts what the code may put off:
a thread that leaves or postpones, and the requests behind a `TERMINATE` or an
`INTERRUPT`, at which the handler returns.

`SweeperThreads`: every sweeper thread is scheduled, and the main thread goes on with
what it has begun (WF). It need not collect.

Liveness and fairness are checked with TLC only.

## 7. Disagreements found

Seen while modelling. No run is kept for them; where a definition is named, TLC finds
a counterexample when it is made the INVARIANT of the module's run. The others are read
off the code.

- `AddToOsrBuffer` (`optimizing-compiler-thread.cc:349`) searches for a free slot without
  end when all slots hold jobs that are not yet waiting. Jobs on the output queue
  are not counted by the bound that is meant to leave a margin (`OsrSlotIsFound` of
  `OptimizingCompilerThread`; with the margin that the code keeps, six closures, and
  the CONSTRAINT in `MCOptimizingCompilerThread` that says where to look).
- A tick can be passed by, and then blocks its queue until the session ends, because
  numbers are compared for equality (`cpu-profiler.cc:120`; `NoTickLeftBehind` of
  `CpuProfiler`). This is why `DrainedAtExit` speaks of ticks behind one that is out of
  date.
- A compilation can be listed twice in a group, although `Insert` says that it "is
  sufficient to just check only the last element" (`objects.cc:11616`): entries of a group
  change places when others are inserted or removed (`NoInfoTwice` of `DependentCode`).
  The assertion at `objects.cc:11668` then fails in debug builds; otherwise it does no
  harm, which is what `NoDanglingEntry` shows.
- Code can stay in the optimized code map when it is marked, and be given to new
  closures, which deoptimize in their turn: the deoptimizer evicts code for each closure
  that it unlinks (`deoptimizer.cc:341`), and there is none when the closure it was made
  for has since got code by on-stack replacement, or has died in a scavenge
  (`CachedCodeUnmarked` of `OptimizedCode`; compare the comment at `runtime.cc:8460`).
- The assertion in `MarkInRecompileQueue` (`objects.cc:9501`) fails when a
  collection inside `RecompileConcurrent` flushes an older job of the closure
  (`MarkedWhenQueued`).
- The assertion in `AddStackCheck` (`full-codegen.cc:1701`) fails when two closures
  of one function reach the same loop (`EdgePatchedWhenQueued`).
- The profiler raises the nesting level before `AttemptOnStackReplacement` decides whether
  to patch (`runtime-profiler.cc:291`). A failed compilation makes a code not
  `optimizable()` while another of its closures is marked or optimized, and
  `TryReenableOptimization` may take that back: a level is then left out, and the
  assertions of `Verify` (`full-codegen.cc:1729`, in `Patch`) and `Revert` (`:1682`) fail
  (`VerifiedWhenPatched` and `RevertFindsPatched`, with `Nested` and `MaxNesting = 2`). What
  release builds rely on, that `Revert` reaches every patched edge, holds
  (`BackEdgesRevertible`).
- `IsQueuedForOSR(JSFunction*)` (`optimizing-compiler-thread.cc:334`) answers for the
  first job of a function only (`NoRecompileWhenQueuedForOsr`).
- The comment at `optimizing-compiler-thread.cc:156` ("This should not block, since
  we have one signal on the input queue semaphore corresponding to each element in
  the input queue") holds only eventually, since the signal follows the enqueue
  outside the lock: the thread may wait for it.
- A `Flush` from inside `Stop`, which takes a collection while
  `InstallOptimizedFunctions` runs with a compilation delay, would wait for a thread
  that has left; `StopReturns` is checked without a delay.
- `StackGuard::SetStackLimit` (`execution.cc:372-385`) changes the limits of
  `thread_local_` and not those in the root list, which follow at the next
  interrupt, so that `roots.real` can differ from the thread's own real limit for a
  while; `LimitShowsRequest` therefore speaks of the stack a limit is on.
- The "last ditch" of `SlowAllocateRaw` (`spaces.cc:2708-2716`) asks
  `IsLazySweepingComplete`, which sweeper threads leave true: with them it does
  nothing.
- `SweepSpaces` starts the threads under a "TODO(hpayer): fix race with concurrent
  sweeper" (`mark-compact.cc:4126`); the threads walk the list of pages while the
  main thread may add or release some. The model's list of pages is fixed.

## 8. What is proved

All theorems are of the form `Spec => ...` (`RingSpec` in `InputQueue`), without fairness, for every value of the
constants that satisfies the named assumptions of the modules (capacities are
positive, NULL is not a job, closures have a shared code).

- `QueueProofs`, of `UnboundQueue`: `QueueInv` is inductive: the nodes from `first_` to `last_`
  form one list without repetition, the divider is on it, freed nodes are not,
  and what a thread remembers between two accesses is still on the list.
  The plain property, that no freed node is touched, says nothing about where the
  divider is and is not inductive. From it: `NoDanglingPointer`,
  `DestructorFreesAll`, `SeenRecordStays` and the refinement `ImplementsFifo`, where
  every step is shown to be an abstract operation or to leave the abstract queue.
- `QueueProofs`, of `InputQueue`: `RingInv` (indices in range, room promised is room there),
  then `ImplementsDeque`: each enqueue and `NextInput` changes the contents,
  read from the front around the end of the array, as the abstract operation does.
- `OptimizingCompilerThreadProofs`. `CompileNextHasJob` is not inductive: that the
  queue is not empty when the thread takes from it depends on all the signals
  given and not yet used. `SignalInv` counts them (`SignalsMatch`: signals,
  held-back jobs, the signal being used and the one about to be given add up to
  the jobs in the input queue and the flush that is under way), which needs to
  know who waits for whom (`Handshake`) and that the room the main thread saw is
  still there (`RecompileHasRoom`). `TypeOK` is proved along the way: without
  `RecompileHasRoom` the bound on the queue does not hold.
  Then the ownership of jobs, from `OwnershipInv`. That each job is in one place
  (`PlacesInv`: the queues and the local variables of the two threads hold
  different jobs, each once) is not inductive, since what a step may do to a job
  depends on what kind of job can be where (`KindsInv`: the buffer has the OSR jobs
  but for one being entered, and those that wait for their entry have left the
  pipeline), and jobs that are not finished leave the pipeline only in a flush or
  a stop without delay (`LeftoverInv`), which needs
  `ControlInv` (what the thread's flag and its exit say about where it is).
  `JobsAccounted` and `NoStrandedFunction` follow, and `NothingLeftBehind`, since a thread
  that has stopped holds nothing. `QueuedInv` says who will ask for installation
  while the output queue is not empty (`NoLostInstallRequest`). `OsrInv` relates
  the OSR buffer to the jobs that are under way and to the back edges that are patched
  (`PatchedInv`: none beyond the nesting level),
  also between the check of an entry and the request (`OneOsrJobPerEntry`,
  `BackEdgesRevertible`). With this every safety invariant the runs check of this
  module is proved.
- `CpuProfilerProofs`. First the ring by itself: what each operation does to the
  shape (`RingInv`) and the count. Then `MergeInv`: events in the queue are numbered
  without a gap, behind a full marker is a whole tick, a tick in hand has
  the number of the last processed event. `SymbolizedInOrder` alone does not
  say why the numbers of events match their count. `ProfilerInv` is the three
  together; from it `TicksAreWhole`, `SymbolizedInOrder` and `ImplementsBoundedFifo`.
  `DrainedAtExit` needs `DrainInv` besides: once the processor is told to stop the VM
  thread waits for it and no tick is being taken (`StoppingInv`), no tick has a
  number that no event has been given yet (`NumberedInv`), and when the processor turns
  to the next event no tick that was due before it is left (`TurnedInv`).
- `ThreadManagerProofs`. For any set of threads, `OwnGuards`, `LimitShows` and the
  refinement `ImplementsPendingRequests`. `GuardInv` speaks of the thread whose state
  is in the isolate, and is preserved only when states are archived and restored by the thread
  that owns them: `IInv` adds `LockInv` (who holds the lock, and whose state
  is left in place lazily), `ScopesNest` (the outermost scope is a `Locker`'s, and a preempted
  thread opens none until it is back in the handler), `GuardsInv` (`GuardInv` for all
  guards, the archived ones included, and that a limit which shows a request never
  shows nothing while postponed interrupts are being enabled again) and `StoredInv`
  (the limit kept in a thread's `PerIsolateThreadData` is one of its own stack).
- `GlobalHandlesProofs`. `NodesAccounted`, `NewSpaceNodesComplete` and `NothingLeftPending`,
  for any set of blocks, block size and depth of nested passes. `IInv` adds which
  nodes a list has (`FreeInv`, `NewInv`) and that only the innermost pass may be one that
  will not give up (`PassesInv`). That a pass over all handles reaches what is pending would be an
  induction along the list of blocks; it is avoided by speaking of sets the links do
  not lead out of: `Linked` says that such a set with the first block in it has all the
  blocks in use, `Leads` that every such set with what follows one block has another.
  The lemmas `LinkIn` and `LinkOut` show that both survive a block's coming and going, also for a
  block that has left the list and still points into it, where the iterator
  may stand. `AheadInv` is that for the pass under way.
- `SweeperThreadsProofs`. `EachPageOnce` and `QuietWhileMarking`, for any number of
  threads and pages and for both ways of sweeping (`Concurrent = FALSE`, where main
  waits at once, has no run). Neither is inductive. The invariant `IInv` adds
  `Handshake` (for each thread, how its place, the start and end semaphores and main's
  loops over the threads fit together, also while it is being stopped), `MainInv`
  (when sweeping is pending), `Walked` (pages before a thread's iterator are
  claimed, so that a thread that has signalled the end leaves none) and `Emptied`
  (threads main has stolen from after the wait have nothing left). `EachPageOnce` is
  preserved page by page: `Placed` says that a page is unclaimed, with one thread,
  or on its space's free list, and each step moves it at most one place on.
  `UnsweptIsAccounted` states `UnsweptAccounted`, that the bytes the space believes
  unswept cover those of its unswept pages, and are none when sweeping is over. It is proved with the set `Unsettled(s)` of the
  pages whose bytes are still counted: every step removes from it the pages whose
  bytes it subtracts (the cardinality theorems of finite sets), and when sweeping
  is over nothing is left in it.

- `IncrementalMarkingProofs`. `WriteBarrier`, `DequeIsComplete` and `CollectionIsSafe`, for
  any number of cells and addresses, chunks of the large array and capacity of the deque.
  None of the three is inductive, nor are they together: a black object may only stay
  black because what it refers to is grey and will be found, what is found in the deque
  after a scavenge depends on no entry standing in it twice, and that a collection frees
  nothing reachable follows only when marking has come to its end. `IInv` (theorem
  `MarkingInvariant`) has, beside the types, `ControlInv` (which phases exclude each other,
  and that the array filled without a barrier is not black), `IdleInv` (marks left from one
  cycle to the next are those of unswept pages), `MarkingInv` and `CollectInv` (what is
  black has been scanned and what is grey will be, for the incremental marker
  and for the pause, with the progress bar, the overflow and the roots still to come), and
  `HeapInv`. `HeapInv` is what replaces an induction along paths in the heap: `Intact(S)` says of a
  set of addresses that they hold objects which refer only to each other. While the mutator runs,
  all objects but the garbage on unswept pages (`Living`) are such a set; in a pause there is one
  that has the roots and all that is marked. `Reachable`, the smallest closed set around the roots, is
  inside it, and a step is safe if it leaves such a set. At the end of the pause the marked objects are
  one, and what is freed is none of them. `MarkAll` and `Updated` are recursive functions; what they
  do is shown for every sequence by the first index at which it would fail
  (`MarkAllFacts`, `UpdatedFacts`). There is a lemma for each action; the two that change most are
  `LeftTrimStep`, where the mark and the deque's entry move with the array and a filler stays behind, and
  `ScavengeStep`, where the objects of one semispace are renamed in the heap, the marks and the deque at
  once, and `Living` is carried over by the renaming.
  `PauseTerminates` (`PauseMakesProgress`) counts: a white object that is marked gives up four units of
  work for an entry, or for a grey object and an overflow; `MarkAllWork` is that for all the values of an object.

- `CodeProofs`, of `OptimizedCode`: `IInv` is `FunctionsListed`, `CodeAccounted` and `CodeHome`:
  code is on the lists of one native context only. That is what makes it enough for
  `DeoptimizeFunction` to walk the context of its function, and needs to be known when
  code is freed. The lemma `MarkedMoved` says what `DeoptimizeMarked` does to the lists
  when the contexts it is given have all the code that is newly marked. From `IInv`:
  `MarkingUnlinks`.
- `CodeProofs`, of `DependentCode`: `DependentInv` (theorem `DependentInvariant`) gives
  `NobodyForgotten`, `NoDanglingEntry` and the refinement `ImplementsGroups`, for any number
  of compilations and code objects, of groups (two or more), of registrations and any length
  of the array. Neither of the two invariants is inductive: whether a
  rollback finds all entries of a compilation depends on how often it is listed (`Undone`: in
  each group never more often than it is registered there), and what an interrupted insertion
  does depends on its compilation or code still being the one in hand when it goes on
  (`InHand`: at most one compilation builds its graph or generates code, new code is its code,
  and the insertion is on behalf of one of the two). `IsArray` is the packed form.
  What start indexes are is shown by induction, stated by a least counterexample
  (`LeastNumber`, `UpTo`): `StartFacts`, and `StartShift` for what an entry more or less in
  one group does to the groups after it. The core is one argument about places. After an
  operation each place of a group has an entry that stood at some place of the same group
  before, and no two have the same one (`DrawnFrom`); so nobody has entered the
  group and nobody is in it more often (`Drawn`), and if every old place is drawn
  from, nobody has left it (`Reordered`). This makes `PutFacts`, `RemoveOnceFacts`,
  `UpdateFacts`, `WithoutFacts` (a group emptied) and `ClosedFacts` (a collection, where
  entries are numbered by the kept places before them, `Counting`);
  `RemovedFacts` and `RollbackFacts` repeat the removal. With these the array is
  not looked into again: there is a lemma for each action that says it keeps `DependentInv`,
  and for the refinement one that maps it to `Join`, `Finish`, `Leave`, `Break`, `Forget`
  or `Die`, or to a stutter. `Leave` is where `Undone` is needed for the second time: the
  compilation must be out of the groups altogether.

What the theorems state and no run checks (`QueueInv`, `RingInv`, `SignalInv`,
`OwnershipInv`, `QueuedInv`, `OsrInv`, `ProfilerInv`, `DrainInv`, `TicksAreWhole`,
`SeenRecordStays`, `DestructorFreesAll`, `TypeOK`, each `IInv`, `AheadInv`, `DependentInv`) has been
given to TLC before it was proved, `OwnershipInv` and `OsrInv` with concurrent OSR and delayed
recompilation switched on and off.

Only model-checked: liveness (`EnqueueReturns`, `FlushReturns`, `StopReturns` of both
modules, `QueuedFunctionResolved`, `RequestHandled`, `WaitsReturn`), which is out of the
prover's reach. Every other property of a run is stated by a theorem.
That `OptimizingCompilerThread` and `CpuProfiler` may use sequences
for their queues rests on the refinement theorems, not on a composed model.

## 9. What is not modelled

Components with status `not_modelled` in `PROJECT.json` have the reason there.
Most of V8 is sequential code over large data (parser, code generators, regular
expressions, inline caches, library code in JavaScript), where tests reach what
matters and a model would repeat the code. Within the modelled components:

- the contents of code, profiles, stack samples and back edge tables;
- out-of-memory, thread creation that fails, and the tear-down of the isolate;
- in `OptimizingCompilerThread`, other interrupts than `INSTALL_CODE`; the ways that tests
  have to patch back edges (`--always-osr`, `%OptimizeFunctionOnNextCall` with "osr"); and
  full code that is replaced by other full code of the function, with deoptimization
  support;
- `TerminateExecution` of a thread by its id and the `ContextSwitcher`, which nothing
  in `src/src` calls but tests and embedders, and what ThreadManager archives
  besides the StackGuard: it is copied in the same places;
- object groups and implicit references, eternal handles and handle scopes;
- in `IncrementalMarking`: leaf objects, which are black at once, code and evacuation
  slots, weak references, maps, how fast the marker goes, and the move of the
  new-space survivors at the end of a full collection; that the scavenger finds
  every old-to-new pointer is assumed (the store buffer has no module);
- in `DependentCode`: other objects' arrays (a compilation lists itself in one array after
  the other, each independent of the rest), and the table of code that embeds other objects
  than maps and cells (`AddWeakObjectToCodeDependency`);
- in `OptimizedCode`: the translation of frames, the literals in the code map, code
  flushing, bound functions, and more than one function literal (their code maps share
  nothing);
- in `SweeperThreads`: new and released pages, evacuation candidates;
- for the CPU profiler, that `Sampler::DecreaseProfilingDepth` may restore the
  former disposition of SIGPROF while a signal is on its way, platforms that
  suspend the thread instead of sending a signal, and the sampler thread of
  `--prof`.
