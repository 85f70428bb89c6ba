----------------------- MODULE OptimizingCompilerThread -----------------------
(***************************************************************************)
(* Concurrent recompilation: the hand-over of recompile jobs between the   *)
(* main thread, which runs JavaScript, and the optimizing compiler thread. *)
(*                                                                         *)
(* The main thread marks hot closures, queues a job when a marked closure  *)
(* is called (or when a loop of it reaches a patched back edge, for        *)
(* on-stack replacement, OSR), installs finished code at a stack check and *)
(* flushes or stops the compiler thread.  The compiler thread takes jobs   *)
(* from the input queue, optimizes them and puts them on the output queue. *)
(*                                                                         *)
(* One step is what one thread does between two accesses to state that     *)
(* both share: the input queue and its mutex, the output queue, the two    *)
(* semaphores, stop_thread_ and the INSTALL_CODE flag of the stack guard.  *)
(* A garbage collection can start wherever the main thread allocates, and  *)
(* flushes from inside a recompilation or an installation.                 *)
(*                                                                         *)
(* output is the UnboundQueue of that module and inputQueue the ring of    *)
(* InputQueue, each as the sequence it is shown to implement.              *)
(***************************************************************************)
EXTENDS Integers, Sequences, FiniteSets, Functions

CONSTANTS
    Closure,      \* JSFunctions
    Shared,       \* SharedFunctionInfos, with their full code
    SharedOf,     \* SharedOf[f]: the SharedFunctionInfo of closure f
    Loop,         \* the loops (back edge table entries) of each full code
    DepthOf,      \* DepthOf[l]: the nesting depth of loop l, from 1
    MaxNesting,   \* Code::kMaxLoopNestingMarker
    Job,          \* addresses of jobs; bounds the jobs alive at once
    NULL,         \* no job, no loop
    InputCapacity,   \* FLAG_concurrent_recompilation_queue_length
    OsrCapacity,     \* osr_buffer_capacity_, InputCapacity + 4 in the code
    ConcurrentOsr,   \* FLAG_concurrent_osr
    Block,           \* FLAG_block_concurrent_recompilation
    Delay            \* FLAG_concurrent_recompilation_delay != 0

ASSUME ConstantsAssumption ==
    /\ SharedOf \in [Closure -> Shared]
    /\ NULL \notin Job \cup Loop
    /\ MaxNesting \in Nat
    /\ DepthOf \in [Loop -> 1..MaxNesting]
    /\ InputCapacity \in Nat \ {0}
    /\ OsrCapacity \in Nat \ {0}
    /\ {ConcurrentOsr, Block, Delay} \subseteq BOOLEAN

VARIABLES
    jobs,           \* the live jobs: their CompilationInfo
    code,           \* what each closure's code entry is
    edge,           \* BackEdgeState of each loop of each full code
    nesting,        \* allow_osr_at_loop_nesting_level of each full code
    input,          \* the jobs in input_queue_, front first
    output,         \* the jobs in output_queue_, oldest first
    osrBuffer,      \* osr_buffer_
    osrCursor,      \* osr_buffer_cursor_
    inputSem,       \* count of input_queue_semaphore_
    stopSem,        \* count of stop_semaphore_
    stopThread,     \* stop_thread_
    blockedJobs,    \* blocked_jobs_
    installFlag,    \* INSTALL_CODE is set in the stack guard
    main,           \* where the main thread is
    request,        \* the arguments of the RecompileConcurrent in progress
    installing,     \* the job InstallOptimizedCode is working on
    resume,         \* where the main thread goes on when Flush returns
    thread,         \* where the compiler thread is
    current         \* the job the compiler thread holds

edgeVars == <<edge, nesting>>
bufferVars == <<osrBuffer, osrCursor>>
osrVars == <<edgeVars, bufferVars>>
queueVars == <<input, output, inputSem, blockedJobs>>
stopVars == <<stopSem, stopThread>>
mainVars == <<main, request, installing, resume>>
threadVars == <<thread, current>>
vars == <<jobs, code, osrVars, queueVars, stopVars, installFlag, mainVars,
          threadVars>>

\* A job for a loop is for on-stack replacement (is_osr); waiting is set while
\* it waits to be entered (IsWaitingForInstall).
JobInfo == [closure : Closure, loop : Loop \cup {NULL}, waiting : BOOLEAN]
Request == [closure : Closure, loop : Loop \cup {NULL}]
NoRequest == [closure |-> NULL, loop |-> NULL]
Slot == 0..(OsrCapacity - 1)

TypeOK ==
    /\ DOMAIN jobs \subseteq Job
    /\ \A j \in DOMAIN jobs : jobs[j] \in JobInfo
    /\ code \in [Closure -> {"full", "marked", "inqueue", "optimized"}]
    /\ edge \in [Shared -> [Loop -> {"interrupt", "osr", "check"}]]
    /\ nesting \in [Shared -> 0..MaxNesting]
    /\ input \in Seq(Job) /\ Len(input) <= InputCapacity
    /\ output \in Seq(Job)
    /\ osrBuffer \in [Slot -> Job \cup {NULL}]
    /\ osrCursor \in Slot
    /\ inputSem \in Nat /\ stopSem \in Nat /\ blockedJobs \in Nat
    /\ stopThread \in {"CONTINUE", "STOP", "FLUSH"}
    /\ installFlag \in BOOLEAN
    /\ main \in {"js", "recompile", "signal", "drain", "install", "flushSignal",
                 "flushWait", "flushed", "stopSignal", "stopWait", "stopQueues",
                 "stopOsr", "stopped", "spin"}
    /\ request \in Request \cup {NoRequest}
    /\ installing \in Job \cup {NULL}
    /\ resume \in {"js", "recompile", "install"}
    /\ thread \in {"wait", "woken", "next", "compile", "request", "flush",
                   "flushJob", "flushDone", "flushSignal", "exited"}
    /\ current \in Job \cup {NULL}

Init ==
    /\ jobs = [j \in {} |-> 0]
    /\ code = [f \in Closure |-> "full"]
    /\ edge = [s \in Shared |-> [l \in Loop |-> "interrupt"]]
    /\ nesting = [s \in Shared |-> 0]
    /\ input = << >> /\ output = << >>
    /\ osrBuffer = [i \in Slot |-> NULL] /\ osrCursor = 0
    /\ inputSem = 0 /\ stopSem = 0 /\ blockedJobs = 0
    /\ stopThread = "CONTINUE"
    /\ installFlag = FALSE
    /\ main = "js" /\ request = NoRequest /\ installing = NULL /\ resume = "js"
    /\ thread = "wait" /\ current = NULL

-------------------------------------------------------------------------------
(* Jobs *)

Without(js) == Restrict(jobs, DOMAIN jobs \ js)

IsOsr(j) == jobs[j].loop # NULL
IsWaiting(j) == jobs[j].waiting

\* The function's own unoptimized code, put back for the closures of js that
\* are to be optimized as a whole.
RestoreCode(js) ==
    code' = [f \in Closure |->
                IF \E j \in js : ~IsOsr(j) /\ jobs[j].closure = f
                THEN "full" ELSE code[f]]

-------------------------------------------------------------------------------
(* The back edges of a full code *)

\* BackEdgeTable::Patch, for the loops of one nesting level.
Patch(s, level) ==
    edge' = [edge EXCEPT ![s] = [l \in Loop |-> IF DepthOf[l] = level THEN "osr" ELSE @[l]]]

\* AttemptOnStackReplacement leaves the back edges alone without FLAG_use_osr,
\* for a builtin or a function that uses arguments, and while the full code is
\* not optimizable(), as the failed compilation of any of its closures makes it.
AttemptOnStackReplacement(s, level) == Patch(s, level) \/ UNCHANGED edge

\* BackEdgeTable::Revert
Revert(s) ==
    /\ nesting' = [nesting EXCEPT ![s] = 0]
    /\ edge' = [edge EXCEPT ![s] =
                   [l \in Loop |-> IF DepthOf[l] <= nesting[s]
                                   THEN "interrupt" ELSE @[l]]]

\* BackEdgeTable::RemoveStackCheck for the OSR jobs of js.
EdgesWithoutCheck(js) ==
    [s \in Shared |-> [l \in Loop |->
        IF /\ edge[s][l] = "check"
           /\ \E j \in js : SharedOf[jobs[j].closure] = s /\ jobs[j].loop = l
        THEN "osr" ELSE edge[s][l]]]

-------------------------------------------------------------------------------
(* The buffer of OSR jobs, used by the main thread only *)

Buffered == {osrBuffer[i] : i \in Slot} \ {NULL}

First(S) == CHOOSE i \in S : \A k \in S : i <= k

\* The jobs for a loop of f (HasSameOsrEntry), and all OSR jobs of f.
SlotsOf(f, l) ==
    {i \in Slot : /\ osrBuffer[i] # NULL
                  /\ jobs[osrBuffer[i]].closure = f
                  /\ jobs[osrBuffer[i]].loop = l}

AllSlotsOf(f) == UNION {SlotsOf(f, l) : l \in Loop}

\* Both IsQueuedForOSR functions answer for the first job they find.
FirstUnfinished(slots) ==
    /\ slots # {}
    /\ ~IsWaiting(osrBuffer[First(slots)])

IsQueuedForOSR(f, l) == FirstUnfinished(SlotsOf(f, l))

\* FindReadyOSRCandidate
ReadySlots(f, l) == {i \in SlotsOf(f, l) : IsWaiting(osrBuffer[i])}

\* How far AddToOsrBuffer may advance the cursor to find an empty slot or a
\* job that waits for its entry.
FreeSteps ==
    {d \in Slot :
        LET j == osrBuffer[(osrCursor + d) % OsrCapacity]
        IN  j = NULL \/ IsWaiting(j)}

FoundSlot == (osrCursor + First(FreeSteps)) % OsrCapacity
Evicted == {osrBuffer[FoundSlot]} \ {NULL}

\* AddToOsrBuffer(j); the caller deletes the jobs in Evicted.
PutInOsrBuffer(j) ==
    /\ osrBuffer' = [osrBuffer EXCEPT ![FoundSlot] = j]
    /\ osrCursor' = (FoundSlot + 1) % OsrCapacity

-------------------------------------------------------------------------------
(* The compiler thread: Run *)

\* input_queue_semaphore_.Wait() at the top of the loop.
ThreadWait ==
    /\ thread = "wait"
    /\ inputSem > 0
    /\ inputSem' = inputSem - 1
    /\ thread' = "woken"
    /\ UNCHANGED <<jobs, code, osrVars, input, output, blockedJobs, stopVars,
                   installFlag, mainVars, current>>

\* The switch on stop_thread_: go on with a job, start a flush, or leave Run.
ThreadContinue ==
    /\ thread = "woken" /\ stopThread = "CONTINUE"
    /\ thread' = "next"
    /\ UNCHANGED <<jobs, code, osrVars, queueVars, stopVars, installFlag,
                   mainVars, current>>

\* Fault: Run returns without answering Stop.
ThreadStopSilently ==
    /\ thread = "woken" /\ stopThread = "STOP"
    /\ thread' = "exited"
    /\ UNCHANGED <<jobs, code, osrVars, queueVars, stopVars, installFlag,
                   mainVars, current>>

ThreadStop ==
    /\ thread = "woken" /\ stopThread = "STOP"
    /\ stopSem' = stopSem + 1
    /\ thread' = "exited"
    /\ UNCHANGED <<jobs, code, osrVars, queueVars, stopThread, installFlag,
                   mainVars, current>>

ThreadFlush ==
    /\ thread = "woken" /\ stopThread = "FLUSH"
    /\ thread' = "flush"
    /\ UNCHANGED <<jobs, code, osrVars, queueVars, stopVars, installFlag,
                   mainVars, current>>

\* CompileNext takes the front job.  With an empty queue NextInput would
\* return NULL, which CompileNext dereferences: there is no step.
CompileNextTake ==
    /\ thread = "next"
    /\ input # << >>
    /\ current' = Head(input)
    /\ input' = Tail(input)
    /\ thread' = "compile"
    /\ UNCHANGED <<jobs, code, osrVars, output, inputSem, blockedJobs, stopVars,
                   installFlag, mainVars>>

\* OptimizeGraph, on the job's own graph, then output_queue_.Enqueue(job).
CompileNextEnqueue ==
    /\ thread = "compile"
    /\ output' = Append(output, current)
    /\ current' = NULL
    /\ thread' = "request"
    /\ UNCHANGED <<jobs, code, osrVars, input, inputSem, blockedJobs, stopVars,
                   installFlag, mainVars>>

\* Fault: nobody is told of the finished job.
CompileNextWithoutRequest ==
    /\ thread = "request"
    /\ thread' = "wait"
    /\ UNCHANGED <<jobs, code, osrVars, queueVars, stopVars, installFlag, mainVars,
                   current>>

\* stack_guard()->RequestInstallCode()
CompileNextRequest ==
    /\ thread = "request"
    /\ installFlag' = TRUE
    /\ thread' = "wait"
    /\ UNCHANGED <<jobs, code, osrVars, queueVars, stopVars, mainVars, current>>

\* FlushInputQueue(true) on the compiler thread, one job at a time.
FlushInputTake ==
    /\ thread = "flush"
    /\ IF input = << >>
       THEN /\ thread' = "flushDone"
            /\ UNCHANGED <<input, current>>
       ELSE /\ thread' = "flushJob"
            /\ current' = Head(input)
            /\ input' = Tail(input)
    /\ UNCHANGED <<jobs, code, osrVars, output, inputSem, blockedJobs, stopVars,
                   installFlag, mainVars>>

\* Fault: the job is taken without its signal.
FlushInputWithoutWait ==
    /\ thread = "flushJob"
    /\ IF IsOsr(current)
       THEN UNCHANGED <<jobs, code>>
       ELSE RestoreCode({current}) /\ jobs' = Without({current})
    /\ current' = NULL
    /\ thread' = "flush"
    /\ UNCHANGED <<osrVars, queueVars, stopVars, installFlag, mainVars>>

\* Fault: OSR jobs, which the OSR buffer still holds, are disposed of too.
FlushInputDisposesOsr ==
    /\ thread = "flushJob"
    /\ inputSem > 0
    /\ inputSem' = inputSem - 1
    /\ RestoreCode({current})
    /\ jobs' = Without({current})
    /\ current' = NULL
    /\ thread' = "flush"
    /\ UNCHANGED <<osrVars, input, output, blockedJobs, stopVars, installFlag,
                   mainVars>>

\* Wait for the job's signal, then dispose of the job and restore its
\* function, unless it is an OSR job, which the OSR buffer still holds.
FlushInputWait ==
    /\ thread = "flushJob"
    /\ inputSem > 0
    /\ inputSem' = inputSem - 1
    /\ IF IsOsr(current)
       THEN UNCHANGED <<jobs, code>>
       ELSE RestoreCode({current}) /\ jobs' = Without({current})
    /\ current' = NULL
    /\ thread' = "flush"
    /\ UNCHANGED <<osrVars, input, output, blockedJobs, stopVars, installFlag,
                   mainVars>>

\* Fault: the compiler thread goes on without answering Flush.
FlushContinueSilently ==
    /\ thread = "flushDone"
    /\ stopThread' = "CONTINUE"
    /\ thread' = "wait"
    /\ UNCHANGED <<jobs, code, osrVars, queueVars, stopSem, installFlag, mainVars,
                   current>>

\* Release_Store(&stop_thread_, CONTINUE), then stop_semaphore_.Signal().
FlushContinue ==
    /\ thread = "flushDone"
    /\ stopThread' = "CONTINUE"
    /\ thread' = "flushSignal"
    /\ UNCHANGED <<jobs, code, osrVars, queueVars, stopSem, installFlag, mainVars,
                   current>>

FlushSignal ==
    /\ thread = "flushSignal"
    /\ stopSem' = stopSem + 1
    /\ thread' = "wait"
    /\ UNCHANGED <<jobs, code, osrVars, queueVars, stopThread, installFlag,
                   mainVars, current>>

-------------------------------------------------------------------------------
(* The main thread: running JavaScript *)

\* RuntimeProfiler::Optimize on a hot function: IsOptimizable() holds for
\* full code only, and a function with an OSR job under way is left alone.
MarkForConcurrentRecompilation(f) ==
    /\ main = "js"
    /\ code[f] = "full"
    /\ ~(ConcurrentOsr /\ FirstUnfinished(AllSlotsOf(f)))
    /\ code' = [code EXCEPT ![f] = "marked"]
    /\ UNCHANGED <<jobs, osrVars, queueVars, stopVars, installFlag, mainVars,
                   threadVars>>

\* OptimizeNow finds an unoptimized frame of a function that is marked or
\* optimized already: it raises the nesting level, and the loops of the new level
\* may be patched.
PatchBackEdges(f) ==
    /\ main = "js"
    /\ code[f] \in {"marked", "optimized"}
    /\ nesting[SharedOf[f]] < MaxNesting
    /\ nesting' = [nesting EXCEPT ![SharedOf[f]] = @ + 1]
    /\ AttemptOnStackReplacement(SharedOf[f], nesting[SharedOf[f]] + 1)
    /\ UNCHANGED <<jobs, code, bufferVars, queueVars, stopVars, installFlag,
                   mainVars, threadVars>>

\* Runtime_NotifyDeoptimized drops the optimized code of the function.
Deoptimize(f) ==
    /\ main = "js"
    /\ code[f] = "optimized"
    /\ code' = [code EXCEPT ![f] = "full"]
    /\ UNCHANGED <<jobs, osrVars, queueVars, stopVars, installFlag, mainVars,
                   threadVars>>

\* Runtime_ConcurrentRecompile: a marked function is called.  The function
\* gets its full code back when AllowOptimization says no or when the input
\* queue is full.
CallMarkedRefused(f) ==
    /\ main = "js"
    /\ code[f] = "marked"
    /\ code' = [code EXCEPT ![f] = "full"]
    /\ UNCHANGED <<jobs, osrVars, queueVars, stopVars, installFlag, mainVars,
                   threadVars>>

\* ... and otherwise RecompileConcurrent begins, having seen room in the
\* input queue.
CallMarked(f) ==
    /\ main = "js"
    /\ code[f] = "marked"
    /\ Len(input) < InputCapacity
    /\ request' = [closure |-> f, loop |-> NULL]
    /\ main' = "recompile"
    /\ UNCHANGED <<jobs, code, osrVars, queueVars, stopVars, installFlag,
                   installing, resume, threadVars>>

\* RecompileConcurrent gives up (parsing or CreateGraph bails out) or, for
\* the whole function, finds code in the optimized code map.  For OSR the
\* back edge is reverted and a marked function loses its mark.
RecompileWithoutJob ==
    /\ main = "recompile"
    /\ LET f == request.closure IN
       IF request.loop # NULL
       THEN /\ Revert(SharedOf[f])
            /\ \/ /\ code[f] = "marked"
                  /\ code' = [code EXCEPT ![f] = "full"]
               \/ /\ code[f] # "marked"
                  /\ code' \in {code, [code EXCEPT ![f] = "full"]}
       ELSE /\ \E c \in {"full", "optimized"} : code' = [code EXCEPT ![f] = c]
            /\ UNCHANGED edgeVars
    /\ main' = "js"
    /\ request' = NoRequest
    /\ UNCHANGED <<jobs, bufferVars, queueVars, stopVars, installFlag, installing,
                   resume, threadVars>>

\* The signal for a queued job, after the mutex is released;
\* FLAG_block_concurrent_recompilation holds it back until Unblock.
SignalJob ==
    /\ main = "signal"
    /\ IF Block
       THEN blockedJobs' = blockedJobs + 1 /\ UNCHANGED inputSem
       ELSE inputSem' = inputSem + 1 /\ UNCHANGED blockedJobs
    /\ main' = "js"
    /\ UNCHANGED <<jobs, code, osrVars, input, output, stopVars, installFlag, request,
                   installing, resume, threadVars>>

\* QueueForOptimization of a whole function: MarkInRecompileQueue, then the
\* back of the input queue.
QueueFunction(j) ==
    /\ main = "recompile" /\ request.loop = NULL
    /\ j \notin DOMAIN jobs
    /\ jobs' = [k \in DOMAIN jobs \cup {j} |->
                   IF k = j THEN [closure |-> request.closure, loop |-> NULL,
                                  waiting |-> FALSE]
                   ELSE jobs[k]]
    /\ code' = [code EXCEPT ![request.closure] = "inqueue"]
    /\ input' = Append(input, j)
    /\ main' = "signal"
    /\ request' = NoRequest
    /\ UNCHANGED <<osrVars, output, inputSem, blockedJobs, stopVars, installFlag,
                   installing, resume, threadVars>>

\* Fault: nobody looks whether a job for the loop is under way.
AtPatchedBackEdgeUnchecked(f, l) ==
    /\ main = "js"
    /\ ConcurrentOsr
    /\ edge[SharedOf[f]][l] # "interrupt"

\* Runtime_CompileForOnStackReplacement with concurrent OSR, from loop l of
\* f's full code, whose back edge is patched: at once, or, once a job is
\* queued, when the stack check beside it found some interrupt.  It returns
\* at once while the job is still being compiled; that step changes nothing.
AtPatchedBackEdge(f, l) ==
    /\ main = "js"
    /\ ConcurrentOsr
    /\ edge[SharedOf[f]][l] # "interrupt"
    /\ ~IsQueuedForOSR(f, l)

\* FindReadyOSRCandidate takes the job out of the buffer and
\* InstallOptimizedCode begins.
EnterOsr(f, l) ==
    /\ AtPatchedBackEdge(f, l)
    /\ ReadySlots(f, l) # {}
    /\ installing' = osrBuffer[First(ReadySlots(f, l))]
    /\ osrBuffer' = [osrBuffer EXCEPT ![First(ReadySlots(f, l))] = NULL]
    /\ main' = "install"
    /\ UNCHANGED <<jobs, code, edgeVars, osrCursor, queueVars, stopVars,
                   installFlag, request, resume, threadVars>>

\* No candidate: RecompileConcurrent begins ...
RequestOsr(f, l) ==
    /\ AtPatchedBackEdge(f, l)
    /\ ReadySlots(f, l) = {}
    /\ Len(input) < InputCapacity
    /\ request' = [closure |-> f, loop |-> l]
    /\ main' = "recompile"
    /\ UNCHANGED <<jobs, code, osrVars, queueVars, stopVars, installFlag,
                   installing, resume, threadVars>>

\* ... or does not (the input queue is full, or there are optimized
\* activations): the back edges are reverted.
RefuseOsr(f, l) ==
    /\ AtPatchedBackEdge(f, l)
    /\ ReadySlots(f, l) = {}
    /\ Revert(SharedOf[f])
    /\ code' = IF code[f] = "marked" THEN [code EXCEPT ![f] = "full"] ELSE code
    /\ UNCHANGED <<jobs, bufferVars, queueVars, stopVars, installFlag, mainVars,
                   threadVars>>

\* QueueForOptimization of an OSR job: AddStackCheck, AddToOsrBuffer (which
\* deletes the job it evicts), then the front of the input queue.  A marked
\* function loses its mark.
QueueOsr(j) ==
    /\ main = "recompile" /\ request.loop # NULL
    /\ j \notin DOMAIN jobs
    /\ FreeSteps # {}
    /\ LET f == request.closure IN
       /\ edge' = [edge EXCEPT ![SharedOf[f]][request.loop] = "check"]
       /\ jobs' = [k \in (DOMAIN jobs \ Evicted) \cup {j} |->
                      IF k = j THEN [closure |-> f, loop |-> request.loop,
                                     waiting |-> FALSE]
                      ELSE jobs[k]]
       /\ code' = IF code[f] = "marked" THEN [code EXCEPT ![f] = "full"] ELSE code
    /\ PutInOsrBuffer(j)
    /\ input' = <<j>> \o input
    /\ main' = "signal"
    /\ request' = NoRequest
    /\ UNCHANGED <<nesting, output, inputSem, blockedJobs, stopVars, installFlag,
                   installing, resume, threadVars>>

\* AddToOsrBuffer finds neither an empty slot nor a waiting job.  Only the
\* main thread changes either, so its loop goes on for ever.
SpinForSlot ==
    /\ main = "recompile" /\ request.loop # NULL
    /\ FreeSteps = {}
    /\ main' = "spin"
    /\ UNCHANGED <<jobs, code, osrVars, queueVars, stopVars, installFlag, request,
                   installing, resume, threadVars>>

\* Without concurrent OSR the loop is compiled here and now (CompileOsr).
CompileOsr(f, l) ==
    /\ main = "js"
    /\ ~ConcurrentOsr
    /\ edge[SharedOf[f]][l] = "osr"
    /\ Revert(SharedOf[f])
    /\ \/ code' = [code EXCEPT ![f] = "optimized"]
       \/ code' = IF code[f] = "marked" THEN [code EXCEPT ![f] = "full"] ELSE code
    /\ UNCHANGED <<jobs, bufferVars, queueVars, stopVars, installFlag, mainVars,
                   threadVars>>

\* Runtime_UnblockConcurrentRecompilation
UnblockJobs ==
    /\ main = "js"
    /\ Block
    /\ inputSem' = inputSem + blockedJobs
    /\ blockedJobs' = 0
    /\ UNCHANGED <<jobs, code, osrVars, input, output, stopVars, installFlag,
                   mainVars, threadVars>>

-------------------------------------------------------------------------------
(* The main thread: installing finished code *)

\* HandleStackGuardInterrupt with INSTALL_CODE set: Continue(INSTALL_CODE)
\* clears the flag before InstallOptimizedFunctions looks at the queue.
HandleInstallCode ==
    /\ main = "js"
    /\ installFlag
    /\ installFlag' = FALSE
    /\ main' = "drain"
    /\ UNCHANGED <<jobs, code, osrVars, queueVars, stopVars, request, installing,
                   resume, threadVars>>

\* The InRecompileQueue builtin, at a call of a queued function that fails
\* its stack check (Runtime_TryInstallRecompiledCode), and the loop of
\* Runtime_GetOptimizationStatus install without touching the flag.
TryInstallRecompiledCode(f) ==
    /\ main = "js"
    /\ code[f] = "inqueue"
    /\ main' = "drain"
    /\ UNCHANGED <<jobs, code, osrVars, queueVars, stopVars, installFlag, request,
                   installing, resume, threadVars>>

\* InstallOptimizedFunctions, one job at a time.  An OSR job stays in the
\* buffer, ready to be entered at its back edge.
InstallNextOsr ==
    /\ main = "drain"
    /\ output # << >> /\ IsOsr(Head(output))
    /\ output' = Tail(output)
    /\ jobs' = [jobs EXCEPT ![Head(output)].waiting = TRUE]
    /\ edge' = EdgesWithoutCheck({Head(output)})
    /\ UNCHANGED <<code, nesting, bufferVars, input, inputSem, blockedJobs,
                   stopVars, installFlag, mainVars, threadVars>>

InstallNextFunction ==
    /\ main = "drain"
    /\ output # << >> /\ ~IsOsr(Head(output))
    /\ output' = Tail(output)
    /\ installing' = Head(output)
    /\ main' = "install"
    /\ UNCHANGED <<jobs, code, osrVars, input, inputSem, blockedJobs, stopVars,
                   installFlag, request, resume, threadVars>>

\* Fault: the caller goes on after any number of jobs (if instead of while).
InstallDoneEarly ==
    /\ main = "drain"
    /\ main' = IF thread = "exited" THEN "stopOsr" ELSE "js"
    /\ UNCHANGED <<jobs, code, osrVars, queueVars, stopVars, installFlag, request,
                   installing, resume, threadVars>>

\* When the queue is empty the caller goes on: JavaScript, or Stop (the only
\* caller that runs after the compiler thread has left).
InstallDone ==
    /\ main = "drain"
    /\ output = << >>
    /\ main' = IF thread = "exited" THEN "stopOsr" ELSE "js"
    /\ UNCHANGED <<jobs, code, osrVars, queueVars, stopVars, installFlag, request,
                   installing, resume, threadVars>>

\* InstallOptimizedCode ends: optimized code if the job succeeded, nothing it
\* depended on changed, optimization is still enabled, there are no break
\* points and code generation did not bail out; the full code otherwise.
\* Its job is deleted.  After OSR entry the back edges are reverted and a mark
\* is dropped (the code is one of these two now, so there is none).
InstallOptimizedCode ==
    /\ main = "install"
    /\ LET f == jobs[installing].closure IN
       /\ \E c \in {"optimized", "full"} : code' = [code EXCEPT ![f] = c]
       /\ IF IsOsr(installing) THEN Revert(SharedOf[f]) ELSE UNCHANGED edgeVars
       /\ main' = IF IsOsr(installing) THEN "js" ELSE "drain"
    /\ jobs' = Without({installing})
    /\ installing' = NULL
    /\ UNCHANGED <<bufferVars, queueVars, stopVars, installFlag, request, resume,
                   threadVars>>

-------------------------------------------------------------------------------
(* The main thread: garbage collection and Flush *)

\* The main thread allocates here, so a collection may run.
MayCollect == main \in {"js", "recompile", "install"}

\* GarbageCollectionPrologue: AgeBufferedOsrJobs is AddToOsrBuffer(NULL).
AgeBufferedOsrJobs ==
    /\ MayCollect
    /\ ConcurrentOsr
    /\ IF FreeSteps = {}
       THEN main' = "spin" /\ UNCHANGED <<jobs, bufferVars>>
       ELSE /\ jobs' = Without(Evicted)
            /\ PutInOsrBuffer(NULL)
            /\ UNCHANGED main
    /\ UNCHANGED <<code, edgeVars, queueVars, stopVars, installFlag, request,
                   installing, resume, threadVars>>

\* Flush, from CollectAllAvailableGarbage, NotifyContextDisposed, the heap
\* profiler or the debugger: Release_Store(&stop_thread_, FLUSH).
Flush ==
    /\ MayCollect
    /\ stopThread' = "FLUSH"
    /\ resume' = main
    /\ main' = "flushSignal"
    /\ UNCHANGED <<jobs, code, osrVars, queueVars, stopSem, installFlag, request,
                   installing, threadVars>>

\* Unblock and input_queue_semaphore_.Signal(), for Flush and for Stop.
\* blocked_jobs_ is zero unless jobs are being blocked.
UnblockAndSignal ==
    /\ inputSem' = inputSem + blockedJobs + 1
    /\ blockedJobs' = 0

FlushUnblockAndSignal ==
    /\ main = "flushSignal"
    /\ UnblockAndSignal
    /\ main' = "flushWait"
    /\ UNCHANGED <<jobs, code, osrVars, input, output, stopVars, installFlag,
                   request, installing, resume, threadVars>>

\* Fault: the functions of the jobs thrown away keep the InRecompileQueue code.
FlushQueuesWithoutRestore ==
    /\ main = "flushWait"
    /\ stopSem > 0
    /\ stopSem' = stopSem - 1
    /\ LET functions == {j \in Range(output) : ~IsOsr(j)} IN
       /\ edge' = EdgesWithoutCheck({j \in Buffered : ~IsWaiting(j)})
       /\ jobs' = Without(functions \cup Buffered)
    /\ output' = << >>
    /\ osrBuffer' = [i \in Slot |-> NULL]
    /\ main' = "flushed"
    /\ UNCHANGED <<nesting, osrCursor, input, inputSem, blockedJobs, stopThread,
                   installFlag, request, installing, resume, threadVars, code>>

\* Fault: the back edges of the jobs thrown away keep their stack check.
FlushQueuesKeepsChecks ==
    /\ main = "flushWait"
    /\ stopSem > 0
    /\ stopSem' = stopSem - 1
    /\ LET functions == {j \in Range(output) : ~IsOsr(j)} IN
       /\ RestoreCode(functions)
       /\ jobs' = Without(functions \cup Buffered)
    /\ output' = << >>
    /\ osrBuffer' = [i \in Slot |-> NULL]
    /\ main' = "flushed"
    /\ UNCHANGED <<nesting, osrCursor, input, inputSem, blockedJobs, stopThread,
                   installFlag, request, installing, resume, threadVars, edge>>

\* Fault: the OSR buffer is forgotten.
FlushQueuesKeepsOsrBuffer ==
    /\ main = "flushWait"
    /\ stopSem > 0
    /\ stopSem' = stopSem - 1
    /\ LET functions == {j \in Range(output) : ~IsOsr(j)} IN
       /\ RestoreCode(functions)
       /\ jobs' = Without(functions)
    /\ output' = << >>
    /\ main' = "flushed"
    /\ UNCHANGED <<osrVars, input, inputSem, blockedJobs, stopThread, installFlag,
                   request, installing, resume, threadVars>>

\* stop_semaphore_.Wait(), FlushOutputQueue(true) and FlushOsrBuffer(true):
\* functions of the jobs on the output queue get their full code back, back
\* edges of unfinished OSR jobs lose their stack check.
FlushQueues ==
    /\ main = "flushWait"
    /\ stopSem > 0
    /\ stopSem' = stopSem - 1
    /\ LET functions == {j \in Range(output) : ~IsOsr(j)} IN
       /\ RestoreCode(functions)
       /\ edge' = EdgesWithoutCheck({j \in Buffered : ~IsWaiting(j)})
       /\ jobs' = Without(functions \cup Buffered)
    /\ output' = << >>
    /\ osrBuffer' = [i \in Slot |-> NULL]
    /\ main' = "flushed"
    /\ UNCHANGED <<nesting, osrCursor, input, inputSem, blockedJobs, stopThread,
                   installFlag, request, installing, resume, threadVars>>

FlushReturn ==
    /\ main = "flushed"
    /\ main' = resume
    /\ resume' = "js"
    /\ UNCHANGED <<jobs, code, osrVars, queueVars, stopVars, installFlag, request,
                   installing, threadVars>>

-------------------------------------------------------------------------------
(* The main thread: Stop, when the isolate is torn down *)

Stop ==
    /\ main = "js"
    /\ stopThread' = "STOP"
    /\ main' = "stopSignal"
    /\ UNCHANGED <<jobs, code, osrVars, queueVars, stopSem, installFlag, request,
                   installing, resume, threadVars>>

StopUnblockAndSignal ==
    /\ main = "stopSignal"
    /\ UnblockAndSignal
    /\ main' = "stopWait"
    /\ UNCHANGED <<jobs, code, osrVars, input, output, stopVars, installFlag,
                   request, installing, resume, threadVars>>

StopWait ==
    /\ main = "stopWait"
    /\ stopSem > 0
    /\ stopSem' = stopSem - 1
    /\ main' = "stopQueues"
    /\ UNCHANGED <<jobs, code, osrVars, queueVars, stopThread, installFlag, request,
                   installing, resume, threadVars>>

\* With a delay, what is left is compiled on this thread and installed.
StopCompileNext ==
    /\ main = "stopQueues"
    /\ Delay
    /\ input # << >>
    /\ input' = Tail(input)
    /\ output' = Append(output, Head(input))
    /\ installFlag' = TRUE
    /\ UNCHANGED <<jobs, code, osrVars, inputSem, blockedJobs, stopVars, mainVars,
                   threadVars>>

StopInstall ==
    /\ main = "stopQueues"
    /\ Delay
    /\ input = << >>
    /\ main' = "drain"
    /\ UNCHANGED <<jobs, code, osrVars, queueVars, stopVars, installFlag, request,
                   installing, resume, threadVars>>

\* Without one, FlushInputQueue(false) waits for each job's signal ...
StopFlushInput ==
    /\ main = "stopQueues"
    /\ ~Delay
    /\ input # << >>
    /\ inputSem > 0
    /\ inputSem' = inputSem - 1
    /\ input' = Tail(input)
    /\ jobs' = IF IsOsr(Head(input)) THEN jobs ELSE Without({Head(input)})
    /\ UNCHANGED <<code, osrVars, output, blockedJobs, stopVars, installFlag,
                   mainVars, threadVars>>

\* ... and FlushOutputQueue(false) empties the other queue.
StopFlushOutput ==
    /\ main = "stopQueues"
    /\ ~Delay
    /\ input = << >>
    /\ jobs' = Without({j \in Range(output) : ~IsOsr(j)})
    /\ output' = << >>
    /\ main' = "stopOsr"
    /\ UNCHANGED <<code, osrVars, input, inputSem, blockedJobs, stopVars,
                   installFlag, request, installing, resume, threadVars>>

\* FlushOsrBuffer(false) and Join.
StopFlushOsrBuffer ==
    /\ main = "stopOsr"
    /\ jobs' = Without(Buffered)
    /\ osrBuffer' = [i \in Slot |-> NULL]
    /\ main' = "stopped"
    /\ UNCHANGED <<code, edgeVars, osrCursor, queueVars, stopVars, installFlag, request,
                   installing, resume, threadVars>>

-------------------------------------------------------------------------------
CompilerThread ==
    \/ ThreadWait
    \/ ThreadContinue
    \/ ThreadStop
    \/ ThreadFlush
    \/ CompileNextTake
    \/ CompileNextEnqueue
    \/ CompileNextRequest
    \/ FlushInputTake
    \/ FlushInputWait
    \/ FlushContinue
    \/ FlushSignal

AtBackEdge(f, l) ==
    \/ EnterOsr(f, l)
    \/ RequestOsr(f, l)
    \/ RefuseOsr(f, l)
    \/ CompileOsr(f, l)

JavaScript(f) ==
    \/ MarkForConcurrentRecompilation(f)
    \/ PatchBackEdges(f)
    \/ Deoptimize(f)
    \/ CallMarkedRefused(f)
    \/ CallMarked(f)
    \/ \E l \in Loop : AtBackEdge(f, l)
    \/ TryInstallRecompiledCode(f)

EndRecompile ==
    \/ RecompileWithoutJob
    \/ \E j \in Job : QueueFunction(j)
    \/ \E j \in Job : QueueOsr(j)
    \/ SignalJob
    \/ SpinForSlot

Install ==
    \/ InstallNextOsr
    \/ InstallNextFunction
    \/ InstallDone
    \/ InstallOptimizedCode

RunFlush ==
    \/ FlushUnblockAndSignal
    \/ FlushQueues
    \/ FlushReturn

RunStop ==
    \/ StopUnblockAndSignal
    \/ StopWait
    \/ StopCompileNext
    \/ StopInstall
    \/ StopFlushInput
    \/ StopFlushOutput
    \/ StopFlushOsrBuffer

Next ==
    \/ CompilerThread
    \/ \E f \in Closure : JavaScript(f)
    \/ EndRecompile
    \/ UnblockJobs
    \/ HandleInstallCode
    \/ Install
    \/ AgeBufferedOsrJobs
    \/ Flush
    \/ RunFlush
    \/ Stop
    \/ RunStop

Spec == Init /\ [][Next]_vars

\* The operating system runs the compiler thread; what the main thread has
\* begun it finishes, collections permitting; and JavaScript code reaches a
\* stack check again and again (every function entry and loop has one), so
\* that a pending INSTALL_CODE is handled although other things may happen
\* first.
FairSpec ==
    /\ Spec
    /\ WF_vars(CompilerThread)
    /\ WF_vars(RunFlush)
    /\ WF_vars(RunStop)
    /\ SF_vars(EndRecompile)
    /\ SF_vars(Install)
    /\ SF_vars(HandleInstallCode)

-------------------------------------------------------------------------------
(* Properties *)

\* From Stop on, functions and back edges are left as they are.
Stopping == main \in {"stopSignal", "stopWait", "stopQueues", "stopOsr", "stopped"}
            \/ thread = "exited"

\* The jobs some thread or queue is responsible for.
Pipeline == Range(input) \cup Range(output) \cup ({current, installing} \ {NULL})

\* Ownership: every live job is in exactly one place of the pipeline or, if it
\* is an OSR job, in the OSR buffer until it is entered, evicted or flushed;
\* nobody holds a job that was deleted; only a job that has left the pipeline
\* waits for its entry, and so only such a job is evicted.
JobsAccounted ==
    /\ DOMAIN jobs = Pipeline \cup Buffered
    /\ Cardinality(Pipeline) =
          Len(input) + Len(output) + Cardinality({current} \ {NULL})
                                   + Cardinality({installing} \ {NULL})
    /\ \A i, k \in Slot : osrBuffer[i] = osrBuffer[k] /\ i # k => osrBuffer[i] = NULL
    /\ \A j \in DOMAIN jobs :
          /\ j \in Buffered <=> IsOsr(j) /\ j # installing
          /\ j \notin Pipeline =>
                IsWaiting(j) \/ main \in {"flushSignal", "flushWait", "stopQueues", "stopOsr"}
          /\ IsWaiting(j) => IsOsr(j) /\ j \notin Pipeline \ {installing}

\* CompileNext finds a job (ASSERT_NE(NULL, job)): the signals the compiler
\* thread consumes, in its loop and while it flushes, always match the jobs,
\* the flushes and the stop they were given for.
CompileNextHasJob == thread = "next" => input # << >>

\* No function is stranded in the InRecompileQueue builtin: as long as the
\* compiler thread runs, a job that will restore or replace its code exists.
NoStrandedFunction ==
    \A f \in Closure :
        code[f] = "inqueue" /\ main \notin {"stopQueues", "stopOsr", "stopped"} =>
            \E j \in Pipeline : ~IsOsr(j) /\ jobs[j].closure = f

\* A job on the output queue does not go unnoticed: INSTALL_CODE is set, or
\* about to be, or the main thread is emptying the queue (possibly from under
\* the collection an installation caused).
NoLostInstallRequest ==
    output # << >> =>
        \/ installFlag
        \/ thread = "request"
        \/ main = "drain"
        \/ installing # NULL /\ ~IsOsr(installing)
        \/ thread = "exited"

\* What Flush promises its callers: when it returns the queues, the OSR buffer
\* and the semaphores are empty, the compiler thread waits for its next job
\* and no function is left in the recompile queue, but for one whose
\* installation the flush interrupted.  And the assertions of the destructor:
\* after Stop the queues and the buffer are empty and nothing has leaked.
NothingLeftBehind ==
    /\ main = "flushed" =>
          /\ input = << >> /\ output = << >> /\ Buffered = {}
          /\ DOMAIN jobs = {installing} \ {NULL}
          /\ inputSem = 0 /\ stopSem = 0 /\ blockedJobs = 0
          /\ thread = "wait" /\ stopThread = "CONTINUE"
          /\ \A f \in Closure : code[f] = "inqueue" =>
                installing # NULL /\ jobs[installing].closure = f
    /\ main = "stopped" => /\ input = << >> /\ output = << >> /\ Buffered = {}
                           /\ DOMAIN jobs = {} /\ thread = "exited"

\* A loop is being compiled for OSR at most once at a time: IsQueuedForOSR and
\* FindReadyOSRCandidate, which look at the first match, look at the only one.
OneOsrJobPerEntry ==
    \A f \in Closure, l \in Loop : Cardinality(SlotsOf(f, l)) <= 1

\* No back edge is patched that BackEdgeTable::Revert would not restore: the
\* closures of a code raise the nesting level, patch, request, queue and revert
\* in any order, and Revert stops at the level of the code.  And one that is
\* only followed after a stack check has an unfinished OSR job that will remove
\* the check; otherwise the loop would poll for a job that no longer exists.
BackEdgesRevertible ==
    \A s \in Shared, l \in Loop :
        /\ edge[s][l] # "interrupt" => DepthOf[l] <= nesting[s]
        /\ edge[s][l] = "check" /\ ~Stopping =>
              \E j \in Buffered : /\ ~IsWaiting(j)
                                  /\ SharedOf[jobs[j].closure] = s
                                  /\ jobs[j].loop = l

\* Flush and Stop wait for the compiler thread, which must come round to
\* answer whatever it is doing when they are called.
FlushReturns == (main = "flushSignal") ~> (main = "flushed")
StopReturns == (main = "stopSignal") ~> (main = "stopped")

\* A function in the recompile queue does not stay there: its code is replaced
\* or restored, unless the thread is stopped.
QueuedFunctionResolved ==
    \A f \in Closure : (code[f] = "inqueue") ~> (code[f] # "inqueue" \/ Stopping)

-------------------------------------------------------------------------------
(* The inductive invariant behind CompileNextHasJob                        *)

Serving == thread \in {"wait", "woken", "next", "compile", "request"}
Flushing == thread \in {"flush", "flushJob", "flushDone", "flushSignal"}
Running == main \in {"js", "recompile", "signal", "drain", "install", "flushed", "spin"}

\* The compiler thread holds the job it is about to enqueue or throw away.
ThreadHoldsJob == thread \in {"compile", "flushJob"} => current \in Job

\* A recompilation in progress, or interrupted by a flush, has its arguments
\* and the room in the input queue it was promised.
RecompileHasRoom ==
    /\ main = "recompile" \/ resume = "recompile" =>
          request \in Request /\ Len(input) < InputCapacity
    /\ resume # "js" => main \in {"flushSignal", "flushWait", "flushed"}

\* Where the two threads can be relative to each other: normal work; a flush
\* asked for, answered but not yet signalled, and signalled; a stop asked
\* for, and answered.
Handshake ==
    \/ stopThread = "CONTINUE" /\ stopSem = 0 /\ Running /\ Serving
    \/ /\ stopThread = "FLUSH" /\ stopSem = 0
       /\ main \in {"flushSignal", "flushWait"}
       /\ Serving \/ thread \in {"flush", "flushJob", "flushDone"}
    \/ stopThread = "CONTINUE" /\ stopSem = 0 /\ main = "flushWait" /\ thread = "flushSignal"
    \/ stopThread = "CONTINUE" /\ stopSem = 1 /\ main = "flushWait" /\ thread = "wait"
    \/ stopThread = "STOP" /\ stopSem = 0 /\ main \in {"stopSignal", "stopWait"} /\ Serving
    \/ thread = "exited"

One(b) == IF b THEN 1 ELSE 0

\* Until Stop, each signal given for a job or a flush and not used up has its
\* job or its flush, whichever of the two it was used for: the signals that
\* wait, are held back or about to be given, and the one the compiler thread
\* was woken by, are as many as the jobs in the queue, the one it is about to
\* throw away, and the flush it has not answered.
SignalsMatch ==
    thread # "exited" /\ stopThread # "STOP" =>
        /\ inputSem + blockedJobs + One(main = "signal")
                    + One(thread \in {"woken", "next"} \/ Flushing)
           = Len(input) + One(thread = "flushJob") + One(main = "flushWait" /\ stopSem = 0)
        /\ thread \in {"flushDone", "flushSignal"} => input = << >>
        /\ main = "flushWait" => blockedJobs = 0 /\ (stopSem = 1 => input = << >>)

SignalInv ==
    /\ TypeOK /\ ThreadHoldsJob /\ RecompileHasRoom
    /\ Handshake /\ SignalsMatch /\ CompileNextHasJob

-------------------------------------------------------------------------------
(* What comments and assertions of the code say, and the code does not do  *)
(* TLC finds a counterexample to each: to OsrSlotIsFound as described in    *)
(* MCOptimizingCompilerThread, to the action properties with the constants  *)
(* of OCTJobs.cfg (for the last two: Nested and MaxNesting = 2).            *)

\* src/src/optimizing-compiler-thread.cc:348, in AddToOsrBuffer: "Find the next
\* slot that is empty or has a stale job."
OsrSlotIsFound == main # "spin"

\* src/src/objects.cc:9501, in MarkInRecompileQueue:
\* "ASSERT(IsMarkedForConcurrentRecompilation() && !IsOptimized())".
MarkedWhenQueued ==
    [][\A j \in Job : QueueFunction(j) => code[request.closure] = "marked"]_vars

\* src/src/full-codegen.cc:1701, in AddStackCheck: "ASSERT_EQ(ON_STACK_REPLACEMENT,
\* GetBackEdgeState(isolate, code, pc))".
EdgePatchedWhenQueued ==
    [][\A j \in Job :
          QueueOsr(j) => edge[SharedOf[request.closure]][request.loop] = "osr"]_vars

\* src/src/runtime-profiler.cc:145, in Optimize: "Do not attempt regular
\* recompilation if we already queued this for OSR."
NoRecompileWhenQueuedForOsr ==
    [][\A f \in Closure :
          MarkForConcurrentRecompilation(f) =>
              \A i \in AllSlotsOf(f) : IsWaiting(osrBuffer[i])]_vars

\* src/src/full-codegen.cc:1729, in Verify, which Patch asserts: "Assert that all
\* back edges for shallower loops (and only those) have already been patched."
VerifiedWhenPatched ==
    [][\A f \in Closure :
          PatchBackEdges(f) /\ edge' # edge =>
              \A l \in Loop : edge'[SharedOf[f]][l] # "interrupt"
                                  <=> DepthOf[l] <= nesting'[SharedOf[f]]]_vars

\* src/src/full-codegen.cc:1682, in Revert: "ASSERT_NE(INTERRUPT,
\* GetBackEdgeState(isolate, unoptimized, back_edges.pc(i)))".
RevertFindsPatched ==
    [][\A s \in Shared :
          nesting[s] > 0 /\ Revert(s) =>
              \A l \in Loop : DepthOf[l] <= nesting[s] => edge[s][l] # "interrupt"]_vars
==============================================================================
