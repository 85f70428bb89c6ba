-------------------- MODULE OptimizingCompilerThreadProofs --------------------
(***************************************************************************)
(* Proofs about OptimizingCompilerThread for every set of closures, loops  *)
(* and jobs and for every capacity.                                        *)
(***************************************************************************)
EXTENDS OptimizingCompilerThread, SequenceTheorems, FiniteSetTheorems,
        WellFoundedInduction, TLAPS

\* A set of natural numbers that is not empty has a least element.
LEMMA LeastElement ==
    ASSUME NEW S, S \subseteq Nat, S # {}
    PROVE  \E i \in S : \A k \in S : i <= k
<1> DEFINE R == OpToRel(<, Nat)
<1>1. IsWellFoundedOn(R, Nat)
  BY NatLessThanWellFounded
<1>2. \E x \in S : \A y \in S : ~ (<<y, x>> \in R)
  <2> HIDE DEF R
  <2> QED
    BY <1>1, WFMin
<1>3. R = {ss \in Nat \X Nat : ss[1] < ss[2]}
  BY DEF OpToRel
<1>4. \A a, b \in Nat : a < b => <<a, b>> \in R
  BY <1>3
<1> HIDE DEF R
<1>5. PICK x \in S : \A y \in S : ~ (<<y, x>> \in R)
  BY <1>2
<1>6. \A y \in S : x <= y
  <2> SUFFICES ASSUME NEW y \in S, y < x PROVE FALSE
    OBVIOUS
  <2>1. <<y, x>> \in R
    BY <1>4
  <2> QED
    BY <1>5, <2>1
<1> QED
  BY <1>5, <1>6

\* The parts of TypeOK: the jobs and what they are for, the queues and the
\* buffer, and where the threads are.
DataTyped ==
    /\ DOMAIN jobs \subseteq Job
    /\ \A j \in DOMAIN jobs : jobs[j] \in JobInfo
    /\ code \in [Closure -> {"full", "marked", "inqueue", "optimized"}]
    /\ edge \in [Shared -> [Loop -> {"interrupt", "osr", "check"}]]
    /\ nesting \in [Shared -> 0..MaxNesting]
QueuesTyped ==
    /\ input \in Seq(Job) /\ Len(input) <= InputCapacity
    /\ output \in Seq(Job)
    /\ osrBuffer \in [Slot -> Job \cup {NULL}]
    /\ osrCursor \in Slot
ControlTyped ==
    /\ inputSem \in Nat /\ stopSem \in Nat /\ blockedJobs \in Nat
    /\ stopThread \in {"CONTINUE", "STOP", "FLUSH"}
    /\ installFlag \in BOOLEAN
    /\ main \in {"js", "recompile", "signal", "drain", "install", "flushSignal",
                 "flushWait", "flushed", "stopSignal", "stopWait", "stopQueues",
                 "stopOsr", "stopped", "spin"}
    /\ request \in Request \cup {NoRequest}
    /\ installing \in Job \cup {NULL}
    /\ resume \in {"js", "recompile", "install"}
    /\ thread \in {"wait", "woken", "next", "compile", "request", "flush",
                   "flushJob", "flushDone", "flushSignal", "exited"}
    /\ current \in Job \cup {NULL}

\* TypeOK in parts.
LEMMA TypeParts == TypeOK <=> DataTyped /\ QueuesTyped /\ ControlTyped
BY DEF TypeOK, DataTyped, QueuesTyped, ControlTyped

\* TypeOK of the next state in parts.
LEMMA TypePartsNext ==
    ASSUME DataTyped', QueuesTyped', ControlTyped' PROVE TypeOK'
BY DEF TypeOK, DataTyped, QueuesTyped, ControlTyped

\* The compiler thread keeps the types.
LEMMA CompilerThreadType ==
    ASSUME TypeOK, ThreadHoldsJob, CompilerThread
    PROVE  TypeOK'
<1> USE ConstantsAssumption DEF TypeOK, osrVars, edgeVars, bufferVars, queueVars,
                              stopVars, mainVars, threadVars
<1>1. CASE ThreadWait
  BY <1>1 DEF ThreadWait
<1>2. CASE ThreadContinue
  BY <1>2 DEF ThreadContinue
<1>3. CASE ThreadStop
  BY <1>3 DEF ThreadStop
<1>4. CASE ThreadFlush
  BY <1>4 DEF ThreadFlush
<1>5. CASE CompileNextTake
  BY <1>5 DEF CompileNextTake
<1>6. CASE CompileNextEnqueue
  <2>1. current \in Job /\ Append(output, current) \in Seq(Job)
    BY <1>6 DEF CompileNextEnqueue, ThreadHoldsJob
  <2> QED
    BY <1>6, <2>1 DEF CompileNextEnqueue
<1>7. CASE CompileNextRequest
  BY <1>7 DEF CompileNextRequest
<1>8. CASE FlushInputTake
  <2>1. CASE input = << >>
    BY <1>8, <2>1 DEF FlushInputTake
  <2>2. CASE input # << >>
    <3>1. Head(input) \in Job /\ Tail(input) \in Seq(Job) /\ Len(Tail(input)) <= InputCapacity
      BY <2>2
    <3> QED
      <4>1. DataTyped'
        BY <1>8, <2>2, <3>1, TypeParts DEF DataTyped, FlushInputTake
      <4>2. QueuesTyped'
        BY <1>8, <2>2, <3>1, TypeParts DEF QueuesTyped, FlushInputTake
      <4>3. ControlTyped'
        BY <1>8, <2>2, <3>1, TypeParts DEF ControlTyped, FlushInputTake
      <4> QED
        BY <4>1, <4>2, <4>3, TypePartsNext
  <2> QED
    BY <2>1, <2>2
<1>9. CASE FlushInputWait
  BY <1>9 DEF FlushInputWait, Without, RestoreCode, Restrict, IsOsr
<1>10. CASE FlushContinue
  BY <1>10 DEF FlushContinue
<1>11. CASE FlushSignal
  BY <1>11 DEF FlushSignal
<1> QED
  BY <1>1, <1>2, <1>3, <1>4, <1>5, <1>6, <1>7, <1>8, <1>9, <1>10, <1>11
     DEF CompilerThread
\* AddToOsrBuffer writes a slot of the buffer and leaves the cursor in it.
LEMMA BufferType ==
    ASSUME TypeOK, FreeSteps # {}, NEW j \in Job \cup {NULL}, PutInOsrBuffer(j)
    PROVE  osrBuffer' \in [Slot -> Job \cup {NULL}] /\ osrCursor' \in Slot
<1>1. OsrCapacity \in Nat \ {0} /\ Slot \subseteq Nat /\ osrCursor \in Slot
  BY ConstantsAssumption DEF TypeOK, Slot
<1>2. FreeSteps \subseteq Slot /\ FreeSteps \subseteq Nat
  BY <1>1 DEF FreeSteps
<1>3. First(FreeSteps) \in FreeSteps
  <2>1. \E i \in FreeSteps : \A k \in FreeSteps : i <= k
    BY <1>2, LeastElement
  <2> QED
    BY <2>1 DEF First
<1>4. FoundSlot \in Slot /\ (FoundSlot + 1) % OsrCapacity \in Slot
  <2>1. \A x \in Nat : x % OsrCapacity \in Slot
    BY <1>1 DEF Slot
  <2>2. FoundSlot \in Slot
    <3>1. osrCursor + First(FreeSteps) \in Nat
      <4>1. osrCursor \in Nat
        BY <1>1
      <4>2. First(FreeSteps) \in Nat
        BY <1>2, <1>3
      <4> QED
        BY <4>1, <4>2
    <3> QED
      BY <2>1, <3>1 DEF FoundSlot
  <2>3. FoundSlot + 1 \in Nat
    BY <1>1, <2>2
  <2> QED
    BY <2>1, <2>2, <2>3
<1> QED
  BY <1>4 DEF PutInOsrBuffer, TypeOK

\* What the main thread does to back edges keeps their types.
EdgesTyped ==
    /\ edge \in [Shared -> [Loop -> {"interrupt", "osr", "check"}]]
    /\ nesting \in [Shared -> 0..MaxNesting]

\* Raising the nesting level of a code, with the patches this may bring.
LEMMA PatchType ==
    ASSUME TypeOK, NEW s \in Shared, nesting[s] < MaxNesting,
           nesting' = [nesting EXCEPT ![s] = nesting[s] + 1],
           AttemptOnStackReplacement(s, nesting[s] + 1)
    PROVE  EdgesTyped'
<1>1. nesting[s] + 1 \in 0..MaxNesting
  BY ConstantsAssumption DEF TypeOK
<1>2. nesting' \in [Shared -> 0..MaxNesting]
  BY <1>1 DEF TypeOK
<1>3. [l \in Loop |-> IF DepthOf[l] = nesting[s] + 1 THEN "osr" ELSE edge[s][l]]
         \in [Loop -> {"interrupt", "osr", "check"}]
  BY DEF TypeOK
<1>4. edge' \in [Shared -> [Loop -> {"interrupt", "osr", "check"}]]
  BY <1>3 DEF TypeOK, Patch, AttemptOnStackReplacement
<1> QED
  BY <1>2, <1>4 DEF EdgesTyped

\* BackEdgeTable::Revert
LEMMA RevertType ==
    ASSUME TypeOK, NEW s, Revert(s)
    PROVE  EdgesTyped'
<1>1. CASE s \in Shared
  <2>1. nesting' \in [Shared -> 0..MaxNesting]
    BY <1>1, ConstantsAssumption DEF TypeOK, Revert
  <2>2. [l \in Loop |-> IF DepthOf[l] <= nesting[s] THEN "interrupt" ELSE edge[s][l]]
           \in [Loop -> {"interrupt", "osr", "check"}]
    BY <1>1 DEF TypeOK
  <2>3. edge' \in [Shared -> [Loop -> {"interrupt", "osr", "check"}]]
    BY <1>1, <2>2 DEF TypeOK, Revert
  <2> QED
    BY <2>1, <2>3 DEF EdgesTyped
<1>2. CASE s \notin Shared
  <2>1. nesting' = nesting /\ edge' = edge
    BY <1>2 DEF TypeOK, Revert
  <2> QED
    BY <2>1 DEF TypeOK, EdgesTyped
<1> QED
  BY <1>1, <1>2

\* BackEdgeTable::RemoveStackCheck
LEMMA RemoveCheckType ==
    ASSUME TypeOK, NEW js
    PROVE  EdgesWithoutCheck(js) \in [Shared -> [Loop -> {"interrupt", "osr", "check"}]]
  BY DEF TypeOK, EdgesWithoutCheck

\* Deleting jobs and putting full code back keep the types.
LEMMA JobsType ==
    ASSUME TypeOK
    PROVE  /\ \A js : /\ DOMAIN Without(js) \subseteq Job
                      /\ \A k \in DOMAIN Without(js) : Without(js)[k] \in JobInfo
           /\ \A js : RestoreCode(js) =>
                 code' \in [Closure -> {"full", "marked", "inqueue", "optimized"}]
  BY DEF TypeOK, Without, Restrict, RestoreCode

\* JavaScript code and the recompile entry points keep the types.
LEMMA JavaScriptType ==
    ASSUME TypeOK, NEW f \in Closure, JavaScript(f)
    PROVE  TypeOK'
<1> USE ConstantsAssumption DEF osrVars, edgeVars, bufferVars, queueVars, stopVars,
                              mainVars, threadVars
<1>1. CASE MarkForConcurrentRecompilation(f)
  BY <1>1 DEF TypeOK, MarkForConcurrentRecompilation
<1>2. CASE PatchBackEdges(f)
  <2>1. /\ SharedOf[f] \in Shared /\ nesting[SharedOf[f]] < MaxNesting
        /\ nesting' = [nesting EXCEPT ![SharedOf[f]] = nesting[SharedOf[f]] + 1]
        /\ AttemptOnStackReplacement(SharedOf[f], nesting[SharedOf[f]] + 1)
    BY <1>2 DEF PatchBackEdges
  <2>2. EdgesTyped'
    BY <2>1, PatchType
  <2> QED
    BY <1>2, <2>2 DEF TypeOK, PatchBackEdges, EdgesTyped
<1>3. CASE Deoptimize(f)
  BY <1>3 DEF TypeOK, Deoptimize
<1>4. CASE CallMarkedRefused(f)
  BY <1>4 DEF TypeOK, CallMarkedRefused
<1>5. CASE CallMarked(f)
  BY <1>5 DEF TypeOK, CallMarked, Request
<1>6. CASE \E l \in Loop : EnterOsr(f, l)
  <2>1. PICK l \in Loop : EnterOsr(f, l)
    BY <1>6
  <2>2. First(ReadySlots(f, l)) \in Slot
    <3>1. ReadySlots(f, l) \subseteq Slot /\ Slot \subseteq Nat /\ ReadySlots(f, l) # {}
      BY <2>1 DEF EnterOsr, ReadySlots, SlotsOf, Slot
    <3>2. \E i \in ReadySlots(f, l) : \A k \in ReadySlots(f, l) : i <= k
      BY <3>1, LeastElement
    <3>3. First(ReadySlots(f, l)) \in ReadySlots(f, l)
      BY <3>2 DEF First
    <3> QED
      BY <3>1, <3>3
  <2>3. osrBuffer[First(ReadySlots(f, l))] \in Job \cup {NULL}
    BY <2>2 DEF TypeOK
  <2> QED
    BY <2>1, <2>2, <2>3 DEF TypeOK, EnterOsr
<1>7. CASE \E l \in Loop : RequestOsr(f, l)
  BY <1>7 DEF TypeOK, RequestOsr, Request
<1>8. CASE \E l \in Loop : RefuseOsr(f, l)
  <2>1. PICK l \in Loop : RefuseOsr(f, l)
    BY <1>8
  <2>2. EdgesTyped'
    BY <2>1, RevertType DEF RefuseOsr
  <2> QED
    BY <2>1, <2>2 DEF TypeOK, RefuseOsr, EdgesTyped
<1>9. CASE \E l \in Loop : CompileOsr(f, l)
  <2>1. PICK l \in Loop : CompileOsr(f, l)
    BY <1>9
  <2>2. EdgesTyped'
    BY <2>1, RevertType DEF CompileOsr
  <2> QED
    BY <2>1, <2>2 DEF TypeOK, CompileOsr, EdgesTyped
<1>10. CASE TryInstallRecompiledCode(f)
  BY <1>10 DEF TypeOK, TryInstallRecompiledCode
<1> QED
  BY <1>1, <1>2, <1>3, <1>4, <1>5, <1>6, <1>7, <1>8, <1>9, <1>10
     DEF JavaScript, AtBackEdge

\* The end of a recompilation keeps the types.
LEMMA EndRecompileType ==
    ASSUME TypeOK, RecompileHasRoom, EndRecompile
    PROVE  TypeOK'
<1> USE ConstantsAssumption DEF osrVars, edgeVars, bufferVars, queueVars, stopVars,
                              mainVars, threadVars
<1>1. CASE RecompileWithoutJob
  <2>1. /\ request \in Request /\ request.closure \in Closure
        /\ SharedOf[request.closure] \in Shared
    BY <1>1 DEF RecompileWithoutJob, RecompileHasRoom, Request
  <2>2. CASE request.loop # NULL
    <3>1. EdgesTyped'
      BY <1>1, <2>1, <2>2, RevertType DEF RecompileWithoutJob
    <3> QED
      <4>1. DataTyped'
        BY <1>1, <2>1, <2>2, <3>1, TypeParts DEF DataTyped, RecompileWithoutJob, EdgesTyped
      <4>2. QueuesTyped'
        BY <1>1, <2>1, <2>2, <3>1, TypeParts DEF QueuesTyped, RecompileWithoutJob, EdgesTyped
      <4>3. ControlTyped'
        BY <1>1, <2>1, <2>2, <3>1, TypeParts DEF ControlTyped, RecompileWithoutJob, EdgesTyped
      <4> QED
        BY <4>1, <4>2, <4>3, TypePartsNext
  <2>3. CASE request.loop = NULL
    <3>1. DataTyped'
      BY <1>1, <2>1, <2>3, TypeParts DEF DataTyped, RecompileWithoutJob
    <3>2. QueuesTyped'
      BY <1>1, <2>1, <2>3, TypeParts DEF QueuesTyped, RecompileWithoutJob
    <3>3. ControlTyped'
      BY <1>1, <2>1, <2>3, TypeParts DEF ControlTyped, RecompileWithoutJob
    <3> QED
      BY <3>1, <3>2, <3>3, TypePartsNext
  <2> QED
    BY <2>2, <2>3
<1>2. CASE \E j \in Job : QueueFunction(j)
  <2>1. PICK j \in Job : QueueFunction(j)
    BY <1>2
  <2>2. request \in Request /\ request.closure \in Closure /\ Len(input) < InputCapacity
    BY <2>1 DEF QueueFunction, RecompileHasRoom, Request
  <2>3. [closure |-> request.closure, loop |-> NULL, waiting |-> FALSE] \in JobInfo
    BY <2>2 DEF JobInfo
  <2>4. DOMAIN jobs' \subseteq Job /\ \A k \in DOMAIN jobs' : jobs'[k] \in JobInfo
    BY <2>1, <2>3 DEF QueueFunction, TypeOK
  <2>5. Append(input, j) \in Seq(Job) /\ Len(Append(input, j)) <= InputCapacity
    BY <2>2 DEF TypeOK
  <2> QED
    <3>1. DataTyped'
      BY <2>1, <2>2, <2>4, <2>5, TypeParts DEF DataTyped, QueueFunction
    <3>2. QueuesTyped'
      BY <2>1, <2>2, <2>4, <2>5, TypeParts DEF QueuesTyped, QueueFunction
    <3>3. ControlTyped'
      BY <2>1, <2>2, <2>4, <2>5, TypeParts DEF ControlTyped, QueueFunction
    <3> QED
      BY <3>1, <3>2, <3>3, TypePartsNext
<1>3. CASE \E j \in Job : QueueOsr(j)
  <2>1. PICK j \in Job : QueueOsr(j)
    BY <1>3
  <2>2. /\ request \in Request /\ request.closure \in Closure
        /\ request.loop \in Loop /\ Len(input) < InputCapacity
    BY <2>1 DEF QueueOsr, RecompileHasRoom, Request
  <2>3. [closure |-> request.closure, loop |-> request.loop, waiting |-> FALSE] \in JobInfo
    BY <2>2 DEF JobInfo
  <2>4. DOMAIN jobs' \subseteq Job /\ \A k \in DOMAIN jobs' : jobs'[k] \in JobInfo
    BY <2>1, <2>3 DEF QueueOsr, TypeOK
  <2>5. <<j>> \o input \in Seq(Job) /\ Len(<<j>> \o input) <= InputCapacity
    BY <2>2 DEF TypeOK
  <2>6. osrBuffer' \in [Slot -> Job \cup {NULL}] /\ osrCursor' \in Slot
    BY <2>1, BufferType DEF QueueOsr
  <2>7. edge' \in [Shared -> [Loop -> {"interrupt", "osr", "check"}]]
    BY <2>1, <2>2 DEF QueueOsr, TypeOK
  <2>8. code' \in [Closure -> {"full", "marked", "inqueue", "optimized"}]
    BY <2>1, <2>2 DEF QueueOsr, TypeOK
  <2> QED
    <3>1. DataTyped'
      BY <2>1, <2>4, <2>5, <2>6, <2>7, <2>8, TypeParts DEF DataTyped, QueueOsr
    <3>2. QueuesTyped'
      BY <2>1, <2>4, <2>5, <2>6, <2>7, <2>8, TypeParts DEF QueuesTyped, QueueOsr
    <3>3. ControlTyped'
      BY <2>1, <2>4, <2>5, <2>6, <2>7, <2>8, TypeParts DEF ControlTyped, QueueOsr
    <3> QED
      BY <3>1, <3>2, <3>3, TypePartsNext
<1>4. CASE SignalJob
  BY <1>4 DEF TypeOK, SignalJob
<1>5. CASE SpinForSlot
  BY <1>5 DEF TypeOK, SpinForSlot
<1> QED
  BY <1>1, <1>2, <1>3, <1>4, <1>5
     DEF EndRecompile

\* Installing code keeps the types.
LEMMA InstallType ==
    ASSUME TypeOK, HandleInstallCode \/ UnblockJobs \/ Install
    PROVE  TypeOK'
<1> USE ConstantsAssumption DEF osrVars, edgeVars, bufferVars, queueVars, stopVars,
                              mainVars, threadVars
<1>1. CASE HandleInstallCode
  <2>1. DataTyped'
    BY <1>1, TypeParts DEF DataTyped, HandleInstallCode
  <2>2. QueuesTyped'
    BY <1>1, TypeParts DEF QueuesTyped, HandleInstallCode
  <2>3. ControlTyped'
    BY <1>1, TypeParts DEF ControlTyped, HandleInstallCode
  <2> QED
    BY <2>1, <2>2, <2>3, TypePartsNext
<1>2. CASE UnblockJobs
  BY <1>2 DEF TypeOK, UnblockJobs
<1>3. CASE InstallNextOsr
  <2>1. output' \in Seq(Job)
    BY <1>3 DEF TypeOK, InstallNextOsr
  <2>2. DOMAIN jobs' \subseteq Job /\ \A k \in DOMAIN jobs' : jobs'[k] \in JobInfo
    <3>1. /\ DOMAIN jobs' = DOMAIN jobs
          /\ \A k \in DOMAIN jobs :
                jobs'[k] = jobs[k] \/ jobs'[k] = [jobs[k] EXCEPT !.waiting = TRUE]
      BY <1>3 DEF InstallNextOsr
    <3>2. \A r \in JobInfo : [r EXCEPT !.waiting = TRUE] \in JobInfo
      BY DEF JobInfo
    <3>3. DOMAIN jobs \subseteq Job /\ \A k \in DOMAIN jobs : jobs[k] \in JobInfo
      BY TypeParts DEF DataTyped
    <3> QED
      BY <3>1, <3>2, <3>3
  <2>3. edge' \in [Shared -> [Loop -> {"interrupt", "osr", "check"}]]
    BY <1>3, RemoveCheckType DEF InstallNextOsr
  <2> QED
    <3>1. DataTyped'
      BY <1>3, <2>1, <2>2, <2>3, TypeParts DEF DataTyped, InstallNextOsr
    <3>2. QueuesTyped'
      BY <1>3, <2>1, <2>2, <2>3, TypeParts DEF QueuesTyped, InstallNextOsr
    <3>3. ControlTyped'
      BY <1>3, <2>1, <2>2, <2>3, TypeParts DEF ControlTyped, InstallNextOsr
    <3> QED
      BY <3>1, <3>2, <3>3, TypePartsNext
<1>4. CASE InstallNextFunction
  <2>0. Head(output) \in Job /\ Tail(output) \in Seq(Job)
    BY <1>4, TypeParts DEF QueuesTyped, InstallNextFunction
  <2>1. DataTyped'
    BY <1>4, TypeParts DEF DataTyped, InstallNextFunction
  <2>2. QueuesTyped'
    BY <1>4, <2>0, TypeParts DEF QueuesTyped, InstallNextFunction
  <2>3. ControlTyped'
    BY <1>4, <2>0, TypeParts DEF ControlTyped, InstallNextFunction
  <2> QED
    BY <2>1, <2>2, <2>3, TypePartsNext
<1>5. CASE InstallDone
  BY <1>5 DEF TypeOK, InstallDone
<1>6. CASE InstallOptimizedCode
  <2>1. code' \in [Closure -> {"full", "marked", "inqueue", "optimized"}]
    BY <1>6 DEF TypeOK, InstallOptimizedCode
  <2>2. DOMAIN jobs' \subseteq Job /\ \A k \in DOMAIN jobs' : jobs'[k] \in JobInfo
    BY <1>6, JobsType DEF InstallOptimizedCode
  <2>3. EdgesTyped'
    <3>1. CASE IsOsr(installing)
      <4>1. PICK s : Revert(s)
        BY <1>6, <3>1 DEF InstallOptimizedCode
      <4> QED
        BY <4>1, RevertType
    <3>2. CASE ~IsOsr(installing)
      BY <1>6, <3>2 DEF InstallOptimizedCode, TypeOK, EdgesTyped
    <3> QED
      BY <3>1, <3>2
  <2> QED
    <3>1. DataTyped'
      BY <1>6, <2>1, <2>2, <2>3, TypeParts DEF DataTyped, InstallOptimizedCode, EdgesTyped
    <3>2. QueuesTyped'
      BY <1>6, <2>1, <2>2, <2>3, TypeParts DEF QueuesTyped, InstallOptimizedCode, EdgesTyped
    <3>3. ControlTyped'
      BY <1>6, <2>1, <2>2, <2>3, TypeParts DEF ControlTyped, InstallOptimizedCode, EdgesTyped
    <3> QED
      BY <3>1, <3>2, <3>3, TypePartsNext
<1> QED
  BY <1>1, <1>2, <1>3, <1>4, <1>5, <1>6
     DEF Install

\* Aging the OSR buffer and flushing keep the types.
LEMMA FlushType ==
    ASSUME TypeOK, AgeBufferedOsrJobs \/ Flush \/ RunFlush
    PROVE  TypeOK'
<1> USE ConstantsAssumption DEF osrVars, edgeVars, bufferVars, queueVars, stopVars,
                              mainVars, threadVars
<1>1. CASE AgeBufferedOsrJobs
  <2>1. CASE FreeSteps = {}
    BY <1>1, <2>1 DEF TypeOK, AgeBufferedOsrJobs
  <2>2. CASE FreeSteps # {}
    <3>1. osrBuffer' \in [Slot -> Job \cup {NULL}] /\ osrCursor' \in Slot
      BY <1>1, <2>2, BufferType DEF AgeBufferedOsrJobs
    <3>2. DOMAIN jobs' \subseteq Job /\ \A k \in DOMAIN jobs' : jobs'[k] \in JobInfo
      BY <1>1, <2>2, JobsType DEF AgeBufferedOsrJobs
    <3> QED
      <4>1. DataTyped'
        BY <1>1, <2>2, <3>1, <3>2, TypeParts DEF DataTyped, AgeBufferedOsrJobs
      <4>2. QueuesTyped'
        BY <1>1, <2>2, <3>1, <3>2, TypeParts DEF QueuesTyped, AgeBufferedOsrJobs
      <4>3. ControlTyped'
        BY <1>1, <2>2, <3>1, <3>2, TypeParts DEF ControlTyped, AgeBufferedOsrJobs
      <4> QED
        BY <4>1, <4>2, <4>3, TypePartsNext
  <2> QED
    BY <2>1, <2>2
<1>2. CASE Flush
  BY <1>2 DEF TypeOK, Flush, MayCollect
<1>3. CASE FlushUnblockAndSignal
  BY <1>3 DEF TypeOK, FlushUnblockAndSignal, UnblockAndSignal
<1>4. CASE FlushQueues
  <2>1. /\ code' \in [Closure -> {"full", "marked", "inqueue", "optimized"}]
        /\ DOMAIN jobs' \subseteq Job /\ \A k \in DOMAIN jobs' : jobs'[k] \in JobInfo
        /\ edge' \in [Shared -> [Loop -> {"interrupt", "osr", "check"}]]
    BY <1>4, JobsType, RemoveCheckType DEF FlushQueues
  <2>2. /\ stopSem' \in Nat
        /\ output' \in Seq(Job)
        /\ osrBuffer' \in [Slot -> Job \cup {NULL}]
        /\ main' = "flushed"
    BY <1>4 DEF TypeOK, FlushQueues
  <2> QED
    <3>1. DataTyped'
      BY <1>4, <2>1, <2>2, TypeParts DEF DataTyped, FlushQueues
    <3>2. QueuesTyped'
      BY <1>4, <2>1, <2>2, TypeParts DEF QueuesTyped, FlushQueues
    <3>3. ControlTyped'
      BY <1>4, <2>1, <2>2, TypeParts DEF ControlTyped, FlushQueues
    <3> QED
      BY <3>1, <3>2, <3>3, TypePartsNext
<1>5. CASE FlushReturn
  BY <1>5 DEF TypeOK, FlushReturn
<1> QED
  BY <1>1, <1>2, <1>3, <1>4, <1>5
     DEF RunFlush

\* Stopping the compiler thread keeps the types.
LEMMA StopType ==
    ASSUME TypeOK, Stop \/ RunStop
    PROVE  TypeOK'
<1> USE ConstantsAssumption DEF osrVars, edgeVars, bufferVars, queueVars, stopVars,
                              mainVars, threadVars
<1>1. CASE Stop
  BY <1>1 DEF TypeOK, Stop
<1>2. CASE StopUnblockAndSignal
  BY <1>2 DEF TypeOK, StopUnblockAndSignal, UnblockAndSignal
<1>3. CASE StopWait
  BY <1>3 DEF TypeOK, StopWait
<1>4. CASE StopCompileNext
  <2>1. /\ Head(input) \in Job /\ Append(output, Head(input)) \in Seq(Job)
        /\ Tail(input) \in Seq(Job) /\ Len(Tail(input)) <= InputCapacity
    BY <1>4 DEF StopCompileNext, TypeOK
  <2> QED
    <3>1. DataTyped'
      BY <1>4, <2>1, TypeParts DEF DataTyped, StopCompileNext
    <3>2. QueuesTyped'
      BY <1>4, <2>1, TypeParts DEF QueuesTyped, StopCompileNext
    <3>3. ControlTyped'
      BY <1>4, <2>1, TypeParts DEF ControlTyped, StopCompileNext
    <3> QED
      BY <3>1, <3>2, <3>3, TypePartsNext
<1>5. CASE StopInstall
  BY <1>5 DEF TypeOK, StopInstall
<1>6. CASE StopFlushInput
  <2>1. DOMAIN jobs' \subseteq Job /\ \A k \in DOMAIN jobs' : jobs'[k] \in JobInfo
    <3>1. jobs' = jobs \/ jobs' = Without({Head(input)})
      BY <1>6 DEF StopFlushInput
    <3> QED
      BY <3>1, JobsType DEF TypeOK
  <2>2. Tail(input) \in Seq(Job) /\ Len(Tail(input)) <= InputCapacity
    BY <1>6 DEF StopFlushInput, TypeOK
  <2>3. inputSem' \in Nat /\ input' = Tail(input)
    BY <1>6 DEF StopFlushInput, TypeOK
  <2> QED
    <3>1. DataTyped'
      BY <1>6, <2>1, <2>2, <2>3, TypeParts DEF DataTyped, StopFlushInput
    <3>2. QueuesTyped'
      BY <1>6, <2>1, <2>2, <2>3, TypeParts DEF QueuesTyped, StopFlushInput
    <3>3. ControlTyped'
      BY <1>6, <2>1, <2>2, <2>3, TypeParts DEF ControlTyped, StopFlushInput
    <3> QED
      BY <3>1, <3>2, <3>3, TypePartsNext
<1>7. CASE StopFlushOutput
  <2>1. DOMAIN jobs' \subseteq Job /\ \A k \in DOMAIN jobs' : jobs'[k] \in JobInfo
    BY <1>7, JobsType DEF StopFlushOutput
  <2> QED
    BY <1>7, <2>1 DEF TypeOK, StopFlushOutput
<1>8. CASE StopFlushOsrBuffer
  <2>1. DOMAIN jobs' \subseteq Job /\ \A k \in DOMAIN jobs' : jobs'[k] \in JobInfo
    BY <1>8, JobsType DEF StopFlushOsrBuffer
  <2> QED
    BY <1>8, <2>1 DEF TypeOK, StopFlushOsrBuffer
<1> QED
  BY <1>1, <1>2, <1>3, <1>4, <1>5, <1>6, <1>7, <1>8
     DEF RunStop

\* Every step keeps the types.
LEMMA TypeStep ==
    ASSUME TypeOK, ThreadHoldsJob, RecompileHasRoom, [Next]_vars
    PROVE  TypeOK'
<1>1. CASE CompilerThread
  BY <1>1, CompilerThreadType
<1>2. CASE \E f \in Closure : JavaScript(f)
  BY <1>2, JavaScriptType
<1>3. CASE EndRecompile
  BY <1>3, EndRecompileType
<1>4. CASE UnblockJobs \/ HandleInstallCode \/ Install
  BY <1>4, InstallType
<1>5. CASE AgeBufferedOsrJobs \/ Flush \/ RunFlush
  BY <1>5, FlushType
<1>6. CASE Stop \/ RunStop
  BY <1>6, StopType
<1>7. CASE UNCHANGED vars
  BY <1>7 DEF TypeOK, vars, osrVars, edgeVars, bufferVars, queueVars, stopVars,
              mainVars, threadVars
<1> QED
  BY <1>1, <1>2, <1>3, <1>4, <1>5, <1>6, <1>7 DEF Next

-------------------------------------------------------------------------------
(* The room in the input queue                                             *)

\* A queue that only shrinks keeps the room it had.
LEMMA RoomKept ==
    ASSUME TypeOK, RecompileHasRoom, UNCHANGED <<main, resume, request>>,
           input' = input \/ (input # << >> /\ input' = Tail(input))
    PROVE  RecompileHasRoom'
<1>1. Len(input') <= Len(input) /\ Len(input) \in Nat /\ Len(input') \in Nat
  <2>1. input \in Seq(Job)
    BY DEF TypeOK
  <2>2. CASE input' = input
    BY <2>1, <2>2
  <2>3. CASE input # << >> /\ input' = Tail(input)
    BY <2>1, <2>3
  <2> QED
    BY <2>2, <2>3
<1> QED
  BY <1>1, ConstantsAssumption DEF RecompileHasRoom

\* Every step keeps the room promised to a recompilation in progress: the
\* compiler thread only takes jobs.
LEMMA RoomStep ==
    ASSUME TypeOK, RecompileHasRoom, [Next]_vars
    PROVE  RecompileHasRoom'
<1> USE DEF osrVars, edgeVars, bufferVars, queueVars, stopVars, mainVars, threadVars
<1>1. CASE CompilerThread
  <2>1. UNCHANGED <<main, resume, request>>
    BY <1>1 DEF CompilerThread, ThreadWait, ThreadContinue, ThreadStop, ThreadFlush,
       CompileNextTake, CompileNextEnqueue, CompileNextRequest, FlushInputTake,
       FlushInputWait, FlushContinue, FlushSignal
  <2>2. input' = input \/ (input # << >> /\ input' = Tail(input))
    BY <1>1 DEF CompilerThread, ThreadWait, ThreadContinue, ThreadStop, ThreadFlush,
       CompileNextTake, CompileNextEnqueue, CompileNextRequest, FlushInputTake,
       FlushInputWait, FlushContinue, FlushSignal
  <2> QED
    BY <2>1, <2>2, RoomKept
<1>2. CASE \E f \in Closure : JavaScript(f)
  <2> SUFFICES ASSUME NEW f \in Closure, JavaScript(f) PROVE RecompileHasRoom'
    BY <1>2
  <2>1. CASE CallMarked(f) \/ \E l \in Loop : RequestOsr(f, l)
    BY <2>1 DEF CallMarked, RequestOsr, AtPatchedBackEdge, Request, RecompileHasRoom
  <2>2. CASE \/ MarkForConcurrentRecompilation(f) \/ PatchBackEdges(f) \/ Deoptimize(f)
             \/ CallMarkedRefused(f) \/ TryInstallRecompiledCode(f)
    BY <2>2 DEF MarkForConcurrentRecompilation, PatchBackEdges, Deoptimize,
       CallMarkedRefused, TryInstallRecompiledCode, RecompileHasRoom
  <2>3. CASE \E l \in Loop : EnterOsr(f, l) \/ RefuseOsr(f, l) \/ CompileOsr(f, l)
    BY <2>3 DEF EnterOsr, RefuseOsr, CompileOsr, AtPatchedBackEdge, RecompileHasRoom
  <2> QED
    BY <2>1, <2>2, <2>3 DEF JavaScript, AtBackEdge
<1>3. CASE EndRecompile \/ UnblockJobs \/ HandleInstallCode
  BY <1>3 DEF EndRecompile, RecompileWithoutJob, QueueFunction, QueueOsr, SignalJob,
     SpinForSlot, UnblockJobs, HandleInstallCode, RecompileHasRoom
<1>4. CASE Install
  BY <1>4 DEF Install, InstallNextOsr, InstallNextFunction, InstallDone,
     InstallOptimizedCode, RecompileHasRoom
<1>5. CASE AgeBufferedOsrJobs \/ Flush \/ RunFlush
  BY <1>5 DEF AgeBufferedOsrJobs, Flush, MayCollect, RunFlush, FlushUnblockAndSignal,
     FlushQueues, FlushReturn, RecompileHasRoom
<1>6. CASE Stop \/ RunStop
  BY <1>6 DEF Stop, RunStop, StopUnblockAndSignal, StopWait, StopCompileNext,
     StopInstall, StopFlushInput, StopFlushOutput, StopFlushOsrBuffer, RecompileHasRoom
<1>7. CASE UNCHANGED vars
  BY <1>7 DEF vars, RecompileHasRoom
<1> QED
  BY <1>1, <1>2, <1>3, <1>4, <1>5, <1>6, <1>7 DEF Next

-------------------------------------------------------------------------------
(* The signals *)

HandOver == ThreadHoldsJob /\ Handshake /\ SignalsMatch /\ CompileNextHasJob

handOverVars == <<input, inputSem, blockedJobs, stopSem, stopThread, thread, current>>

\* Once the compiler thread has left Run there is nothing to keep.
LEMMA AfterExit ==
    ASSUME thread' = "exited"
    PROVE  HandOver'
  BY DEF HandOver, ThreadHoldsJob, Handshake, SignalsMatch, CompileNextHasJob

\* The main thread at work, outside of the queue and the handshake.
LEMMA QuietStep ==
    ASSUME HandOver, UNCHANGED handOverVars, Running, Running',
           main # "signal", main' # "signal"
    PROVE  HandOver'
<1>1. main # "flushWait" /\ main' # "flushWait"
  BY DEF Running
<1>2. ThreadHoldsJob' /\ CompileNextHasJob'
  BY DEF HandOver, ThreadHoldsJob, CompileNextHasJob, handOverVars
<1>3. Handshake'
  BY DEF HandOver, Handshake, handOverVars, Serving, Running
<1>4. SignalsMatch'
  BY <1>1 DEF HandOver, SignalsMatch, handOverVars, Flushing, One
<1> QED
  BY <1>2, <1>3, <1>4 DEF HandOver

\* The compiler thread's side of the hand-over: it looks for a job only with
\* a signal nobody else counts on.
LEMMA ThreadHandsOver ==
    ASSUME TypeOK, TypeOK', HandOver, CompilerThread
    PROVE  HandOver'
<1>1. /\ inputSem \in Nat /\ blockedJobs \in Nat /\ stopSem \in Nat
      /\ inputSem' \in Nat /\ stopSem' \in Nat
      /\ input \in Seq(Job) /\ Len(input) \in Nat
      /\ input # << >> => /\ Len(input) >= 1 /\ Head(input) \in Job
                          /\ Len(Tail(input)) = Len(input) - 1
      /\ input = << >> => Len(input) = 0
      /\ Len(input) = 0 => input = << >>
  BY DEF TypeOK
<1> USE DEF HandOver, ThreadHoldsJob, Handshake, SignalsMatch, CompileNextHasJob,
            Serving, Flushing, Running, One, osrVars, edgeVars, bufferVars, queueVars,
            stopVars, mainVars, threadVars
<1>2. CASE ThreadWait
  BY <1>1, <1>2 DEF ThreadWait
<1>3. CASE ThreadContinue
  BY <1>1, <1>3 DEF ThreadContinue
<1>4. CASE ThreadStop
  BY <1>1, <1>4 DEF ThreadStop
<1>5. CASE ThreadFlush
  BY <1>1, <1>5 DEF ThreadFlush
<1>6. CASE CompileNextTake
  BY <1>1, <1>6 DEF CompileNextTake
<1>7. CASE CompileNextEnqueue
  BY <1>1, <1>7 DEF CompileNextEnqueue
<1>8. CASE CompileNextRequest
  BY <1>1, <1>8 DEF CompileNextRequest
<1>9. CASE FlushInputTake
  <2>1. CASE input = << >>
    BY <1>1, <1>9, <2>1 DEF FlushInputTake
  <2>2. CASE input # << >>
    BY <1>1, <1>9, <2>2 DEF FlushInputTake
  <2> QED
    BY <2>1, <2>2
<1>10. CASE FlushInputWait
  BY <1>1, <1>10 DEF FlushInputWait
<1>11. CASE FlushContinue
  BY <1>1, <1>11 DEF FlushContinue
<1>12. CASE FlushSignal
  BY <1>1, <1>12 DEF FlushSignal
<1> QED
  BY <1>2, <1>3, <1>4, <1>5, <1>6, <1>7, <1>8, <1>9, <1>10, <1>11, <1>12
     DEF CompilerThread

\* The main thread's side of the hand-over, until the compiler thread has
\* left: a job or a flush first, then its signal.
LEMMA MainHandsOver ==
    ASSUME TypeOK, RecompileHasRoom, HandOver, Next, ~CompilerThread, thread # "exited"
    PROVE  HandOver'
<1> USE DEF osrVars, edgeVars, bufferVars, queueVars, stopVars, mainVars, threadVars
<1>1. /\ inputSem \in Nat /\ blockedJobs \in Nat /\ stopSem \in Nat
      /\ input \in Seq(Job) /\ Len(input) \in Nat
      /\ main \in {"js", "recompile", "signal", "drain", "install", "flushSignal",
                   "flushWait", "flushed", "stopSignal", "stopWait", "stopQueues",
                   "stopOsr", "stopped", "spin"}
  BY DEF TypeOK
<1>2. CASE \E f \in Closure : JavaScript(f)
  <2>1. /\ main = "js" /\ main' \in {"js", "recompile", "install", "drain"}
        /\ UNCHANGED handOverVars
    BY <1>2 DEF JavaScript, AtBackEdge, MarkForConcurrentRecompilation, PatchBackEdges,
       Deoptimize, CallMarkedRefused, CallMarked, EnterOsr, RequestOsr, RefuseOsr,
       CompileOsr, AtPatchedBackEdge, TryInstallRecompiledCode, handOverVars
  <2> QED
    BY <2>1, QuietStep DEF Running
<1>3. CASE RecompileWithoutJob \/ SpinForSlot
  <2>1. /\ main = "recompile" /\ main' \in {"js", "spin"}
        /\ UNCHANGED handOverVars
    BY <1>3 DEF RecompileWithoutJob, SpinForSlot, handOverVars
  <2> QED
    BY <2>1, QuietStep DEF Running
<1>4. CASE \E j \in Job : QueueFunction(j) \/ QueueOsr(j)
  <2>1. PICK j \in Job : QueueFunction(j) \/ QueueOsr(j)
    BY <1>4
  <2>2. /\ main = "recompile" /\ main' = "signal"
        /\ input' = Append(input, j) \/ input' = <<j>> \o input
        /\ UNCHANGED <<inputSem, blockedJobs, stopSem, stopThread, thread, current>>
    BY <2>1 DEF QueueFunction, QueueOsr
  <2>3. Len(input') = Len(input) + 1 /\ input' # << >>
    BY <1>1, <2>1, <2>2
  <2>4. stopThread = "CONTINUE" /\ stopSem = 0 /\ Serving
    BY <2>2 DEF HandOver, Handshake, Running
  <2>5. ThreadHoldsJob' /\ CompileNextHasJob' /\ Handshake'
    BY <2>2, <2>3, <2>4 DEF HandOver, ThreadHoldsJob, CompileNextHasJob, Handshake,
       Serving, Running
  <2>6. SignalsMatch'
    BY <1>1, <2>2, <2>3, <2>4 DEF HandOver, SignalsMatch, One, Serving, Flushing
  <2> QED
    BY <2>5, <2>6 DEF HandOver
<1>5. CASE SignalJob
  BY <1>1, <1>5 DEF SignalJob, HandOver, ThreadHoldsJob, Handshake,
     SignalsMatch, CompileNextHasJob, Serving, Flushing, Running, One
<1>6. CASE UnblockJobs
  BY <1>1, <1>6 DEF UnblockJobs, HandOver, ThreadHoldsJob, Handshake,
     SignalsMatch, CompileNextHasJob, Serving, Flushing, Running, One
<1>7. CASE HandleInstallCode \/ Install
  <2>1. /\ main \in {"js", "drain", "install"} /\ main' \in {"js", "drain", "install"}
        /\ UNCHANGED handOverVars
    BY <1>7 DEF HandleInstallCode, Install, InstallNextOsr, InstallNextFunction,
       InstallDone, InstallOptimizedCode, handOverVars
  <2> QED
    BY <2>1, QuietStep DEF Running
<1>8. CASE AgeBufferedOsrJobs
  <2>1. /\ main \in {"js", "recompile", "install"} /\ main' \in {main, "spin"}
        /\ UNCHANGED handOverVars
    BY <1>8 DEF AgeBufferedOsrJobs, MayCollect, handOverVars
  <2> QED
    BY <2>1, QuietStep DEF Running
<1>9. CASE Flush
  BY <1>1, <1>9 DEF Flush, MayCollect, HandOver, ThreadHoldsJob, Handshake,
     SignalsMatch, CompileNextHasJob, Serving, Flushing, Running, One
<1>10. CASE FlushUnblockAndSignal
  <2>1. /\ main = "flushSignal" /\ main' = "flushWait"
        /\ inputSem' = inputSem + blockedJobs + 1 /\ blockedJobs' = 0
        /\ UNCHANGED <<input, stopSem, stopThread, thread, current>>
    BY <1>10 DEF FlushUnblockAndSignal, UnblockAndSignal
  <2>2. stopThread = "FLUSH" /\ stopSem = 0
    BY <2>1 DEF HandOver, Handshake, Running
  <2>3. ThreadHoldsJob' /\ CompileNextHasJob' /\ Handshake'
    BY <2>1, <2>2 DEF HandOver, ThreadHoldsJob, CompileNextHasJob, Handshake, Running, Serving
  <2>4. SignalsMatch'
    BY <1>1, <2>1, <2>2 DEF HandOver, SignalsMatch, One, Flushing
  <2> QED
    BY <2>3, <2>4 DEF HandOver
<1>11. CASE FlushQueues
  <2>1. /\ main = "flushWait" /\ main' = "flushed"
        /\ stopSem > 0 /\ stopSem' = stopSem - 1
        /\ UNCHANGED <<input, inputSem, blockedJobs, stopThread, thread, current>>
    BY <1>11 DEF FlushQueues
  <2>2. stopThread = "CONTINUE" /\ stopSem = 1 /\ thread = "wait"
    BY <1>1, <2>1 DEF HandOver, Handshake, Running
  <2>3. ThreadHoldsJob' /\ CompileNextHasJob' /\ Handshake'
    BY <2>1, <2>2 DEF HandOver, ThreadHoldsJob, CompileNextHasJob, Handshake, Running, Serving
  <2>4. SignalsMatch'
    BY <1>1, <2>1, <2>2 DEF HandOver, SignalsMatch, One, Flushing
  <2> QED
    BY <2>3, <2>4 DEF HandOver
<1>12. CASE FlushReturn
  <2>1. /\ main = "flushed" /\ main' \in {"js", "recompile", "install"}
        /\ UNCHANGED handOverVars
    BY <1>12 DEF FlushReturn, TypeOK, handOverVars
  <2> QED
    BY <2>1, QuietStep DEF Running
<1>13. CASE Stop
  BY <1>1, <1>13 DEF Stop, HandOver, ThreadHoldsJob, Handshake,
     SignalsMatch, CompileNextHasJob, Serving, Flushing, Running, One
<1>14. CASE StopUnblockAndSignal
  BY <1>1, <1>14 DEF StopUnblockAndSignal, UnblockAndSignal, HandOver, ThreadHoldsJob,
     Handshake, SignalsMatch, CompileNextHasJob, Serving, Flushing, Running, One
<1>15. ~StopWait /\ main \notin {"stopQueues", "stopOsr"}
  BY <1>1 DEF StopWait, HandOver, Handshake, Running
<1> QED
  BY <1>2, <1>3, <1>4, <1>5, <1>6, <1>7, <1>8, <1>9, <1>10, <1>11, <1>12, <1>13,
     <1>14, <1>15
     DEF Next, EndRecompile, RunFlush, RunStop, StopCompileNext, StopInstall,
         StopFlushInput, StopFlushOutput, StopFlushOsrBuffer

\* The main thread leaves the compiler thread where it is.
LEMMA ExitIsFinal ==
    ASSUME Next, ~CompilerThread
    PROVE  thread' = thread
<1> USE DEF osrVars, edgeVars, bufferVars, queueVars, stopVars, mainVars, threadVars
<1>1. CASE \E f \in Closure : JavaScript(f)
  BY <1>1 DEF JavaScript, AtBackEdge, MarkForConcurrentRecompilation, PatchBackEdges,
     Deoptimize, CallMarkedRefused, CallMarked, EnterOsr, RequestOsr, RefuseOsr,
     CompileOsr, AtPatchedBackEdge, TryInstallRecompiledCode
<1>2. CASE EndRecompile \/ UnblockJobs \/ HandleInstallCode \/ Install
  BY <1>2 DEF EndRecompile, RecompileWithoutJob, QueueFunction, QueueOsr, SignalJob,
     SpinForSlot, UnblockJobs, HandleInstallCode, Install, InstallNextOsr,
     InstallNextFunction, InstallDone, InstallOptimizedCode
<1>3. CASE AgeBufferedOsrJobs \/ Flush \/ RunFlush
  BY <1>3 DEF AgeBufferedOsrJobs, Flush, RunFlush, FlushUnblockAndSignal, FlushQueues,
     FlushReturn
<1>4. CASE Stop \/ RunStop
  BY <1>4 DEF Stop, RunStop, StopUnblockAndSignal, StopWait, StopCompileNext,
     StopInstall, StopFlushInput, StopFlushOutput, StopFlushOsrBuffer
<1> QED
  BY <1>1, <1>2, <1>3, <1>4 DEF Next

\* The invariant of the hand-over holds in every reachable state.
THEOREM SignalInvariant == Spec => []SignalInv
<1> USE DEF SignalInv
<1>1. Init => SignalInv
  <2> SUFFICES ASSUME Init PROVE SignalInv
    OBVIOUS
  <2>1. TypeOK
    <3>1. /\ DOMAIN jobs = {}
          /\ code \in [Closure -> {"full", "marked", "inqueue", "optimized"}]
          /\ edge \in [Shared -> [Loop -> {"interrupt", "osr", "check"}]]
          /\ osrBuffer \in [Slot -> Job \cup {NULL}]
      BY DEF Init
    <3>2. nesting \in [Shared -> 0..MaxNesting] /\ osrCursor \in Slot
      BY ConstantsAssumption DEF Init, Slot
    <3>3. /\ input \in Seq(Job) /\ Len(input) <= InputCapacity /\ output \in Seq(Job)
          /\ inputSem \in Nat /\ stopSem \in Nat /\ blockedJobs \in Nat
      BY ConstantsAssumption DEF Init
    <3> QED
      BY <3>1, <3>2, <3>3 DEF Init, TypeOK
  <2>2. ThreadHoldsJob /\ RecompileHasRoom /\ Handshake /\ CompileNextHasJob
    BY DEF Init, ThreadHoldsJob, RecompileHasRoom, Handshake, CompileNextHasJob,
       Running, Serving
  <2>3. SignalsMatch
    BY DEF Init, SignalsMatch, One, Flushing
  <2> QED
    BY <2>1, <2>2, <2>3
<1>2. SignalInv /\ [Next]_vars => SignalInv'
  <2> SUFFICES ASSUME SignalInv, [Next]_vars PROVE SignalInv'
    OBVIOUS
  <2>1. TypeOK' /\ RecompileHasRoom'
    BY TypeStep, RoomStep
  <2>2. HandOver
    BY DEF HandOver
  <2>3. HandOver'
    <3>1. CASE CompilerThread
      BY <2>1, <2>2, <3>1, ThreadHandsOver
    <3>2. CASE Next /\ ~CompilerThread
      BY <2>2, <3>2, MainHandsOver, ExitIsFinal, AfterExit
    <3>3. CASE UNCHANGED vars
      BY <2>2, <3>3 DEF vars, osrVars, edgeVars, bufferVars, queueVars, stopVars,
         mainVars, threadVars, HandOver, ThreadHoldsJob, Handshake, SignalsMatch,
         CompileNextHasJob, Serving, Flushing, Running, One
    <3> QED
      BY <3>1, <3>2, <3>3
  <2> QED
    BY <2>1, <2>3 DEF HandOver
<1> QED
  BY <1>1, <1>2, PTL DEF Spec

\* Every variable keeps its type; in particular the input queue is never
\* overfilled, although the room in it is looked for before the job is built.
THEOREM TypeCorrect == Spec => []TypeOK
  BY SignalInvariant, PTL DEF SignalInv

\* CompileNext always finds a job (ASSERT_NE(NULL, job),
\* src/src/optimizing-compiler-thread.cc:122), however flushes, held-back
\* signals and Stop fall between the signals for jobs.
THEOREM CompileNextHasJobTheorem == Spec => []CompileNextHasJob
  BY SignalInvariant, PTL DEF SignalInv

-------------------------------------------------------------------------------
(* Queues and the OSR buffer as sets of jobs                               *)

Injective(s) == \A i, k \in DOMAIN s : s[i] = s[k] => i = k

\* A job is put at the back of a queue.
LEMMA QueueAppend ==
    ASSUME NEW s \in Seq(Job), NEW j \in Job
    PROVE  /\ Range(Append(s, j)) = Range(s) \cup {j}
           /\ Injective(s) /\ j \notin Range(s) => Injective(Append(s, j))
<1> DEFINE t == Append(s, j)
<1>1. /\ Len(s) \in Nat /\ DOMAIN s = 1..Len(s)
      /\ DOMAIN t = 1..Len(s) + 1
      /\ \A i \in 1..Len(s) : t[i] = s[i]
      /\ t[Len(s) + 1] = j
  BY AppendProperties, LenProperties
<1> HIDE DEF t
<1>2. \A i \in DOMAIN t : i \in DOMAIN s \/ i = Len(s) + 1
  BY <1>1
<1>3. \A i \in DOMAIN s : i \in DOMAIN t /\ t[i] = s[i] /\ i # Len(s) + 1
  BY <1>1
<1>4. Len(s) + 1 \in DOMAIN t
  BY <1>1
<1>5. Range(t) = Range(s) \cup {j}
  BY <1>1, <1>2, <1>3, <1>4 DEF Range
<1>6. Injective(s) /\ j \notin Range(s) => Injective(t)
  BY <1>1, <1>2, <1>3 DEF Range, Injective
<1> QED
  BY <1>5, <1>6 DEF t

\* A job is put at the front of a queue.
LEMMA QueuePush ==
    ASSUME NEW s \in Seq(Job), NEW j \in Job
    PROVE  /\ Range(<<j>> \o s) = Range(s) \cup {j}
           /\ Injective(s) /\ j \notin Range(s) => Injective(<<j>> \o s)
<1> DEFINE t == <<j>> \o s
<1>1. /\ Len(s) \in Nat /\ DOMAIN s = 1..Len(s)
      /\ DOMAIN t = 1..Len(s) + 1
      /\ \A i \in 1..Len(s) : t[i + 1] = s[i]
      /\ t[1] = j
  <2>1. <<j>> \in Seq(Job) /\ Len(<<j>>) = 1 /\ <<j>>[1] = j
    OBVIOUS
  <2> QED
    BY <2>1, ConcatProperties, LenProperties
<1> HIDE DEF t
<1>2. \A i \in DOMAIN t : i = 1 \/ (i - 1 \in DOMAIN s /\ t[i] = s[i - 1] /\ i \in Int)
  BY <1>1
<1>3. \A i \in DOMAIN s : i + 1 \in DOMAIN t /\ t[i + 1] = s[i]
  BY <1>1
<1>4. 1 \in DOMAIN t
  BY <1>1
<1>5. Range(t) = Range(s) \cup {j}
  BY <1>1, <1>2, <1>3, <1>4 DEF Range
<1>6. Injective(s) /\ j \notin Range(s) => Injective(t)
  <2> SUFFICES ASSUME Injective(s), j \notin Range(s), NEW i \in DOMAIN t,
                      NEW k \in DOMAIN t, t[i] = t[k]
               PROVE  i = k
    BY DEF Injective
  <2>1. CASE i = 1 \/ k = 1
    BY <1>1, <1>2, <2>1 DEF Range
  <2>2. CASE i # 1 /\ k # 1
    <3>1. i - 1 = k - 1
      BY <1>2, <2>2 DEF Injective
    <3> QED
      BY <1>2, <2>2, <3>1
  <2> QED
    BY <2>1, <2>2
<1> QED
  BY <1>5, <1>6 DEF t

\* The front job is taken from a queue.
LEMMA QueueTake ==
    ASSUME NEW s \in Seq(Job), s # << >>
    PROVE  /\ Head(s) \in Job /\ Head(s) \in Range(s) /\ Tail(s) \in Seq(Job)
           /\ Injective(s) => /\ Range(Tail(s)) = Range(s) \ {Head(s)}
                              /\ Injective(Tail(s))
<1> DEFINE t == Tail(s)
<1>1. /\ Len(s) \in Nat \ {0} /\ DOMAIN s = 1..Len(s)
      /\ t \in Seq(Job)
      /\ DOMAIN t = 1..Len(s) - 1
      /\ \A i \in 1..Len(s) - 1 : t[i] = s[i + 1]
      /\ Head(s) = s[1] /\ Head(s) \in Job
  BY HeadTailProperties, LenProperties, EmptySeq
<1> HIDE DEF t
<1>2. \A i \in DOMAIN s : i = 1 \/ (i - 1 \in DOMAIN t /\ t[i - 1] = s[i] /\ i \in Int)
  BY <1>1
<1>3. \A i \in DOMAIN t : i + 1 \in DOMAIN s /\ t[i] = s[i + 1] /\ i + 1 # 1 /\ i \in Int
  BY <1>1
<1>4. 1 \in DOMAIN s
  BY <1>1
<1>5. Head(s) \in Range(s)
  BY <1>1, <1>4 DEF Range
<1>6. ASSUME Injective(s) PROVE Range(t) = Range(s) \ {Head(s)}
  <2>1. ASSUME NEW x \in Range(t) PROVE x \in Range(s) \ {Head(s)}
    BY <1>1, <1>3, <1>4, <1>6 DEF Range, Injective
  <2>2. ASSUME NEW x \in Range(s), x # Head(s) PROVE x \in Range(t)
    BY <1>1, <1>2, <2>2 DEF Range
  <2> QED
    BY <2>1, <2>2
<1>7. ASSUME Injective(s) PROVE Injective(t)
  <2> SUFFICES ASSUME NEW i \in DOMAIN t, NEW k \in DOMAIN t, t[i] = t[k]
               PROVE  i = k
    BY DEF Injective
  <2>1. i + 1 = k + 1
    BY <1>3, <1>7 DEF Injective
  <2> QED
    BY <1>3, <2>1
<1> QED
  BY <1>1, <1>5, <1>6, <1>7 DEF t

\* No job is in an empty queue, and one is in any other.
LEMMA QueueEmpty ==
    /\ Range(<< >>) = {} /\ Injective(<< >>)
    /\ \A s \in Seq(Job) : Range(s) = {} => s = << >>
    /\ \A s \in Seq(Job) : Range(s) \subseteq Job
<1>1. DOMAIN << >> = {}
  OBVIOUS
<1>2. \A s \in Seq(Job) : Range(s) = {} => s = << >>
  BY QueueTake
<1>3. \A s \in Seq(Job) : Range(s) \subseteq Job
  BY RangeOfSeq
<1> QED
  BY <1>1, <1>2, <1>3 DEF Range, Injective

\* As many jobs are in a queue as it is long.
LEMMA QueueCount ==
    ASSUME NEW s \in Seq(Job), Injective(s)
    PROVE  IsFiniteSet(Range(s)) /\ Cardinality(Range(s)) = Len(s)
<1>1. Len(s) \in Nat /\ DOMAIN s = 1..Len(s) /\ s \in [1..Len(s) -> Range(s)]
  BY LenProperties DEF Range
<1>2. s \in Bijection(1..Len(s), Range(s))
  BY <1>1 DEF Bijection, Injection, Surjection, Injective, Range, IsInjective
<1>3. ExistsBijection(1..Len(s), Range(s))
  BY <1>2 DEF ExistsBijection
<1> QED
  BY <1>1, <1>3, FS_CountingElements, FS_NatBijection

\* The slots AddToOsrBuffer may use: an empty one, or that of a job that
\* waits for its entry.
LEMMA FoundSlotFree ==
    ASSUME TypeOK, FreeSteps # {}
    PROVE  /\ FoundSlot \in Slot
           /\ osrBuffer[FoundSlot] # NULL => IsWaiting(osrBuffer[FoundSlot])
<1>1. OsrCapacity \in Nat \ {0} /\ Slot \subseteq Nat /\ osrCursor \in Nat
  BY ConstantsAssumption DEF TypeOK, Slot
<1>2. FreeSteps \subseteq Slot /\ FreeSteps \subseteq Nat
  BY <1>1 DEF FreeSteps
<1>3. First(FreeSteps) \in FreeSteps
  <2>1. \E i \in FreeSteps : \A k \in FreeSteps : i <= k
    BY <1>2, LeastElement
  <2> QED
    BY <2>1 DEF First
<1>4. FoundSlot \in Slot
  <2>1. First(FreeSteps) \in Nat
    BY <1>2, <1>3
  <2>2. \A x \in Nat : x % OsrCapacity \in Slot
    BY <1>1 DEF Slot
  <2>3. osrCursor + First(FreeSteps) \in Nat
    BY <1>1, <2>1
  <2> QED
    BY <2>2, <2>3 DEF FoundSlot
<1>5. osrBuffer[FoundSlot] # NULL => IsWaiting(osrBuffer[FoundSlot])
  BY <1>3 DEF FreeSteps, FoundSlot
<1> QED
  BY <1>4, <1>5

BufferDistinct ==
    \A i, k \in Slot : osrBuffer[i] = osrBuffer[k] /\ i # k => osrBuffer[i] = NULL

\* AddToOsrBuffer replaces the job it evicts, which waits for its entry.
LEMMA PutInBuffer ==
    ASSUME TypeOK, BufferDistinct, FreeSteps # {}, NEW j \in Job \cup {NULL},
           j \notin Buffered, PutInOsrBuffer(j)
    PROVE  /\ Buffered' = (Buffered \ Evicted) \cup ({j} \ {NULL})
           /\ Evicted \subseteq Buffered
           /\ \A k \in Evicted : IsWaiting(k)
           /\ BufferDistinct'
<1>1. FoundSlot \in Slot /\ (osrBuffer[FoundSlot] # NULL => IsWaiting(osrBuffer[FoundSlot]))
  BY FoundSlotFree
<1>2. osrBuffer' = [osrBuffer EXCEPT ![FoundSlot] = j] /\ DOMAIN osrBuffer = Slot
  BY DEF PutInOsrBuffer, TypeOK
<1>3. \A i \in Slot : osrBuffer'[i] = IF i = FoundSlot THEN j ELSE osrBuffer[i]
  BY <1>2
<1>4. BufferDistinct'
  <2>1. \A i \in Slot : osrBuffer[i] = j => j = NULL
    BY DEF Buffered
  <2> QED
    BY <1>1, <1>3, <2>1 DEF BufferDistinct
<1>5. Evicted \subseteq Buffered /\ \A k \in Evicted : IsWaiting(k)
  BY <1>1 DEF Evicted, Buffered
<1>6. ASSUME NEW x \in Buffered' PROVE x \in (Buffered \ Evicted) \cup ({j} \ {NULL})
  <2>1. PICK i \in Slot : x = osrBuffer'[i] /\ x # NULL
    BY <1>6 DEF Buffered
  <2>2. CASE i = FoundSlot
    BY <1>3, <2>1, <2>2
  <2>3. CASE i # FoundSlot
    BY <1>1, <1>3, <2>1, <2>3 DEF BufferDistinct, Buffered, Evicted
  <2> QED
    BY <2>2, <2>3
<1>7. ASSUME NEW x \in Buffered \ Evicted PROVE x \in Buffered'
  <2>1. PICK i \in Slot : x = osrBuffer[i] /\ x # NULL
    BY <1>7 DEF Buffered
  <2>2. i # FoundSlot
    BY <1>7, <2>1 DEF Evicted
  <2> QED
    BY <1>3, <2>1, <2>2 DEF Buffered
<1>8. j # NULL => j \in Buffered'
  BY <1>1, <1>3 DEF Buffered
<1> QED
  BY <1>4, <1>5, <1>6, <1>7, <1>8

\* The first job ready for an entry is one for that entry.
LEMMA FirstReady ==
    ASSUME TypeOK, NEW f \in Closure, NEW l \in Loop, ReadySlots(f, l) # {}
    PROVE  /\ First(ReadySlots(f, l)) \in Slot
           /\ First(ReadySlots(f, l)) \in ReadySlots(f, l)
<1>1. ReadySlots(f, l) \subseteq Slot /\ Slot \subseteq Nat
  BY DEF ReadySlots, SlotsOf, Slot
<1>2. \E i \in ReadySlots(f, l) : \A k \in ReadySlots(f, l) : i <= k
  BY <1>1, LeastElement
<1>3. First(ReadySlots(f, l)) \in ReadySlots(f, l)
  BY <1>2 DEF First
<1> QED
  BY <1>1, <1>3

\* FindReadyOSRCandidate takes the job it finds out of the buffer.
LEMMA TakeFromBuffer ==
    ASSUME TypeOK, BufferDistinct, NEW f \in Closure, NEW l \in Loop, EnterOsr(f, l)
    PROVE  /\ installing' \in Buffered /\ IsWaiting(installing')
           /\ jobs[installing'].closure = f /\ jobs[installing'].loop = l
           /\ Buffered' = Buffered \ {installing'}
           /\ BufferDistinct'
<1> DEFINE n == First(ReadySlots(f, l))
<1>1. n \in Slot /\ n \in ReadySlots(f, l)
  BY FirstReady DEF EnterOsr
<1>2. /\ installing' = osrBuffer[n]
      /\ osrBuffer' = [osrBuffer EXCEPT ![n] = NULL] /\ DOMAIN osrBuffer = Slot
  BY DEF EnterOsr, TypeOK
<1> HIDE DEF n
<1>3. /\ installing' \in Buffered /\ IsWaiting(installing') /\ osrBuffer[n] # NULL
      /\ jobs[installing'].closure = f /\ jobs[installing'].loop = l
  BY <1>1, <1>2 DEF ReadySlots, SlotsOf, Buffered
<1>4. \A i \in Slot : osrBuffer'[i] = IF i = n THEN NULL ELSE osrBuffer[i]
  BY <1>2
<1>5. BufferDistinct'
  BY <1>4 DEF BufferDistinct
<1>6. ASSUME NEW x \in Buffered' PROVE x \in Buffered \ {installing'}
  BY <1>1, <1>2, <1>3, <1>4, <1>6 DEF Buffered, BufferDistinct
<1>7. ASSUME NEW x \in Buffered \ {installing'} PROVE x \in Buffered'
  BY <1>2, <1>4, <1>7 DEF Buffered
<1> QED
  BY <1>3, <1>5, <1>6, <1>7

-------------------------------------------------------------------------------
(* Who owns a job                                                          *)

\* A job is in one place of the pipeline at a time and in one slot of the
\* buffer; these are the live jobs.
PlacesInv ==
    /\ Injective(input) /\ Injective(output)
    /\ Range(input) \cap Range(output) = {}
    /\ current \notin Range(input) \cup Range(output)
    /\ installing \notin Range(input) \cup Range(output)
    /\ current = installing => current = NULL
    /\ DOMAIN jobs = Pipeline \cup Buffered
    /\ BufferDistinct

\* The buffer has the OSR jobs, but for one being entered; those that wait
\* for their entry have left the pipeline, ...
KindsInv ==
    \A j \in DOMAIN jobs :
        /\ j \in Buffered <=> IsOsr(j) /\ j # installing
        /\ IsWaiting(j) => IsOsr(j) /\ j \notin Pipeline \ {installing}

\* ... and those that have left it wait, unless their buffer is about to be
\* flushed.
LeftoverInv ==
    \A j \in DOMAIN jobs \ Pipeline :
        \/ IsWaiting(j)
        \/ main \in {"flushSignal", "flushWait"}
        \/ main \in {"stopQueues", "stopOsr"} /\ ~Delay

JobsInv == PlacesInv /\ KindsInv /\ LeftoverInv

\* When the two threads hold a job.
HoldersInv ==
    /\ current # NULL <=> thread \in {"compile", "flushJob"}
    /\ main = "install" \/ resume = "install" => installing # NULL
    /\ installing # NULL => main \in {"install", "spin"} \/ resume = "install"

\* After the compiler thread has left, Stop empties one place after the
\* other; a collection that would flush once more waits for ever.
ExitInv ==
    thread = "exited" =>
        /\ \/ main \in {"stopSignal", "stopWait"} /\ stopSem = 1
           \/ main \in {"stopQueues", "stopOsr", "stopped", "drain", "install",
                        "flushSignal", "flushWait", "spin"} /\ stopSem = 0
        /\ main \notin {"stopSignal", "stopWait", "stopQueues"} => input = << >>
        /\ main \in {"stopOsr", "stopped"} => output = << >>
        /\ main = "stopped" => Buffered = {}
        /\ installing # NULL => ~IsOsr(installing)

\* What Flush leaves, until it returns.
FlushedInv ==
    main = "flushed" =>
        /\ input = << >> /\ output = << >> /\ Buffered = {}
        /\ thread = "wait" /\ inputSem = 0

ControlInv == HoldersInv /\ ExitInv /\ FlushedInv

ownVars == <<jobs, input, output, current, installing, osrBuffer>>

\* The main thread may go anywhere but from a flush or from Stop without
\* disturbing the jobs.
Emptying == main \in {"flushSignal", "flushWait", "stopQueues", "stopOsr"}

\* A step that moves no job.
LEMMA QuietJobs ==
    ASSUME JobsInv, UNCHANGED ownVars,
           ~Emptying \/ main' = main \/ (main = "flushSignal" /\ main' = "flushWait")
    PROVE  JobsInv'
  BY DEF JobsInv, PlacesInv, KindsInv, LeftoverInv, ownVars, Emptying, Pipeline, Buffered,
     BufferDistinct, IsOsr, IsWaiting, Injective

\* Deleting jobs leaves the others as they are.
LEMMA Deleted ==
    ASSUME NEW js
    PROVE  /\ DOMAIN Without(js) = DOMAIN jobs \ js
           /\ \A j \in DOMAIN jobs \ js : Without(js)[j] = jobs[j]
  BY DEF Without, Restrict

\* The compiler thread hands jobs on.
LEMMA ThreadJobs ==
    ASSUME SignalInv, JobsInv, ControlInv, CompilerThread
    PROVE  JobsInv'
<1> USE DEF osrVars, edgeVars, bufferVars, queueVars, stopVars, mainVars, threadVars
<1>0. /\ input \in Seq(Job) /\ output \in Seq(Job)
      /\ current \in Job \cup {NULL} /\ installing \in Job \cup {NULL}
      /\ NULL \notin Job
      /\ Range(input) \subseteq Job /\ Range(output) \subseteq Job
  BY ConstantsAssumption, QueueEmpty DEF SignalInv, TypeOK
<1>1. CASE \/ ThreadWait \/ ThreadContinue \/ ThreadStop \/ ThreadFlush \/ CompileNextRequest
           \/ FlushContinue \/ FlushSignal \/ (FlushInputTake /\ input = << >>)
  <2>1. UNCHANGED ownVars /\ main' = main
    BY <1>1 DEF ThreadWait, ThreadContinue, ThreadStop, ThreadFlush, CompileNextRequest,
       FlushContinue, FlushSignal, FlushInputTake, ownVars
  <2> QED
    BY <2>1, QuietJobs
<1>2. CASE CompileNextTake \/ (FlushInputTake /\ input # << >>)
  <2>1. /\ input # << >> /\ current = NULL
        /\ current' = Head(input) /\ input' = Tail(input)
        /\ UNCHANGED <<jobs, output, installing, osrBuffer, main>>
    BY <1>2 DEF CompileNextTake, FlushInputTake, ControlInv, HoldersInv
  <2>2. /\ current' \in Range(input) /\ current' \in Job
        /\ Range(input)' = Range(input) \ {current'} /\ Injective(input)'
    BY <1>0, <2>1, QueueTake DEF JobsInv, PlacesInv
  <2>3. UNCHANGED <<Buffered, BufferDistinct, Pipeline>> /\ Injective(output)'
    BY <1>0, <2>1, <2>2 DEF Buffered, BufferDistinct, Pipeline, JobsInv, PlacesInv
  <2>4. PlacesInv'
    BY <1>0, <2>1, <2>2, <2>3 DEF JobsInv, PlacesInv
  <2>5. KindsInv' /\ LeftoverInv'
    BY <2>1, <2>3 DEF JobsInv, KindsInv, LeftoverInv, IsOsr, IsWaiting
  <2> QED
    BY <2>4, <2>5 DEF JobsInv
<1>3. CASE CompileNextEnqueue
  <2>1. /\ current \in Job /\ current' = NULL /\ output' = Append(output, current)
        /\ UNCHANGED <<jobs, input, installing, osrBuffer, main>>
    BY <1>3 DEF CompileNextEnqueue, SignalInv, ThreadHoldsJob
  <2>2. Range(output)' = Range(output) \cup {current} /\ Injective(output)'
    BY <1>0, <2>1, QueueAppend DEF JobsInv, PlacesInv
  <2>3. UNCHANGED <<Buffered, BufferDistinct, Pipeline>> /\ Injective(input)'
    BY <1>0, <2>1, <2>2 DEF Buffered, BufferDistinct, Pipeline, JobsInv, PlacesInv
  <2>4. PlacesInv'
    BY <1>0, <2>1, <2>2, <2>3 DEF JobsInv, PlacesInv
  <2>5. KindsInv' /\ LeftoverInv'
    BY <2>1, <2>3 DEF JobsInv, KindsInv, LeftoverInv, IsOsr, IsWaiting
  <2> QED
    BY <2>4, <2>5 DEF JobsInv
<1>4. CASE FlushInputWait
  <2>1. /\ current \in Job /\ current' = NULL
        /\ main \in {"flushSignal", "flushWait"}
        /\ UNCHANGED <<input, output, installing, osrBuffer, main>>
    BY <1>4 DEF FlushInputWait, SignalInv, ThreadHoldsJob, Handshake, Serving
  <2>2. /\ UNCHANGED <<Buffered, BufferDistinct>> /\ Injective(input)' /\ Injective(output)'
        /\ Pipeline' = Pipeline \ {current}
        /\ current \in Pipeline
    BY <1>0, <2>1 DEF Buffered, BufferDistinct, Pipeline, JobsInv, PlacesInv
  <2>3. /\ DOMAIN jobs' = IF IsOsr(current) THEN DOMAIN jobs ELSE DOMAIN jobs \ {current}
        /\ \A j \in DOMAIN jobs' : jobs'[j] = jobs[j]
    BY <1>4, Deleted DEF FlushInputWait
  <2>4. current \in Buffered <=> IsOsr(current)
    BY <1>0, <2>1, <2>2 DEF JobsInv, PlacesInv, KindsInv
  <2>5. DOMAIN jobs' = Pipeline' \cup Buffered'
    BY <2>2, <2>3, <2>4 DEF JobsInv, PlacesInv
  <2>6. PlacesInv'
    BY <1>0, <2>1, <2>2, <2>5 DEF JobsInv, PlacesInv
  <2>7. KindsInv' /\ LeftoverInv'
    BY <2>1, <2>2, <2>3 DEF JobsInv, KindsInv, LeftoverInv, IsOsr, IsWaiting
  <2> QED
    BY <2>6, <2>7 DEF JobsInv
<1> QED
  BY <1>1, <1>2, <1>3, <1>4 DEF CompilerThread

OwnTyped ==
    /\ input \in Seq(Job) /\ output \in Seq(Job)
    /\ current \in Job \cup {NULL} /\ installing \in Job \cup {NULL}
    /\ NULL \notin Job
    /\ Range(input) \subseteq Job /\ Range(output) \subseteq Job
    /\ Buffered \subseteq Job
    /\ DOMAIN jobs \subseteq Job
    /\ \A j \in DOMAIN jobs : jobs[j] \in JobInfo

\* Types of what the ownership of jobs is about.
LEMMA OwnTypes == SignalInv => OwnTyped
  BY ConstantsAssumption, QueueEmpty DEF SignalInv, TypeOK, OwnTyped, Buffered

\* Where the main thread installs nothing, and where the compiler thread has left.
LEMMA WhereMainIs ==
    ASSUME SignalInv, ControlInv
    PROVE  /\ main \in {"js", "recompile", "signal", "drain", "stopSignal", "stopWait",
                        "stopQueues", "stopOsr", "stopped"} => installing = NULL
           /\ main \in {"stopQueues", "stopOsr", "stopped"} =>
                 thread = "exited" /\ current = NULL
           /\ main = "flushWait" /\ stopSem > 0 =>
                 /\ thread = "wait" /\ current = NULL /\ stopThread = "CONTINUE"
                 /\ stopSem = 1 /\ input = << >>
                 /\ inputSem = 0 /\ blockedJobs = 0
<1>1. main \in {"js", "recompile", "signal", "drain", "stopSignal", "stopWait",
                "stopQueues", "stopOsr", "stopped"} => installing = NULL
  BY DEF SignalInv, ControlInv, HoldersInv, RecompileHasRoom
<1>2. main \in {"stopQueues", "stopOsr", "stopped"} => thread = "exited"
  BY DEF SignalInv, Handshake, Running
<1>3. ASSUME main = "flushWait", stopSem > 0
      PROVE  /\ thread = "wait" /\ stopThread = "CONTINUE"
             /\ stopSem = 1 /\ input = << >> /\ inputSem = 0 /\ blockedJobs = 0
  <2>1. thread # "exited" /\ stopSem # 0
    BY <1>3 DEF ControlInv, ExitInv
  <2>2. thread = "wait" /\ stopThread = "CONTINUE" /\ stopSem = 1
    BY <1>3, <2>1 DEF SignalInv, Handshake, Running
  <2>3. input = << >> /\ blockedJobs = 0 /\ Len(input) = 0 /\ inputSem \in Nat
    BY <1>3, <2>2 DEF SignalInv, SignalsMatch, TypeOK
  <2>4. inputSem = 0
    BY <1>3, <2>2, <2>3 DEF SignalInv, SignalsMatch, Flushing, One
  <2> QED
    BY <2>2, <2>3, <2>4
<1> QED
  BY <1>1, <1>2, <1>3 DEF ControlInv, HoldersInv

\* On-stack replacement: the buffer gives up a job.
LEMMA EnterJobs ==
    ASSUME SignalInv, JobsInv, ControlInv, NEW f \in Closure, NEW l \in Loop, EnterOsr(f, l)
    PROVE  JobsInv'
<1> USE DEF osrVars, edgeVars, bufferVars, queueVars, stopVars, mainVars, threadVars
<1>0. OwnTyped /\ installing = NULL /\ main = "js"
  BY OwnTypes, WhereMainIs DEF EnterOsr, AtPatchedBackEdge
<1>1. /\ installing' \in Buffered /\ IsWaiting(installing')
      /\ Buffered' = Buffered \ {installing'} /\ BufferDistinct'
  BY TakeFromBuffer DEF SignalInv, JobsInv, PlacesInv
<1>2. UNCHANGED <<jobs, input, output, current>>
  BY DEF EnterOsr
<1>3. /\ installing' \in DOMAIN jobs /\ installing' \notin Pipeline
  BY <1>0, <1>1 DEF JobsInv, PlacesInv, KindsInv, OwnTyped
<1>4. Pipeline' = Pipeline \cup {installing'}
  BY <1>0, <1>1, <1>2 DEF Pipeline, OwnTyped
<1>5. PlacesInv'
  BY <1>0, <1>1, <1>2, <1>3, <1>4 DEF JobsInv, PlacesInv, OwnTyped, Pipeline, Injective
<1>6. KindsInv'
  BY <1>0, <1>1, <1>2, <1>3, <1>4 DEF JobsInv, KindsInv, OwnTyped, IsOsr, IsWaiting
<1>7. LeftoverInv'
  BY <1>0, <1>1, <1>2, <1>3, <1>4 DEF JobsInv, LeftoverInv, IsWaiting
<1> QED
  BY <1>5, <1>6, <1>7 DEF JobsInv

\* A new job.
LEMMA QueueJobs ==
    ASSUME SignalInv, JobsInv, ControlInv, NEW j \in Job, QueueFunction(j) \/ QueueOsr(j)
    PROVE  JobsInv'
<1> USE DEF osrVars, edgeVars, bufferVars, queueVars, stopVars, mainVars, threadVars
<1>0. /\ OwnTyped /\ installing = NULL /\ main = "recompile" /\ j \notin DOMAIN jobs
      /\ UNCHANGED <<output, current, installing>>
  BY OwnTypes, WhereMainIs DEF QueueFunction, QueueOsr
<1>1. j \notin Pipeline /\ j \notin Buffered /\ j # NULL /\ j \notin Range(input)
  BY <1>0 DEF JobsInv, PlacesInv, OwnTyped, Pipeline
<1>2. Range(input)' = Range(input) \cup {j} /\ Injective(input)'
  <2>1. input' = Append(input, j) \/ input' = <<j>> \o input
    BY DEF QueueFunction, QueueOsr
  <2>2. input \in Seq(Job) /\ Injective(input)
    BY <1>0 DEF JobsInv, PlacesInv, OwnTyped
  <2>3. CASE input' = Append(input, j)
    BY <1>1, <2>2, <2>3, QueueAppend
  <2>4. CASE input' = <<j>> \o input
    BY <1>1, <2>2, <2>4, QueuePush
  <2> QED
    BY <2>1, <2>3, <2>4
<1>3. Pipeline' = Pipeline \cup {j} /\ Injective(output)'
  BY <1>0, <1>2 DEF Pipeline, JobsInv, PlacesInv
<1>4. CASE QueueFunction(j)
  <2>1. /\ Buffered' = Buffered /\ (BufferDistinct' <=> BufferDistinct)
        /\ DOMAIN jobs' = DOMAIN jobs \cup {j}
        /\ jobs'[j].loop = NULL /\ ~jobs'[j].waiting
        /\ \A k \in DOMAIN jobs : jobs'[k] = jobs[k]
    BY <1>0, <1>4 DEF QueueFunction, Buffered, BufferDistinct
  <2>2. PlacesInv'
    BY <1>0, <1>1, <1>2, <1>3, <2>1 DEF JobsInv, PlacesInv, OwnTyped, Pipeline
  <2>3. KindsInv'
    BY <1>0, <1>1, <1>3, <2>1 DEF JobsInv, KindsInv, OwnTyped, IsOsr, IsWaiting
  <2>4. LeftoverInv'
    BY <1>0, <1>1, <1>3, <2>1 DEF JobsInv, LeftoverInv, IsWaiting
  <2> QED
    BY <2>2, <2>3, <2>4 DEF JobsInv
<1>5. CASE QueueOsr(j)
  <2>0. FreeSteps # {} /\ PutInOsrBuffer(j) /\ request.loop # NULL
    BY <1>5 DEF QueueOsr
  <2>1. /\ Buffered' = (Buffered \ Evicted) \cup {j} /\ BufferDistinct'
        /\ Evicted \subseteq Buffered
        /\ \A k \in Evicted : IsWaiting(k)
    BY <1>0, <1>1, <2>0, PutInBuffer DEF SignalInv, JobsInv, PlacesInv
  <2>2. /\ DOMAIN jobs' = (DOMAIN jobs \ Evicted) \cup {j}
        /\ jobs'[j].loop # NULL /\ ~jobs'[j].waiting
        /\ \A k \in DOMAIN jobs' \ {j} : jobs'[k] = jobs[k]
    BY <1>0, <1>5, <2>0 DEF QueueOsr
  <2>3. Evicted \cap Pipeline = {}
    BY <1>0, <2>1 DEF JobsInv, KindsInv, PlacesInv, OwnTyped
  <2>4. PlacesInv'
    BY <1>0, <1>1, <1>2, <1>3, <2>1, <2>2, <2>3 DEF JobsInv, PlacesInv, OwnTyped, Pipeline
  <2>5. KindsInv'
    BY <1>0, <1>1, <1>3, <2>1, <2>2 DEF JobsInv, KindsInv, OwnTyped, IsOsr, IsWaiting
  <2>6. LeftoverInv'
    BY <1>0, <1>1, <1>3, <2>1, <2>2 DEF JobsInv, LeftoverInv, IsWaiting
  <2> QED
    BY <2>4, <2>5, <2>6 DEF JobsInv
<1> QED
  BY <1>4, <1>5

\* Finished jobs are installed.
LEMMA InstallJobs ==
    ASSUME SignalInv, JobsInv, ControlInv,
           InstallNextOsr \/ InstallNextFunction \/ InstallOptimizedCode
    PROVE  JobsInv'
<1> USE DEF osrVars, edgeVars, bufferVars, queueVars, stopVars, mainVars, threadVars
<1>0. OwnTyped
  BY OwnTypes
<1>1. CASE InstallNextOsr \/ InstallNextFunction
  <2>1. /\ main = "drain" /\ output # << >> /\ output' = Tail(output) /\ installing = NULL
        /\ main' \in {"drain", "install"}
        /\ UNCHANGED <<input, current, osrBuffer>>
    BY <1>1, WhereMainIs DEF InstallNextOsr, InstallNextFunction
  <2> DEFINE h == Head(output)
  <2>2. /\ h \in Range(output) /\ h \in Job /\ h # NULL
        /\ Range(output)' = Range(output) \ {h} /\ Injective(output)'
    BY <1>0, <2>1, QueueTake DEF JobsInv, PlacesInv, OwnTyped
  <2>3. /\ h \in DOMAIN jobs /\ h \notin Range(input) /\ h # current /\ h # installing
    BY <1>0, <2>1, <2>2 DEF JobsInv, PlacesInv, Pipeline, OwnTyped
  <2>4. Buffered' = Buffered /\ (BufferDistinct' <=> BufferDistinct) /\ Injective(input)'
    BY <2>1 DEF Buffered, BufferDistinct, JobsInv, PlacesInv
  <2>5. CASE InstallNextOsr
    <3>1. /\ IsOsr(h) /\ installing' = installing /\ main' = "drain"
          /\ jobs' = [jobs EXCEPT ![h].waiting = TRUE]
      BY <1>1, <2>5 DEF InstallNextOsr
    <3> HIDE DEF h
    <3>2. /\ DOMAIN jobs' = DOMAIN jobs
          /\ jobs'[h].waiting /\ jobs'[h].loop # NULL
          /\ \A k \in DOMAIN jobs \ {h} : jobs'[k] = jobs[k]
      BY <1>0, <2>3, <3>1 DEF OwnTyped, JobInfo, IsOsr
    <3>3. Pipeline' = Pipeline \ {h} /\ h \in Buffered
      BY <1>0, <2>1, <2>2, <2>3, <3>1 DEF Pipeline, JobsInv, KindsInv
    <3>4. PlacesInv'
      BY <1>0, <2>1, <2>2, <2>3, <2>4, <3>1, <3>2, <3>3 DEF JobsInv, PlacesInv, OwnTyped
    <3>5. KindsInv'
      BY <1>0, <2>1, <2>2, <2>3, <2>4, <3>1, <3>2, <3>3
         DEF JobsInv, KindsInv, OwnTyped, IsOsr, IsWaiting
    <3>6. LeftoverInv'
      BY <2>1, <2>2, <2>3, <2>4, <3>1, <3>2, <3>3 DEF JobsInv, LeftoverInv, IsWaiting
    <3> QED
      BY <3>4, <3>5, <3>6 DEF JobsInv
  <2>6. CASE InstallNextFunction
    <3>1. ~IsOsr(h) /\ installing' = h /\ jobs' = jobs
      BY <1>1, <2>6 DEF InstallNextFunction
    <3> HIDE DEF h
    <3>2. Pipeline' = Pipeline /\ h \notin Buffered
      BY <1>0, <2>1, <2>2, <2>3, <3>1 DEF Pipeline, JobsInv, KindsInv, OwnTyped
    <3>4. PlacesInv'
      BY <1>0, <2>1, <2>2, <2>3, <2>4, <3>1, <3>2 DEF JobsInv, PlacesInv, OwnTyped
    <3>5. KindsInv'
      BY <1>0, <2>1, <2>2, <2>3, <2>4, <3>1, <3>2
         DEF JobsInv, KindsInv, OwnTyped, IsOsr, IsWaiting
    <3>6. LeftoverInv'
      BY <2>1, <2>2, <2>3, <2>4, <3>1, <3>2 DEF JobsInv, LeftoverInv, IsWaiting
    <3> QED
      BY <3>4, <3>5, <3>6 DEF JobsInv
  <2> QED
    BY <1>1, <2>5, <2>6
<1>2. CASE InstallOptimizedCode
  <2>1. /\ main = "install" /\ main' \in {"js", "drain"} /\ installing' = NULL
        /\ jobs' = Without({installing})
        /\ UNCHANGED <<input, output, current, osrBuffer>>
    BY <1>2 DEF InstallOptimizedCode
  <2>2. /\ DOMAIN jobs' = DOMAIN jobs \ {installing}
        /\ \A k \in DOMAIN jobs' : jobs'[k] = jobs[k]
    BY <2>1, Deleted
  <2>3. installing # NULL /\ installing \in DOMAIN jobs /\ installing \notin Buffered
    <3>1. installing # NULL
      BY <2>1 DEF ControlInv, HoldersInv
    <3>2. installing \in DOMAIN jobs
      BY <3>1 DEF JobsInv, PlacesInv, Pipeline
    <3> QED
      BY <3>1, <3>2 DEF JobsInv, KindsInv
  <2>4. /\ Buffered' = Buffered /\ (BufferDistinct' <=> BufferDistinct)
        /\ Injective(input)' /\ Injective(output)'
    BY <2>1 DEF Buffered, BufferDistinct, JobsInv, PlacesInv
  <2>5. Pipeline' = Pipeline \ {installing}
    BY <1>0, <2>1, <2>3 DEF Pipeline, JobsInv, PlacesInv, OwnTyped
  <2>6. PlacesInv'
    BY <1>0, <2>1, <2>2, <2>3, <2>4, <2>5 DEF JobsInv, PlacesInv, OwnTyped
  <2>7. KindsInv'
    BY <1>0, <2>1, <2>2, <2>3, <2>4, <2>5 DEF JobsInv, KindsInv, OwnTyped, IsOsr, IsWaiting
  <2>8. LeftoverInv'
    BY <2>1, <2>2, <2>3, <2>4, <2>5 DEF JobsInv, LeftoverInv, IsWaiting
  <2> QED
    BY <2>6, <2>7, <2>8 DEF JobsInv
<1> QED
  BY <1>1, <1>2

\* Jobs waiting for an entry are evicted from the buffer.
LEMMA AgeJobs ==
    ASSUME SignalInv, JobsInv, ControlInv, AgeBufferedOsrJobs
    PROVE  JobsInv'
<1> USE DEF osrVars, edgeVars, bufferVars, queueVars, stopVars, mainVars, threadVars
<1>0. OwnTyped
  BY OwnTypes
<1>1. CASE FreeSteps = {}
  <2>1. UNCHANGED ownVars /\ ~Emptying
    BY <1>1 DEF AgeBufferedOsrJobs, MayCollect, ownVars, Emptying
  <2> QED
    BY <2>1, QuietJobs
<1>2. CASE FreeSteps # {}
  <2>1. /\ jobs' = Without(Evicted) /\ PutInOsrBuffer(NULL)
        /\ main' = main /\ main \in {"js", "recompile", "install"}
        /\ UNCHANGED <<input, output, current, installing>>
    BY <1>2 DEF AgeBufferedOsrJobs, MayCollect
  <2>2. /\ Buffered' = Buffered \ Evicted /\ BufferDistinct'
        /\ Evicted \subseteq Buffered
        /\ \A k \in Evicted : IsWaiting(k)
    <3>1. NULL \notin Buffered
      BY DEF Buffered
    <3>2. Buffered' = (Buffered \ Evicted) \cup ({NULL} \ {NULL}) /\ BufferDistinct'
          /\ Evicted \subseteq Buffered
          /\ \A k \in Evicted : IsWaiting(k)
      BY <1>2, <2>1, <3>1, PutInBuffer DEF SignalInv, JobsInv, PlacesInv
    <3> QED
      BY <3>2
  <2>3. /\ DOMAIN jobs' = DOMAIN jobs \ Evicted
        /\ \A k \in DOMAIN jobs' : jobs'[k] = jobs[k]
    BY <2>1, Deleted
  <2>4. Evicted \cap Pipeline = {}
    BY <2>2 DEF JobsInv, KindsInv, PlacesInv
  <2>5. Pipeline' = Pipeline /\ Injective(input)' /\ Injective(output)'
    BY <2>1 DEF Pipeline, JobsInv, PlacesInv
  <2>6. PlacesInv'
    BY <1>0, <2>1, <2>2, <2>3, <2>4, <2>5 DEF JobsInv, PlacesInv
  <2>7. KindsInv'
    BY <2>1, <2>2, <2>3, <2>4, <2>5 DEF JobsInv, KindsInv, IsOsr, IsWaiting
  <2>8. LeftoverInv'
    BY <2>1, <2>2, <2>3, <2>4, <2>5 DEF JobsInv, LeftoverInv, IsWaiting
  <2> QED
    BY <2>6, <2>7, <2>8 DEF JobsInv
<1> QED
  BY <1>1, <1>2

\* Flush empties the output queue and the buffer once the compiler thread has
\* emptied the input queue.
LEMMA FlushJobs ==
    ASSUME SignalInv, JobsInv, ControlInv, FlushQueues
    PROVE  /\ JobsInv'
           /\ input' = << >> /\ output' = << >> /\ Buffered' = {}
           /\ thread' = "wait" /\ inputSem' = 0
           /\ DOMAIN jobs' = {installing} \ {NULL}
           /\ \A j \in DOMAIN jobs' : jobs'[j] = jobs[j] /\ j \in DOMAIN jobs
<1> USE DEF osrVars, edgeVars, bufferVars, queueVars, stopVars, mainVars, threadVars
<1> DEFINE functions == {j \in Range(output) : ~IsOsr(j)}
<1>1. /\ main = "flushWait" /\ stopSem > 0 /\ main' = "flushed"
      /\ jobs' = Without(functions \cup Buffered)
      /\ output' = << >> /\ osrBuffer' = [i \in Slot |-> NULL]
      /\ UNCHANGED <<input, inputSem, current, installing, thread>>
  BY DEF FlushQueues
<1>2. OwnTyped /\ thread = "wait" /\ current = NULL /\ input = << >> /\ inputSem = 0
  BY <1>1, OwnTypes, WhereMainIs
<1>3. /\ Range(input) = {} /\ Range(output)' = {} /\ Injective(output)' /\ Injective(input)'
  BY <1>1, <1>2, QueueEmpty
<1>4. Buffered' = {} /\ BufferDistinct'
  BY <1>1 DEF Buffered, BufferDistinct
<1>5. Pipeline = Range(output) \cup ({installing} \ {NULL}) /\ Pipeline' = {installing} \ {NULL}
  BY <1>1, <1>2, <1>3 DEF Pipeline
<1>6. /\ DOMAIN jobs' = DOMAIN jobs \ (functions \cup Buffered)
      /\ \A j \in DOMAIN jobs' : jobs'[j] = jobs[j] /\ j \in DOMAIN jobs
  BY <1>1, Deleted
<1>7. DOMAIN jobs' = {installing} \ {NULL}
  <2>1. ASSUME NEW j \in DOMAIN jobs' PROVE j \in {installing} \ {NULL}
    <3>1. j \in DOMAIN jobs /\ j \notin Buffered /\ ~(j \in Range(output) /\ ~IsOsr(j))
      BY <1>6, <2>1
    <3>2. j \in Pipeline /\ (IsOsr(j) => j = installing)
      BY <3>1 DEF JobsInv, PlacesInv, KindsInv
    <3> QED
      BY <1>2, <1>5, <3>1, <3>2 DEF OwnTyped
  <2>2. ASSUME NEW j \in {installing} \ {NULL} PROVE j \in DOMAIN jobs'
    <3>1. j \in DOMAIN jobs /\ j \notin Range(output) /\ j \notin Buffered
      BY <1>5, <2>2 DEF JobsInv, PlacesInv, KindsInv
    <3> QED
      BY <1>6, <3>1
  <2> QED
    BY <2>1, <2>2
<1>8. PlacesInv'
  BY <1>1, <1>2, <1>3, <1>4, <1>5, <1>7 DEF PlacesInv
<1>9. KindsInv'
  BY <1>1, <1>4, <1>5, <1>6, <1>7 DEF JobsInv, KindsInv, IsOsr, IsWaiting
<1>10. LeftoverInv'
  BY <1>5, <1>7 DEF LeftoverInv
<1> QED
  BY <1>1, <1>2, <1>4, <1>6, <1>7, <1>8, <1>9, <1>10 DEF JobsInv

\* Stop empties the queues and the buffer itself.
LEMMA StopJobs ==
    ASSUME SignalInv, JobsInv, ControlInv, RunStop
    PROVE  JobsInv'
<1> USE DEF osrVars, edgeVars, bufferVars, queueVars, stopVars, mainVars, threadVars
<1>0. OwnTyped
  BY OwnTypes
<1>1. CASE StopUnblockAndSignal \/ StopWait
  <2>1. UNCHANGED ownVars /\ ~Emptying
    BY <1>1 DEF StopUnblockAndSignal, StopWait, ownVars, Emptying
  <2> QED
    BY <2>1, QuietJobs
<1>2. CASE StopInstall
  <2>1. UNCHANGED ownVars /\ main = "stopQueues" /\ Delay
    BY <1>2 DEF StopInstall, ownVars
  <2>2. LeftoverInv'
    BY <2>1 DEF JobsInv, LeftoverInv, ownVars, Pipeline, IsWaiting
  <2> QED
    BY <2>1, <2>2 DEF JobsInv, PlacesInv, KindsInv, ownVars, Emptying, Pipeline, Buffered,
       BufferDistinct, IsOsr, IsWaiting, Injective
<1>3. CASE StopCompileNext \/ StopFlushInput
  <2>1. /\ input # << >> /\ input' = Tail(input) /\ main = "stopQueues" /\ main' = main
        /\ current = NULL /\ installing = NULL
        /\ UNCHANGED <<current, installing, osrBuffer>>
    BY <1>3, WhereMainIs DEF StopCompileNext, StopFlushInput
  <2> DEFINE h == Head(input)
  <2>2. /\ h \in Range(input) /\ h \in Job /\ h # NULL
        /\ Range(input)' = Range(input) \ {h} /\ Injective(input)'
    BY <1>0, <2>1, QueueTake DEF JobsInv, PlacesInv, OwnTyped
  <2>3. h \in DOMAIN jobs /\ h \notin Range(output)
    BY <2>2 DEF JobsInv, PlacesInv, Pipeline
  <2>4. Buffered' = Buffered /\ (BufferDistinct' <=> BufferDistinct)
    BY <2>1 DEF Buffered, BufferDistinct
  <2>5. CASE StopCompileNext
    <3>1. output' = Append(output, h) /\ jobs' = jobs
      BY <1>3, <2>5 DEF StopCompileNext
    <3> HIDE DEF h
    <3>2. Range(output)' = Range(output) \cup {h} /\ Injective(output)'
      BY <1>0, <2>2, <2>3, <3>1, QueueAppend DEF JobsInv, PlacesInv, OwnTyped
    <3>3. Pipeline' = Pipeline
      BY <2>1, <2>2, <3>2 DEF Pipeline
    <3>4. PlacesInv'
      BY <1>0, <2>1, <2>2, <2>3, <2>4, <3>1, <3>2, <3>3 DEF JobsInv, PlacesInv, OwnTyped
    <3>5. KindsInv' /\ LeftoverInv'
      BY <2>1, <2>4, <3>1, <3>3 DEF JobsInv, KindsInv, LeftoverInv, IsOsr, IsWaiting
    <3> QED
      BY <3>4, <3>5 DEF JobsInv
  <2>6. CASE StopFlushInput
    <3>0. jobs' = (IF IsOsr(h) THEN jobs ELSE Without({h})) /\ output' = output /\ ~Delay
      BY <2>6 DEF StopFlushInput
    <3> HIDE DEF h
    <3>1. /\ DOMAIN jobs' = IF IsOsr(h) THEN DOMAIN jobs ELSE DOMAIN jobs \ {h}
          /\ \A j \in DOMAIN jobs' : jobs'[j] = jobs[j]
      BY <3>0, Deleted
    <3>2. Pipeline' = Pipeline \ {h} /\ Injective(output)'
      BY <1>0, <2>1, <2>2, <2>3, <3>0 DEF Pipeline, JobsInv, PlacesInv
    <3>3. h \in Buffered <=> IsOsr(h)
      BY <2>1, <2>2, <2>3 DEF JobsInv, KindsInv
    <3>4. PlacesInv'
      BY <1>0, <2>1, <2>2, <2>3, <2>4, <3>0, <3>1, <3>2, <3>3 DEF JobsInv, PlacesInv, OwnTyped
    <3>5. KindsInv' /\ LeftoverInv'
      BY <2>1, <2>4, <3>0, <3>1, <3>2 DEF JobsInv, KindsInv, LeftoverInv, IsOsr, IsWaiting
    <3> QED
      BY <3>4, <3>5 DEF JobsInv
  <2> QED
    BY <1>3, <2>5, <2>6
<1>4. CASE StopFlushOutput
  <2> DEFINE functions == {j \in Range(output) : ~IsOsr(j)}
  <2>1. /\ main = "stopQueues" /\ main' = "stopOsr" /\ ~Delay /\ output' = << >>
        /\ jobs' = Without(functions)
        /\ UNCHANGED <<input, current, installing, osrBuffer>>
        /\ current = NULL /\ installing = NULL /\ input = << >>
    BY <1>4, WhereMainIs DEF StopFlushOutput
  <2>2. /\ Range(input) = {} /\ Range(output)' = {} /\ Injective(output)' /\ Injective(input)'
    BY <2>1, QueueEmpty
  <2>3. Buffered' = Buffered /\ (BufferDistinct' <=> BufferDistinct)
    BY <2>1 DEF Buffered, BufferDistinct
  <2>4. Pipeline = Range(output) /\ Pipeline' = {}
    BY <2>1, <2>2 DEF Pipeline
  <2>5. /\ DOMAIN jobs' = DOMAIN jobs \ functions
        /\ \A j \in DOMAIN jobs' : jobs'[j] = jobs[j] /\ j \in DOMAIN jobs
    BY <2>1, Deleted
  <2>6. DOMAIN jobs' = Buffered
    BY <1>0, <2>1, <2>4, <2>5 DEF JobsInv, PlacesInv, KindsInv, OwnTyped
  <2>7. PlacesInv'
    BY <2>1, <2>2, <2>3, <2>4, <2>6 DEF JobsInv, PlacesInv
  <2>8. KindsInv'
    BY <2>1, <2>3, <2>4, <2>5 DEF JobsInv, KindsInv, IsOsr, IsWaiting
  <2>9. LeftoverInv'
    BY <2>1 DEF LeftoverInv
  <2> QED
    BY <2>7, <2>8, <2>9 DEF JobsInv
<1>5. CASE StopFlushOsrBuffer
  <2>1. /\ main = "stopOsr"
        /\ jobs' = Without(Buffered) /\ osrBuffer' = [i \in Slot |-> NULL]
        /\ UNCHANGED <<input, output, current, installing>>
        /\ thread = "exited" /\ current = NULL /\ installing = NULL
    BY <1>5, WhereMainIs DEF StopFlushOsrBuffer
  <2>2. input = << >> /\ output = << >>
    BY <2>1 DEF ControlInv, ExitInv
  <2>3. Pipeline = {} /\ Pipeline' = {}
    BY <2>1, <2>2, QueueEmpty DEF Pipeline
  <2>4. Buffered' = {} /\ BufferDistinct'
    BY <2>1 DEF Buffered, BufferDistinct
  <2>5. DOMAIN jobs' = {}
    BY <2>1, <2>3, Deleted DEF JobsInv, PlacesInv
  <2>6. PlacesInv'
    BY <2>1, <2>2, <2>3, <2>4, <2>5, QueueEmpty DEF PlacesInv
  <2> QED
    BY <2>5, <2>6 DEF JobsInv, KindsInv, LeftoverInv
<1> QED
  BY <1>1, <1>2, <1>3, <1>4, <1>5 DEF RunStop

\* Every step leaves each job with one owner.
LEMMA JobsStep ==
    ASSUME SignalInv, JobsInv, ControlInv, [Next]_vars
    PROVE  JobsInv'
<1> USE DEF osrVars, edgeVars, bufferVars, queueVars, stopVars, mainVars, threadVars
<1>1. CASE CompilerThread
  BY <1>1, ThreadJobs
<1>2. CASE \E f \in Closure, l \in Loop : EnterOsr(f, l)
  BY <1>2, EnterJobs
<1>3. CASE \E f \in Closure : \/ MarkForConcurrentRecompilation(f) \/ PatchBackEdges(f)
                              \/ Deoptimize(f) \/ CallMarkedRefused(f) \/ CallMarked(f)
                              \/ TryInstallRecompiledCode(f)
                              \/ \E l \in Loop : \/ RequestOsr(f, l) \/ RefuseOsr(f, l)
                                                 \/ CompileOsr(f, l)
  <2>1. UNCHANGED ownVars /\ ~Emptying
    BY <1>3 DEF MarkForConcurrentRecompilation, PatchBackEdges, Deoptimize, CallMarkedRefused,
       CallMarked, RequestOsr, RefuseOsr, CompileOsr, AtPatchedBackEdge,
       TryInstallRecompiledCode, ownVars, Emptying
  <2> QED
    BY <2>1, QuietJobs
<1>4. CASE \E j \in Job : QueueFunction(j) \/ QueueOsr(j)
  BY <1>4, QueueJobs
<1>5. CASE RecompileWithoutJob \/ SignalJob \/ SpinForSlot \/ UnblockJobs
  <2>1. UNCHANGED ownVars /\ ~Emptying
    BY <1>5 DEF RecompileWithoutJob, SignalJob, SpinForSlot, UnblockJobs, ownVars, Emptying
  <2> QED
    BY <2>1, QuietJobs
<1>6. CASE InstallNextOsr \/ InstallNextFunction \/ InstallOptimizedCode
  BY <1>6, InstallJobs
<1>7. CASE HandleInstallCode \/ InstallDone \/ Flush \/ FlushReturn \/ Stop
  <2>1. UNCHANGED ownVars /\ ~Emptying
    BY <1>7 DEF HandleInstallCode, InstallDone, Flush, MayCollect, FlushReturn, Stop, ownVars,
       Emptying
  <2> QED
    BY <2>1, QuietJobs
<1>8. CASE AgeBufferedOsrJobs
  BY <1>8, AgeJobs
<1>9. CASE FlushUnblockAndSignal
  <2>1. UNCHANGED ownVars /\ main = "flushSignal" /\ main' = "flushWait"
    BY <1>9 DEF FlushUnblockAndSignal, ownVars
  <2> QED
    BY <2>1, QuietJobs
<1>10. CASE FlushQueues
  BY <1>10, FlushJobs
<1>11. CASE RunStop
  BY <1>11, StopJobs
<1>12. CASE UNCHANGED vars
  <2>1. UNCHANGED ownVars /\ main' = main
    BY <1>12 DEF vars, ownVars
  <2> QED
    BY <2>1, QuietJobs
<1> QED
  BY <1>1, <1>2, <1>3, <1>4, <1>5, <1>6, <1>7, <1>8, <1>9, <1>10, <1>11, <1>12
     DEF Next, JavaScript, AtBackEdge, EndRecompile, Install, RunFlush

\* A job that stays alive stays the job for the same closure and loop, and a
\* finished one stays finished.
LEMMA JobsKept ==
    ASSUME SignalInv, JobsInv, [Next]_vars,
           NEW j \in DOMAIN jobs, j \in DOMAIN jobs'
    PROVE  /\ jobs'[j].closure = jobs[j].closure /\ jobs'[j].loop = jobs[j].loop
           /\ jobs'[j].waiting <=> jobs[j].waiting \/ (InstallNextOsr /\ j = Head(output))
<1> USE DEF osrVars, edgeVars, bufferVars, queueVars, stopVars, mainVars, threadVars
<1>0. OwnTyped
  BY OwnTypes
<1>1. CASE InstallNextOsr
  <2> DEFINE h == Head(output)
  <2>1. output # << >> /\ jobs' = [jobs EXCEPT ![h].waiting = TRUE]
    BY <1>1 DEF InstallNextOsr
  <2>2. h \in DOMAIN jobs
    BY <1>0, <2>1, QueueTake DEF OwnTyped, JobsInv, PlacesInv, Pipeline
  <2>3. jobs[j] \in JobInfo
    BY <1>0 DEF OwnTyped
  <2> HIDE DEF h
  <2>4. CASE j = h
    <3>1. jobs'[j] = [jobs[j] EXCEPT !.waiting = TRUE]
      BY <2>1, <2>2, <2>4
    <3> QED
      BY <1>1, <2>3, <2>4, <3>1 DEF JobInfo, h
  <2>5. CASE j # h
    <3>1. jobs'[j] = jobs[j]
      BY <2>1, <2>5
    <3> QED
      BY <2>5, <3>1 DEF h
  <2> QED
    BY <2>4, <2>5
<1>2. CASE ~InstallNextOsr
  <2>1. CASE jobs' = jobs
    BY <1>2, <2>1
  <2>2. CASE \E js : jobs' = Without(js)
    <3>1. PICK js : jobs' = Without(js)
      BY <2>2
    <3>2. j \in DOMAIN jobs \ js /\ Without(js)[j] = jobs[j]
      BY <3>1, Deleted
    <3> QED
      BY <1>2, <3>1, <3>2
  <2>3. CASE \E k \in Job : QueueFunction(k) \/ QueueOsr(k)
    <3>1. jobs'[j] = jobs[j]
      BY <2>3 DEF QueueFunction, QueueOsr
    <3> QED
      BY <1>2, <3>1
  <2>4. \/ jobs' = jobs \/ (\E js : jobs' = Without(js))
        \/ \E k \in Job : QueueFunction(k) \/ QueueOsr(k)
    <3>1. CASE CompilerThread
      BY <3>1 DEF CompilerThread, ThreadWait, ThreadContinue, ThreadStop, ThreadFlush,
         CompileNextTake, CompileNextEnqueue, CompileNextRequest, FlushInputTake,
         FlushInputWait, FlushContinue, FlushSignal
    <3>2. CASE \E f \in Closure : JavaScript(f)
      BY <3>2 DEF JavaScript, AtBackEdge, MarkForConcurrentRecompilation, PatchBackEdges,
         Deoptimize, CallMarkedRefused, CallMarked, EnterOsr, RequestOsr, RefuseOsr,
         CompileOsr, AtPatchedBackEdge, TryInstallRecompiledCode
    <3>3. CASE RecompileWithoutJob \/ SignalJob \/ SpinForSlot \/ UnblockJobs \/ HandleInstallCode
      BY <3>3 DEF RecompileWithoutJob, SignalJob, SpinForSlot, UnblockJobs, HandleInstallCode
    <3>4. CASE Install
      BY <1>2, <3>4 DEF Install, InstallNextFunction, InstallDone, InstallOptimizedCode
    <3>5. CASE AgeBufferedOsrJobs \/ Flush \/ RunFlush
      BY <3>5 DEF AgeBufferedOsrJobs, Flush, RunFlush, FlushUnblockAndSignal, FlushQueues,
         FlushReturn
    <3>6. CASE Stop \/ RunStop
      BY <3>6 DEF Stop, RunStop, StopUnblockAndSignal, StopWait, StopCompileNext,
         StopInstall, StopFlushInput, StopFlushOutput, StopFlushOsrBuffer
    <3>7. CASE UNCHANGED vars
      BY <3>7 DEF vars
    <3> QED
      BY <3>1, <3>2, <3>3, <3>4, <3>5, <3>6, <3>7 DEF Next, EndRecompile
  <2> QED
    BY <2>1, <2>2, <2>3, <2>4
<1> QED
  BY <1>1, <1>2

\* The compiler thread's steps and where it holds a job.
LEMMA ThreadControl ==
    ASSUME SignalInv, JobsInv, ControlInv, CompilerThread
    PROVE  ControlInv'
<1> USE DEF osrVars, edgeVars, bufferVars, queueVars, stopVars, mainVars, threadVars
<1>0. OwnTyped
  BY OwnTypes
<1>1. UNCHANGED <<main, resume, installing>>
  BY DEF CompilerThread, ThreadWait, ThreadContinue, ThreadStop, ThreadFlush,
     CompileNextTake, CompileNextEnqueue, CompileNextRequest, FlushInputTake,
     FlushInputWait, FlushContinue, FlushSignal
<1>2. thread # "exited"
  BY DEF CompilerThread, ThreadWait, ThreadContinue, ThreadStop, ThreadFlush,
     CompileNextTake, CompileNextEnqueue, CompileNextRequest, FlushInputTake,
     FlushInputWait, FlushContinue, FlushSignal
<1>3. current' # NULL <=> thread' \in {"compile", "flushJob"}
  <2>1. CASE CompileNextTake \/ FlushInputTake
    <3>1. input # << >> => Head(input) \in Job
      BY <1>0, QueueTake DEF OwnTyped
    <3> QED
      BY <1>0, <2>1, <3>1 DEF OwnTyped, CompileNextTake, FlushInputTake, ControlInv, HoldersInv
  <2>2. CASE ~CompileNextTake /\ ~FlushInputTake
    BY <2>2 DEF CompilerThread, ThreadWait, ThreadContinue, ThreadStop, ThreadFlush,
       CompileNextEnqueue, CompileNextRequest, FlushInputWait, FlushContinue, FlushSignal,
       ControlInv, HoldersInv
  <2> QED
    BY <2>1, <2>2
<1>4. HoldersInv'
  BY <1>1, <1>3 DEF ControlInv, HoldersInv
<1>5. ExitInv'
  <2>1. CASE ThreadStop
    <3>1. stopThread = "STOP" /\ thread = "woken" /\ stopSem' = stopSem + 1
      BY <2>1 DEF ThreadStop
    <3>2. main \in {"stopSignal", "stopWait"} /\ stopSem = 0
      BY <3>1 DEF SignalInv, Handshake
    <3>3. installing = NULL
      BY <3>2, WhereMainIs
    <3> QED
      BY <1>1, <3>1, <3>2, <3>3 DEF ExitInv
  <2>2. CASE ~ThreadStop
    BY <1>2, <2>2 DEF CompilerThread, ThreadWait, ThreadContinue, ThreadFlush,
       CompileNextTake, CompileNextEnqueue, CompileNextRequest, FlushInputTake,
       FlushInputWait, FlushContinue, FlushSignal, ExitInv
  <2> QED
    BY <2>1, <2>2
<1>6. FlushedInv'
  <2>1. CASE main = "flushed"
    BY <2>1 DEF CompilerThread, ThreadWait, ThreadContinue, ThreadStop, ThreadFlush,
       CompileNextTake, CompileNextEnqueue, CompileNextRequest, FlushInputTake,
       FlushInputWait, FlushContinue, FlushSignal, ControlInv, FlushedInv
  <2>2. CASE main # "flushed"
    BY <1>1, <2>2 DEF FlushedInv
  <2> QED
    BY <2>1, <2>2
<1> QED
  BY <1>4, <1>5, <1>6 DEF ControlInv

\* The main thread's steps, wherever the compiler thread is: what they hold ...
LEMMA MainHolds ==
    ASSUME SignalInv, JobsInv, ControlInv, Next, ~CompilerThread
    PROVE  HoldersInv'
<1> USE DEF osrVars, edgeVars, bufferVars, queueVars, stopVars, mainVars, threadVars
<1>0. OwnTyped
  BY OwnTypes
<1>1. UNCHANGED <<thread, current>>
  <2>1. CASE \E f \in Closure : JavaScript(f)
    BY <2>1 DEF JavaScript, AtBackEdge, MarkForConcurrentRecompilation, PatchBackEdges,
       Deoptimize, CallMarkedRefused, CallMarked, EnterOsr, RequestOsr, RefuseOsr,
       CompileOsr, AtPatchedBackEdge, TryInstallRecompiledCode
  <2>2. CASE EndRecompile \/ UnblockJobs \/ HandleInstallCode \/ Install
    BY <2>2 DEF EndRecompile, RecompileWithoutJob, QueueFunction, QueueOsr, SignalJob,
       SpinForSlot, UnblockJobs, HandleInstallCode, Install, InstallNextOsr,
       InstallNextFunction, InstallDone, InstallOptimizedCode
  <2>3. CASE AgeBufferedOsrJobs \/ Flush \/ RunFlush
    BY <2>3 DEF AgeBufferedOsrJobs, Flush, RunFlush, FlushUnblockAndSignal, FlushQueues,
       FlushReturn
  <2>4. CASE Stop \/ RunStop
    BY <2>4 DEF Stop, RunStop, StopUnblockAndSignal, StopWait, StopCompileNext,
       StopInstall, StopFlushInput, StopFlushOutput, StopFlushOsrBuffer
  <2> QED
    BY <2>1, <2>2, <2>3, <2>4 DEF Next
<1>2. /\ main' = "install" \/ resume' = "install" => installing' # NULL
      /\ installing' # NULL => main' \in {"install", "spin"} \/ resume' = "install"
  <2>0. resume # "js" => main \in {"flushSignal", "flushWait", "flushed"}
    BY DEF SignalInv, RecompileHasRoom
  <2> USE DEF ControlInv, HoldersInv
  <2>1. CASE \E f \in Closure, l \in Loop : EnterOsr(f, l)
    <3>1. PICK f \in Closure, l \in Loop : EnterOsr(f, l)
      BY <2>1
    <3>2. installing' \in Buffered
      BY <3>1, TakeFromBuffer DEF SignalInv, JobsInv, PlacesInv
    <3> QED
      BY <3>1, <3>2 DEF EnterOsr, Buffered
  <2>2. CASE \E f \in Closure : \/ MarkForConcurrentRecompilation(f) \/ PatchBackEdges(f)
                                \/ Deoptimize(f) \/ CallMarkedRefused(f) \/ CallMarked(f)
                                \/ TryInstallRecompiledCode(f)
                                \/ \E l \in Loop : \/ RequestOsr(f, l) \/ RefuseOsr(f, l)
                                                   \/ CompileOsr(f, l)
    BY <2>0, <2>2 DEF MarkForConcurrentRecompilation, PatchBackEdges, Deoptimize,
       CallMarkedRefused, CallMarked, RequestOsr, RefuseOsr, CompileOsr, AtPatchedBackEdge,
       TryInstallRecompiledCode
  <2>3. CASE EndRecompile \/ UnblockJobs \/ HandleInstallCode
    BY <2>0, <2>3 DEF EndRecompile, RecompileWithoutJob, QueueFunction, QueueOsr, SignalJob,
       SpinForSlot, UnblockJobs, HandleInstallCode
  <2>4. CASE InstallNextFunction
    <3>1. Head(output) \in Job /\ installing' = Head(output)
      BY <1>0, <2>4, QueueTake DEF OwnTyped, InstallNextFunction
    <3> QED
      BY <1>0, <2>4, <3>1 DEF OwnTyped, InstallNextFunction
  <2>5. CASE InstallNextOsr \/ InstallDone \/ InstallOptimizedCode
    BY <2>0, <2>5 DEF InstallNextOsr, InstallDone, InstallOptimizedCode
  <2>6. CASE AgeBufferedOsrJobs \/ Flush
    BY <2>0, <2>6 DEF AgeBufferedOsrJobs, Flush, MayCollect
  <2>7. CASE RunFlush
    BY <2>0, <2>7 DEF RunFlush, FlushUnblockAndSignal, FlushQueues, FlushReturn
  <2>8. CASE Stop \/ RunStop
    BY <2>0, <2>8 DEF Stop, RunStop, StopUnblockAndSignal, StopWait, StopCompileNext,
       StopInstall, StopFlushInput, StopFlushOutput, StopFlushOsrBuffer
  <2> QED
    BY <2>1, <2>2, <2>3, <2>4, <2>5, <2>6, <2>7, <2>8
       DEF Next, JavaScript, AtBackEdge, Install
<1> QED
  BY <1>1, <1>2 DEF ControlInv, HoldersInv

\* ... what Stop has emptied ...
LEMMA MainExit ==
    ASSUME SignalInv, JobsInv, ControlInv, Next, ~CompilerThread, HoldersInv'
    PROVE  ExitInv'
<1> USE DEF osrVars, edgeVars, bufferVars, queueVars, stopVars, mainVars, threadVars
<1> SUFFICES ASSUME thread' = "exited" PROVE ExitInv'
  BY DEF ExitInv
<1>0. OwnTyped /\ thread = "exited"
  BY OwnTypes, ExitIsFinal
<1>1. /\ \/ main \in {"stopSignal", "stopWait"} /\ stopSem = 1
         \/ main \in {"stopQueues", "stopOsr", "stopped", "drain", "install",
                      "flushSignal", "flushWait", "spin"} /\ stopSem = 0
      /\ main \notin {"stopSignal", "stopWait", "stopQueues"} => input = << >>
      /\ main \in {"stopOsr", "stopped"} => output = << >>
      /\ main = "stopped" => Buffered = {}
      /\ installing # NULL => ~IsOsr(installing)
  BY <1>0 DEF ControlInv, ExitInv
<1>2. ~\E f \in Closure : JavaScript(f)
  BY <1>1 DEF JavaScript, AtBackEdge, MarkForConcurrentRecompilation, PatchBackEdges,
     Deoptimize, CallMarkedRefused, CallMarked, EnterOsr, RequestOsr, RefuseOsr,
     CompileOsr, AtPatchedBackEdge, TryInstallRecompiledCode
<1>3. ~(EndRecompile \/ UnblockJobs \/ HandleInstallCode \/ Stop \/ FlushQueues \/ FlushReturn)
  <2>1. ~(EndRecompile \/ UnblockJobs \/ HandleInstallCode \/ Stop)
    BY <1>1 DEF EndRecompile, RecompileWithoutJob, QueueFunction, QueueOsr, SignalJob,
       SpinForSlot, UnblockJobs, HandleInstallCode, Stop
  <2>2. ~FlushQueues /\ ~FlushReturn
    BY <1>1 DEF FlushQueues, FlushReturn
  <2> QED
    BY <2>1, <2>2
<1>4. Install \/ AgeBufferedOsrJobs \/ Flush \/ FlushUnblockAndSignal \/ RunStop
  BY <1>2, <1>3 DEF Next, RunFlush
<1>5. ASSUME installing' = installing, installing # NULL PROVE ~IsOsr(installing)'
  <2>1. installing \in DOMAIN jobs
    BY <1>5 DEF JobsInv, PlacesInv, Pipeline
  <2>2. JobsInv'
    BY JobsStep
  <2>3. installing \in DOMAIN jobs'
    BY <1>5, <2>2 DEF JobsInv, PlacesInv, Pipeline
  <2>4. jobs'[installing].loop = jobs[installing].loop
    BY <2>1, <2>3, JobsKept
  <2> QED
    BY <1>1, <1>5, <2>4 DEF IsOsr
<1>6. ASSUME installing' # NULL PROVE ~IsOsr(installing)'
  <2>1. CASE InstallNextFunction
    BY <2>1 DEF InstallNextFunction, IsOsr
  <2>2. CASE ~InstallNextFunction
    <3>1. installing' = installing \/ installing' = NULL
      BY <1>4, <2>2 DEF Install, InstallNextOsr, InstallDone, InstallOptimizedCode,
         AgeBufferedOsrJobs, Flush, FlushUnblockAndSignal, RunStop, StopUnblockAndSignal,
         StopWait, StopCompileNext, StopInstall, StopFlushInput, StopFlushOutput,
         StopFlushOsrBuffer
    <3> QED
      BY <1>5, <1>6, <3>1
  <2> QED
    BY <2>1, <2>2
<1>7. CASE Install
  <2>1. ~(InstallOptimizedCode /\ IsOsr(installing))
    BY <1>1 DEF InstallOptimizedCode, ControlInv, HoldersInv
  <2>2. main \in {"drain", "install"} /\ stopSem = 0 /\ input = << >>
    BY <1>1, <1>7 DEF Install, InstallNextOsr, InstallNextFunction, InstallDone,
       InstallOptimizedCode
  <2>3. /\ main' \in {"drain", "install", "stopOsr"} /\ UNCHANGED <<stopSem, input>>
        /\ main' = "stopOsr" => output' = << >>
    BY <1>0, <1>7, <2>1, <2>2 DEF Install, InstallNextOsr, InstallNextFunction, InstallDone,
       InstallOptimizedCode
  <2> QED
    BY <1>6, <2>2, <2>3 DEF ExitInv
<1>8. CASE AgeBufferedOsrJobs \/ Flush \/ FlushUnblockAndSignal
  <2>1. /\ main \in {"install", "flushSignal"} /\ stopSem = 0 /\ input = << >>
        /\ main' \in {"install", "spin", "flushSignal", "flushWait"}
        /\ UNCHANGED <<stopSem, input>>
    BY <1>1, <1>8 DEF AgeBufferedOsrJobs, Flush, FlushUnblockAndSignal, MayCollect
  <2> QED
    BY <1>6, <2>1 DEF ExitInv
<1>9. CASE RunStop
  <2>1. CASE StopUnblockAndSignal \/ StopWait
    <3>1. /\ main \in {"stopSignal", "stopWait"} /\ stopSem = 1
          /\ \/ main' = "stopWait" /\ stopSem' = 1
             \/ main' = "stopQueues" /\ stopSem' = 0
      BY <1>1, <2>1 DEF StopUnblockAndSignal, StopWait
    <3> QED
      BY <1>6, <3>1 DEF ExitInv
  <2>2. CASE \/ StopCompileNext \/ StopInstall \/ StopFlushInput \/ StopFlushOutput
             \/ StopFlushOsrBuffer
    <3>1. main \in {"stopQueues", "stopOsr"} /\ stopSem = 0 /\ stopSem' = 0
      BY <1>1, <2>2 DEF StopCompileNext, StopInstall, StopFlushInput, StopFlushOutput,
         StopFlushOsrBuffer
    <3>2. /\ main' \in {"stopQueues", "drain", "stopOsr", "stopped"}
          /\ main' # "stopQueues" => input' = << >>
          /\ main' \in {"stopOsr", "stopped"} => output' = << >>
      BY <1>1, <2>2 DEF StopCompileNext, StopInstall, StopFlushInput, StopFlushOutput,
         StopFlushOsrBuffer
    <3>3. main' = "stopped" => Buffered' = {}
      BY <2>2, <3>1 DEF StopCompileNext, StopInstall, StopFlushInput, StopFlushOutput,
         StopFlushOsrBuffer, Buffered
    <3> QED
      BY <1>6, <3>1, <3>2, <3>3 DEF ExitInv
  <2> QED
    BY <1>9, <2>1, <2>2 DEF RunStop
<1> QED
  BY <1>4, <1>7, <1>8, <1>9

\* ... and what Flush has.
LEMMA MainFlushed ==
    ASSUME SignalInv, JobsInv, ControlInv, Next, ~CompilerThread
    PROVE  FlushedInv'
<1> USE DEF osrVars, edgeVars, bufferVars, queueVars, stopVars, mainVars, threadVars
<1>1. CASE FlushQueues
  BY <1>1, FlushJobs DEF FlushedInv
<1>2. CASE ~FlushQueues
  <2>0. resume # "flushed"
    BY DEF SignalInv, TypeOK
  <2>1. main' # "flushed"
    <3>1. CASE \E f \in Closure : JavaScript(f)
      BY <3>1 DEF JavaScript, AtBackEdge, MarkForConcurrentRecompilation, PatchBackEdges,
         Deoptimize, CallMarkedRefused, CallMarked, EnterOsr, RequestOsr, RefuseOsr,
         CompileOsr, AtPatchedBackEdge, TryInstallRecompiledCode
    <3>2. CASE EndRecompile \/ UnblockJobs \/ HandleInstallCode \/ Install
      BY <3>2 DEF EndRecompile, RecompileWithoutJob, QueueFunction, QueueOsr, SignalJob,
         SpinForSlot, UnblockJobs, HandleInstallCode, Install, InstallNextOsr,
         InstallNextFunction, InstallDone, InstallOptimizedCode
    <3>3. CASE AgeBufferedOsrJobs \/ Flush \/ RunFlush
      BY <1>2, <2>0, <3>3 DEF AgeBufferedOsrJobs, Flush, MayCollect, RunFlush,
         FlushUnblockAndSignal, FlushReturn
    <3>4. CASE Stop \/ RunStop
      BY <3>4 DEF Stop, RunStop, StopUnblockAndSignal, StopWait, StopCompileNext,
         StopInstall, StopFlushInput, StopFlushOutput, StopFlushOsrBuffer
    <3> QED
      BY <3>1, <3>2, <3>3, <3>4 DEF Next
  <2> QED
    BY <2>1 DEF FlushedInv
<1> QED
  BY <1>1, <1>2

\* Where the compiler thread is fits its flag and its exit.
LEMMA ControlStep ==
    ASSUME SignalInv, JobsInv, ControlInv, [Next]_vars
    PROVE  ControlInv'
<1>1. CASE CompilerThread
  BY <1>1, ThreadControl
<1>2. CASE Next /\ ~CompilerThread
  BY <1>2, MainHolds, MainExit, MainFlushed DEF ControlInv
<1>3. CASE UNCHANGED vars
  BY <1>3 DEF vars, osrVars, edgeVars, bufferVars, queueVars, stopVars, mainVars, threadVars,
     ControlInv, HoldersInv, ExitInv, FlushedInv, Buffered, IsOsr
<1> QED
  BY <1>1, <1>2, <1>3

OwnershipInv == SignalInv /\ JobsInv /\ ControlInv

\* At the start there are no jobs.
LEMMA OwnershipInit == Init => JobsInv /\ ControlInv
<1> SUFFICES ASSUME Init PROVE JobsInv /\ ControlInv
  OBVIOUS
<1>1. /\ input = << >> /\ output = << >> /\ current = NULL /\ installing = NULL
      /\ DOMAIN jobs = {} /\ main = "js" /\ thread = "wait" /\ resume = "js"
      /\ osrBuffer = [i \in Slot |-> NULL]
  BY DEF Init
<1>2. Pipeline = {} /\ Buffered = {} /\ BufferDistinct
  BY <1>1, QueueEmpty DEF Pipeline, Buffered, BufferDistinct
<1>3. PlacesInv
  BY <1>1, <1>2, QueueEmpty DEF PlacesInv
<1>4. KindsInv /\ LeftoverInv
  BY <1>1 DEF KindsInv, LeftoverInv
<1>5. ControlInv
  BY <1>1 DEF ControlInv, HoldersInv, ExitInv, FlushedInv
<1> QED
  BY <1>3, <1>4, <1>5 DEF JobsInv

\* Each job has one owner, in every reachable state.
LEMMA OwnershipInvariant == Spec => []OwnershipInv
<1>1. Init => JobsInv /\ ControlInv
  BY OwnershipInit
<1>2. SignalInv /\ JobsInv /\ ControlInv /\ [Next]_vars => JobsInv' /\ ControlInv'
  BY JobsStep, ControlStep
<1>3. OwnershipInv <=> SignalInv /\ JobsInv /\ ControlInv
  BY DEF OwnershipInv
<1> QED
  BY <1>1, <1>2, <1>3, SignalInvariant, PTL DEF Spec

\* Ownership says that every job is in one place.
LEMMA JobsAreAccounted == OwnershipInv => JobsAccounted
<1> SUFFICES ASSUME OwnershipInv PROVE JobsAccounted
  OBVIOUS
<1>0. OwnTyped /\ SignalInv /\ JobsInv /\ ControlInv
  BY OwnTypes DEF OwnershipInv
<1>1. /\ IsFiniteSet(Range(input)) /\ Cardinality(Range(input)) = Len(input)
      /\ IsFiniteSet(Range(output)) /\ Cardinality(Range(output)) = Len(output)
      /\ Len(input) \in Nat /\ Len(output) \in Nat
  BY <1>0, QueueCount, LenProperties DEF JobsInv, PlacesInv, OwnTyped
<1> DEFINE C == {current} \ {NULL}
           I == {installing} \ {NULL}
<1>2. /\ IsFiniteSet(C) /\ Cardinality(C) \in Nat
      /\ IsFiniteSet(I) /\ Cardinality(I) \in Nat
  BY FS_Singleton, FS_Difference, FS_CardinalityType
<1>3. /\ Range(input) \cap Range(output) = {}
      /\ C \cap I = {} /\ (Range(input) \cup Range(output)) \cap (C \cup I) = {}
      /\ Pipeline = (Range(input) \cup Range(output)) \cup (C \cup I)
  BY <1>0 DEF JobsInv, PlacesInv, Pipeline
<1> HIDE DEF C, I
<1> DEFINE Q == Range(input) \cup Range(output)
           H == C \cup I
<1>4. IsFiniteSet(Q) /\ Cardinality(Q) = Len(input) + Len(output)
  <2>1. Cardinality(Q) = Cardinality(Range(input)) + Cardinality(Range(output))
                            - Cardinality(Range(input) \cap Range(output))
    BY <1>1, FS_Union
  <2>2. Cardinality(Range(input) \cap Range(output)) = 0
    BY <1>3, FS_EmptySet
  <2>3. IsFiniteSet(Q)
    BY <1>1, FS_Union
  <2> HIDE DEF Q
  <2> QED
    BY <1>1, <2>1, <2>2, <2>3
<1>5. IsFiniteSet(H) /\ Cardinality(H) = Cardinality(C) + Cardinality(I)
  <2>1. Cardinality(H) = Cardinality(C) + Cardinality(I) - Cardinality(C \cap I)
    BY <1>2, FS_Union
  <2>2. Cardinality(C \cap I) = 0
    BY <1>3, FS_EmptySet
  <2>3. IsFiniteSet(H)
    BY <1>2, FS_Union
  <2> HIDE DEF H
  <2> QED
    BY <1>2, <2>1, <2>2, <2>3
<1>6. Q \cap H = {} /\ Pipeline = Q \cup H
  BY <1>3
<1> HIDE DEF Q, H
<1>7. Cardinality(Pipeline) = Cardinality(Q) + Cardinality(H) - Cardinality({})
  BY <1>4, <1>5, <1>6, FS_Union
<1>8. Cardinality(Pipeline) =
          Len(input) + Len(output) + Cardinality(C) + Cardinality(I)
  BY <1>1, <1>2, <1>4, <1>5, <1>7, FS_EmptySet
<1>9. \A j \in DOMAIN jobs :
          /\ j \in Buffered <=> IsOsr(j) /\ j # installing
          /\ j \notin Pipeline =>
                IsWaiting(j) \/ main \in {"flushSignal", "flushWait", "stopQueues", "stopOsr"}
          /\ IsWaiting(j) => IsOsr(j) /\ j \notin Pipeline \ {installing}
  BY <1>0 DEF JobsInv, KindsInv, LeftoverInv
<1> QED
  BY <1>0, <1>8, <1>9 DEF JobsAccounted, JobsInv, PlacesInv, BufferDistinct, C, I

\* Every live job has exactly one owner among the queues and the two threads
\* or, while it is for on-stack replacement, the buffer; nobody holds a job
\* that Flush, Stop, an installation or an eviction has deleted.
THEOREM JobsAccountedTheorem == Spec => []JobsAccounted
  BY OwnershipInvariant, JobsAreAccounted, PTL

-------------------------------------------------------------------------------
(* No function is left in the recompile queue                              *)

\* From here on Stop throws jobs away without restoring their functions.
Discarding == \/ main = "stopQueues" /\ ~Delay
              \/ main \in {"stopOsr", "stopped"}

\* A function in the recompile queue has a job for all of it.
QueuedInv ==
    \A f \in Closure :
        code[f] = "inqueue" /\ ~Discarding =>
            \E j \in DOMAIN jobs : ~IsOsr(j) /\ jobs[j].closure = f

\* Jobs are discarded in a flush or a stop, for as long as it takes.
LEMMA DiscardingStays ==
    ASSUME Discarding, [Next]_vars PROVE Discarding'
<1> USE DEF osrVars, edgeVars, bufferVars, queueVars, stopVars, mainVars, threadVars
<1>1. CASE CompilerThread
  BY <1>1 DEF CompilerThread, ThreadWait, ThreadContinue, ThreadStop, ThreadFlush,
     CompileNextTake, CompileNextEnqueue, CompileNextRequest, FlushInputTake,
     FlushInputWait, FlushContinue, FlushSignal, Discarding
<1>2. CASE \E f \in Closure : JavaScript(f)
  BY <1>2 DEF JavaScript, AtBackEdge, MarkForConcurrentRecompilation, PatchBackEdges,
     Deoptimize, CallMarkedRefused, CallMarked, EnterOsr, RequestOsr, RefuseOsr,
     CompileOsr, AtPatchedBackEdge, TryInstallRecompiledCode, Discarding
<1>3. CASE EndRecompile \/ UnblockJobs \/ HandleInstallCode \/ Install
  BY <1>3 DEF EndRecompile, RecompileWithoutJob, QueueFunction, QueueOsr, SignalJob,
     SpinForSlot, UnblockJobs, HandleInstallCode, Install, InstallNextOsr,
     InstallNextFunction, InstallDone, InstallOptimizedCode, Discarding
<1>4. CASE AgeBufferedOsrJobs \/ Flush \/ RunFlush
  BY <1>4 DEF AgeBufferedOsrJobs, Flush, MayCollect, RunFlush, FlushUnblockAndSignal,
     FlushQueues, FlushReturn, Discarding
<1>5. CASE Stop \/ RunStop
  BY <1>5 DEF Stop, RunStop, StopUnblockAndSignal, StopWait, StopCompileNext,
     StopInstall, StopFlushInput, StopFlushOutput, StopFlushOsrBuffer, Discarding
<1>6. CASE UNCHANGED vars
  BY <1>6 DEF vars, Discarding
<1> QED
  BY <1>1, <1>2, <1>3, <1>4, <1>5, <1>6 DEF Next

\* Who deletes the job of a whole function replaces or restores its code.
LEMMA DeletedIsRestored ==
    ASSUME OwnershipInv, [Next]_vars, ~Discarding',
           NEW j \in DOMAIN jobs, j \notin DOMAIN jobs', ~IsOsr(j)
    PROVE  code'[jobs[j].closure] # "inqueue"
<1> USE DEF osrVars, edgeVars, bufferVars, queueVars, stopVars, mainVars, threadVars
<1>0. /\ OwnTyped /\ SignalInv /\ JobsInv /\ ControlInv
      /\ DOMAIN code = Closure /\ jobs[j].closure \in Closure
  BY OwnTypes DEF OwnershipInv, SignalInv, TypeOK, JobInfo
<1>1. ~(jobs' = jobs) /\ j \notin Buffered
  BY <1>0 DEF JobsInv, KindsInv
<1>2. CASE CompilerThread
  <2>1. FlushInputWait
    BY <1>1, <1>2 DEF CompilerThread, ThreadWait, ThreadContinue, ThreadStop, ThreadFlush,
       CompileNextTake, CompileNextEnqueue, CompileNextRequest, FlushInputTake,
       FlushContinue, FlushSignal
  <2>2. RestoreCode({current}) /\ jobs' = Without({current}) /\ ~IsOsr(current)
    BY <1>1, <2>1 DEF FlushInputWait
  <2>3. j = current
    BY <2>2, Deleted
  <2> QED
    BY <1>0, <2>2, <2>3 DEF RestoreCode
<1>3. CASE \E f \in Closure : JavaScript(f)
  BY <1>1, <1>3 DEF JavaScript, AtBackEdge, MarkForConcurrentRecompilation, PatchBackEdges,
     Deoptimize, CallMarkedRefused, CallMarked, EnterOsr, RequestOsr, RefuseOsr,
     CompileOsr, AtPatchedBackEdge, TryInstallRecompiledCode
<1>4. CASE EndRecompile
  <2>1. PICK k \in Job : QueueFunction(k) \/ QueueOsr(k)
    BY <1>1, <1>4 DEF EndRecompile, RecompileWithoutJob, SignalJob, SpinForSlot
  <2>2. CASE QueueFunction(k)
    BY <2>2 DEF QueueFunction
  <2>3. CASE QueueOsr(k)
    <3>1. FreeSteps # {} /\ PutInOsrBuffer(k) /\ k \notin DOMAIN jobs
          /\ DOMAIN jobs' = (DOMAIN jobs \ Evicted) \cup {k}
      BY <2>3 DEF QueueOsr
    <3>2. k \notin Buffered
      BY <1>0, <3>1 DEF JobsInv, PlacesInv
    <3>3. Evicted \subseteq Buffered
      BY <1>0, <3>1, <3>2, PutInBuffer DEF SignalInv, JobsInv, PlacesInv
    <3> QED
      BY <1>1, <3>1, <3>3
  <2> QED
    BY <2>1, <2>2, <2>3
<1>5. CASE UnblockJobs \/ HandleInstallCode
  BY <1>1, <1>5 DEF UnblockJobs, HandleInstallCode
<1>6. CASE Install
  <2>1. CASE InstallOptimizedCode
    <3>1. jobs' = Without({installing})
      BY <2>1 DEF InstallOptimizedCode
    <3>2. j = installing
      BY <3>1, Deleted
    <3>3. PICK c \in {"optimized", "full"} : code' = [code EXCEPT ![jobs[installing].closure] = c]
      BY <2>1 DEF InstallOptimizedCode
    <3> QED
      BY <1>0, <3>2, <3>3
  <2>2. CASE InstallNextOsr
    <3>1. DOMAIN jobs' = DOMAIN jobs
      BY <2>2 DEF InstallNextOsr
    <3> QED
      BY <3>1
  <2> QED
    BY <1>1, <1>6, <2>1, <2>2 DEF Install, InstallNextFunction, InstallDone
<1>7. CASE AgeBufferedOsrJobs
  <2>1. FreeSteps # {} /\ jobs' = Without(Evicted)
    BY <1>1, <1>7 DEF AgeBufferedOsrJobs
  <2>2. j \in Evicted
    BY <2>1, Deleted
  <2>3. j \in Buffered
    <3>1. FoundSlot \in Slot
      BY <1>0, <2>1, FoundSlotFree DEF SignalInv
    <3> QED
      BY <2>2, <3>1 DEF Evicted, Buffered
  <2> QED
    BY <1>1, <2>3
<1>8. CASE Flush \/ FlushUnblockAndSignal \/ FlushReturn
  BY <1>1, <1>8 DEF Flush, FlushUnblockAndSignal, FlushReturn
<1>9. CASE FlushQueues
  <2> DEFINE functions == {i \in Range(output) : ~IsOsr(i)}
  <2>1. RestoreCode(functions) /\ jobs' = Without(functions \cup Buffered)
    BY <1>9 DEF FlushQueues
  <2>2. j \in functions
    BY <1>1, <2>1, Deleted
  <2> QED
    BY <1>0, <2>1, <2>2 DEF RestoreCode
<1>10. CASE Stop \/ RunStop
  BY <1>1, <1>10 DEF Stop, RunStop, StopUnblockAndSignal, StopWait, StopCompileNext,
     StopInstall, StopFlushInput, StopFlushOutput, StopFlushOsrBuffer, Discarding
<1>11. CASE UNCHANGED vars
  BY <1>1, <1>11 DEF vars
<1> QED
  BY <1>2, <1>3, <1>4, <1>5, <1>6, <1>7, <1>8, <1>9, <1>10, <1>11 DEF Next, RunFlush

\* Only QueueForOptimization puts a function in the recompile queue.
LEMMA NewlyQueued ==
    ASSUME OwnershipInv, [Next]_vars, NEW f \in Closure,
           code'[f] = "inqueue", code[f] # "inqueue"
    PROVE  \E j \in DOMAIN jobs' : ~IsOsr(j)' /\ jobs'[j].closure = f
<1> USE DEF osrVars, edgeVars, bufferVars, queueVars, stopVars, mainVars, threadVars
<1>0. code \in [Closure -> {"full", "marked", "inqueue", "optimized"}]
  BY DEF OwnershipInv, SignalInv, TypeOK
<1>1. CASE CompilerThread
  BY <1>0, <1>1 DEF CompilerThread, ThreadWait, ThreadContinue, ThreadStop, ThreadFlush,
     CompileNextTake, CompileNextEnqueue, CompileNextRequest, FlushInputTake,
     FlushInputWait, FlushContinue, FlushSignal, RestoreCode
<1>2. CASE \E g \in Closure : JavaScript(g)
  BY <1>0, <1>2 DEF JavaScript, AtBackEdge, MarkForConcurrentRecompilation, PatchBackEdges,
     Deoptimize, CallMarkedRefused, CallMarked, EnterOsr, RequestOsr, RefuseOsr,
     CompileOsr, AtPatchedBackEdge, TryInstallRecompiledCode
<1>3. CASE \E j \in Job : QueueFunction(j)
  <2>1. PICK j \in Job : QueueFunction(j)
    BY <1>3
  <2>2. f = request.closure
    BY <1>0, <2>1 DEF QueueFunction
  <2>3. j \in DOMAIN jobs' /\ jobs'[j].loop = NULL /\ jobs'[j].closure = f
    BY <2>1, <2>2 DEF QueueFunction
  <2> QED
    BY <2>3 DEF IsOsr
<1>4. CASE RecompileWithoutJob
  <2> DEFINE g == request.closure
  <2>1. \/ code' = code \/ code' = [code EXCEPT ![g] = "full"]
        \/ code' = [code EXCEPT ![g] = "optimized"]
    BY <1>4 DEF RecompileWithoutJob
  <2> QED
    BY <1>0, <2>1
<1>5. CASE SignalJob \/ SpinForSlot \/ UnblockJobs \/ HandleInstallCode
  BY <1>0, <1>5 DEF SignalJob, SpinForSlot, UnblockJobs, HandleInstallCode
<1>6. CASE \E j \in Job : QueueOsr(j)
  <2>1. code' = code \/ code' = [code EXCEPT ![request.closure] = "full"]
    BY <1>6 DEF QueueOsr
  <2> QED
    BY <1>0, <2>1
<1>7. CASE Install
  <2>1. \/ code' = code
        \/ \E c \in {"optimized", "full"} : code' = [code EXCEPT ![jobs[installing].closure] = c]
    BY <1>7 DEF Install, InstallNextOsr, InstallNextFunction, InstallDone, InstallOptimizedCode
  <2> QED
    BY <1>0, <2>1
<1>8. CASE AgeBufferedOsrJobs \/ Flush \/ RunFlush
  BY <1>0, <1>8 DEF AgeBufferedOsrJobs, Flush, RunFlush, FlushUnblockAndSignal, FlushQueues,
     FlushReturn, RestoreCode
<1>9. CASE Stop \/ RunStop
  BY <1>0, <1>9 DEF Stop, RunStop, StopUnblockAndSignal, StopWait, StopCompileNext,
     StopInstall, StopFlushInput, StopFlushOutput, StopFlushOsrBuffer
<1>10. CASE UNCHANGED vars
  BY <1>10 DEF vars
<1> QED
  BY <1>1, <1>2, <1>3, <1>4, <1>5, <1>6, <1>7, <1>8, <1>9, <1>10 DEF Next, EndRecompile

\* Every step preserves QueuedInv.
LEMMA QueuedStep ==
    ASSUME OwnershipInv, QueuedInv, [Next]_vars
    PROVE  QueuedInv'
<1> SUFFICES ASSUME NEW f \in Closure, code'[f] = "inqueue", ~Discarding'
             PROVE  \E j \in DOMAIN jobs' : ~IsOsr(j)' /\ jobs'[j].closure = f
  BY DEF QueuedInv, IsOsr
<1>1. CASE code[f] # "inqueue"
  BY <1>1, NewlyQueued
<1>2. CASE code[f] = "inqueue"
  <2>1. PICK j \in DOMAIN jobs : ~IsOsr(j) /\ jobs[j].closure = f
    BY <1>2, DiscardingStays DEF QueuedInv
  <2>2. j \in DOMAIN jobs'
    BY <2>1, DeletedIsRestored
  <2>3. jobs'[j].closure = f /\ jobs'[j].loop = jobs[j].loop
    BY <2>1, <2>2, JobsKept DEF OwnershipInv
  <2> QED
    BY <2>1, <2>2, <2>3 DEF IsOsr
<1> QED
  BY <1>1, <1>2

\* QueuedInv holds always.
LEMMA QueuedInvariant == Spec => []QueuedInv
<1>1. Init => QueuedInv
  BY DEF Init, QueuedInv
<1>2. OwnershipInv /\ QueuedInv /\ [Next]_vars => QueuedInv'
  BY QueuedStep
<1> QED
  BY <1>1, <1>2, OwnershipInvariant, PTL DEF Spec

\* A closure in the queue has a job that will take it out.
LEMMA NoneStranded == OwnershipInv /\ QueuedInv => NoStrandedFunction
<1> SUFFICES ASSUME OwnershipInv, QueuedInv, NEW f \in Closure, code[f] = "inqueue",
                    main \notin {"stopQueues", "stopOsr", "stopped"}
             PROVE  \E j \in Pipeline : ~IsOsr(j) /\ jobs[j].closure = f
  BY DEF NoStrandedFunction
<1>1. PICK j \in DOMAIN jobs : ~IsOsr(j) /\ jobs[j].closure = f
  BY DEF QueuedInv, Discarding
<1>2. j \in Pipeline
  BY <1>1 DEF OwnershipInv, JobsInv, PlacesInv, KindsInv
<1> QED
  BY <1>1, <1>2

\* A function whose code is the InRecompileQueue builtin has a job that will
\* restore or replace it, until Stop throws the jobs away.
THEOREM NoStrandedFunctionTheorem == Spec => []NoStrandedFunction
  BY OwnershipInvariant, QueuedInvariant, NoneStranded, PTL

\* When the flush or stop is over, so are its jobs.
LEMMA NothingIsLeft == OwnershipInv /\ QueuedInv => NothingLeftBehind
<1> SUFFICES ASSUME OwnershipInv, QueuedInv PROVE NothingLeftBehind
  OBVIOUS
<1>0. SignalInv /\ JobsInv /\ ControlInv /\ OwnTyped
  BY OwnTypes DEF OwnershipInv
<1>1. ASSUME main = "flushed"
      PROVE  /\ input = << >> /\ output = << >> /\ Buffered = {}
             /\ DOMAIN jobs = {installing} \ {NULL}
             /\ inputSem = 0 /\ stopSem = 0 /\ blockedJobs = 0
             /\ thread = "wait" /\ stopThread = "CONTINUE"
             /\ \A f \in Closure : code[f] = "inqueue" =>
                    installing # NULL /\ jobs[installing].closure = f
  <2>1. input = << >> /\ output = << >> /\ Buffered = {} /\ thread = "wait" /\ inputSem = 0
    BY <1>0, <1>1 DEF ControlInv, FlushedInv
  <2>2. stopThread = "CONTINUE" /\ stopSem = 0
    BY <1>0, <1>1, <2>1 DEF SignalInv, Handshake
  <2>3. blockedJobs = 0
    <3>1. Len(input) = 0 /\ blockedJobs \in Nat
      BY <1>0, <2>1 DEF SignalInv, TypeOK
    <3> QED
      BY <1>0, <1>1, <2>1, <2>2, <3>1 DEF SignalInv, SignalsMatch, Flushing, One
  <2>4. current = NULL
    BY <1>0, <2>1 DEF ControlInv, HoldersInv
  <2>5. DOMAIN jobs = {installing} \ {NULL}
    BY <1>0, <2>1, <2>4, QueueEmpty DEF JobsInv, PlacesInv, Pipeline
  <2>6. ASSUME NEW f \in Closure, code[f] = "inqueue"
        PROVE  installing # NULL /\ jobs[installing].closure = f
    <3>1. PICK j \in DOMAIN jobs : jobs[j].closure = f
      BY <1>1, <2>6 DEF QueuedInv, Discarding
    <3> QED
      BY <2>5, <3>1
  <2> QED
    BY <2>1, <2>2, <2>3, <2>5, <2>6
<1>2. ASSUME main = "stopped"
      PROVE  /\ input = << >> /\ output = << >> /\ Buffered = {}
             /\ DOMAIN jobs = {} /\ thread = "exited"
  <2>1. thread = "exited" /\ current = NULL /\ installing = NULL
    BY <1>0, <1>2, WhereMainIs
  <2>2. input = << >> /\ output = << >> /\ Buffered = {}
    BY <1>0, <1>2, <2>1 DEF ControlInv, ExitInv
  <2>3. DOMAIN jobs = {}
    BY <1>0, <2>1, <2>2, QueueEmpty DEF JobsInv, PlacesInv, Pipeline
  <2> QED
    BY <2>1, <2>2, <2>3
<1> QED
  BY <1>1, <1>2 DEF NothingLeftBehind

\* When Flush returns and when Stop has returned the queues, the buffer and
\* the semaphores are empty, and no job has leaked.
THEOREM NothingLeftBehindTheorem == Spec => []NothingLeftBehind
  BY OwnershipInvariant, QueuedInvariant, NothingIsLeft, PTL

-------------------------------------------------------------------------------
(* Finished jobs are noticed                                               *)

\* Every step preserves NoLostInstallRequest.
LEMMA InstallRequestStep ==
    ASSUME OwnershipInv, NoLostInstallRequest, [Next]_vars
    PROVE  NoLostInstallRequest'
<1> USE DEF osrVars, edgeVars, bufferVars, queueVars, stopVars, mainVars, threadVars
<1>0. OwnTyped /\ SignalInv /\ JobsInv /\ ControlInv
  BY OwnTypes DEF OwnershipInv
<1>1. CASE thread' = "exited"
  BY <1>1 DEF NoLostInstallRequest
<1> SUFFICES ASSUME thread' # "exited" PROVE NoLostInstallRequest'
  BY <1>1
<1>2. ASSUME installing # NULL, ~IsOsr(installing), installing' = installing
      PROVE  ~IsOsr(installing)'
  <2>1. installing \in DOMAIN jobs
    BY <1>0, <1>2 DEF JobsInv, PlacesInv, Pipeline
  <2>2. JobsInv'
    BY <1>0, JobsStep
  <2>3. installing \in DOMAIN jobs'
    BY <1>2, <2>2 DEF JobsInv, PlacesInv, Pipeline
  <2>4. jobs'[installing].loop = jobs[installing].loop
    BY <1>0, <2>1, <2>3, JobsKept
  <2> QED
    BY <1>2, <2>4 DEF IsOsr
<1>3. CASE CompilerThread
  <2>1. UNCHANGED <<main, installing>>
    BY <1>3 DEF CompilerThread, ThreadWait, ThreadContinue, ThreadStop, ThreadFlush,
       CompileNextTake, CompileNextEnqueue, CompileNextRequest, FlushInputTake,
       FlushInputWait, FlushContinue, FlushSignal
  <2>2. CASE CompileNextEnqueue
    BY <2>2 DEF CompileNextEnqueue, NoLostInstallRequest
  <2>3. CASE CompileNextRequest
    BY <2>3 DEF CompileNextRequest, NoLostInstallRequest
  <2>4. CASE ~CompileNextEnqueue /\ ~CompileNextRequest
    <3>1. UNCHANGED <<output, installFlag>> /\ thread # "request" /\ thread # "exited"
      BY <1>3, <2>4 DEF CompilerThread, ThreadWait, ThreadContinue, ThreadStop, ThreadFlush,
         CompileNextTake, FlushInputTake, FlushInputWait, FlushContinue, FlushSignal
    <3> QED
      BY <1>2, <2>1, <3>1 DEF NoLostInstallRequest
  <2> QED
    BY <2>2, <2>3, <2>4
<1>4. ASSUME Next, ~CompilerThread PROVE thread' = thread /\ thread # "exited"
  BY <1>4, ExitIsFinal
<1>5. ASSUME UNCHANGED <<output, installFlag, thread, installing>>, main # "drain",
             thread # "exited"
      PROVE  NoLostInstallRequest'
  BY <1>2, <1>5 DEF NoLostInstallRequest
<1>6. CASE ~CompilerThread /\ \E f \in Closure : JavaScript(f)
  <2>1. CASE \E f \in Closure, l \in Loop : EnterOsr(f, l)
    <3>1. main = "js" /\ UNCHANGED <<output, installFlag, thread>>
      BY <2>1 DEF EnterOsr, AtPatchedBackEdge
    <3>2. installing = NULL
      BY <1>0, <3>1, WhereMainIs
    <3> QED
      BY <1>4, <1>6, <3>1, <3>2 DEF Next, NoLostInstallRequest
  <2>2. CASE ~\E f \in Closure, l \in Loop : EnterOsr(f, l)
    <3>1. main = "js" /\ UNCHANGED <<output, installFlag, thread, installing>>
      BY <1>6, <2>2 DEF JavaScript, AtBackEdge, MarkForConcurrentRecompilation, PatchBackEdges,
         Deoptimize, CallMarkedRefused, CallMarked, RequestOsr, RefuseOsr,
         CompileOsr, AtPatchedBackEdge, TryInstallRecompiledCode
    <3> QED
      BY <1>4, <1>5, <1>6, <3>1 DEF Next
  <2> QED
    BY <2>1, <2>2
<1>7. CASE ~CompilerThread /\ (EndRecompile \/ UnblockJobs)
  <2>1. main # "drain" /\ UNCHANGED <<output, installFlag, thread, installing>>
    BY <1>7 DEF EndRecompile, RecompileWithoutJob, QueueFunction, QueueOsr, SignalJob,
       SpinForSlot, UnblockJobs
  <2> QED
    BY <1>4, <1>5, <1>7, <2>1 DEF Next
<1>8. CASE HandleInstallCode
  BY <1>8 DEF HandleInstallCode, NoLostInstallRequest
<1>9. CASE ~CompilerThread /\ Install
  <2>1. CASE InstallNextOsr
    BY <2>1 DEF InstallNextOsr, NoLostInstallRequest
  <2>2. CASE InstallNextFunction
    <3>1. Head(output) # NULL
      BY <1>0, <2>2, QueueTake DEF OwnTyped, InstallNextFunction
    <3> QED
      BY <2>2, <3>1 DEF InstallNextFunction, NoLostInstallRequest, IsOsr
  <2>3. CASE InstallDone
    BY <2>3 DEF InstallDone, NoLostInstallRequest
  <2>4. CASE InstallOptimizedCode
    <3>1. thread # "exited"
      BY <1>4, <1>9 DEF Next
    <3> QED
      BY <2>4, <3>1 DEF InstallOptimizedCode, NoLostInstallRequest
  <2> QED
    BY <1>9, <2>1, <2>2, <2>3, <2>4 DEF Install
<1>10. CASE ~CompilerThread /\ (AgeBufferedOsrJobs \/ Flush)
  <2>1. main # "drain" /\ UNCHANGED <<output, installFlag, thread, installing>>
    BY <1>10 DEF AgeBufferedOsrJobs, Flush, MayCollect
  <2> QED
    BY <1>4, <1>5, <1>10, <2>1 DEF Next
<1>11. CASE ~CompilerThread /\ RunFlush
  <2>1. CASE FlushQueues
    BY <2>1 DEF FlushQueues, NoLostInstallRequest
  <2>2. CASE FlushUnblockAndSignal \/ FlushReturn
    <3>1. main # "drain" /\ UNCHANGED <<output, installFlag, thread, installing>>
      BY <2>2 DEF FlushUnblockAndSignal, FlushReturn
    <3> QED
      BY <1>4, <1>5, <1>11, <3>1 DEF Next
  <2> QED
    BY <1>11, <2>1, <2>2 DEF RunFlush
<1>12. CASE ~CompilerThread /\ (Stop \/ RunStop)
  <2>1. thread # "exited"
    BY <1>4, <1>12 DEF Next
  <2>2. main \notin {"stopQueues", "stopOsr"}
    BY <1>0, <2>1, WhereMainIs
  <2>3. main # "drain" /\ UNCHANGED <<output, installFlag, thread, installing>>
    BY <1>12, <2>2 DEF Stop, RunStop, StopUnblockAndSignal, StopWait, StopCompileNext,
       StopInstall, StopFlushInput, StopFlushOutput, StopFlushOsrBuffer
  <2> QED
    BY <1>5, <2>1, <2>3
<1>13. CASE UNCHANGED vars
  BY <1>13 DEF vars, NoLostInstallRequest, IsOsr
<1> QED
  BY <1>3, <1>6, <1>7, <1>8, <1>9, <1>10, <1>11, <1>12, <1>13 DEF Next

\* A finished job on the output queue is noticed: INSTALL_CODE is set or about
\* to be, or the main thread is emptying the queue, whatever a flush from
\* inside an installation does.
THEOREM NoLostInstallRequestTheorem == Spec => []NoLostInstallRequest
<1>1. Init => NoLostInstallRequest
  BY DEF Init, NoLostInstallRequest
<1>2. OwnershipInv /\ NoLostInstallRequest /\ [Next]_vars => NoLostInstallRequest'
  BY InstallRequestStep
<1> QED
  BY <1>1, <1>2, OwnershipInvariant, PTL DEF Spec

-------------------------------------------------------------------------------
(* On-stack replacement                                                    *)

\* One job for an entry is in the buffer at a time, ...
EntryUnique ==
    \A j, k \in Buffered :
        jobs[j].closure = jobs[k].closure /\ jobs[j].loop = jobs[k].loop => j = k

\* ... because none is while one is about to be queued; its back edge stays
\* patched meanwhile, whatever is flushed.
Requesting == (main = "recompile" \/ resume = "recompile") /\ request.loop # NULL

RequestInv ==
    Requesting =>
        /\ \A j \in Buffered : ~ /\ jobs[j].closure = request.closure
                                 /\ jobs[j].loop = request.loop
        /\ edge[SharedOf[request.closure]][request.loop] # "interrupt"

\* No back edge is patched beyond the nesting level, where Revert stops.
PatchedInv ==
    \A s \in Shared, l \in Loop : edge[s][l] # "interrupt" => DepthOf[l] <= nesting[s]

\* Who will remove a stack check.
Remover(s, l) ==
    \E j \in Buffered : /\ ~IsWaiting(j)
                        /\ SharedOf[jobs[j].closure] = s
                        /\ jobs[j].loop = l

CheckInv ==
    \A s \in Shared, l \in Loop : edge[s][l] = "check" /\ ~Stopping => Remover(s, l)

OsrInv == EntryUnique /\ RequestInv /\ PatchedInv /\ CheckInv

\* The steps that touch the buffer.
LEMMA BufferCases ==
    ASSUME [Next]_vars, ~\E j \in Job : QueueOsr(j)
    PROVE  \/ \E f \in Closure, l \in Loop : EnterOsr(f, l)
           \/ AgeBufferedOsrJobs /\ FreeSteps # {}
           \/ FlushQueues \/ StopFlushOsrBuffer
           \/ osrBuffer' = osrBuffer
<1> USE DEF osrVars, edgeVars, bufferVars, queueVars, stopVars, mainVars, threadVars
<1>1. CASE CompilerThread
  BY <1>1 DEF CompilerThread, ThreadWait, ThreadContinue, ThreadStop, ThreadFlush,
     CompileNextTake, CompileNextEnqueue, CompileNextRequest, FlushInputTake,
     FlushInputWait, FlushContinue, FlushSignal
<1>2. CASE \E f \in Closure : JavaScript(f)
  BY <1>2 DEF JavaScript, AtBackEdge, MarkForConcurrentRecompilation, PatchBackEdges,
     Deoptimize, CallMarkedRefused, CallMarked, RequestOsr, RefuseOsr,
     CompileOsr, TryInstallRecompiledCode
<1>3. CASE EndRecompile \/ UnblockJobs \/ HandleInstallCode
  BY <1>3 DEF EndRecompile, RecompileWithoutJob, QueueFunction, SignalJob,
     SpinForSlot, UnblockJobs, HandleInstallCode
<1>4. CASE Install
  BY <1>4 DEF Install, InstallNextOsr, InstallNextFunction, InstallDone, InstallOptimizedCode
<1>5. CASE AgeBufferedOsrJobs \/ Flush \/ RunFlush
  BY <1>5 DEF AgeBufferedOsrJobs, Flush, RunFlush, FlushUnblockAndSignal, FlushReturn
<1>6. CASE Stop \/ RunStop
  BY <1>6 DEF Stop, RunStop, StopUnblockAndSignal, StopWait, StopCompileNext,
     StopInstall, StopFlushInput, StopFlushOutput
<1>7. CASE UNCHANGED vars
  BY <1>7 DEF vars
<1> QED
  BY <1>1, <1>2, <1>3, <1>4, <1>5, <1>6, <1>7 DEF Next

\* The buffer only loses jobs, but for the one that is queued.
LEMMA BufferStep ==
    ASSUME OwnershipInv, [Next]_vars, ~\E j \in Job : QueueOsr(j)
    PROVE  Buffered' \subseteq Buffered
<1> USE DEF osrVars, edgeVars, bufferVars, queueVars, stopVars, mainVars, threadVars
<1>0. SignalInv /\ TypeOK /\ JobsInv /\ PlacesInv
  BY DEF OwnershipInv, SignalInv, JobsInv
<1>1. CASE \E f \in Closure, l \in Loop : EnterOsr(f, l)
  <2>1. PICK f \in Closure, l \in Loop : EnterOsr(f, l)
    BY <1>1
  <2>2. Buffered' = Buffered \ {installing'}
    BY <1>0, <2>1, TakeFromBuffer DEF PlacesInv
  <2> QED
    BY <2>2
<1>2. CASE AgeBufferedOsrJobs /\ FreeSteps # {}
  <2>1. PutInOsrBuffer(NULL) /\ NULL \notin Buffered
    BY <1>2 DEF AgeBufferedOsrJobs, Buffered
  <2>2. Buffered' = (Buffered \ Evicted) \cup ({NULL} \ {NULL})
    BY <1>0, <1>2, <2>1, PutInBuffer DEF PlacesInv
  <2> QED
    BY <2>2
<1>3. CASE FlushQueues \/ StopFlushOsrBuffer
  BY <1>3 DEF FlushQueues, StopFlushOsrBuffer, Buffered
<1>4. CASE osrBuffer' = osrBuffer
  BY <1>4 DEF Buffered
<1> QED
  BY <1>1, <1>2, <1>3, <1>4, BufferCases

\* The jobs in the buffer, before and after a step that does not queue one.
LEMMA BufferKept ==
    ASSUME OwnershipInv, [Next]_vars, ~\E j \in Job : QueueOsr(j), NEW j \in Buffered'
    PROVE  /\ j \in Buffered /\ j \in DOMAIN jobs /\ j \in DOMAIN jobs'
           /\ jobs'[j].closure = jobs[j].closure /\ jobs'[j].loop = jobs[j].loop
<1>1. j \in Buffered
  BY BufferStep
<1>2. JobsInv' /\ JobsInv /\ SignalInv
  BY JobsStep DEF OwnershipInv
<1>3. j \in DOMAIN jobs /\ j \in DOMAIN jobs'
  BY <1>1, <1>2 DEF JobsInv, PlacesInv
<1> QED
  BY <1>1, <1>2, <1>3, JobsKept

\* What AddToOsrBuffer does to the jobs in the buffer.
LEMMA QueueOsrEffect ==
    ASSUME OwnershipInv, NEW j \in Job, QueueOsr(j)
    PROVE  /\ j \notin Buffered
           /\ Buffered' = (Buffered \ Evicted) \cup {j}
           /\ \A k \in Evicted : IsWaiting(k)
           /\ \A k \in Buffered' \ {j} :
                 /\ k \in Buffered /\ k \in DOMAIN jobs
                 /\ jobs'[k] = jobs[k]
           /\ jobs'[j] = [closure |-> request.closure, loop |-> request.loop,
                          waiting |-> FALSE]
           /\ request.closure \in Closure /\ request.loop \in Loop
<1>0. OwnTyped /\ SignalInv /\ TypeOK /\ JobsInv /\ PlacesInv /\ request \in Request
  BY OwnTypes DEF OwnershipInv, SignalInv, JobsInv, RecompileHasRoom, QueueOsr
<1>1. FreeSteps # {} /\ PutInOsrBuffer(j) /\ j \notin DOMAIN jobs /\ request.loop # NULL
  BY DEF QueueOsr
<1>2. j \notin Buffered /\ j # NULL
  BY <1>0, <1>1 DEF PlacesInv, OwnTyped
<1>3. /\ Buffered' = (Buffered \ Evicted) \cup {j}
      /\ \A k \in Evicted : IsWaiting(k)
  BY <1>0, <1>1, <1>2, PutInBuffer DEF PlacesInv
<1>4. ASSUME NEW k \in Buffered' \ {j}
      PROVE  k \in Buffered /\ k \in DOMAIN jobs /\ jobs'[k] = jobs[k]
  BY <1>0, <1>3, <1>4 DEF QueueOsr, PlacesInv
<1>5. /\ jobs'[j] = [closure |-> request.closure, loop |-> request.loop, waiting |-> FALSE]
      /\ request.closure \in Closure /\ request.loop \in Loop
  BY <1>0, <1>1 DEF QueueOsr, Request
<1> QED
  BY <1>2, <1>3, <1>4, <1>5

\* While the main thread is asked for a recompilation, only a flush touches
\* back edges, and it unpatches none.
LEMMA EdgesWithoutCheckPatched ==
    ASSUME TypeOK, NEW js, NEW s \in Shared, NEW l \in Loop
    PROVE  /\ EdgesWithoutCheck(js)[s][l] # "interrupt" <=> edge[s][l] # "interrupt"
           /\ EdgesWithoutCheck(js)[s][l] = "check" =>
                 /\ edge[s][l] = "check"
                 /\ ~\E j \in js : SharedOf[jobs[j].closure] = s /\ jobs[j].loop = l
  BY DEF EdgesWithoutCheck

\* The steps that touch back edges.
LEMMA EdgeSteps ==
    ASSUME [Next]_vars
    PROVE  \/ UNCHANGED edgeVars
           \/ \E f \in Closure : PatchBackEdges(f)
           \/ \E f \in Closure, l \in Loop : RefuseOsr(f, l) \/ CompileOsr(f, l)
           \/ RecompileWithoutJob /\ request.loop # NULL
           \/ \E j \in Job : QueueOsr(j)
           \/ InstallNextOsr
           \/ InstallOptimizedCode /\ IsOsr(installing)
           \/ FlushQueues
<1> USE DEF osrVars, edgeVars, bufferVars, queueVars, stopVars, mainVars, threadVars
<1>1. CASE CompilerThread
  BY <1>1 DEF CompilerThread, ThreadWait, ThreadContinue, ThreadStop, ThreadFlush,
     CompileNextTake, CompileNextEnqueue, CompileNextRequest, FlushInputTake,
     FlushInputWait, FlushContinue, FlushSignal
<1>2. CASE \E f \in Closure : JavaScript(f)
  BY <1>2 DEF JavaScript, AtBackEdge, MarkForConcurrentRecompilation,
     Deoptimize, CallMarkedRefused, CallMarked, EnterOsr, RequestOsr, TryInstallRecompiledCode
<1>3. CASE EndRecompile \/ UnblockJobs \/ HandleInstallCode
  BY <1>3 DEF EndRecompile, RecompileWithoutJob, QueueFunction, SignalJob, SpinForSlot,
     UnblockJobs, HandleInstallCode
<1>4. CASE Install
  BY <1>4 DEF Install, InstallNextFunction, InstallDone, InstallOptimizedCode
<1>5. CASE AgeBufferedOsrJobs \/ Flush \/ RunFlush
  BY <1>5 DEF AgeBufferedOsrJobs, Flush, RunFlush, FlushUnblockAndSignal, FlushReturn
<1>6. CASE Stop \/ RunStop
  BY <1>6 DEF Stop, RunStop, StopUnblockAndSignal, StopWait, StopCompileNext,
     StopInstall, StopFlushInput, StopFlushOutput, StopFlushOsrBuffer
<1>7. CASE UNCHANGED vars
  BY <1>7 DEF vars
<1> QED
  BY <1>1, <1>2, <1>3, <1>4, <1>5, <1>6, <1>7 DEF Next

\* A job that is still being compiled stays in the buffer.
LEMMA UnfinishedStays ==
    ASSUME OwnershipInv, [Next]_vars, ~FlushQueues, ~Stopping', NEW k \in Buffered, ~IsWaiting(k),
           ~\E j \in Job : QueueOsr(j)
    PROVE  k \in Buffered'
<1>0. SignalInv /\ TypeOK /\ JobsInv /\ PlacesInv
  BY DEF OwnershipInv, SignalInv, JobsInv
<1>1. CASE \E f \in Closure, l \in Loop : EnterOsr(f, l)
  <2>1. PICK f \in Closure, l \in Loop : EnterOsr(f, l)
    BY <1>1
  <2>2. Buffered' = Buffered \ {installing'} /\ IsWaiting(installing')
    BY <1>0, <2>1, TakeFromBuffer DEF PlacesInv
  <2> QED
    BY <2>2
<1>2. CASE AgeBufferedOsrJobs /\ FreeSteps # {}
  <2>1. PutInOsrBuffer(NULL) /\ NULL \notin Buffered
    BY <1>2 DEF AgeBufferedOsrJobs, Buffered
  <2>2. /\ Buffered' = (Buffered \ Evicted) \cup ({NULL} \ {NULL})
        /\ \A i \in Evicted : IsWaiting(i)
    BY <1>0, <1>2, <2>1, PutInBuffer DEF PlacesInv
  <2> QED
    BY <2>2
<1>3. ~StopFlushOsrBuffer
  BY DEF StopFlushOsrBuffer, Stopping
<1>4. CASE osrBuffer' = osrBuffer
  BY <1>4 DEF Buffered
<1> QED
  BY <1>1, <1>2, <1>3, <1>4, BufferCases

\* Stop goes on to its end.
LEMMA StoppingStays ==
    ASSUME Stopping, OwnershipInv, [Next]_vars PROVE Stopping'
<1> USE DEF osrVars, edgeVars, bufferVars, queueVars, stopVars, mainVars, threadVars
<1>0. SignalInv /\ ControlInv
  BY DEF OwnershipInv
<1>1. CASE CompilerThread
  BY <1>1 DEF CompilerThread, ThreadWait, ThreadContinue, ThreadStop, ThreadFlush,
     CompileNextTake, CompileNextEnqueue, CompileNextRequest, FlushInputTake,
     FlushInputWait, FlushContinue, FlushSignal, Stopping
<1>2. CASE ~CompilerThread /\ Next /\ thread = "exited"
  BY <1>2, ExitIsFinal DEF Stopping
<1>3. CASE Next /\ ~CompilerThread /\ thread # "exited"
  <2>1. StopUnblockAndSignal \/ StopWait
    <3>1. main \in {"stopSignal", "stopWait"}
      BY <1>0, <1>3, WhereMainIs DEF Stopping
    <3>2. ~\E f \in Closure : JavaScript(f)
      BY <3>1 DEF JavaScript, AtBackEdge, MarkForConcurrentRecompilation, PatchBackEdges,
         Deoptimize, CallMarkedRefused, CallMarked, EnterOsr, RequestOsr, RefuseOsr,
         CompileOsr, AtPatchedBackEdge, TryInstallRecompiledCode
    <3>3. ~(EndRecompile \/ UnblockJobs \/ HandleInstallCode \/ Install)
      BY <3>1 DEF EndRecompile, RecompileWithoutJob, QueueFunction, QueueOsr, SignalJob,
         SpinForSlot, UnblockJobs, HandleInstallCode, Install, InstallNextOsr,
         InstallNextFunction, InstallDone, InstallOptimizedCode
    <3>4. ~(AgeBufferedOsrJobs \/ Flush \/ RunFlush)
      BY <3>1 DEF AgeBufferedOsrJobs, Flush, MayCollect, RunFlush, FlushUnblockAndSignal,
         FlushQueues, FlushReturn
    <3>5. ~(\/ Stop \/ StopCompileNext \/ StopInstall \/ StopFlushInput \/ StopFlushOutput
            \/ StopFlushOsrBuffer)
      BY <3>1 DEF Stop, StopCompileNext, StopInstall, StopFlushInput, StopFlushOutput,
         StopFlushOsrBuffer
    <3> QED
      BY <1>3, <3>1, <3>2, <3>3, <3>4, <3>5 DEF Next, RunStop
  <2> QED
    BY <2>1 DEF StopUnblockAndSignal, StopWait, Stopping
<1>4. CASE UNCHANGED vars
  BY <1>4 DEF vars, Stopping
<1> QED
  BY <1>1, <1>2, <1>3, <1>4

\* One job for an entry.
LEMMA EntryStep ==
    ASSUME OwnershipInv, OsrInv, [Next]_vars PROVE EntryUnique'
<1>1. CASE \E j \in Job : QueueOsr(j)
  <2>1. PICK j \in Job : QueueOsr(j)
    BY <1>1
  <2>2. \A k \in Buffered : ~ /\ jobs[k].closure = request.closure
                              /\ jobs[k].loop = request.loop
    BY <2>1 DEF OsrInv, RequestInv, Requesting, QueueOsr
  <2>3. /\ \A k \in Buffered' \ {j} : k \in Buffered /\ jobs'[k] = jobs[k]
        /\ jobs'[j].closure = request.closure /\ jobs'[j].loop = request.loop
    BY <2>1, QueueOsrEffect
  <2> QED
    BY <2>2, <2>3 DEF OsrInv, EntryUnique
<1>2. CASE ~\E j \in Job : QueueOsr(j)
  BY <1>2, BufferKept DEF OsrInv, EntryUnique
<1> QED
  BY <1>1, <1>2

\* When neither IsQueuedForOSR nor FindReadyOSRCandidate finds a job for the
\* entry, there is none.
LEMMA NoneForEntry ==
    ASSUME TypeOK, NEW f \in Closure, NEW l \in Loop, ~IsQueuedForOSR(f, l),
           ReadySlots(f, l) = {}
    PROVE  \A j \in Buffered : ~(jobs[j].closure = f /\ jobs[j].loop = l)
<1> SUFFICES ASSUME NEW j \in Buffered, jobs[j].closure = f, jobs[j].loop = l PROVE FALSE
  OBVIOUS
<1>1. SlotsOf(f, l) # {} /\ SlotsOf(f, l) \subseteq Nat
  BY DEF Buffered, SlotsOf, Slot
<1>2. \E i \in SlotsOf(f, l) : \A k \in SlotsOf(f, l) : i <= k
  BY <1>1, LeastElement
<1>3. First(SlotsOf(f, l)) \in SlotsOf(f, l)
  BY <1>2 DEF First
<1>4. IsWaiting(osrBuffer[First(SlotsOf(f, l))])
  BY <1>1 DEF IsQueuedForOSR, FirstUnfinished
<1> QED
  BY <1>3, <1>4 DEF ReadySlots

\* The entry requested has no other job.
LEMMA RequestStep ==
    ASSUME OwnershipInv, OsrInv, [Next]_vars PROVE RequestInv'
<1> USE DEF osrVars, edgeVars, bufferVars, queueVars, stopVars, mainVars, threadVars
<1>0. /\ SignalInv /\ TypeOK /\ RecompileHasRoom /\ SharedOf \in [Closure -> Shared]
  BY ConstantsAssumption DEF OwnershipInv, SignalInv
<1>1. CASE \E f \in Closure, l \in Loop : RequestOsr(f, l)
  <2>1. PICK f \in Closure, l \in Loop : RequestOsr(f, l)
    BY <1>1
  <2>2. /\ request' = [closure |-> f, loop |-> l]
        /\ UNCHANGED <<jobs, osrBuffer, edge>>
        /\ edge[SharedOf[f]][l] # "interrupt"
        /\ ~IsQueuedForOSR(f, l) /\ ReadySlots(f, l) = {}
    BY <2>1 DEF RequestOsr, AtPatchedBackEdge
  <2>3. \A j \in Buffered : ~(jobs[j].closure = f /\ jobs[j].loop = l)
    BY <1>0, <2>2, NoneForEntry
  <2> QED
    BY <2>2, <2>3 DEF RequestInv, Buffered
<1>2. CASE ~\E f \in Closure, l \in Loop : RequestOsr(f, l)
  <2> SUFFICES ASSUME Requesting' PROVE RequestInv'
    BY DEF RequestInv
  <2>1. /\ Requesting /\ request' = request /\ ~\E j \in Job : QueueOsr(j)
        /\ ~RecompileWithoutJob
        /\ main \in {"recompile", "flushSignal", "flushWait", "flushed"}
    <3>0. resume # "js" => main \in {"flushSignal", "flushWait", "flushed"}
      BY <1>0 DEF RecompileHasRoom
    <3> USE DEF Requesting
    <3>1. CASE CompilerThread
      BY <3>0, <3>1 DEF CompilerThread, ThreadWait, ThreadContinue, ThreadStop, ThreadFlush,
         CompileNextTake, CompileNextEnqueue, CompileNextRequest, FlushInputTake,
         FlushInputWait, FlushContinue, FlushSignal, QueueOsr, RecompileWithoutJob
    <3>2. ASSUME NEW f \in Closure, JavaScript(f) PROVE FALSE
      BY <1>2, <3>0, <3>2 DEF JavaScript, AtBackEdge, MarkForConcurrentRecompilation,
         PatchBackEdges, Deoptimize, CallMarkedRefused, CallMarked, EnterOsr, RefuseOsr,
         CompileOsr, AtPatchedBackEdge, TryInstallRecompiledCode
    <3>3. ~EndRecompile /\ ~UnblockJobs /\ ~HandleInstallCode
      BY <3>0 DEF EndRecompile, RecompileWithoutJob, QueueFunction, QueueOsr, SignalJob,
         SpinForSlot, UnblockJobs, HandleInstallCode
    <3>4. ~Install
      BY <3>0 DEF Install, InstallNextOsr, InstallNextFunction, InstallDone, InstallOptimizedCode
    <3>5. CASE AgeBufferedOsrJobs \/ Flush
      <4>1. request' = request /\ main \in {"js", "recompile", "install"}
            /\ (main = "recompile" \/ resume = "recompile")
        BY <3>0, <3>5 DEF AgeBufferedOsrJobs, Flush, MayCollect
      <4> QED
        BY <3>0, <3>3, <4>1 DEF EndRecompile
    <3>6. CASE RunFlush
      <4>1. request' = request /\ main \in {"flushSignal", "flushWait", "flushed"}
            /\ resume = "recompile"
        BY <3>6 DEF RunFlush, FlushUnblockAndSignal, FlushQueues, FlushReturn
      <4> QED
        BY <3>3, <4>1 DEF EndRecompile
    <3>7. ~Stop /\ ~RunStop
      BY <3>0 DEF Stop, RunStop, StopUnblockAndSignal, StopWait, StopCompileNext,
         StopInstall, StopFlushInput, StopFlushOutput, StopFlushOsrBuffer
    <3>8. CASE UNCHANGED vars
      BY <3>0, <3>8 DEF vars, QueueOsr, RecompileWithoutJob
    <3> QED
      BY <3>1, <3>2, <3>3, <3>4, <3>5, <3>6, <3>7, <3>8 DEF Next
  <2>2. \A j \in Buffered' : ~ /\ jobs'[j].closure = request.closure
                               /\ jobs'[j].loop = request.loop
    BY <2>1, BufferKept DEF OsrInv, RequestInv
  <2>3. edge'[SharedOf[request.closure]][request.loop] # "interrupt"
    <3>1. /\ SharedOf[request.closure] \in Shared /\ request.loop \in Loop
          /\ edge[SharedOf[request.closure]][request.loop] # "interrupt"
      BY <1>0, <2>1 DEF OsrInv, RequestInv, Requesting, RecompileHasRoom, Request
    <3>2. UNCHANGED edgeVars \/ FlushQueues
      BY <2>1, EdgeSteps DEF PatchBackEdges, RefuseOsr, AtPatchedBackEdge, CompileOsr,
         InstallNextOsr, InstallOptimizedCode
    <3>3. CASE FlushQueues
      <4>1. PICK js : edge' = EdgesWithoutCheck(js)
        BY <3>3 DEF FlushQueues
      <4> QED
        BY <1>0, <3>1, <4>1, EdgesWithoutCheckPatched
    <3> QED
      BY <3>1, <3>2, <3>3
  <2> QED
    BY <2>1, <2>2, <2>3 DEF RequestInv
<1> QED
  BY <1>1, <1>2

\* BackEdgeTable::Revert leaves no back edge patched, and no check.
LEMMA RevertEffect ==
    ASSUME TypeOK, PatchedInv, NEW s \in Shared, Revert(s), NEW r \in Shared, NEW l \in Loop
    PROVE  /\ edge'[r][l] # "interrupt" => DepthOf[l] <= nesting'[r]
           /\ edge'[r][l] = "check" => edge[r][l] = "check"
<1>1. DepthOf[l] \in Nat /\ DepthOf[l] >= 1 /\ nesting[r] \in Nat
  BY ConstantsAssumption DEF TypeOK
<1>2. CASE r = s
  <2>1. /\ nesting'[r] = 0
        /\ edge'[r][l] = IF DepthOf[l] <= nesting[r] THEN "interrupt" ELSE edge[r][l]
    BY <1>2 DEF Revert, TypeOK
  <2> QED
    BY <1>1, <2>1 DEF PatchedInv
<1>3. CASE r # s
  <2>1. nesting'[r] = nesting[r] /\ edge'[r] = edge[r]
    BY <1>3 DEF Revert, TypeOK
  <2> QED
    BY <2>1 DEF PatchedInv
<1> QED
  BY <1>2, <1>3

\* AttemptOnStackReplacement patches no loop beyond the level just raised.
LEMMA PatchEffect ==
    ASSUME TypeOK, PatchedInv, NEW s \in Shared, NEW r \in Shared, NEW l \in Loop,
           nesting' = [nesting EXCEPT ![s] = nesting[s] + 1],
           AttemptOnStackReplacement(s, nesting[s] + 1)
    PROVE  /\ edge'[r][l] # "interrupt" => DepthOf[l] <= nesting'[r]
           /\ edge'[r][l] = "check" => edge[r][l] = "check"
<1>1. DepthOf[l] \in Nat /\ nesting[r] \in Nat
  BY ConstantsAssumption DEF TypeOK
<1>2. CASE r = s
  <2>1. /\ nesting'[r] = nesting[r] + 1
        /\ \/ edge'[r][l] = IF DepthOf[l] = nesting[r] + 1 THEN "osr" ELSE edge[r][l]
           \/ edge'[r][l] = edge[r][l]
    BY <1>2 DEF AttemptOnStackReplacement, Patch, TypeOK
  <2> QED
    BY <1>1, <2>1 DEF PatchedInv
<1>3. CASE r # s
  <2>1. nesting'[r] = nesting[r] /\ edge'[r] = edge[r]
    BY <1>3 DEF AttemptOnStackReplacement, Patch, TypeOK
  <2> QED
    BY <2>1 DEF PatchedInv
<1> QED
  BY <1>2, <1>3

\* What a step does to a back edge: no check appears but for an OSR job.
LEMMA EdgeStep ==
    ASSUME OwnershipInv, OsrInv, [Next]_vars, NEW s \in Shared, NEW l \in Loop
    PROVE  /\ edge'[s][l] # "interrupt" => DepthOf[l] <= nesting'[s]
           /\ edge'[s][l] = "check" =>
                 \/ edge[s][l] = "check"
                 \/ \E j \in Job : /\ QueueOsr(j)
                                   /\ s = SharedOf[request.closure] /\ l = request.loop
<1> USE DEF osrVars, edgeVars, bufferVars, queueVars, stopVars, mainVars, threadVars
<1>0. /\ SignalInv /\ TypeOK /\ JobsInv /\ PlacesInv /\ ControlInv /\ PatchedInv /\ OwnTyped
      /\ RecompileHasRoom /\ SharedOf \in [Closure -> Shared]
  BY ConstantsAssumption, OwnTypes DEF OwnershipInv, SignalInv, JobsInv, OsrInv
<1>1. CASE UNCHANGED edgeVars
  BY <1>0, <1>1 DEF PatchedInv
<1>2. CASE \E f \in Closure : PatchBackEdges(f)
  <2>1. PICK f \in Closure : PatchBackEdges(f)
    BY <1>2
  <2>2. /\ SharedOf[f] \in Shared
        /\ nesting' = [nesting EXCEPT ![SharedOf[f]] = nesting[SharedOf[f]] + 1]
        /\ AttemptOnStackReplacement(SharedOf[f], nesting[SharedOf[f]] + 1)
    BY <1>0, <2>1 DEF PatchBackEdges
  <2> QED
    BY <1>0, <2>2, PatchEffect
<1>3. CASE \/ \E f \in Closure, k \in Loop : RefuseOsr(f, k) \/ CompileOsr(f, k)
           \/ RecompileWithoutJob /\ request.loop # NULL
           \/ InstallOptimizedCode /\ IsOsr(installing)
  <2>1. \E r \in Shared : Revert(r)
    <3>1. CASE \E f \in Closure, k \in Loop : RefuseOsr(f, k) \/ CompileOsr(f, k)
      <4>1. PICK f \in Closure : Revert(SharedOf[f])
        BY <3>1 DEF RefuseOsr, CompileOsr
      <4> QED
        BY <1>0, <4>1
    <3>2. CASE RecompileWithoutJob /\ request.loop # NULL
      <4>1. Revert(SharedOf[request.closure]) /\ main = "recompile"
        BY <3>2 DEF RecompileWithoutJob
      <4>2. request.closure \in Closure
        BY <1>0, <4>1 DEF RecompileHasRoom, Request
      <4> QED
        BY <1>0, <4>1, <4>2
    <3>3. CASE InstallOptimizedCode /\ IsOsr(installing)
      <4>1. Revert(SharedOf[jobs[installing].closure]) /\ main = "install"
        BY <3>3 DEF InstallOptimizedCode
      <4>2. installing \in DOMAIN jobs
        BY <1>0, <4>1 DEF ControlInv, HoldersInv, PlacesInv, Pipeline
      <4>3. jobs[installing].closure \in Closure
        BY <1>0, <4>2 DEF OwnTyped, JobInfo
      <4> QED
        BY <1>0, <4>1, <4>3
    <3> QED
      BY <1>3, <3>1, <3>2, <3>3
  <2> QED
    BY <1>0, <2>1, RevertEffect
<1>4. CASE \E j \in Job : QueueOsr(j)
  <2>1. PICK j \in Job : QueueOsr(j)
    BY <1>4
  <2>2. /\ edge' = [edge EXCEPT ![SharedOf[request.closure]][request.loop] = "check"]
        /\ nesting' = nesting /\ main = "recompile" /\ request.loop # NULL
    BY <2>1 DEF QueueOsr
  <2>3. edge[SharedOf[request.closure]][request.loop] # "interrupt"
    BY <2>2 DEF OsrInv, RequestInv, Requesting
  <2>4. request.closure \in Closure /\ request.loop \in Loop
    BY <2>1, QueueOsrEffect
  <2>5. edge'[s][l] = IF s = SharedOf[request.closure] /\ l = request.loop
                      THEN "check" ELSE edge[s][l]
    BY <1>0, <2>2, <2>4 DEF TypeOK
  <2> QED
    BY <1>0, <2>1, <2>2, <2>3, <2>5 DEF PatchedInv
<1>5. CASE InstallNextOsr \/ FlushQueues
  <2>1. PICK js : edge' = EdgesWithoutCheck(js)
    BY <1>5 DEF InstallNextOsr, FlushQueues
  <2>2. nesting' = nesting
    BY <1>5 DEF InstallNextOsr, FlushQueues
  <2> QED
    BY <1>0, <2>1, <2>2, EdgesWithoutCheckPatched DEF PatchedInv
<1> QED
  BY <1>1, <1>2, <1>3, <1>4, <1>5, EdgeSteps

\* An edge that checks the stack has a job that will take the check away.
LEMMA CheckStep ==
    ASSUME OwnershipInv, OsrInv, [Next]_vars PROVE CheckInv'
<1> SUFFICES ASSUME NEW s \in Shared, NEW l \in Loop, edge'[s][l] = "check", ~Stopping'
             PROVE  Remover(s, l)'
  BY DEF CheckInv
<1> USE DEF osrVars, edgeVars, bufferVars, queueVars, stopVars, mainVars, threadVars
<1>0. SignalInv /\ TypeOK /\ JobsInv /\ PlacesInv
  BY DEF OwnershipInv, SignalInv, JobsInv
<1>1. CASE \E j \in Job : QueueOsr(j)
  <2>1. PICK j \in Job : QueueOsr(j)
    BY <1>1
  <2>2. /\ Buffered' = (Buffered \ Evicted) \cup {j} /\ j \notin Buffered
        /\ \A k \in Evicted : IsWaiting(k)
        /\ \A k \in Buffered' \ {j} : jobs'[k] = jobs[k]
        /\ jobs'[j].closure = request.closure /\ jobs'[j].loop = request.loop
        /\ ~jobs'[j].waiting
    BY <2>1, QueueOsrEffect
  <2>3. CASE edge[s][l] = "check"
    <3>1. PICK k \in Buffered : /\ ~IsWaiting(k)
                                /\ SharedOf[jobs[k].closure] = s /\ jobs[k].loop = l
      BY <2>3, StoppingStays DEF OsrInv, CheckInv, Remover
    <3>2. k \in Buffered' /\ jobs'[k] = jobs[k]
      BY <2>2, <3>1
    <3> QED
      BY <3>1, <3>2 DEF Remover, IsWaiting
  <2>4. CASE s = SharedOf[request.closure] /\ l = request.loop
    BY <2>2, <2>4 DEF Remover, IsWaiting
  <2> QED
    BY <2>3, <2>4, EdgeStep
<1>2. CASE ~\E j \in Job : QueueOsr(j)
  <2>1. edge[s][l] = "check"
    BY <1>2, EdgeStep
  <2>2. PICK k \in Buffered : /\ ~IsWaiting(k)
                              /\ SharedOf[jobs[k].closure] = s /\ jobs[k].loop = l
    BY <2>1, StoppingStays DEF OsrInv, CheckInv, Remover
  <2>3. ~FlushQueues
    <3> SUFFICES ASSUME FlushQueues PROVE FALSE
      OBVIOUS
    <3>1. edge' = EdgesWithoutCheck({j \in Buffered : ~IsWaiting(j)})
      BY DEF FlushQueues
    <3> QED
      BY <1>0, <2>2, <3>1, EdgesWithoutCheckPatched
  <2>4. ~(InstallNextOsr /\ k = Head(output))
    <3> SUFFICES ASSUME InstallNextOsr, k = Head(output) PROVE FALSE
      OBVIOUS
    <3>1. edge' = EdgesWithoutCheck({k})
      BY DEF InstallNextOsr
    <3> QED
      BY <1>0, <2>2, <3>1, EdgesWithoutCheckPatched
  <2>5. k \in Buffered'
    BY <1>2, <2>2, <2>3, UnfinishedStays
  <2>6. /\ k \in DOMAIN jobs /\ k \in DOMAIN jobs'
        /\ jobs'[k].closure = jobs[k].closure /\ jobs'[k].loop = jobs[k].loop
    BY <1>2, <2>5, BufferKept
  <2>7. ~jobs'[k].waiting
    BY <1>0, <2>2, <2>4, <2>6, JobsKept DEF IsWaiting
  <2> QED
    BY <2>2, <2>5, <2>6, <2>7 DEF Remover, IsWaiting
<1> QED
  BY <1>1, <1>2

\* On-stack replacement keeps its invariant.
LEMMA OsrInvariant == Spec => []OsrInv
<1>1. Init => OsrInv
  <2> SUFFICES ASSUME Init PROVE OsrInv
    OBVIOUS
  <2>1. Buffered = {}
    BY DEF Init, Buffered
  <2>2. RequestInv
    BY DEF Init, RequestInv, Requesting
  <2>3. PatchedInv /\ CheckInv
    <3>1. \A l \in Loop : DepthOf[l] \in Nat /\ ~(DepthOf[l] <= 0)
      BY ConstantsAssumption
    <3> QED
      BY <3>1 DEF Init, PatchedInv, CheckInv
  <2> QED
    BY <2>1, <2>2, <2>3 DEF OsrInv, EntryUnique
<1>2. OwnershipInv /\ OsrInv /\ [Next]_vars => OsrInv'
  <2> SUFFICES ASSUME OwnershipInv, OsrInv, [Next]_vars PROVE OsrInv'
    OBVIOUS
  <2>1. PatchedInv'
    BY EdgeStep DEF PatchedInv
  <2> QED
    BY <2>1, EntryStep, RequestStep, CheckStep DEF OsrInv
<1> QED
  BY <1>1, <1>2, OwnershipInvariant, PTL DEF Spec

\* IsQueuedForOSR and FindReadyOSRCandidate, which look at the first job for
\* an entry, look at the only one.
THEOREM OneOsrJobPerEntryTheorem == Spec => []OneOsrJobPerEntry
<1>1. OwnershipInv /\ OsrInv => OneOsrJobPerEntry
  <2> SUFFICES ASSUME OwnershipInv, OsrInv, NEW f \in Closure, NEW l \in Loop
               PROVE  Cardinality(SlotsOf(f, l)) <= 1
    BY DEF OneOsrJobPerEntry
  <2>1. \A i, k \in SlotsOf(f, l) : i = k
    BY DEF OwnershipInv, JobsInv, PlacesInv, OsrInv, EntryUnique, BufferDistinct, SlotsOf, Buffered
  <2>2. SlotsOf(f, l) = {} \/ \E i : SlotsOf(f, l) = {i}
    BY <2>1
  <2>3. Cardinality(SlotsOf(f, l)) = 0 \/ Cardinality(SlotsOf(f, l)) = 1
    <3>1. CASE SlotsOf(f, l) = {}
      BY <3>1, FS_EmptySet
    <3>2. CASE \E i : SlotsOf(f, l) = {i}
      BY <3>2, FS_Singleton
    <3> QED
      BY <2>2, <3>1, <3>2
  <2> QED
    BY <2>3
<1> QED
  BY <1>1, OwnershipInvariant, OsrInvariant, PTL

\* Whatever the closures of a code do, no back edge is patched beyond the
\* nesting level, so Revert (full-codegen.cc) leaves none patched; and one that
\* is only followed after a stack check has an unfinished OSR job in the buffer
\* that will remove the check.
THEOREM BackEdgesRevertibleTheorem == Spec => []BackEdgesRevertible
<1>1. OsrInv => BackEdgesRevertible
  BY DEF OsrInv, PatchedInv, CheckInv, Remover, BackEdgesRevertible
<1> QED
  BY <1>1, OsrInvariant, PTL
==============================================================================
