----------------------------- MODULE OptimizedCode -----------------------------
(***************************************************************************)
(* Where optimized code is found, and how it is taken out of use.          *)
(*                                                                         *)
(* The closures made from one function literal share the code through the  *)
(* optimized code map of its SharedFunctionInfo.  Each native context has  *)
(* weak lists of the closures that have optimized code, of the code in     *)
(* use, and of the code taken out of use.  Deoptimizer marks code, unlinks *)
(* the closures on the list from it and patches it, so that its            *)
(* activations go on in full code when control returns to them.            *)
(*                                                                         *)
(* All of this is the main thread's, but closures come and go between the  *)
(* operations, scavenges drop them from the lists before a full collection *)
(* looks at the code, and on-stack replacement gives a closure new code    *)
(* while older code is cached and active.                                  *)
(***************************************************************************)
EXTENDS Naturals, Sequences, FiniteSets, SequencesExt

CONSTANTS
    Closure,        \* the closures of one function literal; bounds them
    Context,        \* native contexts
    ContextOf,      \* the native context of each closure
    Code,           \* optimized code objects; bounds them
    Full,           \* the unoptimized code, shared->code(), or a builtin that
                    \* compiles the function
    InQueue,        \* the builtin InRecompileQueue
    Dead,           \* no closure
    MaxFrames,      \* bound: activations of optimized code at a time
    MaxJobs         \* bound: recompilation jobs of one closure at a time

ASSUME OptimizedCodeAssumption ==
    /\ ContextOf \in [Closure -> Context]
    /\ {Full, InQueue, Dead} \cap Code = {} /\ Cardinality({Full, InQueue, Dead}) = 3
    /\ MaxFrames \in Nat /\ MaxJobs \in Nat

VARIABLES
    code,           \* the code of each closure
    functions,      \* who is on OPTIMIZED_FUNCTIONS_LIST of each native context
    inUse,          \* OPTIMIZED_CODE_LIST of each native context
    outOfUse,       \* DEOPTIMIZED_CODE_LIST of each native context
    marked,         \* code that is marked_for_deoptimization()
    queued,         \* how many recompilation jobs of each closure are under way
    codeMap,        \* optimized_code_map(): context and code of each entry
    frames          \* activations of optimized code, the innermost last

vars == <<code, functions, inUse, outOfUse, marked, queued, codeMap,
          frames>>

TypeOK ==
    /\ code \in [Closure -> Code \cup {Full, InQueue, Dead}]
    /\ functions \in [Context -> SUBSET Closure]
    /\ inUse \in [Context -> SUBSET Code] /\ outOfUse \in [Context -> SUBSET Code]
    /\ marked \subseteq Code /\ queued \in [Closure -> 0..MaxJobs]
    /\ codeMap \subseteq [context : Context, code : Code]
    /\ frames \in Seq([closure : Closure, code : Code])

Init ==
    /\ code = [f \in Closure |-> Dead]
    /\ functions = [x \in Context |-> {}]
    /\ inUse = [x \in Context |-> {}] /\ outOfUse = [x \in Context |-> {}]
    /\ marked = {} /\ queued = [f \in Closure |-> 0]
    /\ codeMap = {} /\ frames = << >>

LiveCode == UNION {inUse[x] \cup outOfUse[x] : x \in Context}
Active(c) == \E i \in DOMAIN frames : frames[i].code = c

-------------------------------------------------------------------------------
(* The optimized code map *)

\* SearchOptimizedCodeMap; the same entries in the order of FastNewClosureStub.
Cached(x) == {e.code : e \in {d \in codeMap : d.context = x}}

\* EvictFromOptimizedCodeMap, for one code after the other.
Evicted(map, gone) == {e \in map : e.code \notin gone}

\* InsertCodeIntoOptimizedCodeMap, unless another closure was faster.
WithEntry(x, c) ==
    IF Cached(x) = {} THEN codeMap \cup {[context |-> x, code |-> c]} ELSE codeMap

-------------------------------------------------------------------------------
(* Closures and their code *)

\* Fault: a closure that loses its optimized code stays on the list.
ReplaceCodeWithoutRemove(f, c) ==
    /\ code' = [code EXCEPT ![f] = c]
    /\ functions' = [functions EXCEPT ![ContextOf[f]] = IF c \in Code THEN @ \cup {f} ELSE @]

\* JSFunction::ReplaceCode, AddOptimizedFunction, RemoveOptimizedFunction
ReplaceCode(f, c) ==
    /\ code' = [code EXCEPT ![f] = c]
    /\ functions' = [functions EXCEPT ![ContextOf[f]] =
          IF code[f] \notin Code /\ c \in Code THEN @ \cup {f}
          ELSE IF code[f] \in Code /\ c \notin Code THEN @ \ {f}
          ELSE @]

\* NewFunctionFromSharedFunctionInfo and FastNewClosureStub
NewClosure(f) ==
    /\ code[f] = Dead
    /\ ReplaceCode(f, IF Cached(ContextOf[f]) = {} THEN Full
                      ELSE CHOOSE c \in Cached(ContextOf[f]) : TRUE)
    /\ UNCHANGED <<inUse, outOfUse, marked, queued, codeMap, frames>>

\* InstallCodeFromOptimizedCodeMap: the closure is to be optimized, and
\* another one has been.
InstallCodeFromOptimizedCodeMap(f) ==
    /\ code[f] = Full
    /\ \E c \in Cached(ContextOf[f]) : ReplaceCode(f, c)
    /\ UNCHANGED <<inUse, outOfUse, marked, queued, codeMap, frames>>

\* RecompileConcurrent and MarkInRecompileQueue: no other closure has been.  An
\* earlier job of the closure may be under way: on-stack replacement has given
\* it code since, which was taken out of use.
QueueForOptimization(f) ==
    /\ code[f] = Full /\ Cached(ContextOf[f]) = {}
    /\ queued[f] < MaxJobs
    /\ queued' = [queued EXCEPT ![f] = @ + 1]
    /\ code' = [code EXCEPT ![f] = InQueue]
    /\ UNCHANGED <<functions, inUse, outOfUse, marked, codeMap, frames>>

\* DisposeRecompileJob, and a job that InstallOptimizedCode gives up: the
\* closure goes back to full code, whatever it has got meanwhile.
DisposeJob(f) ==
    /\ queued[f] > 0
    /\ queued' = [queued EXCEPT ![f] = @ - 1]
    /\ ReplaceCode(f, Full)
    /\ UNCHANGED <<inUse, outOfUse, marked, codeMap, frames>>

\* GenerateAndInstallCode and what follows in InstallOptimizedCode, or in
\* CompileLazy, which compiles at once.
InstallOptimizedCode(f, c) ==
    /\ \/ queued[f] > 0 /\ queued' = [queued EXCEPT ![f] = @ - 1]
       \/ code[f] = Full /\ Cached(ContextOf[f]) = {} /\ UNCHANGED queued
    /\ c \notin LiveCode
    /\ inUse' = [inUse EXCEPT ![ContextOf[f]] = @ \cup {c}]
    /\ ReplaceCode(f, c)
    /\ codeMap' = WithEntry(ContextOf[f], c)
    /\ UNCHANGED <<outOfUse, marked, frames>>

\* The same for on-stack replacement, whose code is not cached.  The frame
\* that waited for it goes on in it.
InstallOsrCode(f, c) ==
    /\ code[f] # Dead /\ c \notin LiveCode
    /\ Len(frames) < MaxFrames
    /\ inUse' = [inUse EXCEPT ![ContextOf[f]] = @ \cup {c}]
    /\ ReplaceCode(f, c)
    /\ frames' = Append(frames, [closure |-> f, code |-> c])
    /\ UNCHANGED <<outOfUse, marked, queued, codeMap>>

Call(f) ==
    /\ code[f] \in Code /\ Len(frames) < MaxFrames
    /\ frames' = Append(frames, [closure |-> f, code |-> code[f]])
    /\ UNCHANGED <<code, functions, inUse, outOfUse, marked, queued, codeMap>>

\* The innermost activation returns, or is one of code that is out of use and
\* goes on in full code (NotifyDeoptimized for a LAZY bailout does no more).
LeaveFrame ==
    /\ frames # << >>
    /\ frames' = Front(frames)
    /\ UNCHANGED <<code, functions, inUse, outOfUse, marked, queued, codeMap>>

-------------------------------------------------------------------------------
(* Deoptimization *)

\* SelectedCodeUnlinker and VisitAllOptimizedFunctionsForContext: closures on
\* the lists of the contexts are unlinked from the code.
Unlinked(gone, from) ==
    /\ code' = [f \in Closure |->
          IF code[f] \in gone /\ \E x \in from : f \in functions[x] THEN Full
          ELSE code[f]]
    /\ functions' = [x \in Context |->
          IF x \in from THEN {f \in functions[x] : code[f] \notin gone}
          ELSE functions[x]]

\* Fault: only closures in the first context are looked at.
DeoptimizeMarkedOnce(more, from, map) ==
    /\ marked' = marked \cup more
    /\ LET gone   == marked \cup more
           first  == {CHOOSE x \in from : TRUE}
           linked == {code[f] : f \in UNION {functions[x] : x \in first}}
       IN  /\ Unlinked(gone, first)
           /\ codeMap' = Evicted(map, gone \cap linked)
           /\ inUse' = [x \in Context |-> IF x \in first THEN inUse[x] \ gone ELSE inUse[x]]
           /\ outOfUse' = [x \in Context |->
                 IF x \in first THEN outOfUse[x] \cup (inUse[x] \cap gone) ELSE outOfUse[x]]

\* Code is marked, and DeoptimizeMarkedCodeForContext runs for the contexts.
\* Code is evicted from the map for each closure that is unlinked from it.
DeoptimizeMarked(more, from, map) ==
    /\ marked' = marked \cup more
    /\ LET gone   == marked \cup more
           linked == {code[f] : f \in UNION {functions[x] : x \in from}}
       IN  /\ Unlinked(gone, from)
           /\ codeMap' = Evicted(map, gone \cap linked)
           /\ inUse' = [x \in Context |-> IF x \in from THEN inUse[x] \ gone ELSE inUse[x]]
           /\ outOfUse' = [x \in Context |->
                 IF x \in from THEN outOfUse[x] \cup (inUse[x] \cap gone) ELSE outOfUse[x]]

\* An assumption fails (DeoptimizeDependentCodeGroup), or the debugger takes
\* all code out of use (DeoptimizeAll).
BreakAssumption(broken) ==
    /\ broken # {} /\ broken \subseteq UNION {inUse[x] : x \in Context}
    /\ DeoptimizeMarked(broken, Context, codeMap)
    /\ UNCHANGED <<queued, frames>>

\* Deoptimizer::DeoptimizeFunction
DeoptimizeFunction(f, map) ==
    DeoptimizeMarked({code[f]} \cap Code, {ContextOf[f]}, map)

\* NotifyDeoptimized for an EAGER bailout of the innermost activation.
NotifyDeoptimized ==
    /\ frames # << >>
    /\ frames' = Front(frames)
    /\ UNCHANGED queued
    /\ LET f == Last(frames).closure
           c == Last(frames).code
           map == Evicted(codeMap, {c})
       IN  \/ /\ ~\E i \in DOMAIN Front(frames) : frames[i].code = c
              /\ IF code[f] = c THEN ReplaceCode(f, Full) ELSE UNCHANGED <<code, functions>>
              /\ codeMap' = map
              /\ UNCHANGED <<inUse, outOfUse, marked>>
           \/ /\ \E i \in DOMAIN Front(frames) : frames[i].code = c
              /\ IF code[f] \in Code THEN DeoptimizeFunction(f, map)
                 ELSE /\ codeMap' = map
                      /\ UNCHANGED <<code, functions, inUse, outOfUse, marked>>

-------------------------------------------------------------------------------
(* Collections *)

\* Activations keep closures alive, and so do jobs, by their handles.
Unreached == {f \in Closure :
                 /\ code[f] # Dead /\ queued[f] = 0
                 /\ \A i \in DOMAIN frames : frames[i].closure # f}

\* A scavenge finds new closures dead, and no code.  The context's slot keeps
\* the first closure on the list alive (contexts.h:337), but the closure is free
\* to die in the next one; the order on the list is left out.
Scavenge(dead) ==
    /\ dead # {} /\ dead \subseteq Unreached
    /\ code' = [f \in Closure |-> IF f \in dead THEN Dead ELSE code[f]]
    /\ functions' = [x \in Context |-> functions[x] \ dead]
    /\ UNCHANGED <<inUse, outOfUse, marked, queued, codeMap, frames>>

\* Fault: the code map keeps its dead entries.
ProcessedKeepsDead(map, dead) == {map}

\* ProcessOptimizedCodeMaps removes the entries of dead code, or the map is
\* flushed as a whole.
Processed(map, dead) == {Evicted(map, dead), {}}

\* A full collection also frees code to which nothing but weak lists and the
\* code map refer.
MarkCompact(deadClosures, deadCode) ==
    /\ deadClosures \cup deadCode # {}
    /\ deadClosures \subseteq Unreached
    /\ \A c \in deadCode : ~Active(c) /\ \A f \in Closure \ deadClosures : code[f] # c
    /\ deadCode \subseteq LiveCode
    /\ code' = [f \in Closure |-> IF f \in deadClosures THEN Dead ELSE code[f]]
    /\ functions' = [x \in Context |-> functions[x] \ deadClosures]
    /\ inUse' = [x \in Context |-> inUse[x] \ deadCode]
    /\ outOfUse' = [x \in Context |-> outOfUse[x] \ deadCode]
    /\ marked' = marked \ deadCode
    /\ codeMap' \in Processed(codeMap, deadCode)
    /\ UNCHANGED <<queued, frames>>

-------------------------------------------------------------------------------
Next ==
    \/ \E f \in Closure :
          \/ NewClosure(f) \/ InstallCodeFromOptimizedCodeMap(f) \/ Call(f)
          \/ QueueForOptimization(f) \/ DisposeJob(f)
          \/ \E c \in Code : InstallOptimizedCode(f, c) \/ InstallOsrCode(f, c)
    \/ LeaveFrame \/ NotifyDeoptimized
    \/ \E broken \in SUBSET Code : BreakAssumption(broken)
    \/ \E dead \in SUBSET Closure :
          Scavenge(dead) \/ \E deadCode \in SUBSET Code : MarkCompact(dead, deadCode)

Spec == Init /\ [][Next]_vars

-------------------------------------------------------------------------------
(* Properties *)

\* A closure is on the list of its context exactly while its code is
\* optimized: what unlinks closures looks nowhere else (deoptimizer.cc:267).
FunctionsListed ==
    /\ TypeOK
    /\ \A x \in Context :
          functions[x] = {f \in Closure : ContextOf[f] = x /\ code[f] \in Code}

\* Code is on one list of its context, that of the marked code exactly if it is
\* marked, so that every activation of it gets deoptimized; and closures and
\* the code map refer to nothing but code on the lists of their context, of
\* which the map has one at most.
CodeAccounted ==
    /\ \A x \in Context : inUse[x] \cap outOfUse[x] = {}
    /\ marked = UNION {outOfUse[x] : x \in Context}
    /\ \A i \in DOMAIN frames : frames[i].code \in LiveCode
    /\ \A f \in Closure :
          code[f] \in Code => code[f] \in inUse[ContextOf[f]] \cup outOfUse[ContextOf[f]]
    /\ \A e \in codeMap :
          /\ e.code \in inUse[e.context] \cup outOfUse[e.context]
          /\ \A d \in codeMap : d.context = e.context => d = e

\* Code that is marked for deoptimization is unlinked from every closure in
\* the same step, whatever other code the closures have had.
MarkingUnlinks ==
    [][\A f \in Closure : code'[f] \notin marked' \ marked]_vars

\* What Runtime_NotifyDeoptimized evicts code for: that it does not get used
\* for new closures (runtime.cc:8460).
CachedCodeUnmarked == \A e \in codeMap : e.code \notin marked
==============================================================================
