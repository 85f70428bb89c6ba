------------------------------- MODULE CodeProofs -------------------------------
(***************************************************************************)
(* Proofs about optimized code, for any number of closures, contexts and   *)
(* code objects: the weak lists are complete, code is on the list its mark *)
(* calls for, and marking code unlinks every closure from it.              *)
(*                                                                         *)
(* And about the dependent code of a map or property cell, for any number  *)
(* of compilations, code objects and groups: however the entries are       *)
(* moved, nobody who relies on an assumption is forgotten, nothing that is *)
(* gone stays in the array, and the groups are the sets of                 *)
(* DependencyGroups.                                                       *)
(***************************************************************************)
EXTENDS OptimizedCode, DependentCode, SequenceTheorems, FiniteSetTheorems,
        NaturalsInduction, TLAPS

Lists(x) == inUse[x] \cup outOfUse[x]

\* Code belongs to one context, so that DeoptimizeFunction need look at one.
CodeHome == \A x, y \in Context : x # y => Lists(x) \cap Lists(y) = {}

IInv == FunctionsListed /\ CodeAccounted /\ CodeHome

\* CodeAccounted by its parts.
Divided == \A x \in Context : inUse[x] \cap outOfUse[x] = {}
MarkedListed == marked = UNION {outOfUse[x] : x \in Context}
FramesListed == \A i \in DOMAIN frames : frames[i].code \in LiveCode
ClosuresListed == \A f \in Closure : code[f] \in Code => code[f] \in Lists(ContextOf[f])
MapListed ==
    \A e \in codeMap :
        /\ e.code \in Lists(e.context)
        /\ \A d \in codeMap : d.context = e.context => d = e

\* CodeAccounted in parts.
LEMMA Parts ==
    CodeAccounted <=> Divided /\ MarkedListed /\ FramesListed /\ ClosuresListed /\ MapListed
BY DEF CodeAccounted, Divided, MarkedListed, FramesListed, ClosuresListed, MapListed, Lists

\* A list of the closures of a context that have optimized code stays that if
\* ReplaceCode changes the code of one of them.
LEMMA ReplaceCodeListed ==
    ASSUME FunctionsListed, NEW f \in Closure, NEW c \in Code \cup {Full, InQueue, Dead},
           ReplaceCode(f, c)
    PROVE  /\ code' \in [Closure -> Code \cup {Full, InQueue, Dead}]
           /\ functions' \in [Context -> SUBSET Closure]
           /\ code'[f] = c
           /\ \A g \in Closure \ {f} : code'[g] = code[g]
           /\ \A x \in Context :
                 functions'[x] = {g \in Closure : ContextOf[g] = x /\ code'[g] \in Code}
<1> USE OptimizedCodeAssumption DEF FunctionsListed, TypeOK
<1>1. /\ code' \in [Closure -> Code \cup {Full, InQueue, Dead}]
      /\ code'[f] = c
      /\ \A g \in Closure \ {f} : code'[g] = code[g]
  BY DEF ReplaceCode
<1>2. ContextOf[f] \in Context
  OBVIOUS
<1>3. ASSUME NEW x \in Context
      PROVE  functions'[x] = {g \in Closure : ContextOf[g] = x /\ code'[g] \in Code}
  <2>1. CASE x # ContextOf[f]
    <3>1. functions'[x] = functions[x]
      BY <2>1 DEF ReplaceCode
    <3>2. functions[x] = {g \in Closure : ContextOf[g] = x /\ code[g] \in Code}
      OBVIOUS
    <3> HIDE DEF FunctionsListed, TypeOK
    <3>3. \A g \in Closure : ContextOf[g] = x => code'[g] = code[g]
      BY <1>1, <2>1
    <3> QED
      BY <3>1, <3>2, <3>3
  <2>2. CASE x = ContextOf[f]
    <3>1. functions'[x] = IF code[f] \notin Code /\ c \in Code THEN functions[x] \cup {f}
                          ELSE IF code[f] \in Code /\ c \notin Code THEN functions[x] \ {f}
                          ELSE functions[x]
      BY <2>2 DEF ReplaceCode
    <3> QED
      BY <1>1, <2>2, <3>1
  <2> QED
    BY <2>1, <2>2
<1>4. functions' \in [Context -> SUBSET Closure]
  BY <1>2 DEF ReplaceCode
<1> QED
  BY <1>1, <1>3, <1>4

\* The lists of code are what matters to CodeAccounted: nothing else is asked of
\* a step that leaves them alone.
LEMMA ListsUnchanged ==
    ASSUME IInv, UNCHANGED <<inUse, outOfUse, marked>>,
           \A f \in Closure :
              code'[f] \in Code => code'[f] = code[f] \/ code'[f] \in Cached(ContextOf[f]),
           codeMap' \subseteq codeMap,
           \A i \in DOMAIN frames' : frames'[i].code \in LiveCode
    PROVE  CodeAccounted' /\ CodeHome'
<1>1. LiveCode' = LiveCode /\ \A x : Lists(x)' = Lists(x)
  BY DEF LiveCode, Lists
<1>2. Divided' /\ MarkedListed'
  BY Parts DEF IInv, Divided, MarkedListed
<1>3. FramesListed'
  BY <1>1 DEF FramesListed
<1>4. ASSUME NEW f \in Closure, code'[f] \in Code
      PROVE  code'[f] \in Lists(ContextOf[f])
  <2>1. CASE code'[f] = code[f]
    BY <1>4, <2>1, Parts DEF IInv, ClosuresListed
  <2>2. CASE code'[f] \in Cached(ContextOf[f])
    BY <2>2, Parts DEF IInv, MapListed, Cached
  <2> QED
    BY <1>4, <2>1, <2>2
<1>5. ClosuresListed'
  BY <1>1, <1>4 DEF ClosuresListed
<1>6. MapListed'
  BY <1>1, Parts DEF IInv, MapListed
<1>7. CodeHome'
  BY <1>1 DEF IInv, CodeHome
<1>8. CodeAccounted'
  BY <1>2, <1>3, <1>5, <1>6, Parts, PTL
<1> QED
  BY <1>7, <1>8

\* Code that is made joins the code in use of one context.
LEMMA CodeAdded ==
    ASSUME IInv, NEW f \in Closure, NEW c \in Code \ LiveCode,
           inUse' = [inUse EXCEPT ![ContextOf[f]] = @ \cup {c}],
           UNCHANGED <<outOfUse, marked>>,
           code'[f] = c, \A g \in Closure \ {f} : code'[g] = code[g],
           codeMap' \in {codeMap, WithEntry(ContextOf[f], c)},
           \A i \in DOMAIN frames' : frames'[i].code \in LiveCode \cup {c}
    PROVE  CodeAccounted' /\ CodeHome' /\ inUse' \in [Context -> SUBSET Code]
           /\ codeMap' \subseteq [context : Context, code : Code]
<1> DEFINE home == ContextOf[f]
<1>1. home \in Context /\ inUse \in [Context -> SUBSET Code]
  BY OptimizedCodeAssumption DEF IInv, FunctionsListed, TypeOK
<1>2. \A x \in Context : c \notin Lists(x)
  BY DEF LiveCode, Lists
<1>3. \A x \in Context : Lists(x)' = IF x = home THEN Lists(x) \cup {c} ELSE Lists(x)
  BY <1>1 DEF Lists
<1>4. LiveCode' = LiveCode \cup {c}
  BY <1>1 DEF LiveCode
<1>5. Divided'
  BY <1>1, <1>2, Parts DEF IInv, Divided, Lists
<1>6. MarkedListed' /\ FramesListed'
  BY <1>4, Parts DEF IInv, MarkedListed, FramesListed
<1>7. ClosuresListed'
  <2> SUFFICES ASSUME NEW g \in Closure, code'[g] \in Code
               PROVE  code'[g] \in Lists(ContextOf[g])'
    BY DEF ClosuresListed
  <2>1. ContextOf[g] \in Context
    BY OptimizedCodeAssumption
  <2>2. CASE g = f
    BY <1>3, <2>1, <2>2
  <2>3. CASE g # f
    BY <1>3, <2>1, <2>3, Parts DEF IInv, ClosuresListed
  <2> QED
    BY <2>2, <2>3
<1>8. codeMap \subseteq [context : Context, code : Code]
  BY DEF IInv, FunctionsListed, TypeOK
<1>9. MapListed' /\ codeMap' \subseteq [context : Context, code : Code]
  <2>1. CASE codeMap' = codeMap
    BY <1>3, <1>8, <2>1, Parts DEF IInv, MapListed
  <2>2. CASE codeMap' # codeMap
    <3> DEFINE e == [context |-> home, code |-> c]
    <3>1. codeMap' = codeMap \cup {e} /\ Cached(home) = {}
      BY <2>2 DEF WithEntry
    <3>2. \A d \in codeMap : d.context # home
      BY <3>1 DEF Cached
    <3>3. e.context = home /\ e.code = c
      OBVIOUS
    <3>4. \A d \in codeMap : d.context \in Context
      BY <1>8
    <3> HIDE DEF e
    <3>5. MapListed'
      BY <1>1, <1>3, <3>1, <3>2, <3>3, <3>4, Parts DEF IInv, MapListed
    <3> QED
      BY <1>1, <1>8, <3>1, <3>5 DEF e
  <2> QED
    BY <2>1, <2>2
<1>10. CodeHome'
  <2>1. ASSUME NEW x \in Context, NEW y \in Context, x # y
        PROVE  Lists(x)' \cap Lists(y)' = {}
    <3>1. Lists(x) \cap Lists(y) = {}
      BY <2>1 DEF IInv, CodeHome
    <3> QED
      BY <1>2, <1>3, <2>1, <3>1
  <2> QED
    BY <2>1 DEF CodeHome
<1>11. CodeAccounted'
  BY <1>5, <1>6, <1>7, <1>9, Parts, PTL
<1>12. inUse' \in [Context -> SUBSET Code]
  BY <1>1
<1> QED
  BY <1>9, <1>10, <1>11, <1>12

\* DeoptimizeMarked moves marked code between the lists of its context and
\* leaves no closure with code that it marked.
LEMMA MarkedMoved ==
    ASSUME IInv, NEW more \in SUBSET Code, NEW from \in SUBSET Context,
           NEW map \in SUBSET codeMap,
           \A c \in more : c \in marked \/ \E x \in from : c \in inUse[x],
           DeoptimizeMarked(more, from, map),
           \A i \in DOMAIN frames' : frames'[i].code \in LiveCode
    PROVE  /\ CodeAccounted' /\ CodeHome'
           /\ inUse' \in [Context -> SUBSET Code] /\ outOfUse' \in [Context -> SUBSET Code]
           /\ marked' \subseteq Code
           /\ codeMap' \subseteq [context : Context, code : Code]
           /\ code' \in [Closure -> Code \cup {Full, InQueue, Dead}]
           /\ functions' \in [Context -> SUBSET Closure]
           /\ \A x \in Context :
                 functions'[x] = {g \in Closure : ContextOf[g] = x /\ code'[g] \in Code}
           /\ \A f \in Closure : code'[f] \notin marked' \ marked
<1> DEFINE gone == marked \cup more
           linked == {code[f] : f \in UNION {functions[x] : x \in from}}
<1> USE OptimizedCodeAssumption
<1>1. TypeOK /\ FunctionsListed
  BY DEF IInv, FunctionsListed
<1>2. /\ marked' = gone
      /\ inUse' = [x \in Context |-> IF x \in from THEN inUse[x] \ gone ELSE inUse[x]]
      /\ outOfUse' = [x \in Context |->
            IF x \in from THEN outOfUse[x] \cup (inUse[x] \cap gone) ELSE outOfUse[x]]
      /\ codeMap' = Evicted(map, gone \cap linked)
      /\ Unlinked(gone, from)
  BY DEF DeoptimizeMarked
<1>3. /\ inUse' \in [Context -> SUBSET Code] /\ outOfUse' \in [Context -> SUBSET Code]
      /\ gone \subseteq Code
  BY <1>1, <1>2 DEF TypeOK
<1>4. \A x \in Context : Lists(x)' = Lists(x)
  BY <1>2 DEF Lists
<1>5. LiveCode' = LiveCode
  BY <1>4 DEF LiveCode, Lists
<1>6. \A x \in Context : inUse[x] \cap marked = {}
  <2> SUFFICES ASSUME NEW x \in Context, NEW c \in inUse[x], c \in marked
               PROVE  FALSE
    OBVIOUS
  <2>1. PICK y \in Context : c \in outOfUse[y]
    BY Parts DEF IInv, MarkedListed
  <2>2. x = y
    BY <2>1 DEF IInv, CodeHome, Lists
  <2> QED
    BY <2>1, <2>2, Parts DEF IInv, Divided
<1>7. Divided'
  BY <1>2, Parts DEF IInv, Divided
<1>8. MarkedListed'
  <2>1. \A x \in Context : outOfUse[x] \subseteq marked
    BY Parts DEF IInv, MarkedListed
  <2>2. ASSUME NEW c \in gone
        PROVE  \E x \in Context : c \in outOfUse'[x]
    <3>1. CASE c \in marked
      <4>1. PICK x \in Context : c \in outOfUse[x]
        BY <3>1, Parts DEF IInv, MarkedListed
      <4> QED
        BY <1>2, <4>1
    <3>2. CASE c \notin marked
      <4>1. PICK x \in from : c \in inUse[x]
        BY <2>2, <3>2
      <4> QED
        BY <1>2, <2>2, <4>1
    <3> QED
      BY <3>1, <3>2
  <2>3. \A x \in Context : outOfUse'[x] \subseteq gone
    BY <1>2, <2>1
  <2>4. gone = UNION {outOfUse'[x] : x \in Context}
    BY <2>2, <2>3
  <2> QED
    BY <1>2, <2>4 DEF MarkedListed
<1>9. /\ code' = [f \in Closure |->
            IF code[f] \in gone /\ \E x \in from : f \in functions[x] THEN Full ELSE code[f]]
      /\ functions' = [x \in Context |->
            IF x \in from THEN {f \in functions[x] : code[f] \notin gone} ELSE functions[x]]
  BY <1>2 DEF Unlinked
<1>10. /\ code' \in [Closure -> Code \cup {Full, InQueue, Dead}]
       /\ functions' \in [Context -> SUBSET Closure]
  BY <1>1, <1>9 DEF TypeOK
<1>11. \A f \in Closure : code'[f] \in Code => code'[f] = code[f]
  BY <1>9
<1>12. ClosuresListed'
  BY <1>4, <1>11, Parts DEF IInv, ClosuresListed
<1>13. codeMap' \subseteq codeMap
  BY <1>2 DEF Evicted
<1>14. codeMap \subseteq [context : Context, code : Code]
  BY <1>1 DEF TypeOK
<1>15. MapListed'
  <2>1. \A e \in codeMap : e.context \in Context
    BY <1>14
  <2> QED
    BY <1>4, <1>13, <2>1, Parts DEF IInv, MapListed
<1>16. FramesListed'
  BY <1>5 DEF FramesListed
<1>17. CodeHome'
  BY <1>4 DEF IInv, CodeHome
<1>18. ASSUME NEW x \in Context
       PROVE  functions'[x] = {g \in Closure : ContextOf[g] = x /\ code'[g] \in Code}
  <2>1. \A y \in Context :
           functions[y] = {g \in Closure : ContextOf[g] = y /\ code[g] \in Code}
    BY <1>1 DEF FunctionsListed
  <2>2. CASE x \in from
    BY <1>9, <2>1, <2>2
  <2>3. CASE x \notin from
    BY <1>9, <2>1, <2>3
  <2> QED
    BY <2>2, <2>3
<1>19. ASSUME NEW f \in Closure, code'[f] \in gone \ marked
       PROVE  FALSE
  <2>1. code'[f] = code[f] /\ code[f] \in Code
    BY <1>3, <1>11, <1>19
  <2>2. PICK x \in from : code[f] \in inUse[x]
    BY <1>19, <2>1
  <2>3. ContextOf[f] \in Context /\ code[f] \in Lists(ContextOf[f])
    BY <2>1, Parts DEF IInv, ClosuresListed
  <2>4. ContextOf[f] = x
    BY <2>2, <2>3 DEF IInv, CodeHome, Lists
  <2>5. f \in functions[x]
    BY <1>1, <2>1, <2>4 DEF FunctionsListed
  <2> QED
    BY <1>9, <1>19, <2>1, <2>5
<1>20. CodeAccounted'
  BY <1>7, <1>8, <1>12, <1>15, <1>16, Parts, PTL
<1> QED
  BY <1>2, <1>3, <1>10, <1>13, <1>14, <1>17, <1>18, <1>19, <1>20

Frame == [closure : Closure, code : Code]

\* The frames that are left when one returns have live code.
LEMMA FrontListed ==
    ASSUME IInv, frames # << >>, frames' = Front(frames)
    PROVE  /\ frames' \in Seq(Frame)
           /\ \A i \in DOMAIN frames' : frames'[i].code \in LiveCode
           /\ Last(frames) \in Frame /\ Last(frames).code \in LiveCode
<1>1. frames \in Seq(Frame)
  BY DEF IInv, FunctionsListed, TypeOK, Frame
<1>2. Len(frames) \in Nat \ {0} /\ DOMAIN frames = 1..Len(frames)
  BY <1>1
<1>3. frames' = SubSeq(frames, 1, Len(frames) - 1) /\ Last(frames) = frames[Len(frames)]
  BY DEF Front, Last
<1>4. frames' \in Seq(Frame) /\ \A i \in DOMAIN frames' : i \in DOMAIN frames /\ frames'[i] = frames[i]
  BY <1>1, <1>2, <1>3
<1>5. \A i \in DOMAIN frames : frames[i].code \in LiveCode
  BY Parts DEF IInv, FramesListed
<1>6. Len(frames) \in DOMAIN frames /\ frames[Len(frames)] \in Frame
  BY <1>1, <1>2
<1> QED
  BY <1>3, <1>4, <1>5, <1>6

\* A call adds a frame.
LEMMA AppendListed ==
    ASSUME IInv, NEW f \in Closure, NEW c \in Code,
           frames' = Append(frames, [closure |-> f, code |-> c])
    PROVE  /\ frames' \in Seq(Frame)
           /\ \A i \in DOMAIN frames' : frames'[i].code \in LiveCode \cup {c}
<1>1. frames \in Seq(Frame) /\ [closure |-> f, code |-> c] \in Frame
  BY DEF IInv, FunctionsListed, TypeOK, Frame
<1>2. \A i \in DOMAIN frames : frames[i].code \in LiveCode
  BY Parts DEF IInv, FramesListed
<1>3. /\ frames' \in Seq(Frame) /\ DOMAIN frames' = 1..(Len(frames) + 1)
      /\ DOMAIN frames = 1..Len(frames) /\ Len(frames) \in Nat
      /\ frames'[Len(frames) + 1] = [closure |-> f, code |-> c]
      /\ \A i \in 1..Len(frames) : frames'[i] = frames[i]
  BY <1>1
<1> QED
  BY <1>2, <1>3

\* The invariant holds at the start.
LEMMA InitInv == Init => IInv
<1> SUFFICES ASSUME Init PROVE IInv
  OBVIOUS
<1> USE OptimizedCodeAssumption DEF Init
<1>1. FunctionsListed
  BY DEF FunctionsListed, TypeOK
<1>2. CodeAccounted
  BY DEF CodeAccounted, LiveCode
<1>3. CodeHome
  BY DEF CodeHome, Lists
<1> QED
  BY <1>1, <1>2, <1>3 DEF IInv

\* The main thread's operations on a closure: a new one, and one that gets code.
LEMMA NewClosureInv ==
    ASSUME IInv, NEW f \in Closure, NewClosure(f)
    PROVE  IInv'
<1> USE OptimizedCodeAssumption
<1> DEFINE c == IF Cached(ContextOf[f]) = {} THEN Full
                ELSE CHOOSE d \in Cached(ContextOf[f]) : TRUE
<1>1. TypeOK /\ FunctionsListed
  BY DEF IInv, FunctionsListed
<1>2. c \in Cached(ContextOf[f]) \cup {Full} /\ Cached(ContextOf[f]) \subseteq Code
  BY <1>1 DEF TypeOK, Cached
<1>3. ReplaceCode(f, c) /\ UNCHANGED <<inUse, outOfUse, marked, queued, codeMap, frames>>
  BY DEF NewClosure
<1> HIDE DEF c
<1>4. FunctionsListed'
  BY <1>1, <1>2, <1>3, ReplaceCodeListed DEF FunctionsListed, TypeOK
<1>5. \A g \in Closure :
         code'[g] \in Code => code'[g] = code[g] \/ code'[g] \in Cached(ContextOf[g])
  BY <1>1, <1>2, <1>3, ReplaceCodeListed
<1>6. \A i \in DOMAIN frames' : frames'[i].code \in LiveCode
  BY <1>3, Parts DEF IInv, FramesListed
<1>7. CodeAccounted' /\ CodeHome'
  BY <1>3, <1>5, <1>6, ListsUnchanged
<1> QED
  BY <1>4, <1>7 DEF IInv

\* A closure gets code from the optimized code map.
LEMMA InstallFromMapInv ==
    ASSUME IInv, NEW f \in Closure, InstallCodeFromOptimizedCodeMap(f)
    PROVE  IInv'
<1> USE OptimizedCodeAssumption
<1>1. TypeOK /\ FunctionsListed
  BY DEF IInv, FunctionsListed
<1>2. PICK c \in Cached(ContextOf[f]) : ReplaceCode(f, c)
  BY DEF InstallCodeFromOptimizedCodeMap
<1>3. c \in Code /\ UNCHANGED <<inUse, outOfUse, marked, queued, codeMap, frames>>
  BY <1>1 DEF TypeOK, Cached, InstallCodeFromOptimizedCodeMap
<1>4. FunctionsListed'
  BY <1>1, <1>2, <1>3, ReplaceCodeListed DEF FunctionsListed, TypeOK
<1>5. \A g \in Closure :
         code'[g] \in Code => code'[g] = code[g] \/ code'[g] \in Cached(ContextOf[g])
  BY <1>1, <1>2, <1>3, ReplaceCodeListed
<1>6. \A i \in DOMAIN frames' : frames'[i].code \in LiveCode
  BY <1>3, Parts DEF IInv, FramesListed
<1>7. CodeAccounted' /\ CodeHome'
  BY <1>3, <1>5, <1>6, ListsUnchanged
<1> QED
  BY <1>4, <1>7 DEF IInv

\* A job that is done with leaves its closure one job fewer.
LEMMA JobDone ==
    ASSUME TypeOK, NEW f \in Closure, queued[f] > 0,
           queued' = [queued EXCEPT ![f] = queued[f] - 1]
    PROVE  queued' \in [Closure -> 0..MaxJobs]
<1>1. queued[f] - 1 \in 0..MaxJobs
  BY OptimizedCodeAssumption DEF TypeOK
<1> QED
  BY <1>1 DEF TypeOK

\* Queueing changes no code.
LEMMA QueueInv ==
    ASSUME IInv, NEW f \in Closure, QueueForOptimization(f)
    PROVE  IInv'
<1> USE OptimizedCodeAssumption
<1>1. TypeOK /\ FunctionsListed
  BY DEF IInv, FunctionsListed
<1>2. /\ code[f] = Full /\ code' = [code EXCEPT ![f] = InQueue]
      /\ queued[f] < MaxJobs /\ queued' = [queued EXCEPT ![f] = @ + 1]
      /\ UNCHANGED <<functions, inUse, outOfUse, marked, codeMap, frames>>
  BY DEF QueueForOptimization
<1>3. FunctionsListed'
  <2>1. queued' \in [Closure -> 0..MaxJobs]
    BY <1>1, <1>2 DEF TypeOK
  <2>2. code' \in [Closure -> Code \cup {Full, InQueue, Dead}]
    BY <1>1, <1>2 DEF TypeOK
  <2> QED
    BY <1>1, <1>2, <2>1, <2>2 DEF FunctionsListed, TypeOK
<1>4. \A g \in Closure :
         code'[g] \in Code => code'[g] = code[g] \/ code'[g] \in Cached(ContextOf[g])
  BY <1>1, <1>2 DEF TypeOK
<1>5. \A i \in DOMAIN frames' : frames'[i].code \in LiveCode
  BY <1>2, Parts DEF IInv, FramesListed
<1>6. CodeAccounted' /\ CodeHome'
  BY <1>2, <1>4, <1>5, ListsUnchanged
<1> QED
  BY <1>3, <1>6 DEF IInv

\* Nor does the disposal of a job.
LEMMA DisposeJobInv ==
    ASSUME IInv, NEW f \in Closure, DisposeJob(f)
    PROVE  IInv'
<1> USE OptimizedCodeAssumption
<1>1. TypeOK /\ FunctionsListed
  BY DEF IInv, FunctionsListed
<1>2. /\ ReplaceCode(f, Full) /\ queued[f] > 0 /\ queued' = [queued EXCEPT ![f] = @ - 1]
      /\ UNCHANGED <<inUse, outOfUse, marked, codeMap, frames>>
  BY DEF DisposeJob
<1>3. FunctionsListed'
  <2>1. queued' \in [Closure -> 0..MaxJobs]
    BY <1>1, <1>2, JobDone
  <2> QED
    BY <1>1, <1>2, <2>1, ReplaceCodeListed DEF FunctionsListed, TypeOK
<1>4. \A g \in Closure :
         code'[g] \in Code => code'[g] = code[g] \/ code'[g] \in Cached(ContextOf[g])
  BY <1>1, <1>2, ReplaceCodeListed
<1>5. \A i \in DOMAIN frames' : frames'[i].code \in LiveCode
  BY <1>2, Parts DEF IInv, FramesListed
<1>6. CodeAccounted' /\ CodeHome'
  BY <1>2, <1>4, <1>5, ListsUnchanged
<1> QED
  BY <1>3, <1>6 DEF IInv

\* New code is put on the lists, with or without an entry in the map.
LEMMA InstallOptimizedInv ==
    ASSUME IInv, NEW f \in Closure, NEW c \in Code,
           InstallOptimizedCode(f, c) \/ InstallOsrCode(f, c)
    PROVE  IInv'
<1> USE OptimizedCodeAssumption
<1>1. TypeOK /\ FunctionsListed
  BY DEF IInv, FunctionsListed
<1>2. /\ c \notin LiveCode /\ ReplaceCode(f, c)
      /\ inUse' = [inUse EXCEPT ![ContextOf[f]] = @ \cup {c}]
      /\ UNCHANGED <<outOfUse, marked>>
      /\ codeMap' \in {codeMap, WithEntry(ContextOf[f], c)}
      /\ queued' \in [Closure -> 0..MaxJobs]
  BY <1>1, JobDone DEF InstallOptimizedCode, InstallOsrCode, TypeOK
<1>3. frames' = frames \/ frames' = Append(frames, [closure |-> f, code |-> c])
  BY DEF InstallOptimizedCode, InstallOsrCode
<1>4. frames' \in Seq(Frame) /\ \A i \in DOMAIN frames' : frames'[i].code \in LiveCode \cup {c}
  <2>1. CASE frames' = frames
    BY <1>1, <2>1, Parts DEF IInv, FramesListed, TypeOK, Frame
  <2>2. CASE frames' = Append(frames, [closure |-> f, code |-> c])
    BY <2>2, AppendListed
  <2> QED
    BY <1>3, <2>1, <2>2
<1>5. /\ code' \in [Closure -> Code \cup {Full, InQueue, Dead}]
      /\ functions' \in [Context -> SUBSET Closure]
      /\ code'[f] = c /\ \A g \in Closure \ {f} : code'[g] = code[g]
      /\ \A x \in Context :
            functions'[x] = {g \in Closure : ContextOf[g] = x /\ code'[g] \in Code}
  BY <1>1, <1>2, ReplaceCodeListed
<1>6. /\ CodeAccounted' /\ CodeHome'
      /\ inUse' \in [Context -> SUBSET Code]
      /\ codeMap' \subseteq [context : Context, code : Code]
  BY <1>2, <1>4, <1>5, CodeAdded
<1>7. FunctionsListed'
  BY <1>1, <1>2, <1>4, <1>5, <1>6 DEF FunctionsListed, TypeOK, Frame
<1> QED
  BY <1>6, <1>7 DEF IInv

\* Activations: a step that leaves the lists of code and of closures alone.
LEMMA FramesInv ==
    ASSUME IInv, UNCHANGED <<code, functions, inUse, outOfUse, marked, queued, codeMap>>,
           frames' \in Seq(Frame), \A i \in DOMAIN frames' : frames'[i].code \in LiveCode
    PROVE  IInv'
<1>1. CodeAccounted' /\ CodeHome'
  BY ListsUnchanged
<1>2. FunctionsListed'
  BY DEF IInv, FunctionsListed, TypeOK, Frame
<1> QED
  BY <1>1, <1>2 DEF IInv

\* A call activates the code of a closure.
LEMMA CallInv ==
    ASSUME IInv, NEW f \in Closure, Call(f)
    PROVE  IInv'
<1>1. code[f] \in Code /\ frames' = Append(frames, [closure |-> f, code |-> code[f]])
  BY DEF Call
<1>2. ContextOf[f] \in Context
  BY OptimizedCodeAssumption
<1>3. code[f] \in LiveCode
  BY <1>1, <1>2, Parts DEF IInv, ClosuresListed, LiveCode, Lists
<1>4. frames' \in Seq(Frame) /\ \A i \in DOMAIN frames' : frames'[i].code \in LiveCode
  BY <1>1, <1>3, AppendListed
<1> QED
  BY <1>4, FramesInv DEF Call

\* An activation returns.
LEMMA LeaveFrameInv ==
    ASSUME IInv, LeaveFrame
    PROVE  IInv'
BY FrontListed, FramesInv DEF LeaveFrame

\* Deoptimization: code is marked and moved, or a single closure is unlinked.
LEMMA BreakAssumptionInv ==
    ASSUME IInv, NEW broken \in SUBSET Code, BreakAssumption(broken)
    PROVE  IInv' /\ \A f \in Closure : code'[f] \notin marked' \ marked
<1>1. /\ \A c \in broken : c \in marked \/ \E x \in Context : c \in inUse[x]
      /\ DeoptimizeMarked(broken, Context, codeMap)
      /\ queued' = queued /\ frames' = frames
  BY DEF BreakAssumption
<1>2. \A i \in DOMAIN frames' : frames'[i].code \in LiveCode
  BY <1>1, Parts DEF IInv, FramesListed
<1>3. /\ CodeAccounted' /\ CodeHome'
      /\ inUse' \in [Context -> SUBSET Code] /\ outOfUse' \in [Context -> SUBSET Code]
      /\ marked' \subseteq Code
      /\ codeMap' \subseteq [context : Context, code : Code]
      /\ code' \in [Closure -> Code \cup {Full, InQueue, Dead}]
      /\ functions' \in [Context -> SUBSET Closure]
      /\ \A x \in Context :
            functions'[x] = {g \in Closure : ContextOf[g] = x /\ code'[g] \in Code}
      /\ \A f \in Closure : code'[f] \notin marked' \ marked
  BY <1>1, <1>2, MarkedMoved
<1>4. FunctionsListed'
  BY <1>1, <1>3 DEF IInv, FunctionsListed, TypeOK
<1> QED
  BY <1>3, <1>4 DEF IInv

\* After an eager bailout, the closure or the code is given up.
LEMMA NotifyDeoptimizedInv ==
    ASSUME IInv, NotifyDeoptimized
    PROVE  IInv' /\ \A f \in Closure : code'[f] \notin marked' \ marked
<1> USE OptimizedCodeAssumption
<1> DEFINE f == Last(frames).closure
           c == Last(frames).code
           map == Evicted(codeMap, {c})
<1>1. frames # << >> /\ frames' = Front(frames) /\ queued' = queued
  BY DEF NotifyDeoptimized
<1>2. /\ frames' \in Seq(Frame)
      /\ \A i \in DOMAIN frames' : frames'[i].code \in LiveCode
      /\ f \in Closure /\ c \in Code
  BY <1>1, FrontListed DEF Frame
<1>3. map \subseteq codeMap
  BY DEF Evicted
<1>4. TypeOK /\ FunctionsListed
  BY DEF IInv, FunctionsListed
<1>5. \/ /\ \/ ReplaceCode(f, Full)
            \/ UNCHANGED <<code, functions>>
         /\ codeMap' = map
         /\ UNCHANGED <<inUse, outOfUse, marked>>
      \/ /\ code[f] \in Code
         /\ DeoptimizeMarked({code[f]} \cap Code, {ContextOf[f]}, map)
  BY DEF NotifyDeoptimized, DeoptimizeFunction
<1> HIDE DEF f, c, map
<1>6. CASE /\ \/ ReplaceCode(f, Full)
              \/ UNCHANGED <<code, functions>>
           /\ codeMap' = map
           /\ UNCHANGED <<inUse, outOfUse, marked>>
  <2>1. /\ code' \in [Closure -> Code \cup {Full, InQueue, Dead}]
        /\ functions' \in [Context -> SUBSET Closure]
        /\ \A g \in Closure : code'[g] \in Code => code'[g] = code[g]
        /\ \A x \in Context :
              functions'[x] = {g \in Closure : ContextOf[g] = x /\ code'[g] \in Code}
    <3>1. CASE ReplaceCode(f, Full)
      BY <1>2, <1>4, <3>1, ReplaceCodeListed
    <3>2. CASE UNCHANGED <<code, functions>>
      BY <1>4, <3>2 DEF FunctionsListed, TypeOK
    <3> QED
      BY <1>6, <3>1, <3>2
  <2>2. CodeAccounted' /\ CodeHome'
    BY <1>2, <1>3, <1>6, <2>1, ListsUnchanged
  <2>3. FunctionsListed'
    BY <1>1, <1>2, <1>3, <1>4, <1>6, <2>1 DEF FunctionsListed, TypeOK, Frame
  <2> QED
    BY <1>6, <2>2, <2>3 DEF IInv
<1>7. CASE /\ code[f] \in Code
           /\ DeoptimizeMarked({code[f]} \cap Code, {ContextOf[f]}, map)
  <2>1. ContextOf[f] \in Context /\ code[f] \in Lists(ContextOf[f])
    BY <1>2, <1>7, Parts DEF IInv, ClosuresListed
  <2>2. code[f] \in marked \/ code[f] \in inUse[ContextOf[f]]
    BY <2>1, Parts DEF IInv, MarkedListed, Lists
  <2>3. /\ CodeAccounted' /\ CodeHome'
        /\ inUse' \in [Context -> SUBSET Code] /\ outOfUse' \in [Context -> SUBSET Code]
        /\ marked' \subseteq Code
        /\ codeMap' \subseteq [context : Context, code : Code]
        /\ code' \in [Closure -> Code \cup {Full, InQueue, Dead}]
        /\ functions' \in [Context -> SUBSET Closure]
        /\ \A x \in Context :
              functions'[x] = {g \in Closure : ContextOf[g] = x /\ code'[g] \in Code}
        /\ \A g \in Closure : code'[g] \notin marked' \ marked
    <3> DEFINE more == {code[f]} \cap Code
               from == {ContextOf[f]}
    <3>1. more \in SUBSET Code /\ from \in SUBSET Context /\ map \in SUBSET codeMap
      BY <1>3, <2>1
    <3>2. \A d \in more : d \in marked \/ \E x \in from : d \in inUse[x]
      BY <2>2
    <3>3. DeoptimizeMarked(more, from, map)
      BY <1>7
    <3> HIDE DEF more, from
    <3> QED
      BY <1>2, <3>1, <3>2, <3>3, MarkedMoved
  <2>4. FunctionsListed'
    BY <1>1, <1>2, <1>4, <2>3 DEF FunctionsListed, TypeOK, Frame
  <2> QED
    BY <2>3, <2>4 DEF IInv
<1> QED
  BY <1>5, <1>6, <1>7

\* Collections: closures and code that nothing needs leave every list.
LEMMA ScavengeInv ==
    ASSUME IInv, NEW dead \in SUBSET Closure, Scavenge(dead)
    PROVE  IInv'
<1> USE OptimizedCodeAssumption
<1>1. TypeOK /\ FunctionsListed
  BY DEF IInv, FunctionsListed
<1>2. /\ code' = [f \in Closure |-> IF f \in dead THEN Dead ELSE code[f]]
      /\ functions' = [x \in Context |-> functions[x] \ dead]
      /\ UNCHANGED <<inUse, outOfUse, marked, queued, codeMap, frames>>
  BY DEF Scavenge
<1>3. \A g \in Closure : code'[g] \in Code => code'[g] = code[g]
  BY <1>2
<1>4. \A i \in DOMAIN frames' : frames'[i].code \in LiveCode
  BY <1>2, Parts DEF IInv, FramesListed
<1>5. CodeAccounted' /\ CodeHome'
  BY <1>2, <1>3, <1>4, ListsUnchanged
<1>6. FunctionsListed'
  BY <1>1, <1>2 DEF FunctionsListed, TypeOK
<1> QED
  BY <1>5, <1>6 DEF IInv

\* A full collection frees what only the lists refer to.
LEMMA MarkCompactInv ==
    ASSUME IInv, NEW dead \in SUBSET Closure, NEW deadCode \in SUBSET Code,
           MarkCompact(dead, deadCode)
    PROVE  IInv' /\ marked' \subseteq marked
<1> USE OptimizedCodeAssumption
<1>1. TypeOK /\ FunctionsListed
  BY DEF IInv, FunctionsListed
<1>2. /\ \A c \in deadCode : ~Active(c) /\ \A f \in Closure \ dead : code[f] # c
      /\ code' = [f \in Closure |-> IF f \in dead THEN Dead ELSE code[f]]
      /\ functions' = [x \in Context |-> functions[x] \ dead]
      /\ inUse' = [x \in Context |-> inUse[x] \ deadCode]
      /\ outOfUse' = [x \in Context |-> outOfUse[x] \ deadCode]
      /\ marked' = marked \ deadCode
      /\ codeMap' \in {Evicted(codeMap, deadCode), {}}
      /\ UNCHANGED <<queued, frames>>
  BY DEF MarkCompact, Processed
<1>3. \A x \in Context : Lists(x)' = Lists(x) \ deadCode
  BY <1>2 DEF Lists
<1>4. LiveCode' = LiveCode \ deadCode
  BY <1>2 DEF LiveCode
<1>5. Divided'
  BY <1>2, Parts DEF IInv, Divided
<1>6. MarkedListed'
  BY <1>2, Parts DEF IInv, MarkedListed
<1>7. FramesListed'
  BY <1>2, <1>4, Parts DEF IInv, FramesListed, Active
<1>8. ClosuresListed'
  <2> SUFFICES ASSUME NEW f \in Closure, code'[f] \in Code
               PROVE  code'[f] \in Lists(ContextOf[f])'
    BY DEF ClosuresListed
  <2>1. f \notin dead /\ code'[f] = code[f]
    BY <1>2
  <2>2. code[f] \in Lists(ContextOf[f]) /\ code[f] \notin deadCode
    BY <1>2, <2>1, Parts DEF IInv, ClosuresListed
  <2>3. ContextOf[f] \in Context
    OBVIOUS
  <2> QED
    BY <1>3, <2>1, <2>2, <2>3
<1>9. \A e \in codeMap' : e \in codeMap /\ e.code \notin deadCode
  BY <1>2 DEF Evicted
<1>10. MapListed'
  <2>1. \A e \in codeMap : e.context \in Context
    BY <1>1 DEF TypeOK
  <2> QED
    BY <1>3, <1>9, <2>1, Parts DEF IInv, MapListed
<1>11. CodeHome'
  BY <1>3 DEF IInv, CodeHome
<1>12. CodeAccounted'
  BY <1>5, <1>6, <1>7, <1>8, <1>10, Parts, PTL
<1>13. FunctionsListed'
  <2>1. TypeOK'
    BY <1>1, <1>2, <1>9 DEF TypeOK
  <2>2. \A x \in Context :
           functions'[x] = {f \in Closure : ContextOf[f] = x /\ code'[f] \in Code}
    BY <1>1, <1>2 DEF FunctionsListed
  <2> QED
    BY <2>1, <2>2 DEF FunctionsListed
<1> QED
  BY <1>2, <1>11, <1>12, <1>13 DEF IInv

\* Every step keeps the invariant, and unlinks every closure from what it marks.
LEMMA StepInv ==
    ASSUME IInv, [Next]_vars
    PROVE  IInv' /\ \A f \in Closure : code'[f] \notin marked' \ marked
<1>1. CASE \E f \in Closure :
              \/ NewClosure(f) \/ InstallCodeFromOptimizedCodeMap(f) \/ Call(f)
              \/ QueueForOptimization(f) \/ DisposeJob(f)
              \/ \E c \in Code : InstallOptimizedCode(f, c) \/ InstallOsrCode(f, c)
  <2>1. IInv'
    BY <1>1, NewClosureInv, InstallFromMapInv, CallInv, QueueInv, DisposeJobInv,
       InstallOptimizedInv
  <2>2. marked' = marked
    BY <1>1 DEF NewClosure, InstallCodeFromOptimizedCodeMap, Call, QueueForOptimization,
       DisposeJob, InstallOptimizedCode, InstallOsrCode
  <2> QED
    BY <2>1, <2>2
<1>2. CASE LeaveFrame
  BY <1>2, LeaveFrameInv DEF LeaveFrame
<1>3. CASE NotifyDeoptimized
  BY <1>3, NotifyDeoptimizedInv
<1>4. CASE \E broken \in SUBSET Code : BreakAssumption(broken)
  BY <1>4, BreakAssumptionInv
<1>5. CASE \E dead \in SUBSET Closure :
              Scavenge(dead) \/ \E deadCode \in SUBSET Code : MarkCompact(dead, deadCode)
  <2>1. IInv'
    BY <1>5, ScavengeInv, MarkCompactInv
  <2>2. marked' \subseteq marked
    BY <1>5, MarkCompactInv DEF Scavenge
  <2> QED
    BY <2>1, <2>2
<1>6. CASE UNCHANGED vars
  <2>1. UNCHANGED <<code, functions, inUse, outOfUse, marked, queued, codeMap, frames>>
    BY <1>6 DEF vars
  <2>2. /\ frames' \in Seq(Frame)
        /\ \A i \in DOMAIN frames' : frames'[i].code \in LiveCode
    BY <2>1, Parts DEF IInv, FunctionsListed, TypeOK, Frame, FramesListed
  <2> QED
    BY <2>1, <2>2, FramesInv
<1> QED
  BY <1>1, <1>2, <1>3, <1>4, <1>5, <1>6 DEF Next

-------------------------------------------------------------------------------
\* The inductive invariant holds: the lists are complete, the marks agree with
\* them, and code stays with the context it was compiled for.
THEOREM InductiveInvariant == Spec => []IInv
<1>1. Init => IInv
  BY InitInv
<1>2. IInv /\ [Next]_vars => IInv'
  BY StepInv
<1> QED
  BY <1>1, <1>2, PTL DEF Spec

\* Closures with optimized code, and only those, are on the list of their context,
\* where Deoptimizer looks for what to unlink.
THEOREM FunctionsListedTheorem == Spec => []FunctionsListed
<1>1. IInv => FunctionsListed
  BY DEF IInv
<1> QED
  BY <1>1, InductiveInvariant, PTL

\* Code is on the list that its mark calls for, and whatever refers to code finds
\* it on a list of its own context.
THEOREM CodeAccountedTheorem == Spec => []CodeAccounted
<1>1. IInv => CodeAccounted
  BY DEF IInv
<1> QED
  BY <1>1, InductiveInvariant, PTL

\* No closure is left with code by the step that marks it for deoptimization.
THEOREM MarkingUnlinksTheorem == Spec => MarkingUnlinks
<1>1. IInv /\ [Next]_vars => [\A f \in Closure : code'[f] \notin marked' \ marked]_vars
  BY StepInv
<1> QED
  BY <1>1, InductiveInvariant, PTL DEF Spec, MarkingUnlinks

-------------------------------------------------------------------------------
(* DependentCode *)

USE DependentCodeAssumption

Room(d) == Cardinality(DOMAIN d.entry)

\* An array of dependent code: its places are numbered from 0, those of the
\* groups come first, and what follows them is undefined.
IsArray(d) ==
    /\ d = [count |-> d.count, entry |-> d.entry]
    /\ d.count \in [Group -> Nat]
    /\ Room(d) \in Nat
    /\ d.entry \in [0..(Room(d) - 1) -> Info \cup CodeObject \cup {NULL}]
    /\ Entries(d) <= Room(d)
    /\ \A i \in 0..(Room(d) - 1) :
          d.entry[i] \in IF i < Entries(d) THEN Info \cup CodeObject ELSE {NULL}

DependentTypes ==
    /\ info \in [Info -> {"none", "graph", "queued", "codegen"}]
    /\ aborted \in [Info -> BOOLEAN]
    /\ uses \in [Info -> [Group -> Nat]]
    /\ codes \in [CodeObject -> {"none", "new", "live"}]
    /\ markedCode \in [CodeObject -> BOOLEAN]
    /\ assumes \in [CodeObject -> SUBSET Group]
    /\ current \in Info \cup {NULL}
    /\ insert = NULL \/ insert \in [group : Group, object : Info \cup CodeObject]

\* Whose turn it is: one compilation at a time builds its graph or generates
\* code, and an insertion that has been interrupted is on behalf of that.
InHand ==
    /\ \A a \in Info : info[a] \in {"graph", "codegen"} <=> a = current
    /\ \A a \in Info : info[a] = "codegen" => ~aborted[a]
    /\ \A a \in Info : info[a] = "none" => uses[a] = NoUses /\ ~aborted[a]
    /\ \A c \in CodeObject : codes[c] = "new" => current \in Info /\ info[current] = "codegen"
    /\ \A b, c \in CodeObject : codes[b] = "new" /\ codes[c] = "new" => b = c
    /\ insert # NULL =>
          \/ insert.object = current /\ current \in Info /\ info[current] = "graph"
          \/ insert.object \in CodeObject /\ codes[insert.object] = "new"

\* The entries of compilations are covered by what their end undoes.
Undone ==
    \A g \in Group, a \in Info : Cardinality(PlacesOf(dep, g, a)) <= uses[a][g]

CodeThere ==
    \A g \in Group, c \in CodeObject : c \in Members(dep, g) => codes[c] # "none"

DependentInv ==
    /\ IsArray(dep) /\ DependentTypes /\ InHand
    /\ Undone /\ CodeThere /\ NobodyForgotten

-------------------------------------------------------------------------------
(* Start indexes *)

\* A set of numbers that is not empty has a least one.
LEMMA LeastNumber ==
    ASSUME NEW T \in SUBSET Nat, T # {}
    PROVE  \E x \in T : \A y \in T : x <= y
<1>1. PICK x \in T : \A y \in T : ~ (<<y, x>> \in OpToRel(<, Nat))
  BY NatLessThanWellFounded, WFMin
<1>2. \A y \in T : ~ (y < x)
  BY <1>1 DEF OpToRel
<1> QED
  BY <1>2

\* Induction up to n, for a set.
LEMMA UpTo ==
    ASSUME NEW n \in Nat, NEW S, 0 \in S, \A k \in 0..(n - 1) : k \in S => k + 1 \in S
    PROVE  \A k \in 0..n : k \in S
<1> DEFINE bad == {k \in 0..n : k \notin S}
<1>1. SUFFICES ASSUME bad # {} PROVE FALSE
  OBVIOUS
<1>2. PICK k \in bad : \A l \in bad : k <= l
  <2>1. bad \in SUBSET Nat
    OBVIOUS
  <2> HIDE DEF bad
  <2> QED
    BY <1>1, <2>1, LeastNumber
<1>3. k # 0 /\ k \in 0..n /\ k \notin S
  BY <1>2
<1>4. k - 1 \in 0..(n - 1) /\ k - 1 \in 0..n /\ k - 1 < k /\ (k - 1) + 1 = k
  BY <1>3
<1>5. k - 1 \in S
  <2>1. k - 1 \notin bad
    <3> HIDE DEF bad
    <3> QED
      BY <1>2, <1>3, <1>4
  <2> QED
    BY <1>4, <2>1
<1> QED
  BY <1>3, <1>4, <1>5

\* The recursion of Start, as a step.
StartStep(d, f, h) == IF h = 0 THEN 0 ELSE f[h - 1] + d.count[h - 1]

StartRun(d, n, f) == f = [h \in 0..n |-> StartStep(d, f, h)]

\* There is a function that satisfies the recursion.
LEMMA StartExists ==
    ASSUME NEW d, NEW n \in Nat
    PROVE  \E f : StartRun(d, n, f)
<1> DEFINE S == {k \in Nat : \E f : StartRun(d, k, f)}
<1>1. 0 \in S
  <2>1. [h \in 0..0 |-> 0] = [h \in 0..0 |-> StartStep(d, [j \in 0..0 |-> 0], h)]
    BY DEF StartStep
  <2>2. \E f : StartRun(d, 0, f)
    BY <2>1 DEF StartRun
  <2> QED
    BY <2>2
<1>2. ASSUME NEW k \in 0..(n - 1), k \in S PROVE k + 1 \in S
  <2>1. PICK f : StartRun(d, k, f)
    BY <1>2
  <2> DEFINE h == [i \in 0..(k + 1) |-> IF i = k + 1 THEN StartStep(d, f, i) ELSE f[i]]
  <2>2. ASSUME NEW i \in 0..(k + 1) PROVE h[i] = StartStep(d, h, i)
    <3>1. i # 0 => i - 1 \in 0..(k + 1) /\ h[i - 1] = f[i - 1]
      OBVIOUS
    <3>2. StartStep(d, h, i) = StartStep(d, f, i)
      BY <3>1 DEF StartStep
    <3>3. i # k + 1 => i \in 0..k
      OBVIOUS
    <3>4. i # k + 1 => f[i] = StartStep(d, f, i)
      BY <2>1, <3>3 DEF StartRun
    <3> QED
      BY <3>2, <3>4
  <2>3. h = [i \in 0..(k + 1) |-> StartStep(d, h, i)]
    BY <2>2
  <2>4. \E g : StartRun(d, k + 1, g)
    BY <2>3 DEF StartRun
  <2> QED
    BY <2>4
<1> HIDE DEF S
<1>3. n \in 0..n
  OBVIOUS
<1>4. n \in S
  BY <1>1, <1>2, <1>3, UpTo
<1> QED
  BY <1>4 DEF S

\* Group g begins where the group before it ends, and the groups follow one
\* another.
LEMMA StartFacts ==
    ASSUME NEW d, d.count \in [Group -> Nat]
    PROVE  /\ Start(d, 0) = 0
           /\ \A g \in Group : Start(d, g + 1) = Start(d, g) + d.count[g]
           /\ \A g \in 0..kGroupCount : Start(d, g) \in Nat
           /\ \A g, h \in 0..kGroupCount : g <= h => Start(d, g) <= Start(d, h)
<1>1. \E f : StartRun(d, kGroupCount, f)
  BY StartExists
<1> DEFINE f == CHOOSE f : StartRun(d, kGroupCount, f)
<1>2. f = [h \in 0..kGroupCount |-> StartStep(d, f, h)]
  BY <1>1 DEF StartRun
<1>3. \A g : Start(d, g) = f[g]
  BY DEF Start, StartStep, StartRun
<1> HIDE DEF f
<1>4. f[0] = 0
  BY <1>2 DEF StartStep
<1>5. \A g \in Group : f[g + 1] = f[g] + d.count[g]
  <2> TAKE g \in Group
  <2>1. g + 1 \in 0..kGroupCount /\ g + 1 # 0 /\ (g + 1) - 1 = g
    BY DEF Group
  <2> QED
    BY <1>2, <2>1 DEF StartStep
<1>6. \A k \in 0..kGroupCount : f[k] \in Nat
  <2> DEFINE S == {k \in Nat : f[k] \in Nat}
  <2>1. 0 \in S
    BY <1>4
  <2>2. \A k \in 0..(kGroupCount - 1) : k \in S => k + 1 \in S
    <3>1. \A k \in Group : f[k] \in Nat => f[k + 1] \in Nat
      BY <1>5
    <3> QED
      BY <3>1 DEF Group
  <2> HIDE DEF S
  <2>3. \A k \in 0..kGroupCount : k \in S
    BY <2>1, <2>2, UpTo
  <2> QED
    BY <2>3 DEF S
<1>7. ASSUME NEW g \in 0..kGroupCount
      PROVE  \A h \in 0..kGroupCount : g <= h => f[g] <= f[h]
  <2> DEFINE S == {k \in Nat : g <= k => f[g] <= f[k]}
  <2>1. 0 \in S
    BY <1>6
  <2>2. \A k \in 0..(kGroupCount - 1) : k \in S => k + 1 \in S
    <3> TAKE k \in 0..(kGroupCount - 1)
    <3>1. HAVE k \in S
    <3>2. f[k + 1] = f[k] + d.count[k] /\ d.count[k] \in Nat /\ f[k] \in Nat /\ f[g] \in Nat
      BY <1>5, <1>6 DEF Group
    <3>3. g <= k + 1 => f[g] <= f[k + 1]
      <4>1. CASE g <= k
        BY <3>1, <3>2, <4>1
      <4>2. CASE g = k + 1
        BY <3>2, <4>2
      <4>3. g <= k + 1 => g <= k \/ g = k + 1
        OBVIOUS
      <4> QED
        BY <4>1, <4>2, <4>3
    <3> QED
      BY <3>3
  <2> HIDE DEF S
  <2>3. \A k \in 0..kGroupCount : k \in S
    BY <2>1, <2>2, UpTo
  <2> QED
    BY <2>3 DEF S
<1> QED
  BY <1>3, <1>4, <1>5, <1>6, <1>7

\* If one counter changes, the groups behind move by the difference.
LEMMA StartShift ==
    ASSUME NEW d, d.count \in [Group -> Nat], NEW e, e.count \in [Group -> Nat],
           NEW g \in Group, \A h \in Group \ {g} : e.count[h] = d.count[h]
    PROVE  \A h \in 0..kGroupCount :
              Start(e, h) = IF h <= g THEN Start(d, h)
                            ELSE Start(d, h) + e.count[g] - d.count[g]
<1> DEFINE S == {h \in Nat : Start(e, h) = IF h <= g THEN Start(d, h)
                                           ELSE Start(d, h) + e.count[g] - d.count[g]}
<1>1. 0 \in S
  <2>1. Start(d, 0) = 0 /\ Start(e, 0) = 0
    BY StartFacts
  <2>2. 0 <= g
    BY DEF Group
  <2> QED
    BY <2>1, <2>2
<1>2. \A h \in 0..(kGroupCount - 1) : h \in S => h + 1 \in S
  <2> TAKE h \in 0..(kGroupCount - 1)
  <2>1. HAVE h \in S
  <2>2. h \in Group /\ h \in 0..kGroupCount
    BY DEF Group
  <2>3. /\ Start(e, h + 1) = Start(e, h) + e.count[h]
        /\ Start(d, h + 1) = Start(d, h) + d.count[h]
        /\ Start(d, h) \in Nat /\ d.count[h] \in Nat /\ e.count[h] \in Nat
        /\ d.count[g] \in Nat /\ e.count[g] \in Nat
    BY <2>2, StartFacts
  <2>4. Start(e, h) = IF h <= g THEN Start(d, h) ELSE Start(d, h) + e.count[g] - d.count[g]
    BY <2>1
  <2>5. g \in Int /\ h \in Int
    BY DEF Group
  <2>6. h # g => e.count[h] = d.count[h]
    BY <2>2
  <2>7. Start(e, h + 1) = IF h + 1 <= g THEN Start(d, h + 1)
                          ELSE Start(d, h + 1) + e.count[g] - d.count[g]
    <3>1. CASE h = g
      BY <2>3, <2>4, <2>5, <3>1
    <3>2. CASE h < g
      BY <2>3, <2>4, <2>5, <2>6, <3>2
    <3>3. CASE h > g
      BY <2>3, <2>4, <2>5, <2>6, <3>3
    <3> QED
      BY <2>5, <3>1, <3>2, <3>3
  <2> QED
    BY <2>7
<1> HIDE DEF S
<1>3. \A h \in 0..kGroupCount : h \in S
  BY <1>1, <1>2, UpTo
<1> QED
  BY <1>3 DEF S

\* Every entry is in a group.
LEMMA EveryEntryInGroup ==
    ASSUME NEW d, d.count \in [Group -> Nat], NEW i \in 0..(Entries(d) - 1)
    PROVE  \E g \in Group : i \in Places(d, g)
<1> DEFINE T == {h \in 0..kGroupCount : i < Start(d, h)}
<1>1. PICK h \in T : \A k \in T : h <= k
  <2>1. T \in SUBSET Nat
    OBVIOUS
  <2>2. kGroupCount \in 0..kGroupCount /\ Start(d, kGroupCount) \in Nat
    BY StartFacts
  <2>3. kGroupCount \in T
    BY <2>2 DEF Entries
  <2> HIDE DEF T
  <2> QED
    BY <2>1, <2>3, LeastNumber
<1>2. i < Start(d, h) /\ h \in 0..kGroupCount /\ h # 0 /\ i \in Nat
  BY StartFacts DEF Entries
<1>3. h - 1 \in Group /\ h - 1 \in 0..kGroupCount /\ (h - 1) + 1 = h /\ h - 1 < h
  BY <1>2 DEF Group
<1>4. ~(i < Start(d, h - 1))
  <2>1. h - 1 \notin T
    <3> HIDE DEF T
    <3> QED
      BY <1>1, <1>2, <1>3
  <2> QED
    BY <1>3, <2>1
<1>5. Start(d, h - 1) \in Nat /\ Start(d, h) \in Nat
  BY <1>2, <1>3, StartFacts
<1>6. i \in Places(d, h - 1)
  BY <1>2, <1>3, <1>4, <1>5 DEF Places
<1> QED
  BY <1>3, <1>6

\* The places of a group are before the end, and not those of another group.
LEMMA PlacesApart ==
    ASSUME NEW d, d.count \in [Group -> Nat], NEW g \in Group
    PROVE  /\ Places(d, g) \subseteq 0..(Entries(d) - 1)
           /\ Entries(d) \in Nat
           /\ \A h \in Group \ {g} : Places(d, g) \cap Places(d, h) = {}
<1>1. /\ g \in 0..kGroupCount /\ g + 1 \in 0..kGroupCount /\ kGroupCount \in 0..kGroupCount
      /\ g + 1 <= kGroupCount
  BY DEF Group
<1>2. /\ Start(d, g) \in Nat /\ Start(d, g + 1) \in Nat /\ Entries(d) \in Nat
      /\ Start(d, g + 1) <= Entries(d)
  BY <1>1, StartFacts DEF Entries
<1>3. Places(d, g) \subseteq 0..(Entries(d) - 1)
  BY <1>2 DEF Places
<1>4. ASSUME NEW h \in Group \ {g}, NEW i \in Places(d, g), i \in Places(d, h) PROVE FALSE
  <2>1. h \in 0..kGroupCount /\ h + 1 \in 0..kGroupCount
    BY DEF Group
  <2>2. /\ Start(d, g) <= i /\ i < Start(d, g + 1) /\ Start(d, h) <= i /\ i < Start(d, h + 1)
        /\ i \in Int
    BY <1>2, <1>4, <2>1, StartFacts DEF Places
  <2>3. Start(d, h) \in Nat /\ Start(d, h + 1) \in Nat
    BY <2>1, StartFacts
  <2>4. CASE g < h
    <3>1. g + 1 <= h
      BY <2>4 DEF Group
    <3>2. Start(d, g + 1) <= Start(d, h)
      BY <1>1, <2>1, <3>1, StartFacts
    <3> QED
      BY <1>2, <2>2, <2>3, <3>2
  <2>5. CASE h < g
    <3>1. h + 1 <= g
      BY <2>5 DEF Group
    <3>2. Start(d, h + 1) <= Start(d, g)
      BY <1>1, <2>1, <3>1, StartFacts
    <3> QED
      BY <1>2, <2>2, <2>3, <3>2
  <2> QED
    BY <2>4, <2>5 DEF Group
<1> QED
  BY <1>2, <1>3, <1>4

-------------------------------------------------------------------------------
(* Groups *)

Num(d, g, x) == Cardinality(PlacesOf(d, g, x))

\* The ends of groups, from a group to one behind it.
LEMMA Ends ==
    ASSUME NEW d, d.count \in [Group -> Nat], NEW g \in Group
    PROVE  /\ Start(d, g) \in Nat /\ Start(d, g + 1) \in Nat /\ d.count[g] \in Nat
           /\ Start(d, g + 1) = Start(d, g) + d.count[g]
           /\ Entries(d) \in Nat /\ Start(d, g + 1) <= Entries(d)
           /\ \A h \in Group : g < h => Start(d, g + 1) <= Start(d, h)
<1>1. g \in 0..kGroupCount /\ g + 1 \in 0..kGroupCount /\ kGroupCount \in 0..kGroupCount
      /\ g + 1 <= kGroupCount
  BY DEF Group
<1>2. ASSUME NEW h \in Group, g < h PROVE h \in 0..kGroupCount /\ g + 1 <= h
  BY <1>2 DEF Group
<1>3. ASSUME NEW h \in Group, g < h PROVE Start(d, g + 1) <= Start(d, h)
  BY <1>1, <1>2, <1>3, StartFacts
<1>4. /\ Start(d, g) \in Nat /\ Start(d, g + 1) \in Nat /\ Entries(d) \in Nat
      /\ Start(d, g + 1) <= Entries(d)
      /\ Start(d, g + 1) = Start(d, g) + d.count[g]
  BY <1>1, StartFacts DEF Entries
<1> QED
  BY <1>3, <1>4

\* The places of a group are finitely many.
LEMMA PlacesFinite ==
    ASSUME NEW d, d.count \in [Group -> Nat], NEW g \in Group
    PROVE  /\ IsFiniteSet(Places(d, g))
           /\ \A x : IsFiniteSet(PlacesOf(d, g, x)) /\ Num(d, g, x) \in Nat
           /\ \A x : x \in Members(d, g) <=> Num(d, g, x) # 0
<1>1. Start(d, g) \in Int /\ Start(d, g + 1) - 1 \in Int
  BY Ends
<1>2. IsFiniteSet(Places(d, g))
  BY <1>1, FS_Interval DEF Places
<1>3. ASSUME NEW x PROVE IsFiniteSet(PlacesOf(d, g, x)) /\ Num(d, g, x) \in Nat
  <2>1. PlacesOf(d, g, x) \in SUBSET Places(d, g)
    BY DEF PlacesOf
  <2>2. IsFiniteSet(PlacesOf(d, g, x))
    BY <1>2, <2>1, FS_Subset
  <2> QED
    BY <2>2, FS_CardinalityType DEF Num
<1>4. ASSUME NEW x PROVE x \in Members(d, g) <=> Num(d, g, x) # 0
  <2>1. Num(d, g, x) = 0 <=> PlacesOf(d, g, x) = {}
    BY <1>3, FS_EmptySet DEF Num
  <2>2. x \in Members(d, g) <=> PlacesOf(d, g, x) # {}
    BY DEF Members, PlacesOf
  <2> QED
    BY <2>1, <2>2
<1> QED
  BY <1>2, <1>3, <1>4

\* The entries of the group of e are taken, by f, from the places S of the group
\* in d, each at most once.
DrawnFrom(d, e, g, S, f) ==
    /\ S \subseteq Places(d, g)
    /\ f \in [Places(e, g) -> S]
    /\ \A i, j \in Places(e, g) : f[i] = f[j] => i = j
    /\ \A i \in Places(e, g) : e.entry[i] = d.entry[f[i]]

Onto(e, g, S, f) == \A j \in S : \E i \in Places(e, g) : f[i] = j

Entry(d, S) == {d.entry[j] : j \in S}

Among(d, S, x) == {j \in S : d.entry[j] = x}

\* Then the group of e has no entry more often than S has it in d, and has what
\* S has if f takes all of it.
LEMMA Drawn ==
    ASSUME NEW d, d.count \in [Group -> Nat], NEW e, NEW g \in Group,
           NEW S, NEW f, DrawnFrom(d, e, g, S, f)
    PROVE  /\ \A x : Num(e, g, x) <= Cardinality(Among(d, S, x))
           /\ Members(e, g) \subseteq Entry(d, S)
           /\ Onto(e, g, S, f) => Members(e, g) = Entry(d, S)
<1>1. ASSUME NEW x PROVE Num(e, g, x) <= Cardinality(Among(d, S, x))
  <2>1. PICK T : T = Among(d, S, x)
    OBVIOUS
  <2>2. PICK Q : Q = PlacesOf(e, g, x)
    OBVIOUS
  <2>3. PICK k : k = [i \in Q |-> f[i]]
    OBVIOUS
  <2>4. k \in [Q -> T]
    BY <2>1, <2>2, <2>3 DEF PlacesOf, DrawnFrom, Among
  <2>5. \A i, j \in Q : k[i] = k[j] => i = j
    BY <2>2, <2>3 DEF PlacesOf, DrawnFrom, Among
  <2>6. k \in Injection(Q, T)
    BY <2>4, <2>5 DEF Injection, IsInjective
  <2>7. IsFiniteSet(T)
    <3>1. T \in SUBSET Places(d, g)
      BY <2>1 DEF DrawnFrom, Among
    <3> QED
      BY <3>1, PlacesFinite, FS_Subset
  <2>8. Cardinality(Q) <= Cardinality(T)
    BY <2>6, <2>7, FS_Injection
  <2> QED
    BY <2>1, <2>2, <2>8 DEF Num
<1>2. Members(e, g) \subseteq Entry(d, S)
  BY DEF Members, DrawnFrom, Entry, Onto
<1>3. ASSUME Onto(e, g, S, f)
      PROVE  Entry(d, S) \subseteq Members(e, g)
  BY <1>3 DEF Members, DrawnFrom, Entry, Onto
<1> QED
  BY <1>1, <1>2, <1>3

\* The group is the same in d and e but for the order of its entries.
SameGroup(d, e, g) ==
    /\ Members(e, g) = Members(d, g)
    /\ \A x : Num(e, g, x) <= Num(d, g, x)

\* A group whose entries are all taken, each once, is the same but for order.
LEMMA Reordered ==
    ASSUME NEW d, d.count \in [Group -> Nat], NEW e, NEW g \in Group,
           NEW f, DrawnFrom(d, e, g, Places(d, g), f), Onto(e, g, Places(d, g), f)
    PROVE  SameGroup(d, e, g)
<1>1. /\ \A x : Num(e, g, x) <= Cardinality(Among(d, Places(d, g), x))
      /\ Members(e, g) = Entry(d, Places(d, g))
  BY Drawn
<1>2. \A x : Among(d, Places(d, g), x) = PlacesOf(d, g, x)
  BY DEF PlacesOf, Among
<1>3. \A x : Num(e, g, x) <= Num(d, g, x)
  BY <1>1, <1>2 DEF Num
<1>4. Members(e, g) = Members(d, g)
  BY <1>1 DEF Members, Entry
<1> QED
  BY <1>3, <1>4 DEF SameGroup

\* A group whose places and entries are the same.
LEMMA Untouched ==
    ASSUME NEW d, d.count \in [Group -> Nat], NEW e, NEW g \in Group,
           Places(e, g) = Places(d, g), \A i \in Places(d, g) : e.entry[i] = d.entry[i]
    PROVE  SameGroup(d, e, g)
<1>1. Members(e, g) = Members(d, g)
  BY DEF Members
<1>2. \A x : PlacesOf(e, g, x) = PlacesOf(d, g, x)
  BY DEF PlacesOf
<1>3. \A x : Num(e, g, x) = Num(d, g, x) /\ Num(d, g, x) \in Nat
  BY <1>2, PlacesFinite DEF Num
<1> QED
  BY <1>1, <1>3 DEF SameGroup

\* What makes an array, from its groups.
LEMMA ArrayOfGroups ==
    ASSUME NEW c \in [Group -> Nat], NEW n \in Nat,
           NEW s \in [0..(n - 1) -> Info \cup CodeObject \cup {NULL}],
           NEW e, e = [count |-> c, entry |-> s],
           Entries(e) <= n,
           \A g \in Group : Members(e, g) \subseteq Info \cup CodeObject,
           \A i \in 0..(n - 1) : Entries(e) <= i => s[i] = NULL
    PROVE  IsArray(e) /\ Room(e) = n
<1>1. e.count = c /\ e.entry = s
  OBVIOUS
<1>2. Room(e) = n
  <2>1. DOMAIN e.entry = 0..(n - 1)
    BY <1>1
  <2>2. Cardinality(0..(n - 1)) = n
    BY FS_Interval
  <2> QED
    BY <2>1, <2>2 DEF Room
<1>3. ASSUME NEW i \in 0..(n - 1)
      PROVE  s[i] \in IF i < Entries(e) THEN Info \cup CodeObject ELSE {NULL}
  <2>1. Entries(e) \in Nat
    BY <1>1, StartFacts DEF Entries
  <2>2. CASE i < Entries(e)
    <3>1. i \in 0..(Entries(e) - 1)
      BY <2>1, <2>2
    <3>2. PICK g \in Group : i \in Places(e, g)
      BY <1>1, <3>1, EveryEntryInGroup
    <3> QED
      BY <1>1, <2>2, <3>2 DEF Members
  <2>3. CASE ~(i < Entries(e))
    <3>1. Entries(e) <= i
      BY <2>1, <2>3
    <3> QED
      BY <2>3, <3>1
  <2> QED
    BY <2>2, <2>3
<1> QED
  BY <1>1, <1>2, <1>3 DEF IsArray

\* The entries of an array.
LEMMA ArrayFacts ==
    ASSUME NEW d, IsArray(d)
    PROVE  /\ d.count \in [Group -> Nat] /\ Room(d) \in Nat /\ Entries(d) \in Nat
           /\ Entries(d) <= Room(d)
           /\ DOMAIN d.entry = 0..(Room(d) - 1)
           /\ d.entry \in [0..(Room(d) - 1) -> Info \cup CodeObject \cup {NULL}]
           /\ \A i \in 0..(Room(d) - 1) : Entries(d) <= i => d.entry[i] = NULL
           /\ \A g \in Group : /\ Places(d, g) \subseteq 0..(Room(d) - 1)
                               /\ Members(d, g) \subseteq Info \cup CodeObject
<1>1. d.count \in [Group -> Nat] /\ Room(d) \in Nat /\ Entries(d) \in Nat
      /\ Entries(d) <= Room(d)
      /\ d.entry \in [0..(Room(d) - 1) -> Info \cup CodeObject \cup {NULL}]
  BY StartFacts DEF IsArray, Entries
<1>2. ASSUME NEW i \in 0..(Room(d) - 1), Entries(d) <= i PROVE d.entry[i] = NULL
  BY <1>1, <1>2 DEF IsArray
<1>3. ASSUME NEW g \in Group
      PROVE  /\ Places(d, g) \subseteq 0..(Room(d) - 1)
             /\ Members(d, g) \subseteq Info \cup CodeObject
  <2>1. Places(d, g) \subseteq 0..(Entries(d) - 1)
    BY <1>1, PlacesApart
  <2>2. Places(d, g) \subseteq 0..(Room(d) - 1)
    BY <1>1, <2>1
  <2>3. ASSUME NEW i \in Places(d, g) PROVE d.entry[i] \in Info \cup CodeObject
    <3>1. i \in 0..(Room(d) - 1) /\ i < Entries(d)
      BY <1>1, <2>1, <2>2
    <3> QED
      BY <3>1 DEF IsArray
  <2> QED
    BY <2>2, <2>3 DEF Members
<1> QED
  BY <1>1, <1>2, <1>3

-------------------------------------------------------------------------------
(* Insertion *)

\* No group ends inside another one.
LEMMA NoEndInside ==
    ASSUME NEW d, d.count \in [Group -> Nat], NEW h \in Group, NEW k \in Group,
           NEW i \in Int, i < Start(d, h + 1), Start(d, k + 1) = i
    PROVE  /\ Start(d, h) < i => FALSE
           /\ k < h
<1>1. /\ Start(d, h) \in Nat /\ Start(d, h + 1) \in Nat
      /\ Start(d, k) \in Nat /\ Start(d, k + 1) \in Nat
      /\ h < k => Start(d, h + 1) <= Start(d, k)
      /\ k < h => Start(d, k + 1) <= Start(d, h)
      /\ Start(d, k) <= Start(d, k + 1)
  <2>1. Start(d, k + 1) = Start(d, k) + d.count[k] /\ d.count[k] \in Nat /\ Start(d, k) \in Nat
    BY Ends
  <2>2. Start(d, h) \in Nat /\ Start(d, h + 1) \in Nat /\ Start(d, k + 1) \in Nat
    BY Ends
  <2>3. h < k => Start(d, h + 1) <= Start(d, k)
    BY Ends
  <2>4. k < h => Start(d, k + 1) <= Start(d, h)
    BY Ends
  <2> QED
    BY <2>1, <2>2, <2>3, <2>4
<1>2. h \in Int /\ k \in Int
  BY DEF Group
<1>3. h = k \/ h < k \/ k < h
  BY <1>2
<1>4. CASE h = k
  BY <1>1, <1>4
<1>5. CASE h < k
  BY <1>1, <1>5
<1>6. CASE k < h
  BY <1>1, <1>6
<1> QED
  BY <1>3, <1>4, <1>5, <1>6

HasPut(d, g, x, e) ==
    /\ e = [count |-> e.count, entry |-> e.entry]
    /\ e.count = [d.count EXCEPT ![g] = @ + 1]
    /\ e.count \in [Group -> Nat]
    /\ e.entry = [i \in 0..(Room(d) - 1) |-> e.entry[i]]
    /\ e.entry[Start(d, g + 1)] = x
    /\ \A h \in Group : h > g /\ d.count[h] > 0 =>
          e.entry[Start(d, h + 1)] = d.entry[Start(d, h)]
    /\ \A i \in 0..(Room(d) - 1) :
          (\A h \in Group : h >= g => Start(d, h + 1) # i) => e.entry[i] = d.entry[i]

\* Put moves the first entry of each later group to its end, and leaves the
\* others where they are.
LEMMA PutEntries ==
    ASSUME NEW d, IsArray(d), NEW g \in Group, NEW x,
           Entries(d) < Room(d), NEW e, e = Put(d, g, x)
    PROVE  HasPut(d, g, x, e)
<1> DEFINE later == {h \in Group : h > g /\ d.count[h] > 0}
           put(i) == IF i = Start(d, g + 1) THEN x
                     ELSE IF \E h \in later : Start(d, h + 1) = i
                     THEN d.entry[Start(d, CHOOSE h \in later : Start(d, h + 1) = i)]
                     ELSE d.entry[i]
<1>1. /\ d.count \in [Group -> Nat] /\ Room(d) \in Nat /\ Entries(d) \in Nat
      /\ DOMAIN d.entry = 0..(Room(d) - 1)
  BY ArrayFacts
<1>2. e = [count |-> [d.count EXCEPT ![g] = @ + 1],
           entry |-> [i \in 0..(Room(d) - 1) |-> put(i)]]
  BY <1>1 DEF Put
<1> HIDE DEF put
<1>3. /\ e = [count |-> e.count, entry |-> e.entry]
      /\ e.count = [d.count EXCEPT ![g] = @ + 1]
      /\ e.entry = [i \in 0..(Room(d) - 1) |-> put(i)]
  BY <1>2
<1>4. e.count \in [Group -> Nat]
  BY <1>1, <1>3
<1>5. ASSUME NEW h \in Group PROVE Start(d, h + 1) \in 0..(Room(d) - 1)
  <2>1. Start(d, h + 1) \in Nat /\ Start(d, h + 1) <= Entries(d)
    BY <1>1, Ends
  <2> QED
    BY <1>1, <2>1
<1>6. e.entry[Start(d, g + 1)] = x
  BY <1>3, <1>5 DEF put
<1>7. ASSUME NEW h \in Group, h > g, d.count[h] > 0
      PROVE  e.entry[Start(d, h + 1)] = d.entry[Start(d, h)]
  <2>1. ASSUME NEW k \in Group, k < h
        PROVE  Start(d, k + 1) # Start(d, h + 1)
    <3>1. Start(d, k + 1) \in Nat /\ Start(d, k + 1) <= Start(d, h)
      BY <1>1, <2>1, Ends
    <3>2. Start(d, h) \in Nat /\ Start(d, h + 1) = Start(d, h) + d.count[h] /\ d.count[h] \in Nat
      BY <1>1, Ends
    <3> QED
      BY <1>7, <3>1, <3>2
  <2>2. ASSUME NEW k \in later, Start(d, k + 1) = Start(d, h + 1) PROVE k = h
    <3>1. ~(k < h)
      BY <2>1, <2>2
    <3>2. CASE h < k
      <4>1. Start(d, h + 1) \in Nat /\ Start(d, h + 1) <= Start(d, k)
        BY <1>1, <3>2, Ends
      <4>2. Start(d, k) \in Nat /\ Start(d, k + 1) = Start(d, k) + d.count[k] /\ d.count[k] \in Nat
        BY <1>1, Ends
      <4> QED
        BY <2>2, <4>1, <4>2
    <3>3. k \in Int /\ h \in Int
      BY DEF Group
    <3> QED
      BY <3>1, <3>2, <3>3
  <2>3. h \in later
    BY <1>7
  <2>4. (CHOOSE k \in later : Start(d, k + 1) = Start(d, h + 1)) = h
    <3> HIDE DEF later
    <3> QED
      BY <2>2, <2>3
  <2>5. Start(d, h + 1) # Start(d, g + 1)
    BY <1>7, <2>1
  <2>6. put(Start(d, h + 1)) = d.entry[Start(d, h)]
    <3> HIDE DEF later
    <3> QED
      BY <2>3, <2>4, <2>5 DEF put
  <2> QED
    BY <1>3, <1>5, <2>6
<1>8. ASSUME NEW i \in 0..(Room(d) - 1), \A h \in Group : h >= g => Start(d, h + 1) # i
      PROVE  e.entry[i] = d.entry[i]
  <2>1. g >= g /\ \A h \in later : h >= g
    BY DEF Group
  <2>2. put(i) = d.entry[i]
    BY <1>8, <2>1 DEF put
  <2> QED
    BY <1>3, <2>2
<1> QED
  BY <1>3, <1>4, <1>6, <1>7, <1>8 DEF HasPut

\* Put adds one entry to the group, and only reorders the others.
LEMMA PutFacts ==
    ASSUME NEW d, IsArray(d), NEW g \in Group, NEW x \in Info \cup CodeObject,
           Entries(d) < Room(d), NEW e, e = Put(d, g, x)
    PROVE  /\ IsArray(e)
           /\ \A h \in Group \ {g} : SameGroup(d, e, h)
           /\ Members(e, g) = Members(d, g) \cup {x}
           /\ \A y : Num(e, g, y) <= IF y = x THEN Num(d, g, y) + 1 ELSE Num(d, g, y)
<1>1. /\ d.count \in [Group -> Nat] /\ Room(d) \in Nat /\ Entries(d) \in Nat
      /\ d.entry \in [0..(Room(d) - 1) -> Info \cup CodeObject \cup {NULL}]
      /\ \A i \in 0..(Room(d) - 1) : Entries(d) <= i => d.entry[i] = NULL
      /\ \A h \in Group : /\ Places(d, h) \subseteq 0..(Room(d) - 1)
                          /\ Members(d, h) \subseteq Info \cup CodeObject
  BY ArrayFacts
<1>2. /\ e = [count |-> e.count, entry |-> e.entry]
      /\ e.count = [d.count EXCEPT ![g] = @ + 1]
      /\ e.count \in [Group -> Nat]
      /\ e.entry = [i \in 0..(Room(d) - 1) |-> e.entry[i]]
      /\ e.entry[Start(d, g + 1)] = x
      /\ \A h \in Group : h > g /\ d.count[h] > 0 =>
            e.entry[Start(d, h + 1)] = d.entry[Start(d, h)]
      /\ \A i \in 0..(Room(d) - 1) :
            (\A h \in Group : h >= g => Start(d, h + 1) # i) => e.entry[i] = d.entry[i]
  <2>1. HasPut(d, g, x, e)
    BY PutEntries
  <2> QED
    BY <2>1 DEF HasPut
<1>3. \A h \in 0..kGroupCount : Start(e, h) = IF h <= g THEN Start(d, h) ELSE Start(d, h) + 1
  <2>1. \A h \in Group \ {g} : e.count[h] = d.count[h]
    BY <1>1, <1>2
  <2>2. e.count[g] = d.count[g] + 1 /\ d.count[g] \in Nat
    BY <1>1, <1>2
  <2>3. \A h \in 0..kGroupCount : Start(e, h) = IF h <= g THEN Start(d, h)
                                  ELSE Start(d, h) + e.count[g] - d.count[g]
    <3>1. d.count \in [Group -> Nat] /\ e.count \in [Group -> Nat]
      BY <1>1, <1>2
    <3> QED
      BY <2>1, <3>1, StartShift
  <2>4. \A h \in 0..kGroupCount : Start(d, h) \in Nat
    BY <1>1, StartFacts
  <2> QED
    BY <2>2, <2>3, <2>4
<1>4. Entries(e) = Entries(d) + 1
  <2>1. kGroupCount \in 0..kGroupCount /\ ~(kGroupCount <= g)
    BY DEF Group
  <2> QED
    BY <1>3, <2>1 DEF Entries
<1>5. ASSUME NEW h \in Group
      PROVE  /\ Start(e, h) = IF h <= g THEN Start(d, h) ELSE Start(d, h) + 1
             /\ Start(e, h + 1) = IF h < g THEN Start(d, h + 1) ELSE Start(d, h + 1) + 1
             /\ Start(d, h) \in Nat /\ Start(d, h + 1) \in Nat /\ d.count[h] \in Nat
             /\ Start(d, h + 1) = Start(d, h) + d.count[h]
  <2>1. h \in 0..kGroupCount /\ h + 1 \in 0..kGroupCount /\ (h + 1 <= g <=> h < g)
    BY DEF Group
  <2>2. /\ Start(d, h) \in Nat /\ Start(d, h + 1) \in Nat /\ d.count[h] \in Nat
        /\ Start(d, h + 1) = Start(d, h) + d.count[h]
    BY <1>1, Ends
  <2> QED
    BY <1>3, <2>1, <2>2
<1>6. ASSUME NEW h \in Group, h <= g, NEW i \in Places(d, h)
      PROVE  e.entry[i] = d.entry[i]
  <2>1. i \in Int /\ i < Start(d, h + 1) /\ i \in 0..(Room(d) - 1)
    BY <1>1, <1>5 DEF Places
  <2>2. ASSUME NEW k \in Group, k >= g PROVE Start(d, k + 1) # i
    <3>1. ~(k < h)
      BY <1>6, <2>2 DEF Group
    <3> QED
      BY <1>1, <2>1, <3>1, NoEndInside
  <2> QED
    BY <1>2, <2>1, <2>2
<1>7. ASSUME NEW h \in Group, h < g PROVE SameGroup(d, e, h)
  <2>1. Places(e, h) = Places(d, h)
    <3>1. h <= g
      BY <1>7 DEF Group
    <3> QED
      BY <1>5, <1>7, <3>1 DEF Places
  <2>2. \A i \in Places(d, h) : e.entry[i] = d.entry[i]
    BY <1>6, <1>7 DEF Group
  <2> QED
    BY <1>1, <2>1, <2>2, Untouched
<1>8. ASSUME NEW h \in Group, h > g PROVE SameGroup(d, e, h)
  <2>1. PICK f : f = [i \in Places(e, h) |-> IF i = Start(d, h + 1) THEN Start(d, h) ELSE i]
    OBVIOUS
  <2>2. /\ Start(e, h) = Start(d, h) + 1 /\ Start(e, h + 1) = Start(d, h + 1) + 1
        /\ Start(d, h) \in Nat /\ Start(d, h + 1) \in Nat
        /\ Start(d, h + 1) = Start(d, h) + d.count[h] /\ d.count[h] \in Nat
    <3>1. ~(h <= g) /\ ~(h < g)
      BY <1>8 DEF Group
    <3> QED
      BY <1>5, <3>1
  <2>3. /\ Places(e, h) = (Start(d, h) + 1)..Start(d, h + 1)
        /\ Places(d, h) = Start(d, h)..(Start(d, h + 1) - 1)
    BY <2>2 DEF Places
  <2>4. ASSUME NEW i \in Places(e, h) PROVE e.entry[i] = d.entry[f[i]]
    <3>1. CASE i = Start(d, h + 1)
      <4>1. d.count[h] > 0
        BY <2>2, <2>3, <3>1
      <4> QED
        BY <1>2, <1>8, <2>1, <3>1, <4>1
    <3>2. CASE i # Start(d, h + 1)
      <4>1. i \in Places(d, h) /\ i \in Int /\ i < Start(d, h + 1) /\ Start(d, h) < i
        BY <2>2, <2>3, <3>2
      <4>2. \A k \in Group : Start(d, k + 1) # i
        BY <1>1, <4>1, NoEndInside
      <4>3. f[i] = i
        BY <2>1, <3>2
      <4> QED
        BY <1>1, <1>2, <4>1, <4>2, <4>3
    <3> QED
      BY <3>1, <3>2
  <2>5. DrawnFrom(d, e, h, Places(d, h), f)
    <3>1. f \in [Places(e, h) -> Places(d, h)]
      BY <2>1, <2>2, <2>3
    <3>2. \A i, j \in Places(e, h) : f[i] = f[j] => i = j
      BY <2>1, <2>2, <2>3
    <3> QED
      BY <2>4, <3>1, <3>2 DEF DrawnFrom
  <2>6. Onto(e, h, Places(d, h), f)
    <3>1. ASSUME NEW j \in Places(d, h) PROVE \E i \in Places(e, h) : f[i] = j
      <4>1. CASE j = Start(d, h)
        <5>1. Start(d, h + 1) \in Places(e, h)
          BY <2>2, <2>3, <4>1
        <5> QED
          BY <2>1, <4>1, <5>1
      <4>2. CASE j # Start(d, h)
        <5>1. j \in Places(e, h) /\ j # Start(d, h + 1)
          BY <2>2, <2>3, <4>2
        <5> QED
          BY <2>1, <5>1
      <4> QED
        BY <4>1, <4>2
    <3> QED
      BY <3>1 DEF Onto
  <2> QED
    BY <1>1, <2>5, <2>6, Reordered
<1>9. Places(e, g) = Places(d, g) \cup {Start(d, g + 1)} /\ Start(d, g + 1) \notin Places(d, g)
  <2>1. g <= g /\ ~(g < g)
    BY DEF Group
  <2>2. /\ Start(e, g) = Start(d, g) /\ Start(e, g + 1) = Start(d, g + 1) + 1
        /\ Start(d, g) \in Nat /\ Start(d, g + 1) \in Nat /\ Start(d, g) <= Start(d, g + 1)
    BY <1>5, <2>1
  <2> QED
    BY <2>2 DEF Places
<1>10. \A i \in Places(d, g) : e.entry[i] = d.entry[i]
  BY <1>6 DEF Group
<1>11. Members(e, g) = Members(d, g) \cup {x}
  <2>1. {e.entry[i] : i \in Places(e, g)} =
            {e.entry[i] : i \in Places(d, g)} \cup {e.entry[Start(d, g + 1)]}
    BY <1>9
  <2>2. {e.entry[i] : i \in Places(d, g)} = {d.entry[i] : i \in Places(d, g)}
    BY <1>10
  <2>3. e.entry[Start(d, g + 1)] = x
    BY <1>2
  <2> QED
    BY <2>1, <2>2, <2>3 DEF Members
<1>12. ASSUME NEW y
       PROVE  Num(e, g, y) <= IF y = x THEN Num(d, g, y) + 1 ELSE Num(d, g, y)
  <2>1. Num(d, g, y) \in Nat /\ IsFiniteSet(PlacesOf(d, g, y))
    BY <1>1, PlacesFinite
  <2>2. CASE y = x
    <3>1. PlacesOf(e, g, y) = PlacesOf(d, g, y) \cup {Start(d, g + 1)}
      BY <1>2, <1>9, <1>10, <2>2 DEF PlacesOf
    <3>2. Start(d, g + 1) \notin PlacesOf(d, g, y)
      BY <1>9 DEF PlacesOf
    <3>3. Num(e, g, y) = Num(d, g, y) + 1
      BY <2>1, <3>1, <3>2, FS_AddElement DEF Num
    <3> QED
      BY <2>1, <2>2, <3>3
  <2>3. CASE y # x
    <3>1. PlacesOf(e, g, y) = PlacesOf(d, g, y)
      BY <1>2, <1>9, <1>10, <2>3 DEF PlacesOf
    <3> QED
      BY <2>1, <2>3, <3>1 DEF Num
  <2> QED
    BY <2>2, <2>3
<1>13. \A h \in Group \ {g} : SameGroup(d, e, h)
  BY <1>7, <1>8 DEF Group
<1>14. \A h \in Group : Members(e, h) \subseteq Info \cup CodeObject
  BY <1>1, <1>11, <1>13 DEF SameGroup
<1>15. ASSUME NEW i \in 0..(Room(d) - 1), Entries(e) <= i PROVE e.entry[i] = NULL
  <2>1. ASSUME NEW h \in Group PROVE Start(d, h + 1) # i
    <3>1. Start(d, h + 1) \in Nat /\ Start(d, h + 1) <= Entries(d)
      BY <1>1, Ends
    <3> QED
      BY <1>1, <1>4, <1>15, <3>1
  <2>2. Entries(d) <= i
    BY <1>1, <1>4, <1>15
  <2> QED
    BY <1>1, <1>2, <2>1, <2>2
<1>16. IsArray(e)
  <2>1. \A i \in 0..(Room(d) - 1) : e.entry[i] \in Info \cup CodeObject \cup {NULL}
    <3> TAKE i \in 0..(Room(d) - 1)
    <3>1. CASE Entries(e) <= i
      BY <1>15, <3>1
    <3>2. CASE ~(Entries(e) <= i)
      <4>1. i \in 0..(Entries(e) - 1)
        BY <1>1, <1>4, <3>2
      <4>2. PICK h \in Group : i \in Places(e, h)
        BY <1>2, <4>1, EveryEntryInGroup
      <4> QED
        BY <1>14, <4>2 DEF Members
    <3> QED
      BY <3>1, <3>2
  <2>2. e.entry \in [0..(Room(d) - 1) -> Info \cup CodeObject \cup {NULL}]
    BY <1>2, <2>1
  <2>3. Entries(e) <= Room(d)
    BY <1>1, <1>4
  <2> QED
    <3>1. /\ e.count \in [Group -> Nat] /\ Room(d) \in Nat
          /\ e = [count |-> e.count, entry |-> e.entry]
      BY <1>1, <1>2
    <3> QED
      BY <1>14, <1>15, <2>2, <2>3, <3>1, ArrayOfGroups
<1> QED
  BY <1>11, <1>12, <1>13, <1>16

-------------------------------------------------------------------------------
(* Removal *)

HasRemoved(d, g, p, e) ==
    /\ e = [count |-> e.count, entry |-> e.entry]
    /\ e.count = [d.count EXCEPT ![g] = @ - 1]
    /\ e.entry = [i \in 0..(Room(d) - 1) |-> e.entry[i]]
    /\ e.entry[Entries(d) - 1] = NULL
    /\ p # Start(d, g + 1) - 1 => e.entry[p] = d.entry[Start(d, g + 1) - 1]
    /\ \A h \in Group : h > g /\ d.count[h] > 0 =>
          e.entry[Start(d, h) - 1] = d.entry[Start(d, h + 1) - 1]
    /\ \A i \in 0..(Room(d) - 1) :
          /\ i # Entries(d) - 1 /\ i # p
          /\ \A h \in Group : h > g => Start(d, h) - 1 # i
          => e.entry[i] = d.entry[i]

\* RemoveOnce moves the last entry of its group into the gap, the last entry
\* of each later group in front of the others, and leaves these where they are.
LEMMA RemoveEntries ==
    ASSUME NEW d, IsArray(d), NEW g \in Group, NEW a, PlacesOf(d, g, a) # {},
           NEW e, e = RemoveOnce(d, g, a)
    PROVE  \E p \in PlacesOf(d, g, a) : HasRemoved(d, g, p, e)
<1> DEFINE found   == PlacesOf(d, g, a)
           p       == CHOOSE i \in found : \A j \in found : i <= j
           last(h) == Start(d, h + 1) - 1
           gap(h)  == IF h = g THEN p ELSE last(h - 1)
           moved   == {h \in g..(kGroupCount - 1) : last(h) # gap(h)}
           left(i) == IF i = Entries(d) - 1 THEN NULL
                      ELSE IF \E h \in moved : gap(h) = i
                      THEN d.entry[last(CHOOSE h \in moved : gap(h) = i)]
                      ELSE d.entry[i]
<1>1. /\ d.count \in [Group -> Nat] /\ Room(d) \in Nat /\ Entries(d) \in Nat
      /\ Entries(d) <= Room(d)
      /\ DOMAIN d.entry = 0..(Room(d) - 1)
      /\ \A h \in Group : Places(d, h) \subseteq 0..(Room(d) - 1)
  BY ArrayFacts
<1>2. e = [count |-> [d.count EXCEPT ![g] = @ - 1],
           entry |-> [i \in 0..(Room(d) - 1) |-> left(i)]]
  BY <1>1 DEF RemoveOnce
<1>3. p \in found
  <2>1. Start(d, g) \in Nat /\ Start(d, g + 1) \in Nat
    BY <1>1, Ends
  <2>2. found \in SUBSET Nat
    BY <2>1 DEF PlacesOf, Places
  <2>3. \E i \in found : \A j \in found : i <= j
    <3> HIDE DEF found
    <3> QED
      BY <2>2, LeastNumber DEF found
  <2> QED
    BY <2>3
<1> HIDE DEF left, p
<1>4. /\ e = [count |-> e.count, entry |-> e.entry]
      /\ e.count = [d.count EXCEPT ![g] = @ - 1]
      /\ e.entry = [i \in 0..(Room(d) - 1) |-> left(i)]
  BY <1>2
<1>5. /\ p \in Int /\ Start(d, g) <= p /\ p < Start(d, g + 1)
      /\ p \in 0..(Room(d) - 1)
  <2>1. p \in Places(d, g)
    BY <1>3 DEF PlacesOf
  <2>2. Start(d, g) \in Nat /\ Start(d, g + 1) \in Nat
    BY <1>1, Ends
  <2> QED
    BY <1>1, <2>1, <2>2 DEF Places
<1>6. ASSUME NEW h \in Group
      PROVE  /\ Start(d, h) \in Nat /\ Start(d, h + 1) \in Nat /\ d.count[h] \in Nat
             /\ Start(d, h + 1) = Start(d, h) + d.count[h]
             /\ Start(d, h + 1) <= Entries(d)
             /\ \A k \in Group : h < k => Start(d, h + 1) <= Start(d, k)
  BY <1>1, Ends
<1>7. ASSUME NEW h \in moved
      PROVE  /\ h \in Group
             /\ h = g => gap(h) = p /\ gap(h) < Start(d, g + 1) - 1
             /\ h # g => h > g /\ d.count[h] > 0 /\ gap(h) = Start(d, h) - 1
  <2>1. h \in Group /\ h >= g /\ h \in Int /\ g \in Int
    BY DEF Group
  <2>2. last(h) # gap(h)
    OBVIOUS
  <2>3. CASE h = g
    BY <1>5, <1>6, <2>2, <2>3
  <2>4. CASE h # g
    <3>1. h > g /\ (h - 1) + 1 = h
      BY <2>1, <2>4
    <3>2. gap(h) = Start(d, h) - 1
      BY <2>4, <3>1
    <3>3. Start(d, h + 1) # Start(d, h)
      BY <2>2, <3>2
    <3> QED
      BY <1>6, <2>1, <2>4, <3>1, <3>2, <3>3
  <2> QED
    BY <2>1, <2>3, <2>4
<1>8. ASSUME NEW h \in Group, h > g, d.count[h] > 0
      PROVE  h \in moved /\ gap(h) = Start(d, h) - 1
  <2>1. h \in g..(kGroupCount - 1) /\ h # g /\ (h - 1) + 1 = h
    BY <1>8 DEF Group
  <2>2. Start(d, h + 1) - 1 # Start(d, h) - 1
    BY <1>6, <1>8
  <2> QED
    BY <2>1, <2>2
<1>9. ASSUME NEW h \in moved, NEW k \in moved, h < k PROVE gap(h) # gap(k)
  <2>1. /\ h \in Group /\ k \in Group /\ k # g
        /\ gap(k) = Start(d, k) - 1
    <3>1. h \in Group /\ k \in Group /\ h >= g /\ h \in Int /\ k \in Int /\ g \in Int
      BY <1>7 DEF Group
    <3>2. k # g
      BY <1>9, <3>1
    <3> QED
      BY <1>7, <3>1, <3>2
  <2>2. Start(d, h + 1) <= Start(d, k)
    BY <1>6, <1>9, <2>1
  <2>3. gap(h) < Start(d, h + 1) - 1
    <3>1. CASE h = g
      BY <1>7, <3>1
    <3>2. CASE h # g
      <4>1. gap(h) = Start(d, h) - 1 /\ d.count[h] > 0
        BY <1>7, <3>2
      <4> HIDE DEF gap
      <4> QED
        BY <1>6, <2>1, <4>1
    <3> QED
      BY <3>1, <3>2
  <2>4. gap(h) \in Int
    <3>1. h = g => gap(h) \in Int
      BY <1>5, <1>7
    <3>2. h # g => gap(h) \in Int
      <4>1. Start(d, h) \in Nat
        BY <1>6, <2>1
      <4>2. h # g => gap(h) = Start(d, h) - 1
        BY <1>7
      <4> HIDE DEF gap
      <4> QED
        BY <4>1, <4>2
    <3> QED
      BY <3>1, <3>2
  <2>5. Start(d, h + 1) \in Nat /\ Start(d, k) \in Nat
    BY <1>6, <2>1
  <2> HIDE DEF gap
  <2> QED
    BY <2>1, <2>2, <2>3, <2>4, <2>5
<1>10. ASSUME NEW h \in moved
       PROVE  /\ gap(h) \in 0..(Room(d) - 1)
              /\ gap(h) # Entries(d) - 1
              /\ left(gap(h)) = d.entry[Start(d, h + 1) - 1]
  <2>1. h \in Group
    BY <1>7
  <2>2. gap(h) \in 0..(Room(d) - 1) /\ gap(h) # Entries(d) - 1
    <3>1. CASE h = g
      <4>1. Start(d, g + 1) \in Nat /\ Start(d, g + 1) <= Entries(d)
        BY <1>6
      <4>2. gap(h) = p /\ p < Start(d, g + 1) - 1
        BY <1>7, <3>1
      <4> HIDE DEF gap
      <4> QED
        BY <1>1, <1>5, <4>1, <4>2
    <3>2. CASE h # g
      <4>1. gap(h) = Start(d, h) - 1 /\ d.count[h] > 0 /\ h > g
        BY <1>7, <3>2
      <4>2. /\ Start(d, h) \in Nat /\ Start(d, h + 1) \in Nat /\ d.count[h] \in Nat
            /\ Start(d, h + 1) = Start(d, h) + d.count[h]
            /\ Start(d, h + 1) <= Entries(d)
        BY <1>6, <2>1
      <4>3. Start(d, g + 1) \in Nat /\ Start(d, g + 1) <= Start(d, h) /\ Start(d, g) \in Nat
        <5>1. g < h
          BY <2>1, <4>1 DEF Group
        <5> QED
          BY <1>6, <2>1, <5>1
      <4>4. Start(d, g + 1) > 0
        BY <1>5, <4>3
      <4>5. Start(d, h) > 0 /\ Start(d, h) < Entries(d)
        <5>1. Start(d, h) > 0
          BY <4>2, <4>3, <4>4
        <5>2. d.count[h] > 0
          BY <4>1
        <5> QED
          BY <1>1, <4>2, <5>1, <5>2
      <4>6. Start(d, h) - 1 \in 0..(Room(d) - 1) /\ Start(d, h) - 1 # Entries(d) - 1
        BY <1>1, <4>2, <4>5
      <4> HIDE DEF gap
      <4> QED
        BY <4>1, <4>6
    <3> QED
      BY <3>1, <3>2
  <2>3. ASSUME NEW k \in moved, gap(k) = gap(h) PROVE k = h
    <3>1. k \in Int /\ h \in Int
      BY <1>7 DEF Group
    <3> HIDE DEF gap, moved
    <3> QED
      BY <1>9, <2>3, <3>1
  <2>4. (CHOOSE k \in moved : gap(k) = gap(h)) = h
    <3> HIDE DEF gap, moved
    <3> QED
      BY <2>3
  <2>5. left(gap(h)) = d.entry[last(h)]
    <3> HIDE DEF gap, moved
    <3> QED
      BY <2>2, <2>4 DEF left
  <2> QED
    BY <2>2, <2>5
<1>11. e.entry[Entries(d) - 1] = NULL
  <2>1. Entries(d) - 1 \in 0..(Room(d) - 1)
    <3>1. Start(d, g + 1) \in Nat /\ Start(d, g + 1) <= Entries(d) /\ Start(d, g) \in Nat
      BY <1>6
    <3> QED
      BY <1>1, <1>5, <3>1
  <2> QED
    BY <1>4, <2>1 DEF left
<1>12. p # Start(d, g + 1) - 1 => e.entry[p] = d.entry[Start(d, g + 1) - 1]
  <2>1. HAVE p # Start(d, g + 1) - 1
  <2>2. g \in g..(kGroupCount - 1)
    BY DEF Group
  <2>3. g \in moved /\ gap(g) = p
    BY <2>1, <2>2
  <2> HIDE DEF gap, moved
  <2> QED
    BY <1>4, <1>10, <2>3
<1>13. ASSUME NEW h \in Group, h > g, d.count[h] > 0
       PROVE  e.entry[Start(d, h) - 1] = d.entry[Start(d, h + 1) - 1]
  <2>1. h \in moved /\ gap(h) = Start(d, h) - 1
    BY <1>8, <1>13
  <2> HIDE DEF gap, moved
  <2> QED
    BY <1>4, <1>10, <2>1
<1>14. ASSUME NEW i \in 0..(Room(d) - 1), i # Entries(d) - 1, i # p,
              \A h \in Group : h > g => Start(d, h) - 1 # i
       PROVE  e.entry[i] = d.entry[i]
  <2>1. \A h \in moved : gap(h) # i
    <3> TAKE h \in moved
    <3>1. h \in Group /\ (h = g => gap(h) = p) /\ (h # g => h > g /\ gap(h) = Start(d, h) - 1)
      BY <1>7
    <3> HIDE DEF gap, moved
    <3> QED
      BY <1>14, <3>1
  <2>2. left(i) = d.entry[i]
    <3> HIDE DEF gap, moved
    <3> QED
      BY <1>14, <2>1 DEF left
  <2> QED
    BY <1>4, <2>2
<1>15. e.entry = [i \in 0..(Room(d) - 1) |-> e.entry[i]]
  BY <1>4
<1>16. HasRemoved(d, g, p, e)
  BY <1>4, <1>11, <1>12, <1>13, <1>14, <1>15 DEF HasRemoved
<1> QED
  BY <1>3, <1>16

\* e is d but for entries of a in group g.
Fewer(d, e, g, a) ==
    /\ IsArray(e)
    /\ \A h \in Group \ {g} : SameGroup(d, e, h)
    /\ Members(e, g) \subseteq Members(d, g)
    /\ Members(d, g) \subseteq Members(e, g) \cup {a}
    /\ \A y : Num(e, g, y) <= Num(d, g, y)

\* RemoveOnce takes one entry of a from the group, if there is one.
LEMMA RemoveOnceFacts ==
    ASSUME NEW d, IsArray(d), NEW g \in Group, NEW a, PlacesOf(d, g, a) # {},
           NEW e, e = RemoveOnce(d, g, a)
    PROVE  Fewer(d, e, g, a) /\ Num(e, g, a) <= Num(d, g, a) - 1
<1>1. /\ d.count \in [Group -> Nat] /\ Room(d) \in Nat /\ Entries(d) \in Nat
      /\ Entries(d) <= Room(d)
      /\ d.entry \in [0..(Room(d) - 1) -> Info \cup CodeObject \cup {NULL}]
      /\ \A i \in 0..(Room(d) - 1) : Entries(d) <= i => d.entry[i] = NULL
      /\ \A h \in Group : /\ Places(d, h) \subseteq 0..(Room(d) - 1)
                          /\ Members(d, h) \subseteq Info \cup CodeObject
  BY ArrayFacts
<1>2. PICK p \in PlacesOf(d, g, a) : HasRemoved(d, g, p, e)
  BY RemoveEntries
<1>3. /\ e = [count |-> e.count, entry |-> e.entry]
      /\ e.count = [d.count EXCEPT ![g] = @ - 1]
      /\ e.entry = [i \in 0..(Room(d) - 1) |-> e.entry[i]]
      /\ e.entry[Entries(d) - 1] = NULL
      /\ p # Start(d, g + 1) - 1 => e.entry[p] = d.entry[Start(d, g + 1) - 1]
      /\ \A h \in Group : h > g /\ d.count[h] > 0 =>
            e.entry[Start(d, h) - 1] = d.entry[Start(d, h + 1) - 1]
      /\ \A i \in 0..(Room(d) - 1) :
            /\ i # Entries(d) - 1 /\ i # p
            /\ \A h \in Group : h > g => Start(d, h) - 1 # i
            => e.entry[i] = d.entry[i]
  BY <1>2 DEF HasRemoved
<1>4. ASSUME NEW h \in Group
      PROVE  /\ Start(d, h) \in Nat /\ Start(d, h + 1) \in Nat /\ d.count[h] \in Nat
             /\ Start(d, h + 1) = Start(d, h) + d.count[h]
             /\ Start(d, h + 1) <= Entries(d)
             /\ \A k \in Group : h < k => Start(d, h + 1) <= Start(d, k)
  BY <1>1, Ends
<1>5. /\ p \in Int /\ Start(d, g) <= p /\ p < Start(d, g + 1)
      /\ p \in Places(d, g) /\ d.entry[p] = a
  <2>1. p \in Places(d, g) /\ d.entry[p] = a
    BY <1>2 DEF PlacesOf
  <2> QED
    BY <1>4, <2>1 DEF Places
<1>6. d.count[g] > 0 /\ d.count[g] \in Nat
  BY <1>4, <1>5
<1>7. e.count \in [Group -> Nat]
  BY <1>1, <1>3, <1>6
<1>8. \A h \in 0..kGroupCount : Start(e, h) = IF h <= g THEN Start(d, h) ELSE Start(d, h) - 1
  <2>1. \A h \in Group \ {g} : e.count[h] = d.count[h]
    BY <1>1, <1>3
  <2>2. e.count[g] = d.count[g] - 1
    BY <1>1, <1>3
  <2>3. \A h \in 0..kGroupCount : Start(e, h) = IF h <= g THEN Start(d, h)
                                  ELSE Start(d, h) + e.count[g] - d.count[g]
    <3>1. d.count \in [Group -> Nat] /\ e.count \in [Group -> Nat]
      BY <1>1, <1>7
    <3> QED
      BY <2>1, <3>1, StartShift
  <2>4. \A h \in 0..kGroupCount : Start(d, h) \in Nat
    BY <1>1, StartFacts
  <2> QED
    BY <1>6, <2>2, <2>3, <2>4
<1>9. Entries(e) = Entries(d) - 1
  <2>1. kGroupCount \in 0..kGroupCount /\ ~(kGroupCount <= g)
    BY DEF Group
  <2> QED
    BY <1>8, <2>1 DEF Entries
<1>10. ASSUME NEW h \in Group
       PROVE  /\ Start(e, h) = IF h <= g THEN Start(d, h) ELSE Start(d, h) - 1
              /\ Start(e, h + 1) = IF h < g THEN Start(d, h + 1) ELSE Start(d, h + 1) - 1
  <2>1. h \in 0..kGroupCount /\ h + 1 \in 0..kGroupCount /\ (h + 1 <= g <=> h < g)
    BY DEF Group
  <2> QED
    BY <1>8, <2>1
<1>11. ASSUME NEW h \in Group, h < g PROVE SameGroup(d, e, h)
  <2>1. Places(e, h) = Places(d, h)
    <3>1. h <= g
      BY <1>11 DEF Group
    <3> QED
      BY <1>10, <1>11, <3>1 DEF Places
  <2>2. ASSUME NEW i \in Places(d, h) PROVE e.entry[i] = d.entry[i]
    <3>1. i \in Int /\ i < Start(d, h + 1) /\ i \in 0..(Room(d) - 1)
      BY <1>1, <1>4 DEF Places
    <3>2. Start(d, h + 1) <= Start(d, g) /\ Start(d, h + 1) \in Nat /\ Start(d, g) \in Nat
          /\ Start(d, g + 1) \in Nat /\ Start(d, g + 1) <= Entries(d)
      BY <1>4, <1>11
    <3>3. i < p /\ i # Entries(d) - 1
      BY <1>1, <1>5, <3>1, <3>2
    <3>4. ASSUME NEW k \in Group, k > g PROVE Start(d, k) - 1 # i
      <4>1. Start(d, g + 1) <= Start(d, k) /\ Start(d, k) \in Nat
        BY <1>4, <3>4 DEF Group
      <4> QED
        BY <1>5, <3>1, <3>2, <3>3, <4>1
    <3>5. i # p
      BY <1>5, <3>1, <3>3
    <3> QED
      BY <1>3, <3>1, <3>3, <3>4, <3>5
  <2> QED
    BY <1>1, <2>1, <2>2, Untouched
<1>12. ASSUME NEW h \in Group, h > g PROVE SameGroup(d, e, h)
  <2>1. PICK f : f = [i \in Places(e, h) |->
                         IF i = Start(d, h) - 1 THEN Start(d, h + 1) - 1 ELSE i]
    OBVIOUS
  <2>2. /\ Start(e, h) = Start(d, h) - 1 /\ Start(e, h + 1) = Start(d, h + 1) - 1
        /\ Start(d, h) \in Nat /\ Start(d, h + 1) \in Nat
        /\ Start(d, h + 1) = Start(d, h) + d.count[h] /\ d.count[h] \in Nat
    <3>1. ~(h <= g) /\ ~(h < g)
      BY <1>12 DEF Group
    <3> QED
      BY <1>4, <1>10, <3>1
  <2>3. /\ Places(e, h) = (Start(d, h) - 1)..(Start(d, h + 1) - 2)
        /\ Places(d, h) = Start(d, h)..(Start(d, h + 1) - 1)
    BY <2>2 DEF Places
  <2>4. ASSUME NEW i \in Places(e, h) PROVE e.entry[i] = d.entry[f[i]]
    <3>1. CASE i = Start(d, h) - 1
      <4>1. d.count[h] > 0
        BY <2>2, <2>3, <3>1
      <4> QED
        BY <1>3, <1>12, <2>1, <3>1, <4>1
    <3>2. CASE i # Start(d, h) - 1
      <4>1. /\ i \in Int /\ Start(d, h) <= i /\ i < Start(d, h + 1) - 1
            /\ i \in Places(d, h)
        BY <2>2, <2>3, <3>2
      <4>2. i \in 0..(Room(d) - 1) /\ i # Entries(d) - 1
        <5>1. Start(d, h + 1) <= Entries(d)
          BY <1>4
        <5> QED
          BY <1>1, <2>2, <4>1, <5>1
      <4>3. i # p
        <5>1. Start(d, g + 1) <= Start(d, h) /\ Start(d, g + 1) \in Nat
          BY <1>4, <1>12 DEF Group
        <5> QED
          BY <1>5, <2>2, <4>1, <5>1
      <4>4. ASSUME NEW k \in Group, k > g PROVE Start(d, k) - 1 # i
        <5>1. Start(d, k) \in Nat /\ Start(d, k + 1) \in Nat /\ Start(d, k) <= Start(d, k + 1)
          <6>1. Start(d, k + 1) = Start(d, k) + d.count[k] /\ d.count[k] \in Nat /\ Start(d, k) \in Nat
            BY <1>4
          <6> QED
            BY <6>1
        <5>2. CASE k = h
          BY <2>2, <4>1, <5>2
        <5>3. CASE h < k
          <6>1. Start(d, h + 1) <= Start(d, k)
            BY <1>4, <5>3
          <6> QED
            BY <2>2, <4>1, <5>1, <6>1
        <5>4. CASE k < h
          <6>1. Start(d, k + 1) <= Start(d, h)
            BY <1>4, <5>4
          <6> QED
            BY <2>2, <4>1, <5>1, <6>1
        <5>5. k \in Int /\ h \in Int
          BY DEF Group
        <5> QED
          BY <5>2, <5>3, <5>4, <5>5
      <4>5. f[i] = i
        BY <2>1, <3>2
      <4> QED
        BY <1>3, <4>2, <4>3, <4>4, <4>5
    <3> QED
      BY <3>1, <3>2
  <2>5. DrawnFrom(d, e, h, Places(d, h), f)
    <3>1. f \in [Places(e, h) -> Places(d, h)]
      BY <2>1, <2>2, <2>3
    <3>2. \A i, j \in Places(e, h) : f[i] = f[j] => i = j
      BY <2>1, <2>2, <2>3
    <3> QED
      BY <2>4, <3>1, <3>2 DEF DrawnFrom
  <2>6. Onto(e, h, Places(d, h), f)
    <3>1. ASSUME NEW j \in Places(d, h) PROVE \E i \in Places(e, h) : f[i] = j
      <4>1. CASE j = Start(d, h + 1) - 1
        <5>1. Start(d, h) - 1 \in Places(e, h)
          BY <2>2, <2>3, <4>1
        <5> QED
          BY <2>1, <4>1, <5>1
      <4>2. CASE j # Start(d, h + 1) - 1
        <5>1. j \in Places(e, h) /\ j # Start(d, h) - 1
          BY <2>2, <2>3, <4>2
        <5> QED
          BY <2>1, <5>1
      <4> QED
        BY <4>1, <4>2
    <3> QED
      BY <3>1 DEF Onto
  <2> QED
    BY <1>1, <2>5, <2>6, Reordered
<1>13. /\ Places(e, g) = Start(d, g)..(Start(d, g + 1) - 2)
       /\ Places(d, g) = Start(d, g)..(Start(d, g + 1) - 1)
       /\ Start(d, g) \in Nat /\ Start(d, g + 1) \in Nat
  <2>1. g <= g /\ ~(g < g)
    BY DEF Group
  <2>2. /\ Start(e, g) = Start(d, g) /\ Start(e, g + 1) = Start(d, g + 1) - 1
        /\ Start(d, g) \in Nat /\ Start(d, g + 1) \in Nat
    BY <1>4, <1>10, <2>1
  <2> QED
    BY <2>2 DEF Places
<1>14. PICK S : S = Places(d, g) \ {p}
  OBVIOUS
<1>15. PICK f : f = [i \in Places(e, g) |-> IF i = p THEN Start(d, g + 1) - 1 ELSE i]
  OBVIOUS
<1>16. ASSUME NEW i \in Places(e, g) PROVE e.entry[i] = d.entry[f[i]]
  <2>1. i \in Int /\ i < Start(d, g + 1) - 1 /\ i \in Places(d, g)
    BY <1>13
  <2>2. CASE i = p
    BY <1>3, <1>13, <1>15, <2>1, <2>2
  <2>3. CASE i # p
    <3>1. i \in 0..(Room(d) - 1) /\ i # Entries(d) - 1
      <4>1. Start(d, g + 1) <= Entries(d)
        BY <1>4
      <4> QED
        BY <1>1, <1>13, <2>1, <4>1
    <3>2. ASSUME NEW k \in Group, k > g PROVE Start(d, k) - 1 # i
      <4>1. Start(d, g + 1) <= Start(d, k) /\ Start(d, k) \in Nat
        BY <1>4, <3>2 DEF Group
      <4> QED
        BY <1>13, <2>1, <4>1
    <3>3. f[i] = i
      BY <1>15, <2>3
    <3> QED
      BY <1>3, <2>3, <3>1, <3>2, <3>3
  <2> QED
    BY <2>2, <2>3
<1>17. DrawnFrom(d, e, g, S, f)
  <2>1. f \in [Places(e, g) -> S]
    BY <1>5, <1>13, <1>14, <1>15
  <2>2. \A i, j \in Places(e, g) : f[i] = f[j] => i = j
    BY <1>13, <1>15
  <2> QED
    BY <1>14, <1>16, <2>1, <2>2 DEF DrawnFrom
<1>18. Onto(e, g, S, f)
  <2>1. ASSUME NEW j \in S PROVE \E i \in Places(e, g) : f[i] = j
    <3>1. j \in Places(d, g) /\ j # p
      BY <1>14
    <3>2. CASE j = Start(d, g + 1) - 1
      <4>1. p \in Places(e, g)
        BY <1>5, <1>13, <3>1, <3>2
      <4> QED
        BY <1>15, <3>2, <4>1
    <3>3. CASE j # Start(d, g + 1) - 1
      <4>1. j \in Places(e, g)
        BY <1>13, <3>1, <3>3
      <4> QED
        BY <1>15, <3>1, <4>1
    <3> QED
      BY <3>2, <3>3
  <2> QED
    BY <2>1 DEF Onto
<1>19. /\ \A y : Num(e, g, y) <= Cardinality(Among(d, S, y))
       /\ Members(e, g) = Entry(d, S)
  BY <1>1, <1>17, <1>18, Drawn
<1>20. /\ Members(e, g) \subseteq Members(d, g)
       /\ Members(d, g) \subseteq Members(e, g) \cup {a}
  BY <1>5, <1>14, <1>19 DEF Entry, Members
<1>21. ASSUME NEW y PROVE Num(e, g, y) <= Num(d, g, y) /\ (y = a => Num(e, g, y) <= Num(d, g, y) - 1)
  <2>1. IsFiniteSet(PlacesOf(d, g, y)) /\ Num(d, g, y) \in Nat
    BY <1>1, PlacesFinite
  <2>2. Num(e, g, y) \in Nat
    BY <1>7, PlacesFinite
  <2>3. CASE y = a
    <3>1. Among(d, S, y) = PlacesOf(d, g, y) \ {p} /\ p \in PlacesOf(d, g, y)
      BY <1>2, <1>14, <2>3 DEF Among, PlacesOf
    <3>2. Cardinality(Among(d, S, y)) = Num(d, g, y) - 1
      BY <2>1, <3>1, FS_RemoveElement DEF Num
    <3>3. Num(e, g, y) <= Num(d, g, y) - 1
      BY <1>19, <3>2
    <3> QED
      BY <2>1, <2>2, <3>3
  <2>4. CASE y # a
    <3>1. Among(d, S, y) = PlacesOf(d, g, y)
      BY <1>5, <1>14, <2>4 DEF Among, PlacesOf
    <3> QED
      BY <1>19, <2>4, <3>1 DEF Num
  <2> QED
    BY <2>3, <2>4
<1>22. \A h \in Group \ {g} : SameGroup(d, e, h)
  BY <1>11, <1>12 DEF Group
<1>23. \A h \in Group : Members(e, h) \subseteq Info \cup CodeObject
  <2> TAKE h \in Group
  <2>1. Members(e, h) \subseteq Members(d, h)
    BY <1>20, <1>22 DEF SameGroup
  <2> QED
    BY <1>1, <2>1
<1>24. ASSUME NEW i \in 0..(Room(d) - 1), Entries(e) <= i PROVE e.entry[i] = NULL
  <2>1. CASE i = Entries(d) - 1
    BY <1>3, <2>1
  <2>2. CASE i # Entries(d) - 1
    <3>1. Entries(d) <= i
      <4>1. Entries(d) \in Int /\ i \in Int
        BY <1>1
      <4> QED
        BY <1>9, <1>24, <2>2, <4>1
    <3>2. ASSUME NEW h \in Group PROVE Start(d, h) - 1 # i
      <4>1. Start(d, h) \in Nat /\ Start(d, h) <= Entries(d)
        <5>1. /\ Start(d, h + 1) = Start(d, h) + d.count[h] /\ d.count[h] \in Nat
              /\ Start(d, h) \in Nat /\ Start(d, h + 1) <= Entries(d)
          BY <1>4
        <5> QED
          BY <1>1, <5>1
      <4> QED
        BY <1>1, <3>1, <4>1
    <3>3. i # p
      <4>1. Start(d, g + 1) <= Entries(d)
        BY <1>4
      <4> QED
        BY <1>1, <1>5, <1>13, <3>1, <4>1
    <3> QED
      BY <1>1, <1>3, <2>2, <3>1, <3>2, <3>3
  <2> QED
    BY <2>1, <2>2
<1>25. IsArray(e)
  <2>1. \A i \in 0..(Room(d) - 1) : e.entry[i] \in Info \cup CodeObject \cup {NULL}
    <3> TAKE i \in 0..(Room(d) - 1)
    <3>1. CASE Entries(e) <= i
      BY <1>24, <3>1
    <3>2. CASE ~(Entries(e) <= i)
      <4>1. i \in 0..(Entries(e) - 1)
        BY <1>1, <1>9, <3>2
      <4>2. PICK h \in Group : i \in Places(e, h)
        BY <1>7, <4>1, EveryEntryInGroup
      <4> QED
        BY <1>23, <4>2 DEF Members
    <3> QED
      BY <3>1, <3>2
  <2>2. e.entry \in [0..(Room(d) - 1) -> Info \cup CodeObject \cup {NULL}]
    BY <1>3, <2>1
  <2>3. Entries(e) <= Room(d)
    BY <1>1, <1>9
  <2> QED
    <3>1. /\ e.count \in [Group -> Nat] /\ Room(d) \in Nat
          /\ e = [count |-> e.count, entry |-> e.entry]
      BY <1>1, <1>3, <1>7
    <3> QED
      BY <1>23, <1>24, <2>2, <2>3, <3>1, ArrayOfGroups
<1> QED
  BY <1>20, <1>21, <1>22, <1>25 DEF Fewer

\* Removing nothing.
LEMMA FewerReflexive ==
    ASSUME NEW d, IsArray(d), NEW g \in Group, NEW a
    PROVE  Fewer(d, d, g, a)
<1>1. \A h \in Group : \A x : Num(d, h, x) \in Nat
  BY ArrayFacts, PlacesFinite
<1>2. \A h \in Group : \A x : Num(d, h, x) <= Num(d, h, x)
  BY <1>1
<1> QED
  BY <1>2 DEF Fewer, SameGroup

\* Removing something, and then something else.
LEMMA FewerTransitive ==
    ASSUME NEW d, IsArray(d), NEW g \in Group, NEW a, NEW e, NEW f,
           Fewer(d, e, g, a), Fewer(e, f, g, a)
    PROVE  Fewer(d, f, g, a)
<1>1. IsArray(e) /\ IsArray(f)
  BY DEF Fewer
<1>2. \A h \in Group : \A x : Num(d, h, x) \in Nat /\ Num(e, h, x) \in Nat /\ Num(f, h, x) \in Nat
  BY <1>1, ArrayFacts, PlacesFinite
<1>3. ASSUME NEW h \in Group \ {g} PROVE SameGroup(d, f, h)
  <2>1. SameGroup(d, e, h) /\ SameGroup(e, f, h)
    BY DEF Fewer
  <2>2. ASSUME NEW x PROVE Num(f, h, x) <= Num(d, h, x)
    <3>1. Num(f, h, x) <= Num(e, h, x) /\ Num(e, h, x) <= Num(d, h, x)
      BY <2>1 DEF SameGroup
    <3> QED
      BY <1>2, <3>1
  <2> QED
    BY <2>1, <2>2 DEF SameGroup
<1>4. ASSUME NEW x PROVE Num(f, g, x) <= Num(d, g, x)
  <2>1. Num(f, g, x) <= Num(e, g, x) /\ Num(e, g, x) <= Num(d, g, x)
    BY DEF Fewer
  <2> QED
    BY <1>2, <2>1
<1>5. /\ Members(f, g) \subseteq Members(d, g)
      /\ Members(d, g) \subseteq Members(f, g) \cup {a}
  BY DEF Fewer
<1> QED
  BY <1>1, <1>3, <1>4, <1>5 DEF Fewer

\* The recursion of Removed, as a step.
RemovedStep(d, g, a, f, k) == IF k = 0 THEN d ELSE RemoveOnce(f[k - 1], g, a)

RemovedRun(d, g, a, n, f) == f = [k \in 0..n |-> RemovedStep(d, g, a, f, k)]

\* There is a function that satisfies the recursion of Removed.
LEMMA RemovedExists ==
    ASSUME NEW d, NEW g, NEW a, NEW n \in Nat
    PROVE  \E f : RemovedRun(d, g, a, n, f)
<1> DEFINE S == {k \in Nat : \E f : RemovedRun(d, g, a, k, f)}
<1>1. 0 \in S
  <2>1. [k \in 0..0 |-> d] = [k \in 0..0 |-> RemovedStep(d, g, a, [j \in 0..0 |-> d], k)]
    BY DEF RemovedStep
  <2>2. \E f : RemovedRun(d, g, a, 0, f)
    BY <2>1 DEF RemovedRun
  <2> QED
    BY <2>2
<1>2. ASSUME NEW k \in 0..(n - 1), k \in S PROVE k + 1 \in S
  <2>1. PICK f : RemovedRun(d, g, a, k, f)
    BY <1>2
  <2> DEFINE h == [i \in 0..(k + 1) |-> IF i = k + 1 THEN RemovedStep(d, g, a, f, i) ELSE f[i]]
  <2>2. ASSUME NEW i \in 0..(k + 1) PROVE h[i] = RemovedStep(d, g, a, h, i)
    <3>1. i # 0 => i - 1 \in 0..(k + 1) /\ h[i - 1] = f[i - 1]
      OBVIOUS
    <3>2. RemovedStep(d, g, a, h, i) = RemovedStep(d, g, a, f, i)
      BY <3>1 DEF RemovedStep
    <3>3. i # k + 1 => i \in 0..k
      OBVIOUS
    <3>4. i # k + 1 => f[i] = RemovedStep(d, g, a, f, i)
      BY <2>1, <3>3 DEF RemovedRun
    <3> QED
      BY <3>2, <3>4
  <2>3. h = [i \in 0..(k + 1) |-> RemovedStep(d, g, a, h, i)]
    BY <2>2
  <2>4. \E f2 : RemovedRun(d, g, a, k + 1, f2)
    BY <2>3 DEF RemovedRun
  <2> QED
    BY <2>4
<1> HIDE DEF S
<1>3. n \in 0..n
  OBVIOUS
<1>4. n \in S
  BY <1>1, <1>2, <1>3, UpTo
<1> QED
  BY <1>4 DEF S

\* Removing as many entries of a as the group can have removes all of them.
LEMMA RemovedFacts ==
    ASSUME NEW d, IsArray(d), NEW g \in Group, NEW a, NEW n \in Nat,
           Num(d, g, a) <= n
    PROVE  /\ Fewer(d, Removed(d, g, a, n), g, a)
           /\ Num(Removed(d, g, a, n), g, a) = 0
<1>1. \E f : RemovedRun(d, g, a, n, f)
  BY RemovedExists
<1> DEFINE f == CHOOSE f : RemovedRun(d, g, a, n, f)
<1>2. f = [k \in 0..n |-> RemovedStep(d, g, a, f, k)]
  BY <1>1 DEF RemovedRun
<1>3. Removed(d, g, a, n) = f[n]
  BY DEF Removed, RemovedStep, RemovedRun
<1> HIDE DEF f
<1> DEFINE Done(k) == /\ Fewer(d, f[k], g, a)
                      /\ Num(f[k], g, a) = 0 \/ Num(f[k], g, a) <= Num(d, g, a) - k
           S == {k \in Nat : Done(k)}
<1>4. Num(d, g, a) \in Nat
  BY ArrayFacts, PlacesFinite
<1>5. 0 \in S
  <2>1. f[0] = d
    BY <1>2 DEF RemovedStep
  <2>2. Fewer(d, d, g, a)
    BY FewerReflexive
  <2> QED
    BY <1>4, <2>1, <2>2
<1>6. ASSUME NEW k \in 0..(n - 1), k \in S PROVE k + 1 \in S
  <2>1. f[k + 1] = RemoveOnce(f[k], g, a)
    <3>1. k + 1 \in 0..n /\ k + 1 # 0 /\ (k + 1) - 1 = k
      OBVIOUS
    <3> QED
      BY <1>2, <3>1 DEF RemovedStep
  <2>2. Done(k)
    BY <1>6
  <2>3. IsArray(f[k])
    BY <2>2 DEF Fewer
  <2>4. /\ Num(f[k], g, a) \in Nat
        /\ Num(f[k], g, a) = 0 <=> PlacesOf(f[k], g, a) = {}
    <3>1. f[k].count \in [Group -> Nat]
      BY <2>3, ArrayFacts
    <3> QED
      BY <3>1, PlacesFinite, FS_EmptySet DEF Num
  <2>5. CASE PlacesOf(f[k], g, a) = {}
    <3>1. RemoveOnce(f[k], g, a) = f[k]
      BY <2>5 DEF RemoveOnce
    <3> QED
      BY <2>1, <2>2, <2>4, <2>5, <3>1
  <2>6. CASE PlacesOf(f[k], g, a) # {}
    <3>1. Fewer(f[k], f[k + 1], g, a) /\ Num(f[k + 1], g, a) <= Num(f[k], g, a) - 1
      BY <2>1, <2>3, <2>6, RemoveOnceFacts
    <3>2. Fewer(d, f[k + 1], g, a)
      BY <2>2, <3>1, FewerTransitive
    <3>3. Num(f[k + 1], g, a) \in Nat
      BY <3>2, ArrayFacts, PlacesFinite DEF Fewer
    <3>4. Num(f[k], g, a) <= Num(d, g, a) - k
      BY <2>2, <2>4, <2>6
    <3>5. Num(f[k + 1], g, a) <= Num(d, g, a) - (k + 1)
      BY <1>4, <2>4, <3>1, <3>3, <3>4
    <3> QED
      BY <3>2, <3>5
  <2> QED
    BY <2>5, <2>6
<1>7. Done(n)
  <2> HIDE DEF Done
  <2>1. \A k \in 0..(n - 1) : k \in S => k + 1 \in S
    <3> HIDE DEF S
    <3> QED
      BY <1>6
  <2>2. \A k \in 0..n : k \in S
    <3> HIDE DEF S
    <3> QED
      BY <1>5, <2>1, UpTo
  <2> QED
    BY <2>2
<1>8. Num(f[n], g, a) \in Nat
  BY <1>7, ArrayFacts, PlacesFinite DEF Fewer
<1> QED
  BY <1>3, <1>4, <1>7, <1>8

\* The recursion of Rollback, as a step.
RollbackStep(d, a, f, g) == IF g = 0 THEN d ELSE Removed(f[g - 1], g - 1, a, uses[a][g - 1])

RollbackRun(d, a, n, f) == f = [g \in 0..n |-> RollbackStep(d, a, f, g)]

\* There is a function that satisfies the recursion of Rollback.
LEMMA RollbackExists ==
    ASSUME NEW d, NEW a, NEW n \in Nat
    PROVE  \E f : RollbackRun(d, a, n, f)
<1> DEFINE S == {k \in Nat : \E f : RollbackRun(d, a, k, f)}
<1>1. 0 \in S
  <2>1. [k \in 0..0 |-> d] = [k \in 0..0 |-> RollbackStep(d, a, [j \in 0..0 |-> d], k)]
    BY DEF RollbackStep
  <2>2. \E f : RollbackRun(d, a, 0, f)
    BY <2>1 DEF RollbackRun
  <2> QED
    BY <2>2
<1>2. ASSUME NEW k \in 0..(n - 1), k \in S PROVE k + 1 \in S
  <2>1. PICK f : RollbackRun(d, a, k, f)
    BY <1>2
  <2> DEFINE h == [i \in 0..(k + 1) |-> IF i = k + 1 THEN RollbackStep(d, a, f, i) ELSE f[i]]
  <2>2. ASSUME NEW i \in 0..(k + 1) PROVE h[i] = RollbackStep(d, a, h, i)
    <3>1. i # 0 => i - 1 \in 0..(k + 1) /\ h[i - 1] = f[i - 1]
      OBVIOUS
    <3>2. RollbackStep(d, a, h, i) = RollbackStep(d, a, f, i)
      BY <3>1 DEF RollbackStep
    <3>3. i # k + 1 => i \in 0..k
      OBVIOUS
    <3>4. i # k + 1 => f[i] = RollbackStep(d, a, f, i)
      BY <2>1, <3>3 DEF RollbackRun
    <3> QED
      BY <3>2, <3>4
  <2>3. h = [i \in 0..(k + 1) |-> RollbackStep(d, a, h, i)]
    BY <2>2
  <2>4. \E f2 : RollbackRun(d, a, k + 1, f2)
    BY <2>3 DEF RollbackRun
  <2> QED
    BY <2>4
<1> HIDE DEF S
<1>3. n \in 0..n
  OBVIOUS
<1>4. n \in S
  BY <1>1, <1>2, <1>3, UpTo
<1> QED
  BY <1>4 DEF S

\* e is d but for entries of a, of which the first k groups have none.
Rolled(d, e, a, k) ==
    /\ IsArray(e)
    /\ \A h \in Group :
          /\ Members(e, h) \subseteq Members(d, h)
          /\ Members(d, h) \subseteq Members(e, h) \cup {a}
          /\ \A y : Num(e, h, y) <= Num(d, h, y)
          /\ h < k => Num(e, h, a) = 0

\* One more group.
LEMMA RolledFurther ==
    ASSUME NEW d, IsArray(d), NEW a, NEW g \in Group, NEW e, Rolled(d, e, a, g),
           NEW n \in Nat, Num(d, g, a) <= n, NEW f, f = Removed(e, g, a, n)
    PROVE  Rolled(d, f, a, g + 1)
<1>1. IsArray(e) /\ Num(e, g, a) <= Num(d, g, a)
  BY DEF Rolled
<1>2. \A h \in Group : \A x : Num(d, h, x) \in Nat /\ Num(e, h, x) \in Nat
  BY <1>1, ArrayFacts, PlacesFinite
<1>3. Num(e, g, a) <= n
  BY <1>1, <1>2
<1>4. Fewer(e, f, g, a) /\ Num(f, g, a) = 0
  BY <1>1, <1>3, RemovedFacts
<1>5. IsArray(f)
  BY <1>4 DEF Fewer
<1>6. \A h \in Group : \A x : Num(f, h, x) \in Nat
  BY <1>5, ArrayFacts, PlacesFinite
<1>7. ASSUME NEW h \in Group
      PROVE  /\ Members(f, h) \subseteq Members(e, h)
             /\ Members(e, h) \subseteq Members(f, h) \cup {a}
             /\ \A y : Num(f, h, y) <= Num(e, h, y)
  BY <1>4 DEF Fewer, SameGroup
<1>8. ASSUME NEW h \in Group
      PROVE  /\ Members(e, h) \subseteq Members(d, h)
             /\ Members(d, h) \subseteq Members(e, h) \cup {a}
             /\ \A y : Num(e, h, y) <= Num(d, h, y)
             /\ h < g => Num(e, h, a) = 0
  BY DEF Rolled
<1>9. ASSUME NEW h \in Group
      PROVE  /\ Members(f, h) \subseteq Members(d, h)
             /\ Members(d, h) \subseteq Members(f, h) \cup {a}
  BY <1>7, <1>8
<1>10. ASSUME NEW h \in Group, NEW y PROVE Num(f, h, y) <= Num(d, h, y)
  <2>1. Num(f, h, y) <= Num(e, h, y) /\ Num(e, h, y) <= Num(d, h, y)
    BY <1>7, <1>8
  <2> QED
    BY <1>2, <1>6, <2>1
<1>11. ASSUME NEW h \in Group, h < g + 1 PROVE Num(f, h, a) = 0
  <2>1. CASE h = g
    BY <1>4, <2>1
  <2>2. CASE h # g
    <3>1. h < g
      BY <1>11, <2>2 DEF Group
    <3>2. Num(e, h, a) = 0 /\ Num(f, h, a) <= Num(e, h, a) /\ Num(f, h, a) \in Nat
      BY <1>6, <1>7, <1>8, <3>1
    <3> QED
      BY <3>2
  <2> QED
    BY <2>1, <2>2
<1> QED
  BY <1>5, <1>9, <1>10, <1>11 DEF Rolled

\* The end of a compilation takes all its entries from all groups.
LEMMA RollbackFacts ==
    ASSUME NEW d, IsArray(d), NEW a, uses[a] \in [Group -> Nat],
           \A g \in Group : Num(d, g, a) <= uses[a][g],
           NEW e, e = Rollback(d, a)
    PROVE  /\ IsArray(e)
           /\ \A g \in Group : /\ Members(e, g) = Members(d, g) \ {a}
                               /\ \A y : Num(e, g, y) <= Num(d, g, y)
                               /\ Num(e, g, a) = 0
<1>1. \E f : RollbackRun(d, a, kGroupCount, f)
  BY RollbackExists
<1> DEFINE f == CHOOSE f : RollbackRun(d, a, kGroupCount, f)
<1>2. f = [g \in 0..kGroupCount |-> RollbackStep(d, a, f, g)]
  BY <1>1 DEF RollbackRun
<1>3. e = f[kGroupCount]
  BY DEF Rollback, RollbackStep, RollbackRun
<1> HIDE DEF f
<1> DEFINE S == {k \in Nat : Rolled(d, f[k], a, k)}
<1>4. 0 \in S
  <2>1. f[0] = d
    BY <1>2 DEF RollbackStep
  <2>2. \A h \in Group : ~(h < 0)
    BY DEF Group
  <2>3. \A h \in Group : \A x : Num(d, h, x) \in Nat
    BY ArrayFacts, PlacesFinite
  <2>4. \A h \in Group : \A x : Num(d, h, x) <= Num(d, h, x)
    BY <2>3
  <2>5. Rolled(d, d, a, 0)
    BY <2>2, <2>4 DEF Rolled
  <2> QED
    BY <2>1, <2>5
<1>5. ASSUME NEW k \in 0..(kGroupCount - 1), k \in S PROVE k + 1 \in S
  <2>1. k \in Group /\ k + 1 \in 0..kGroupCount /\ k + 1 # 0 /\ (k + 1) - 1 = k
    BY DEF Group
  <2>2. f[k + 1] = Removed(f[k], k, a, uses[a][k])
    BY <1>2, <2>1 DEF RollbackStep
  <2>3. Rolled(d, f[k], a, k)
    BY <1>5
  <2>4. uses[a][k] \in Nat
    BY <2>1
  <2>5. Rolled(d, f[k + 1], a, k + 1)
    BY <2>1, <2>2, <2>3, <2>4, RolledFurther
  <2> QED
    BY <2>1, <2>5
<1>6. Rolled(d, e, a, kGroupCount)
  <2> HIDE DEF S
  <2>1. \A k \in 0..kGroupCount : k \in S
    BY <1>4, <1>5, UpTo
  <2>2. kGroupCount \in S
    BY <2>1
  <2> QED
    BY <1>3, <2>2 DEF S
<1>7. IsArray(e)
  BY <1>6 DEF Rolled
<1>8. ASSUME NEW g \in Group
      PROVE  /\ Members(e, g) = Members(d, g) \ {a}
             /\ \A y : Num(e, g, y) <= Num(d, g, y)
             /\ Num(e, g, a) = 0
  <2>1. g < kGroupCount
    BY DEF Group
  <2>2. /\ Members(e, g) \subseteq Members(d, g)
        /\ Members(d, g) \subseteq Members(e, g) \cup {a}
        /\ \A y : Num(e, g, y) <= Num(d, g, y)
        /\ Num(e, g, a) = 0
    BY <1>6, <2>1 DEF Rolled
  <2>3. a \notin Members(e, g)
    BY <1>7, <2>2, ArrayFacts, PlacesFinite
  <2> QED
    BY <2>2, <2>3
<1> QED
  BY <1>7, <1>8

-------------------------------------------------------------------------------
(* The longer array, the finished code, and the group that is deoptimized *)

\* The same counters give the same places.
LEMMA SamePlaces ==
    ASSUME NEW d, d.count \in [Group -> Nat], NEW e, e.count = d.count
    PROVE  Entries(e) = Entries(d) /\ \A g \in Group : Places(e, g) = Places(d, g)
<1>1. 0 \in Group
  BY DEF Group
<1>2. \A h \in 0..kGroupCount : Start(d, h) \in Nat
  BY StartFacts
<1>3. \A h \in 0..kGroupCount : Start(e, h) = IF h <= 0 THEN Start(d, h)
                                ELSE Start(d, h) + e.count[0] - d.count[0]
  <2>1. e.count \in [Group -> Nat] /\ \A h \in Group \ {0} : e.count[h] = d.count[h]
    OBVIOUS
  <2> QED
    BY <1>1, <2>1, StartShift
<1>4. \A h \in 0..kGroupCount : Start(e, h) = Start(d, h)
  <2>1. e.count[0] = d.count[0] /\ d.count[0] \in Nat
    BY <1>1
  <2> QED
    BY <1>2, <1>3, <2>1
<1>5. \A g \in Group : g \in 0..kGroupCount /\ g + 1 \in 0..kGroupCount
  BY DEF Group
<1>6. kGroupCount \in 0..kGroupCount
  OBVIOUS
<1> QED
  BY <1>4, <1>5, <1>6 DEF Entries, Places

\* The copy has room, and holds the same.
LEMMA GrownFacts ==
    ASSUME NEW d, IsArray(d), NEW e, e = Grown(d)
    PROVE  /\ IsArray(e) /\ Entries(e) < Room(e)
           /\ \A g \in Group : SameGroup(d, e, g)
<1>1. /\ d.count \in [Group -> Nat] /\ Room(d) \in Nat /\ Entries(d) \in Nat
      /\ Entries(d) <= Room(d)
      /\ d.entry \in [0..(Room(d) - 1) -> Info \cup CodeObject \cup {NULL}]
      /\ \A g \in Group : /\ Places(d, g) \subseteq 0..(Entries(d) - 1)
                          /\ Members(d, g) \subseteq Info \cup CodeObject
  BY ArrayFacts, PlacesApart
<1>2. PICK n : n = Length(Entries(d))
  OBVIOUS
<1>3. n \in Nat /\ Entries(d) < n
  <2>1. PICK k \in Nat : k = Entries(d)
    BY <1>1
  <2> QED
    BY <1>2, <2>1 DEF Length
<1>4. PICK s : s = [i \in 0..(n - 1) |-> IF i < Entries(d) THEN d.entry[i] ELSE NULL]
  OBVIOUS
<1>5. e = [count |-> d.count, entry |-> s] /\ e.count = d.count /\ e.entry = s
  <2>1. d = [count |-> d.count, entry |-> d.entry]
    BY DEF IsArray
  <2>2. [d EXCEPT !.entry = s] = [count |-> d.count, entry |-> s]
    BY <2>1
  <2>3. e = [d EXCEPT !.entry = s]
    BY <1>2, <1>4 DEF Grown
  <2> QED
    BY <2>2, <2>3
<1>6. s \in [0..(n - 1) -> Info \cup CodeObject \cup {NULL}]
  <2>1. \A i \in 0..(n - 1) : i < Entries(d) => i \in 0..(Room(d) - 1)
    BY <1>1
  <2> QED
    BY <1>1, <1>4, <2>1
<1>7. Entries(e) = Entries(d) /\ \A g \in Group : Places(e, g) = Places(d, g)
  BY <1>1, <1>5, SamePlaces
<1>8. ASSUME NEW g \in Group PROVE SameGroup(d, e, g)
  <2>1. ASSUME NEW i \in Places(d, g) PROVE e.entry[i] = d.entry[i]
    <3>1. i \in 0..(n - 1) /\ i < Entries(d)
      <4>1. i \in 0..(Entries(d) - 1)
        BY <1>1
      <4> QED
        BY <1>1, <1>3, <4>1
    <3> QED
      BY <1>4, <1>5, <3>1
  <2> QED
    BY <1>1, <1>7, <2>1, Untouched
<1>9. IsArray(e) /\ Room(e) = n
  <2>1. \A g \in Group : Members(e, g) \subseteq Info \cup CodeObject
    BY <1>1, <1>8 DEF SameGroup
  <2>2. \A i \in 0..(n - 1) : Entries(e) <= i => s[i] = NULL
    BY <1>1, <1>4, <1>7
  <2>3. Entries(e) <= n
    BY <1>1, <1>3, <1>7
  <2>4. d.count \in [Group -> Nat]
    BY <1>1
  <2> QED
    <3>1. /\ e = [count |-> e.count, entry |-> e.entry]
          /\ e.count \in [Group -> Nat]
          /\ e.entry \in [0..(n - 1) -> Info \cup CodeObject \cup {NULL}]
          /\ \A i \in 0..(n - 1) : Entries(e) <= i => e.entry[i] = NULL
      BY <1>5, <1>6, <2>2, <2>4
    <3> QED
      BY <1>3, <2>1, <2>3, <3>1, ArrayOfGroups
<1> QED
  BY <1>3, <1>7, <1>8, <1>9

\* CommitDependencies replaces every entry of the compilation, because it has
\* registered at least as often as it has entries.
LEMMA UpdateFacts ==
    ASSUME NEW d, IsArray(d), NEW a \in Info, NEW c \in CodeObject,
           uses[a] \in [Group -> Nat], \A g \in Group : Num(d, g, a) <= uses[a][g],
           NEW e, e = Update(d, a, c)
    PROVE  /\ IsArray(e)
           /\ \A g \in Group :
                 /\ Members(e, g) = (Members(d, g) \ {a})
                                       \cup {x \in {c} : a \in Members(d, g)}
                 /\ \A b \in Info : Num(e, g, b) <= Num(d, g, b)
<1>1. /\ d.count \in [Group -> Nat] /\ Room(d) \in Nat /\ Entries(d) \in Nat
      /\ Entries(d) <= Room(d)
      /\ DOMAIN d.entry = 0..(Room(d) - 1)
      /\ d.entry \in [0..(Room(d) - 1) -> Info \cup CodeObject \cup {NULL}]
      /\ \A i \in 0..(Room(d) - 1) : Entries(d) <= i => d.entry[i] = NULL
      /\ \A g \in Group : /\ Places(d, g) \subseteq 0..(Room(d) - 1)
                          /\ Members(d, g) \subseteq Info \cup CodeObject
  BY ArrayFacts
<1>2. PICK s : s = [i \in 0..(Room(d) - 1) |->
                      IF d.entry[i] = a
                         /\ \E g \in Group :
                               /\ i \in Places(d, g)
                               /\ Cardinality({j \in PlacesOf(d, g, a) : j < i}) < uses[a][g]
                      THEN c ELSE d.entry[i]]
  OBVIOUS
<1>3. e = [count |-> d.count, entry |-> s] /\ e.count = d.count /\ e.entry = s
  <2>1. d = [count |-> d.count, entry |-> d.entry]
    BY DEF IsArray
  <2>2. [d EXCEPT !.entry = s] = [count |-> d.count, entry |-> s]
    BY <2>1
  <2>3. e = [d EXCEPT !.entry = s]
    BY <1>1, <1>2 DEF Update
  <2> QED
    BY <2>2, <2>3
<1>4. ASSUME NEW g \in Group, NEW i \in Places(d, g), d.entry[i] = a PROVE s[i] = c
  <2>1. PICK P : P = PlacesOf(d, g, a)
    OBVIOUS
  <2>2. i \in P /\ IsFiniteSet(P) /\ Cardinality(P) \in Nat /\ Cardinality(P) <= uses[a][g]
    <3>1. IsFiniteSet(PlacesOf(d, g, a)) /\ Num(d, g, a) \in Nat
      BY <1>1, PlacesFinite
    <3>2. Num(d, g, a) <= uses[a][g]
      OBVIOUS
    <3> QED
      BY <1>4, <2>1, <3>1, <3>2 DEF PlacesOf, Num
  <2>3. Cardinality(P \ {i}) = Cardinality(P) - 1 /\ IsFiniteSet(P \ {i})
    BY <2>2, FS_RemoveElement
  <2>4. {j \in P : j < i} \in SUBSET (P \ {i})
    <3>1. i \in Int
      BY <1>1
    <3> QED
      BY <3>1
  <2>5. /\ Cardinality({j \in P : j < i}) <= Cardinality(P \ {i})
        /\ Cardinality({j \in P : j < i}) \in Nat
    BY <2>3, <2>4, FS_Subset, FS_CardinalityType
  <2>6. uses[a][g] \in Nat
    OBVIOUS
  <2>7. Cardinality({j \in PlacesOf(d, g, a) : j < i}) < uses[a][g]
    BY <2>1, <2>2, <2>3, <2>5, <2>6
  <2>8. i \in 0..(Room(d) - 1)
    BY <1>1
  <2> QED
    BY <1>2, <1>4, <2>7, <2>8
<1>5. ASSUME NEW i \in 0..(Room(d) - 1), d.entry[i] # a PROVE s[i] = d.entry[i]
  BY <1>2, <1>5
<1>6. Entries(e) = Entries(d) /\ \A g \in Group : Places(e, g) = Places(d, g)
  BY <1>1, <1>3, SamePlaces
<1>7. a # c /\ a # NULL
  OBVIOUS
<1>8. ASSUME NEW g \in Group
      PROVE  /\ Members(e, g) = (Members(d, g) \ {a}) \cup {x \in {c} : a \in Members(d, g)}
             /\ \A b \in Info : Num(e, g, b) <= Num(d, g, b)
  <2>1. \A i \in Places(d, g) : e.entry[i] = IF d.entry[i] = a THEN c ELSE d.entry[i]
    BY <1>1, <1>3, <1>4, <1>5
  <2>2. Places(e, g) = Places(d, g)
    BY <1>6
  <2>3. Members(e, g) = (Members(d, g) \ {a}) \cup {x \in {c} : a \in Members(d, g)}
    BY <2>1, <2>2 DEF Members
  <2>4. ASSUME NEW b \in Info PROVE Num(e, g, b) <= Num(d, g, b)
    <3>1. b # c
      OBVIOUS
    <3>2. PlacesOf(e, g, b) \in SUBSET PlacesOf(d, g, b)
      BY <2>1, <2>2, <3>1 DEF PlacesOf
    <3> QED
      BY <1>1, <3>2, PlacesFinite, FS_Subset DEF Num
  <2> QED
    BY <2>3, <2>4
<1>9. IsArray(e)
  <2>1. \A g \in Group : Members(e, g) \subseteq Info \cup CodeObject
    BY <1>1, <1>8
  <2>2. \A i \in 0..(Room(d) - 1) : Entries(e) <= i => s[i] = NULL
    BY <1>1, <1>5, <1>6, <1>7
  <2>3. s \in [0..(Room(d) - 1) -> Info \cup CodeObject \cup {NULL}]
    BY <1>1, <1>2
  <2>4. d.count \in [Group -> Nat] /\ Entries(e) <= Room(d) /\ Room(d) \in Nat
    BY <1>1, <1>6
  <2> QED
    <3>1. /\ e = [count |-> e.count, entry |-> e.entry]
          /\ e.count \in [Group -> Nat]
          /\ e.entry \in [0..(Room(d) - 1) -> Info \cup CodeObject \cup {NULL}]
          /\ \A i \in 0..(Room(d) - 1) : Entries(e) <= i => e.entry[i] = NULL
      BY <1>3, <2>2, <2>3, <2>4
    <3> QED
      BY <2>1, <2>4, <3>1, ArrayOfGroups
<1> QED
  BY <1>8, <1>9

\* The array that DeoptimizeDependentCodeGroup leaves.
Without(d, g) ==
    [count |-> [d.count EXCEPT ![g] = 0],
     entry |-> [i \in DOMAIN d.entry |->
                   IF i < Start(d, g) THEN d.entry[i]
                   ELSE IF i + d.count[g] < Entries(d)
                   THEN d.entry[i + d.count[g]]
                   ELSE NULL]]

\* DeoptimizeDependentCodeGroup empties its group and keeps the others.
LEMMA WithoutFacts ==
    ASSUME NEW d, IsArray(d), NEW g \in Group, NEW e, e = Without(d, g)
    PROVE  /\ IsArray(e)
           /\ \A h \in Group \ {g} : SameGroup(d, e, h)
           /\ Members(e, g) = {}
           /\ \A y : Num(e, g, y) = 0
<1>1. /\ d.count \in [Group -> Nat] /\ Room(d) \in Nat /\ Entries(d) \in Nat
      /\ Entries(d) <= Room(d)
      /\ DOMAIN d.entry = 0..(Room(d) - 1)
      /\ d.entry \in [0..(Room(d) - 1) -> Info \cup CodeObject \cup {NULL}]
      /\ \A h \in Group : /\ Places(d, h) \subseteq 0..(Room(d) - 1)
                          /\ Members(d, h) \subseteq Info \cup CodeObject
  BY ArrayFacts
<1>2. PICK n : n = d.count[g]
  OBVIOUS
<1>3. PICK s : s = [i \in 0..(Room(d) - 1) |->
                       IF i < Start(d, g) THEN d.entry[i]
                       ELSE IF i + n < Entries(d) THEN d.entry[i + n] ELSE NULL]
  OBVIOUS
<1>4. e = [count |-> [d.count EXCEPT ![g] = 0], entry |-> s]
  BY <1>1, <1>2, <1>3 DEF Without
<1>5. /\ e = [count |-> e.count, entry |-> e.entry]
      /\ e.count = [d.count EXCEPT ![g] = 0] /\ e.count \in [Group -> Nat]
      /\ e.entry = s
  BY <1>1, <1>4
<1>6. /\ n \in Nat /\ n = d.count[g]
      /\ Start(d, g) \in Nat /\ Start(d, g + 1) \in Nat /\ Start(d, g + 1) = Start(d, g) + n
      /\ Start(d, g + 1) <= Entries(d)
  BY <1>1, <1>2, Ends
<1>7. \A h \in 0..kGroupCount : Start(e, h) = IF h <= g THEN Start(d, h) ELSE Start(d, h) - n
  <2>1. \A h \in Group \ {g} : e.count[h] = d.count[h]
    BY <1>1, <1>5
  <2>2. e.count[g] = 0
    BY <1>1, <1>5
  <2>3. \A h \in 0..kGroupCount : Start(e, h) = IF h <= g THEN Start(d, h)
                                  ELSE Start(d, h) + e.count[g] - d.count[g]
    <3>1. d.count \in [Group -> Nat] /\ e.count \in [Group -> Nat]
      BY <1>1, <1>5
    <3> QED
      BY <2>1, <3>1, StartShift
  <2>4. \A h \in 0..kGroupCount : Start(d, h) \in Nat
    BY <1>1, StartFacts
  <2> QED
    BY <1>6, <2>2, <2>3, <2>4
<1>8. Entries(e) = Entries(d) - n
  <2>1. kGroupCount \in 0..kGroupCount /\ ~(kGroupCount <= g)
    BY DEF Group
  <2> QED
    BY <1>7, <2>1 DEF Entries
<1>9. ASSUME NEW h \in Group
      PROVE  /\ Start(e, h) = IF h <= g THEN Start(d, h) ELSE Start(d, h) - n
             /\ Start(e, h + 1) = IF h < g THEN Start(d, h + 1) ELSE Start(d, h + 1) - n
             /\ Start(d, h) \in Nat /\ Start(d, h + 1) \in Nat
             /\ Start(d, h + 1) <= Entries(d)
  <2>1. h \in 0..kGroupCount /\ h + 1 \in 0..kGroupCount /\ (h + 1 <= g <=> h < g)
    BY DEF Group
  <2>2. Start(d, h) \in Nat /\ Start(d, h + 1) \in Nat /\ Start(d, h + 1) <= Entries(d)
    BY <1>1, Ends
  <2> QED
    BY <1>7, <2>1, <2>2
<1>10. ASSUME NEW h \in Group, h < g PROVE SameGroup(d, e, h)
  <2>1. Places(e, h) = Places(d, h)
    <3>1. h <= g
      BY <1>10 DEF Group
    <3> QED
      BY <1>9, <1>10, <3>1 DEF Places
  <2>2. ASSUME NEW i \in Places(d, h) PROVE e.entry[i] = d.entry[i]
    <3>1. Start(d, h + 1) <= Start(d, g)
      BY <1>1, <1>10, Ends
    <3>2. i < Start(d, g) /\ i \in 0..(Room(d) - 1)
      BY <1>1, <1>6, <1>9, <3>1 DEF Places
    <3> QED
      BY <1>3, <1>5, <3>2
  <2> QED
    BY <1>1, <2>1, <2>2, Untouched
<1>11. ASSUME NEW h \in Group, h > g PROVE SameGroup(d, e, h)
  <2>1. PICK f : f = [i \in Places(e, h) |-> i + n]
    OBVIOUS
  <2>2. /\ Start(e, h) = Start(d, h) - n /\ Start(e, h + 1) = Start(d, h + 1) - n
        /\ Start(d, h) \in Nat /\ Start(d, h + 1) \in Nat /\ Start(d, h + 1) <= Entries(d)
        /\ Start(d, g + 1) <= Start(d, h)
    <3>1. ~(h <= g) /\ ~(h < g)
      BY <1>11 DEF Group
    <3>2. Start(d, g + 1) <= Start(d, h)
      BY <1>1, <1>11, Ends
    <3> QED
      BY <1>9, <3>1, <3>2
  <2>3. PICK u \in Nat, v \in Nat :
            /\ u = Start(d, h) /\ v = Start(d, h + 1)
            /\ n \in Nat /\ n <= u /\ Start(d, g) + n <= u /\ v <= Entries(d)
    <3>1. Start(d, g) + n <= Start(d, h) /\ n <= Start(d, h)
      <4>1. Start(d, g) \in Nat /\ n \in Nat /\ Start(d, g + 1) = Start(d, g) + n
        BY <1>6
      <4>2. Start(d, g + 1) <= Start(d, h) /\ Start(d, h) \in Nat
        BY <2>2
      <4> QED
        BY <4>1, <4>2
    <3> QED
      BY <1>6, <2>2, <3>1
  <2>4. Places(e, h) = (u - n)..(v - n - 1) /\ Places(d, h) = u..(v - 1)
    BY <2>2, <2>3 DEF Places
  <2>5. ASSUME NEW i \in Places(e, h) PROVE i \in Int /\ u <= i + n /\ i + n < v
    BY <2>3, <2>4
  <2>6. ASSUME NEW i \in Places(e, h) PROVE e.entry[i] = d.entry[f[i]]
    <3>1. i \in Int /\ u <= i + n /\ i + n < v
      BY <2>5
    <3>2. PICK k \in Nat : k = Start(d, g)
      BY <1>6
    <3>3. i >= 0 /\ ~(i < Start(d, g)) /\ i + n < Entries(d) /\ i < Room(d)
      <4>1. k + n <= u /\ v <= Entries(d) /\ Entries(d) \in Nat /\ Entries(d) <= Room(d)
            /\ Room(d) \in Nat
        BY <1>1, <2>3, <3>2
      <4> QED
        BY <2>3, <3>1, <3>2, <4>1
    <3>4. i \in 0..(Room(d) - 1)
      BY <1>1, <3>1, <3>3
    <3> QED
      BY <1>3, <1>5, <2>1, <3>3, <3>4
  <2>7. DrawnFrom(d, e, h, Places(d, h), f)
    <3>1. f \in [Places(e, h) -> Places(d, h)]
      <4>1. \A i \in Places(e, h) : i + n \in Places(d, h)
        BY <2>3, <2>4, <2>5
      <4> QED
        BY <2>1, <4>1
    <3>2. \A i, j \in Places(e, h) : f[i] = f[j] => i = j
      <4>1. \A i, j \in Places(e, h) : i + n = j + n => i = j
        BY <2>3, <2>5
      <4> QED
        BY <2>1, <4>1
    <3> QED
      BY <2>6, <3>1, <3>2 DEF DrawnFrom
  <2>8. Onto(e, h, Places(d, h), f)
    <3>1. ASSUME NEW j \in Places(d, h) PROVE \E i \in Places(e, h) : f[i] = j
      <4>1. j - n \in Places(e, h) /\ (j - n) + n = j
        BY <2>3, <2>4
      <4> QED
        BY <2>1, <4>1
    <3> QED
      BY <3>1 DEF Onto
  <2> QED
    BY <1>1, <2>7, <2>8, Reordered
<1>12. Places(e, g) = {}
  <2>1. g <= g /\ ~(g < g)
    BY DEF Group
  <2>2. Start(e, g) = Start(d, g) /\ Start(e, g + 1) = Start(d, g)
    BY <1>6, <1>9, <2>1
  <2> QED
    BY <1>6, <2>2 DEF Places
<1>13. Members(e, g) = {} /\ \A y : Num(e, g, y) = 0
  BY <1>12, FS_EmptySet DEF Members, Num, PlacesOf
<1>14. \A h \in Group \ {g} : SameGroup(d, e, h)
  BY <1>10, <1>11 DEF Group
<1>15. IsArray(e)
  <2>1. \A h \in Group : Members(e, h) \subseteq Info \cup CodeObject
    BY <1>1, <1>13, <1>14 DEF SameGroup
  <2>2. ASSUME NEW i \in 0..(Room(d) - 1), Entries(e) <= i PROVE e.entry[i] = NULL
    <3>1. ~(i < Start(d, g)) /\ ~(i + n < Entries(d))
      BY <1>1, <1>6, <1>8, <2>2
    <3> QED
      BY <1>3, <1>5, <3>1
  <2>3. e.entry \in [0..(Room(d) - 1) -> Info \cup CodeObject \cup {NULL}]
    <3>1. \A i \in 0..(Room(d) - 1) : i + n < Entries(d) => i + n \in 0..(Room(d) - 1)
      BY <1>1, <1>6
    <3> QED
      BY <1>1, <1>3, <1>5, <3>1
  <2>4. Entries(e) <= Room(d) /\ Room(d) \in Nat
    BY <1>1, <1>6, <1>8
  <2> QED
    BY <1>5, <2>1, <2>2, <2>3, <2>4, ArrayOfGroups
<1> QED
  BY <1>13, <1>14, <1>15

-------------------------------------------------------------------------------
(* What a collection keeps *)

Kept(d, gone) == {i \in 0..(Entries(d) - 1) : d.entry[i] \notin gone}

\* How many of the places K are before n.
Before(K, n) == Cardinality({j \in K : j < n})

\* The array that ClearNonLiveDependentCode leaves.
Closed(d, K) ==
    [count |-> [g \in Group |-> Cardinality(K \cap Places(d, g))],
     entry |-> [i \in DOMAIN d.entry |->
                   IF i < Cardinality(K)
                   THEN d.entry[CHOOSE j \in K : Before(K, j) = i]
                   ELSE NULL]]

\* Counting the places of K from the start: each is counted once, in order.
LEMMA Counting ==
    ASSUME NEW N \in Nat, NEW K \in SUBSET (0..(N - 1))
    PROVE  /\ IsFiniteSet(K) /\ Cardinality(K) \in Nat
           /\ \A n \in Nat : IsFiniteSet({j \in K : j < n}) /\ Before(K, n) \in Nat
           /\ Before(K, 0) = 0 /\ Before(K, N) = Cardinality(K)
           /\ \A n \in Nat : Before(K, n + 1) = IF n \in K THEN Before(K, n) + 1 ELSE Before(K, n)
           /\ \A m, n \in Nat : m <= n => Before(K, m) <= Before(K, n)
<1>0. \A j \in K : j \in Int /\ 0 <= j /\ j < N
  OBVIOUS
<1>1. IsFiniteSet(K) /\ Cardinality(K) \in Nat
  <2>1. IsFiniteSet(0..(N - 1))
    BY FS_Interval
  <2> QED
    BY <2>1, FS_Subset, FS_CardinalityType
<1>2. ASSUME NEW n \in Nat PROVE IsFiniteSet({j \in K : j < n}) /\ Before(K, n) \in Nat
  <2>1. {j \in K : j < n} \in SUBSET K
    OBVIOUS
  <2>2. IsFiniteSet({j \in K : j < n})
    BY <1>1, <2>1, FS_Subset
  <2> QED
    BY <2>2, FS_CardinalityType DEF Before
<1>3. Before(K, 0) = 0
  <2>1. {j \in K : j < 0} = {}
    <3>1. \A j \in K : ~(j < 0)
      BY <1>0
    <3> QED
      BY <3>1
  <2> QED
    BY <2>1, FS_EmptySet DEF Before
<1>4. Before(K, N) = Cardinality(K)
  <2>1. {j \in K : j < N} = K
    BY <1>0
  <2> QED
    BY <2>1 DEF Before
<1>5. ASSUME NEW n \in Nat
      PROVE  Before(K, n + 1) = IF n \in K THEN Before(K, n) + 1 ELSE Before(K, n)
  <2>1. CASE n \in K
    <3>1. \A j \in K : j < n + 1 <=> j < n \/ j = n
      BY <1>0
    <3>2. {j \in K : j < n + 1} = {j \in K : j < n} \cup {n} /\ n \notin {j \in K : j < n}
      <4>1. {j \in K : j < n + 1} = {j \in K : j < n \/ j = n}
        BY <3>1
      <4>2. {j \in K : j < n \/ j = n} = {j \in K : j < n} \cup {n}
        BY <2>1
      <4>3. ~(n < n)
        OBVIOUS
      <4> QED
        BY <4>1, <4>2, <4>3
    <3> QED
      BY <1>2, <2>1, <3>2, FS_AddElement DEF Before
  <2>2. CASE n \notin K
    <3>1. \A j \in K : j < n + 1 <=> j < n
      BY <1>0, <2>2
    <3>2. {j \in K : j < n + 1} = {j \in K : j < n}
      BY <3>1
    <3> QED
      BY <2>2, <3>2 DEF Before
  <2> QED
    BY <2>1, <2>2
<1>6. ASSUME NEW m \in Nat, NEW n \in Nat, m <= n PROVE Before(K, m) <= Before(K, n)
  <2>1. \A j \in K : j < m => j < n
    BY <1>0, <1>6
  <2>2. {j \in K : j < m} \in SUBSET {j \in K : j < n}
    BY <2>1
  <2> QED
    BY <1>2, <2>2, FS_Subset DEF Before
<1> QED
  BY <1>1, <1>2, <1>3, <1>4, <1>5, <1>6

\* Every number below the size of K is the count at exactly one place of K.
LEMMA CountedOnce ==
    ASSUME NEW N \in Nat, NEW K \in SUBSET (0..(N - 1))
    PROVE  /\ \A i, j \in K : Before(K, i) = Before(K, j) => i = j
           /\ \A i \in 0..(Cardinality(K) - 1) : \E j \in K : Before(K, j) = i
<1>1. /\ Cardinality(K) \in Nat
      /\ \A n \in Nat : Before(K, n) \in Nat
      /\ Before(K, 0) = 0 /\ Before(K, N) = Cardinality(K)
      /\ \A n \in Nat : Before(K, n + 1) = IF n \in K THEN Before(K, n) + 1 ELSE Before(K, n)
      /\ \A m, n \in Nat : m <= n => Before(K, m) <= Before(K, n)
  BY Counting
<1>2. ASSUME NEW i \in K, NEW j \in K, i < j PROVE Before(K, i) < Before(K, j)
  <2>1. i \in Nat /\ j \in Nat /\ i + 1 \in Nat /\ i + 1 <= j
    BY <1>2
  <2>2. Before(K, i + 1) = Before(K, i) + 1 /\ Before(K, i) \in Nat /\ Before(K, j) \in Nat
    BY <1>1, <2>1
  <2>3. Before(K, i + 1) <= Before(K, j)
    BY <1>1, <2>1
  <2> QED
    BY <2>2, <2>3
<1>3. ASSUME NEW i \in K, NEW j \in K, Before(K, i) = Before(K, j) PROVE i = j
  <2>1. i \in Nat /\ j \in Nat
    OBVIOUS
  <2>2. Before(K, i) \in Nat
    BY <1>1, <2>1
  <2>3. ~(i < j) /\ ~(j < i)
    BY <1>2, <1>3, <2>2
  <2> QED
    BY <2>1, <2>3
<1>4. ASSUME NEW i \in 0..(Cardinality(K) - 1) PROVE \E j \in K : Before(K, j) = i
  <2> DEFINE T == {n \in Nat : i < Before(K, n)}
  <2>1. N \in T /\ T \in SUBSET Nat
    BY <1>1
  <2>2. PICK n \in T : \A m \in T : n <= m
    <3> HIDE DEF T
    <3> QED
      BY <2>1, LeastNumber
  <2>3. n \in Nat /\ i < Before(K, n) /\ n # 0
    BY <1>1
  <2>4. n - 1 \in Nat /\ (n - 1) + 1 = n /\ ~(n <= n - 1)
    BY <2>3
  <2>5. ~(i < Before(K, n - 1))
    <3>1. n - 1 \notin T
      <4> HIDE DEF T
      <4> QED
        BY <2>2, <2>4
    <3> QED
      BY <2>4, <3>1
  <2>6. /\ Before(K, n - 1) \in Nat
        /\ Before(K, n) = IF n - 1 \in K THEN Before(K, n - 1) + 1 ELSE Before(K, n - 1)
    BY <1>1, <2>4
  <2>7. n - 1 \in K /\ Before(K, n - 1) = i
    BY <2>3, <2>5, <2>6
  <2> QED
    BY <2>7
<1> QED
  BY <1>3, <1>4

\* The starts of the groups in what is left.
LEMMA ClosedStarts ==
    ASSUME NEW d, IsArray(d), NEW K \in SUBSET (0..(Entries(d) - 1)),
           NEW e, e = Closed(d, K)
    PROVE  /\ e = [count |-> e.count, entry |-> e.entry]
           /\ e.count \in [Group -> Nat]
           /\ \A h \in 0..kGroupCount : Start(e, h) = Before(K, Start(d, h))
           /\ Entries(e) = Cardinality(K)
<1>1. d.count \in [Group -> Nat] /\ Entries(d) \in Nat
  BY ArrayFacts
<1>2. /\ IsFiniteSet(K) /\ Cardinality(K) \in Nat
      /\ \A n \in Nat : IsFiniteSet({j \in K : j < n}) /\ Before(K, n) \in Nat
      /\ Before(K, 0) = 0 /\ Before(K, Entries(d)) = Cardinality(K)
  BY <1>1, Counting
<1>3. /\ e = [count |-> e.count, entry |-> e.entry]
      /\ e.count = [g \in Group |-> Cardinality(K \cap Places(d, g))]
  BY DEF Closed
<1>4. ASSUME NEW g \in Group
      PROVE IsFiniteSet(K \cap Places(d, g)) /\ Cardinality(K \cap Places(d, g)) \in Nat
  <2>1. K \cap Places(d, g) \in SUBSET K
    OBVIOUS
  <2> QED
    BY <1>2, <2>1, FS_Subset, FS_CardinalityType
<1>5. e.count \in [Group -> Nat]
  BY <1>3, <1>4
<1> DEFINE S == {h \in Nat : Start(e, h) = Before(K, Start(d, h))}
<1>6. 0 \in S
  <2>1. Start(d, 0) = 0 /\ Start(e, 0) = 0
    BY <1>1, <1>5, StartFacts
  <2> QED
    BY <1>2, <2>1
<1>7. ASSUME NEW g \in 0..(kGroupCount - 1), g \in S PROVE g + 1 \in S
  <2>1. g \in Group
    BY DEF Group
  <2>2. Start(e, g + 1) = Start(e, g) + e.count[g]
    BY <1>5, <2>1, StartFacts
  <2>3. Start(e, g) = Before(K, Start(d, g))
    BY <1>7
  <2>4. PICK m \in Nat, n \in Nat : m = Start(d, g) /\ n = Start(d, g + 1) /\ m <= n
    <3>1. Start(d, g) \in Nat /\ Start(d, g + 1) \in Nat /\ d.count[g] \in Nat
          /\ Start(d, g + 1) = Start(d, g) + d.count[g]
      BY <1>1, <2>1, Ends
    <3> QED
      BY <3>1
  <2>5. PICK A, B : A = {j \in K : j < m} /\ B = K \cap Places(d, g)
    OBVIOUS
  <2>6. A \cap B = {} /\ A \cup B = {j \in K : j < n}
    <3>1. \A j \in K : j \in Int
      BY <1>1
    <3>2. Places(d, g) = m..(n - 1)
      BY <2>4 DEF Places
    <3>3. \A j \in K : (j \in Places(d, g) <=> m <= j /\ j < n)
      BY <2>4, <3>1, <3>2
    <3>4. \A j \in K : (j < n <=> j < m \/ j \in Places(d, g)) /\ ~(j < m /\ j \in Places(d, g))
      BY <2>4, <3>1, <3>3
    <3> QED
      BY <2>5, <3>4
  <2>7. IsFiniteSet(A) /\ IsFiniteSet(B)
    BY <1>2, <1>4, <2>1, <2>4, <2>5
  <2>8. Cardinality(A \cup B) = Cardinality(A) + Cardinality(B)
    <3>1. Cardinality(A \cup B) = Cardinality(A) + Cardinality(B) - Cardinality(A \cap B)
      BY <2>7, FS_Union
    <3>2. Cardinality(A \cap B) = 0 /\ Cardinality(A) \in Nat /\ Cardinality(B) \in Nat
      BY <2>6, <2>7, FS_EmptySet, FS_CardinalityType
    <3> QED
      BY <3>1, <3>2
  <2>9. Before(K, n) = Before(K, m) + e.count[g]
    BY <1>3, <2>1, <2>5, <2>6, <2>8 DEF Before
  <2> QED
    BY <2>2, <2>3, <2>4, <2>9
<1>8. \A h \in 0..kGroupCount : Start(e, h) = Before(K, Start(d, h))
  <2> HIDE DEF S
  <2>1. \A h \in 0..kGroupCount : h \in S
    BY <1>6, <1>7, UpTo
  <2> QED
    BY <2>1 DEF S
<1>9. Entries(e) = Cardinality(K)
  <2>1. Entries(e) = Before(K, Entries(d))
    BY <1>8 DEF Entries
  <2> QED
    BY <1>2, <2>1
<1> QED
  BY <1>3, <1>5, <1>8, <1>9

\* A collection takes the entries of what is gone, and keeps the others in
\* their groups.
LEMMA ClosedFacts ==
    ASSUME NEW d, IsArray(d), NEW gone, NEW e, e = Closed(d, Kept(d, gone))
    PROVE  /\ IsArray(e)
           /\ \A g \in Group : /\ Members(e, g) = Members(d, g) \ gone
                               /\ \A y : Num(e, g, y) <= Num(d, g, y)
<1>1. /\ d.count \in [Group -> Nat] /\ Room(d) \in Nat /\ Entries(d) \in Nat
      /\ Entries(d) <= Room(d)
      /\ DOMAIN d.entry = 0..(Room(d) - 1)
      /\ d.entry \in [0..(Room(d) - 1) -> Info \cup CodeObject \cup {NULL}]
      /\ \A h \in Group : /\ Places(d, h) \subseteq 0..(Room(d) - 1)
                          /\ Members(d, h) \subseteq Info \cup CodeObject
  BY ArrayFacts
<1>2. PICK K \in SUBSET (0..(Entries(d) - 1)) : K = Kept(d, gone)
  BY DEF Kept
<1>3. e = Closed(d, K)
  BY <1>2
<1>4. /\ Cardinality(K) \in Nat
      /\ \A n \in Nat : Before(K, n) \in Nat
      /\ \A m, n \in Nat : m <= n => Before(K, m) <= Before(K, n)
      /\ \A n \in Nat : Before(K, n + 1) = IF n \in K THEN Before(K, n) + 1 ELSE Before(K, n)
      /\ Before(K, Entries(d)) = Cardinality(K)
  BY <1>1, Counting
<1>5. /\ \A i, j \in K : Before(K, i) = Before(K, j) => i = j
      /\ \A i \in 0..(Cardinality(K) - 1) : \E j \in K : Before(K, j) = i
  <2>1. PICK N \in Nat : N = Entries(d)
    BY <1>1
  <2>2. K \in SUBSET (0..(N - 1))
    BY <2>1
  <2>3. \A i, j \in K : Before(K, i) = Before(K, j) => i = j
    BY <2>2, CountedOnce
  <2>4. \A i \in 0..(Cardinality(K) - 1) : \E j \in K : Before(K, j) = i
    BY <2>2, CountedOnce
  <2> QED
    BY <2>3, <2>4
<1>6. /\ e = [count |-> e.count, entry |-> e.entry]
      /\ e.count \in [Group -> Nat]
      /\ \A h \in 0..kGroupCount : Start(e, h) = Before(K, Start(d, h))
      /\ Entries(e) = Cardinality(K)
  BY <1>3, ClosedStarts
<1>7. e.entry = [i \in 0..(Room(d) - 1) |->
                    IF i < Cardinality(K) THEN d.entry[CHOOSE j \in K : Before(K, j) = i]
                    ELSE NULL]
  <2>1. e.entry = [i \in DOMAIN d.entry |->
                      IF i < Cardinality(K) THEN d.entry[CHOOSE j \in K : Before(K, j) = i]
                      ELSE NULL]
    BY <1>3 DEF Closed
  <2>2. DOMAIN d.entry = 0..(Room(d) - 1)
    BY <1>1
  <2> QED
    BY <2>1, <2>2
<1>8. Cardinality(K) <= Entries(d)
  <2>1. PICK N \in Nat : N = Entries(d)
    BY <1>1
  <2>2. Cardinality(0..(N - 1)) = N /\ IsFiniteSet(0..(N - 1))
    BY FS_Interval
  <2>3. K \in SUBSET (0..(N - 1))
    BY <2>1
  <2> QED
    <3>1. PICK R : R = 0..(N - 1)
      OBVIOUS
    <3>2. K \in SUBSET R /\ IsFiniteSet(R) /\ Cardinality(R) = N
      BY <2>2, <2>3, <3>1
    <3>3. Cardinality(K) <= Cardinality(R)
      BY <3>2, FS_Subset
    <3> QED
      BY <2>1, <3>2, <3>3
<1>9. ASSUME NEW g \in Group
      PROVE  /\ Members(e, g) = Members(d, g) \ gone
             /\ \A y : Num(e, g, y) <= Num(d, g, y)
  <2>1. PICK m \in Nat, n \in Nat : m = Start(d, g) /\ n = Start(d, g + 1) /\ n <= Entries(d)
    BY <1>1, Ends
  <2>2. Places(d, g) = m..(n - 1)
    BY <2>1 DEF Places
  <2>3. Places(e, g) = Before(K, m)..(Before(K, n) - 1)
    <3>1. g \in 0..kGroupCount /\ g + 1 \in 0..kGroupCount
      BY DEF Group
    <3> QED
      BY <1>6, <2>1, <3>1 DEF Places
  <2>4. Before(K, m) \in Nat /\ Before(K, n) \in Nat /\ Before(K, n) <= Cardinality(K)
    BY <1>1, <1>4, <2>1
  <2>5. PICK S : S = K \cap Places(d, g)
    OBVIOUS
  <2>6. PICK f : f = [i \in Places(e, g) |-> CHOOSE j \in K : Before(K, j) = i]
    OBVIOUS
  <2>7. ASSUME NEW i \in Places(e, g)
        PROVE  /\ i \in 0..(Cardinality(K) - 1)
               /\ f[i] \in K /\ Before(K, f[i]) = i
    <3>1. i \in 0..(Cardinality(K) - 1)
      <4>1. Cardinality(K) \in Nat
        BY <1>4
      <4> QED
        BY <2>3, <2>4, <4>1
    <3>2. \E j \in K : Before(K, j) = i
      BY <1>5, <3>1
    <3> QED
      BY <2>6, <3>1, <3>2
  <2>8. ASSUME NEW j \in K PROVE Before(K, j) \in Places(e, g) <=> j \in Places(d, g)
    <3>1. /\ j \in Nat /\ j + 1 \in Nat /\ Before(K, j) \in Nat
          /\ Before(K, j + 1) = Before(K, j) + 1
      BY <1>1, <1>4
    <3>2. CASE j < m
      <4>1. j + 1 <= m
        BY <2>1, <3>1, <3>2
      <4>2. Before(K, j + 1) <= Before(K, m)
        BY <1>4, <2>1, <3>1, <4>1
      <4> QED
        BY <2>1, <2>2, <2>3, <2>4, <3>1, <3>2, <4>2
    <3>3. CASE n <= j
      <4>1. Before(K, n) <= Before(K, j)
        BY <1>4, <2>1, <3>1, <3>3
      <4> QED
        BY <2>1, <2>2, <2>3, <2>4, <3>1, <3>3, <4>1
    <3>4. CASE m <= j /\ j < n
      <4>1. j + 1 <= n
        BY <2>1, <3>1, <3>4
      <4>2. Before(K, m) <= Before(K, j) /\ Before(K, j + 1) <= Before(K, n)
        BY <1>4, <2>1, <3>1, <3>4, <4>1
      <4> QED
        BY <2>1, <2>2, <2>3, <2>4, <3>1, <3>4, <4>2
    <3> QED
      BY <2>1, <3>1, <3>2, <3>3, <3>4
  <2>9. ASSUME NEW i \in Places(e, g) PROVE e.entry[i] = d.entry[f[i]]
    <3>1. i \in 0..(Room(d) - 1) /\ i < Cardinality(K)
      <4>1. Cardinality(K) \in Nat /\ Entries(d) \in Nat /\ Room(d) \in Nat
            /\ Entries(d) <= Room(d)
        BY <1>1, <1>4
      <4> QED
        BY <1>8, <2>7, <4>1
    <3> QED
      BY <1>7, <2>6, <3>1
  <2>10. DrawnFrom(d, e, g, S, f)
    <3>1. S \subseteq Places(d, g)
      BY <2>5
    <3>2. \A i \in Places(e, g) : f[i] \in S
      BY <2>5, <2>7, <2>8
    <3>3. f \in [Places(e, g) -> S]
      BY <2>6, <3>2
    <3>4. \A i, j \in Places(e, g) : f[i] = f[j] => i = j
      BY <2>7
    <3> QED
      BY <2>9, <3>1, <3>3, <3>4 DEF DrawnFrom
  <2>11. Onto(e, g, S, f)
    <3>1. ASSUME NEW j \in S PROVE \E i \in Places(e, g) : f[i] = j
      <4>1. j \in K /\ Before(K, j) \in Places(e, g)
        BY <2>5, <2>8
      <4>2. f[Before(K, j)] = j
        BY <1>5, <2>7, <4>1
      <4> QED
        BY <4>1, <4>2
    <3> QED
      BY <3>1 DEF Onto
  <2>12. /\ \A y : Num(e, g, y) <= Cardinality(Among(d, S, y))
         /\ Members(e, g) = Entry(d, S)
    BY <1>1, <2>10, <2>11, Drawn
  <2>13. S = {i \in Places(d, g) : d.entry[i] \notin gone}
    <3>1. Places(d, g) \subseteq 0..(Entries(d) - 1)
      BY <1>1, PlacesApart
    <3> QED
      BY <1>2, <2>5, <3>1 DEF Kept
  <2>14. Members(e, g) = Members(d, g) \ gone
    BY <2>12, <2>13 DEF Entry, Members
  <2>15. ASSUME NEW y PROVE Num(e, g, y) <= Num(d, g, y)
    <3>1. Among(d, S, y) \in SUBSET PlacesOf(d, g, y)
      BY <2>5 DEF Among, PlacesOf
    <3>2. IsFiniteSet(PlacesOf(d, g, y)) /\ Num(d, g, y) \in Nat
      BY <1>1, PlacesFinite
    <3>3. Cardinality(Among(d, S, y)) <= Num(d, g, y) /\ Cardinality(Among(d, S, y)) \in Nat
      BY <3>1, <3>2, FS_Subset, FS_CardinalityType DEF Num
    <3>4. Num(e, g, y) \in Nat /\ Num(e, g, y) <= Cardinality(Among(d, S, y))
      BY <1>6, <2>12, PlacesFinite
    <3> QED
      BY <3>2, <3>3, <3>4
  <2> QED
    BY <2>14, <2>15
<1>10. IsArray(e)
  <2>1. \A g \in Group : Members(e, g) \subseteq Info \cup CodeObject
    BY <1>1, <1>9
  <2>2. \A i \in 0..(Room(d) - 1) : Entries(e) <= i => e.entry[i] = NULL
    BY <1>4, <1>6, <1>7
  <2>3. e.entry \in [0..(Room(d) - 1) -> Info \cup CodeObject \cup {NULL}]
    <3>1. ASSUME NEW i \in 0..(Room(d) - 1), i < Cardinality(K)
          PROVE  (CHOOSE j \in K : Before(K, j) = i) \in 0..(Room(d) - 1)
      <4>1. i \in 0..(Cardinality(K) - 1)
        BY <1>4, <3>1
      <4>2. (CHOOSE j \in K : Before(K, j) = i) \in K
        BY <1>5, <4>1
      <4>3. K \subseteq 0..(Room(d) - 1)
        BY <1>1
      <4> QED
        BY <4>2, <4>3
    <3> QED
      BY <1>1, <1>7, <3>1
  <2>4. Entries(e) <= Room(d) /\ Room(d) \in Nat
    BY <1>1, <1>4, <1>6, <1>8
  <2> QED
    BY <1>6, <2>1, <2>2, <2>3, <2>4, ArrayOfGroups
<1> QED
  BY <1>9, <1>10

\* The array without entries.
LEMMA EmptyArray ==
    ASSUME NEW e, e = [count |-> NoUses, entry |-> Undefined]
    PROVE  /\ IsArray(e)
           /\ \A g \in Group : Members(e, g) = {} /\ \A y : Num(e, g, y) = 0
<1>1. e.count = NoUses /\ e.entry = Undefined /\ e.count \in [Group -> Nat]
  BY DEF NoUses
<1>2. DOMAIN e.entry = {} /\ Room(e) = 0
  BY <1>1, FS_EmptySet DEF Undefined, Room
<1>3. \A g \in Group : Start(e, g + 1) = Start(e, g) + 0
  BY <1>1, StartFacts DEF NoUses
<1> DEFINE S == {k \in Nat : Start(e, k) = 0}
<1>4. 0 \in S
  BY <1>1, StartFacts
<1>5. \A k \in 0..(kGroupCount - 1) : k \in S => k + 1 \in S
  BY <1>3 DEF Group
<1>6. \A k \in 0..kGroupCount : Start(e, k) = 0
  <2> HIDE DEF S
  <2>1. \A k \in 0..kGroupCount : k \in S
    BY <1>4, <1>5, UpTo
  <2> QED
    BY <2>1 DEF S
<1>7. Entries(e) = 0
  BY <1>6 DEF Entries
<1>8. ASSUME NEW g \in Group PROVE Places(e, g) = {}
  <2>1. g \in 0..kGroupCount /\ g + 1 \in 0..kGroupCount
    BY DEF Group
  <2> QED
    BY <1>6, <2>1 DEF Places
<1>9. \A g \in Group : Members(e, g) = {} /\ \A y : Num(e, g, y) = 0
  BY <1>8, FS_EmptySet DEF Members, Num, PlacesOf
<1>10. IsArray(e)
  <2>1. 0..(Room(e) - 1) = {}
    BY <1>2
  <2>2. e.entry \in [0..(Room(e) - 1) -> Info \cup CodeObject \cup {NULL}]
    BY <1>1, <2>1 DEF Undefined
  <2> QED
    BY <1>1, <1>2, <1>7, <2>1, <2>2 DEF IsArray
<1> QED
  BY <1>9, <1>10

-------------------------------------------------------------------------------
(* The invariant *)

\* The inductive invariant holds at the start.
LEMMA DependentInitInv == DependentInit => DependentInv
<1> SUFFICES ASSUME DependentInit PROVE DependentInv
  OBVIOUS
<1>1. /\ IsArray(dep)
      /\ \A g \in Group : Members(dep, g) = {} /\ \A y : Num(dep, g, y) = 0
  BY EmptyArray DEF DependentInit
<1>2. DependentTypes
  BY DEF DependentInit, DependentTypes, NoUses
<1>3. InHand
  BY DEF DependentInit, InHand
<1>4. Undone
  BY <1>1 DEF DependentInit, Undone, NoUses, Num
<1>5. CodeThere
  BY <1>1 DEF CodeThere
<1>6. NobodyForgotten
  BY DEF DependentInit, NobodyForgotten, NoUses
<1> QED
  BY <1>1, <1>2, <1>3, <1>4, <1>5, <1>6 DEF DependentInv

\* e is d with an entry of x added to group g, if it was not there.
Inserted(d, e, g, x) ==
    /\ IsArray(e)
    /\ \A h \in Group \ {g} : SameGroup(d, e, h)
    /\ Members(e, g) = Members(d, g) \cup {x}
    /\ \A y : Num(e, g, y) <= IF y = x THEN Num(d, g, y) + 1 ELSE Num(d, g, y)

\* Insert finds its argument at the end of the group, or puts it there, in the
\* array or in a longer copy of it.
LEMMA InsertedFacts ==
    ASSUME NEW d, IsArray(d), NEW g \in Group, NEW x \in Info \cup CodeObject
    PROVE  /\ x \in Members(d, g) => Inserted(d, d, g, x)
           /\ ~IsFull(d) => Inserted(d, Put(d, g, x), g, x)
           /\ Inserted(d, Put(Grown(d), g, x), g, x)
<1>1. Entries(d) \in Nat /\ Room(d) \in Nat /\ Entries(d) <= Room(d)
  BY ArrayFacts
<1>2. \A h \in Group : \A y : Num(d, h, y) \in Nat
  BY ArrayFacts, PlacesFinite
<1>3. ASSUME x \in Members(d, g) PROVE Inserted(d, d, g, x)
  <2>1. \A h \in Group : \A y : Num(d, h, y) <= Num(d, h, y) /\ Num(d, h, y) <= Num(d, h, y) + 1
    BY <1>2
  <2> QED
    BY <1>3, <2>1 DEF Inserted, SameGroup
<1>4. ASSUME ~IsFull(d) PROVE Inserted(d, Put(d, g, x), g, x)
  <2>1. Entries(d) < Room(d)
    BY <1>1, <1>4 DEF IsFull, Room
  <2> QED
    BY <2>1, PutFacts DEF Inserted
<1>5. Inserted(d, Put(Grown(d), g, x), g, x)
  <2>1. PICK c : c = Grown(d)
    OBVIOUS
  <2>2. PICK e : e = Put(c, g, x)
    OBVIOUS
  <2>3. IsArray(c) /\ Entries(c) < Room(c) /\ \A h \in Group : SameGroup(d, c, h)
    BY <2>1, GrownFacts
  <2>4. /\ IsArray(e)
        /\ \A h \in Group \ {g} : SameGroup(c, e, h)
        /\ Members(e, g) = Members(c, g) \cup {x}
        /\ \A y : Num(e, g, y) <= IF y = x THEN Num(c, g, y) + 1 ELSE Num(c, g, y)
    BY <2>2, <2>3, PutFacts
  <2>5. \A h \in Group : \A y : Num(c, h, y) \in Nat /\ Num(e, h, y) \in Nat
    BY <2>3, <2>4, ArrayFacts, PlacesFinite
  <2>6. ASSUME NEW h \in Group \ {g} PROVE SameGroup(d, e, h)
    <3>1. SameGroup(d, c, h) /\ SameGroup(c, e, h)
      BY <2>3, <2>4
    <3>2. ASSUME NEW y PROVE Num(e, h, y) <= Num(d, h, y)
      <4>1. Num(e, h, y) <= Num(c, h, y) /\ Num(c, h, y) <= Num(d, h, y)
        BY <3>1 DEF SameGroup
      <4> QED
        BY <1>2, <2>5, <4>1
    <3> QED
      BY <3>1, <3>2 DEF SameGroup
  <2>7. Members(e, g) = Members(d, g) \cup {x}
    BY <2>3, <2>4 DEF SameGroup
  <2>8. ASSUME NEW y
        PROVE  Num(e, g, y) <= IF y = x THEN Num(d, g, y) + 1 ELSE Num(d, g, y)
    <3>1. Num(c, g, y) <= Num(d, g, y)
      BY <2>3 DEF SameGroup
    <3>2. Num(e, g, y) <= IF y = x THEN Num(c, g, y) + 1 ELSE Num(c, g, y)
      BY <2>4
    <3> QED
      BY <1>2, <2>5, <3>1, <3>2
  <2> QED
    BY <2>1, <2>2, <2>4, <2>6, <2>7, <2>8 DEF Inserted
<1> QED
  BY <1>3, <1>4, <1>5

\* Where an object may register: a compilation that builds its graph, and code
\* that is being made.
MayRegister(x) ==
    \/ x = current /\ current \in Info /\ info[current] = "graph"
    \/ x \in CodeObject /\ codes[x] = "new"

\* A registration that is complete keeps the invariant.
LEMMA RegisteredStep ==
    ASSUME DependentInv, NEW g \in Group, NEW x \in Info \cup CodeObject, MayRegister(x),
           Inserted(dep, dep', g, x), Noted(g, x), insert' = NULL,
           UNCHANGED <<info, aborted, codes, markedCode, current>>
    PROVE  DependentInv'
<1>1. IsArray(dep) /\ DependentTypes /\ InHand /\ Undone /\ CodeThere /\ NobodyForgotten
  BY DEF DependentInv
<1>2. /\ IsArray(dep')
      /\ \A h \in Group \ {g} : /\ Members(dep', h) = Members(dep, h)
                                /\ \A y : Num(dep', h, y) <= Num(dep, h, y)
      /\ Members(dep', g) = Members(dep, g) \cup {x}
      /\ \A y : Num(dep', g, y) <= IF y = x THEN Num(dep, g, y) + 1 ELSE Num(dep, g, y)
  BY DEF Inserted, SameGroup
<1>3. \A h \in Group : \A y : Num(dep, h, y) \in Nat /\ Num(dep', h, y) \in Nat
  BY <1>1, <1>2, ArrayFacts, PlacesFinite
<1>4. /\ uses \in [Info -> [Group -> Nat]] /\ assumes \in [CodeObject -> SUBSET Group]
      /\ current \in Info \cup {NULL}
  BY <1>1 DEF DependentTypes
<1>5. CASE x \in Info
  <2>1. /\ uses' = [uses EXCEPT ![x][g] = @ + 1] /\ assumes' = assumes
    BY <1>5 DEF Noted
  <2>2. x = current /\ info[x] = "graph" /\ x \notin CodeObject
    BY <1>5 DEF MayRegister
  <2>3. /\ uses' \in [Info -> [Group -> Nat]]
        /\ \A a \in Info, h \in Group :
              uses'[a][h] = IF a = x /\ h = g THEN uses[a][h] + 1 ELSE uses[a][h]
        /\ \A a \in Info \ {x} : uses'[a] = uses[a]
    BY <1>4, <1>5, <2>1
  <2>4. DependentTypes'
    BY <1>1, <2>1, <2>3 DEF DependentTypes
  <2>5. InHand'
    <3>1. \A a \in Info : info[a] = "none" => a # x
      BY <2>2
    <3> QED
      BY <1>1, <2>1, <2>3, <3>1 DEF InHand
  <2>6. Undone'
    <3>1. ASSUME NEW h \in Group, NEW a \in Info PROVE Num(dep', h, a) <= uses'[a][h]
      <4>1. Num(dep, h, a) <= uses[a][h] /\ uses[a][h] \in Nat
        BY <1>1, <1>4 DEF Undone, Num
      <4>2. Num(dep', h, a) <= IF a = x /\ h = g THEN Num(dep, h, a) + 1 ELSE Num(dep, h, a)
        BY <1>2
      <4> QED
        BY <1>3, <2>3, <4>1, <4>2
    <3> QED
      BY <3>1 DEF Undone, Num
  <2>7. CodeThere'
    <3>1. \A h \in Group, c \in CodeObject : c \in Members(dep', h) => c \in Members(dep, h)
      BY <1>2, <2>2
    <3> QED
      BY <1>1, <3>1 DEF CodeThere
  <2>8. NobodyForgotten'
    <3>1. ASSUME NEW a \in Info, NEW h \in Group, uses'[a][h] > 0, ~aborted[a]
          PROVE  a \in Members(dep', h)
      <4>1. CASE a = x /\ h = g
        BY <1>2, <4>1
      <4>2. CASE ~(a = x /\ h = g)
        <5>1. uses[a][h] > 0
          BY <2>3, <3>1, <4>2
        <5>2. a \in Members(dep, h)
          BY <1>1, <3>1, <5>1 DEF NobodyForgotten
        <5> QED
          BY <1>2, <5>2
      <4> QED
        BY <4>1, <4>2
    <3>2. ASSUME NEW c \in CodeObject, NEW h \in Group, h \in assumes[c], ~markedCode[c]
          PROVE  c \in Members(dep', h)
      BY <1>1, <1>2, <3>2 DEF NobodyForgotten
    <3> QED
      BY <2>1, <3>1, <3>2 DEF NobodyForgotten
  <2> QED
    BY <1>2, <2>4, <2>5, <2>6, <2>7, <2>8 DEF DependentInv
<1>6. CASE x \notin Info
  <2>1. /\ assumes' = [assumes EXCEPT ![x] = @ \cup {g}] /\ uses' = uses
    BY <1>6 DEF Noted
  <2>2. x \in CodeObject /\ codes[x] = "new"
    BY <1>6 DEF MayRegister
  <2>3. /\ assumes' \in [CodeObject -> SUBSET Group]
        /\ \A c \in CodeObject : assumes'[c] = IF c = x THEN assumes[c] \cup {g} ELSE assumes[c]
    BY <1>4, <2>1, <2>2
  <2>4. DependentTypes'
    BY <1>1, <2>1, <2>3 DEF DependentTypes
  <2>5. InHand'
    BY <1>1, <2>1 DEF InHand
  <2>6. Undone'
    <3>1. ASSUME NEW h \in Group, NEW a \in Info PROVE Num(dep', h, a) <= uses[a][h]
      <4>1. Num(dep, h, a) <= uses[a][h] /\ uses[a][h] \in Nat
        BY <1>1, <1>4 DEF Undone, Num
      <4>2. Num(dep', h, a) <= Num(dep, h, a)
        BY <1>2, <1>6
      <4> QED
        BY <1>3, <4>1, <4>2
    <3> QED
      BY <2>1, <3>1 DEF Undone, Num
  <2>7. CodeThere'
    <3>1. ASSUME NEW h \in Group, NEW c \in CodeObject, c \in Members(dep', h)
          PROVE  codes[c] # "none"
      <4>1. c = x \/ c \in Members(dep, h)
        BY <1>2, <3>1
      <4> QED
        BY <1>1, <2>2, <4>1 DEF CodeThere
    <3> QED
      BY <3>1 DEF CodeThere
  <2>8. NobodyForgotten'
    <3>1. ASSUME NEW a \in Info, NEW h \in Group, uses[a][h] > 0, ~aborted[a]
          PROVE  a \in Members(dep', h)
      BY <1>1, <1>2, <3>1 DEF NobodyForgotten
    <3>2. ASSUME NEW c \in CodeObject, NEW h \in Group, h \in assumes'[c], ~markedCode[c]
          PROVE  c \in Members(dep', h)
      <4>1. CASE c = x /\ h = g
        BY <1>2, <4>1
      <4>2. CASE ~(c = x /\ h = g)
        <5>1. h \in assumes[c]
          BY <2>3, <3>2, <4>2
        <5>2. c \in Members(dep, h)
          BY <1>1, <3>2, <5>1 DEF NobodyForgotten
        <5> QED
          BY <1>2, <5>2
      <4> QED
        BY <4>1, <4>2
    <3> QED
      BY <2>1, <3>1, <3>2 DEF NobodyForgotten
  <2> QED
    BY <1>2, <2>4, <2>5, <2>6, <2>7, <2>8 DEF DependentInv
<1> QED
  BY <1>5, <1>6

\* Insert, as far as it comes.
LEMMA InsertStep ==
    ASSUME DependentInv, NEW g \in Group, NEW x \in Info \cup CodeObject, MayRegister(x),
           Insert(g, x)
    PROVE  /\ DependentInv'
           /\ \/ Inserted(dep, dep', g, x) /\ Noted(g, x)
              \/ UNCHANGED <<dep, uses, assumes>>
           /\ UNCHANGED <<info, aborted, codes, markedCode, current>>
<1>1. IsArray(dep) /\ insert = NULL
  BY DEF DependentInv, Insert
<1>2. UNCHANGED <<info, aborted, codes, markedCode, current>>
  BY DEF Insert
<1>3. ASSUME Inserted(dep, dep', g, x), Noted(g, x), insert' = insert
      PROVE  DependentInv'
  BY <1>1, <1>2, <1>3, RegisteredStep
<1>4. CASE IsLast(g, x) /\ Noted(g, x) /\ UNCHANGED <<dep, insert>>
  <2>1. dep.count[g] > 0 /\ dep.entry[Start(dep, g + 1) - 1] = x
    BY <1>4 DEF IsLast
  <2>2. /\ Start(dep, g) \in Nat /\ Start(dep, g + 1) = Start(dep, g) + dep.count[g]
        /\ dep.count[g] \in Nat
    BY <1>1, ArrayFacts, Ends
  <2>3. Start(dep, g + 1) - 1 \in Places(dep, g)
    BY <2>1, <2>2 DEF Places
  <2>4. x \in Members(dep, g)
    BY <2>1, <2>3 DEF Members
  <2>5. Inserted(dep, dep, g, x)
    BY <1>1, <2>4, InsertedFacts
  <2> QED
    BY <1>2, <1>3, <1>4, <2>5
<1>5. CASE ~IsFull(dep) /\ dep' = Put(dep, g, x) /\ Noted(g, x) /\ UNCHANGED insert
  <2>1. Inserted(dep, Put(dep, g, x), g, x)
    BY <1>1, <1>5, InsertedFacts
  <2> QED
    BY <1>2, <1>3, <1>5, <2>1
<1>6. CASE insert' = [group |-> g, object |-> x] /\ UNCHANGED <<dep, uses, assumes>>
  <2>1. UNCHANGED <<dep, uses, assumes, info, aborted, codes, markedCode, current>>
    BY <1>2, <1>6
  <2>2. IsArray(dep)' /\ Undone' /\ CodeThere' /\ NobodyForgotten'
    BY <2>1 DEF DependentInv, Undone, CodeThere, NobodyForgotten
  <2>3. DependentTypes'
    BY <1>6, <2>1 DEF DependentInv, DependentTypes
  <2>4. InHand'
    <3>1. insert'.object = x
      BY <1>6
    <3> QED
      BY <2>1, <3>1 DEF DependentInv, InHand, MayRegister
  <2> QED
    BY <2>1, <2>2, <2>3, <2>4 DEF DependentInv
<1> QED
  BY <1>4, <1>5, <1>6 DEF Insert

\* The rest of an insertion into a longer array.
LEMMA InsertIntoCopyStep ==
    ASSUME DependentInv, InsertIntoCopy
    PROVE  /\ DependentInv'
           /\ \E g \in Group, x \in Info \cup CodeObject :
                 MayRegister(x) /\ Inserted(dep, dep', g, x) /\ Noted(g, x)
           /\ UNCHANGED <<info, aborted, codes, markedCode, current>>
<1>1. /\ IsArray(dep) /\ insert \in [group : Group, object : Info \cup CodeObject]
      /\ insert # NULL
  BY DEF DependentInv, DependentTypes, InsertIntoCopy
<1>2. PICK g \in Group, x \in Info \cup CodeObject : g = insert.group /\ x = insert.object
  BY <1>1
<1>3. MayRegister(x)
  BY <1>1, <1>2 DEF DependentInv, InHand, MayRegister
<1>4. Inserted(dep, dep', g, x)
  <2>1. Inserted(dep, Put(Grown(dep), g, x), g, x)
    BY <1>1, InsertedFacts
  <2> QED
    BY <1>2, <2>1 DEF InsertIntoCopy
<1>5. Noted(g, x) /\ insert' = NULL /\ UNCHANGED <<info, aborted, codes, markedCode, current>>
  BY <1>2 DEF InsertIntoCopy
<1> QED
  BY <1>3, <1>4, <1>5, RegisteredStep

\* The facts of the invariant, for the steps of a compilation.
LEMMA InHandFacts ==
    ASSUME DependentInv
    PROVE  /\ current = NULL => insert = NULL /\ \A c \in CodeObject : codes[c] # "new"
           /\ \A a \in Info : info[a] = "queued" => a # current
           /\ current \in Info /\ info[current] = "graph" =>
                 \A c \in CodeObject : codes[c] # "new"
<1>1. InHand /\ DependentTypes
  BY DEF DependentInv
<1>2. \A c \in CodeObject : codes[c] = "new" => current \in Info /\ info[current] = "codegen"
  BY <1>1 DEF InHand
<1>3. current = NULL => \A c \in CodeObject : codes[c] # "new"
  BY <1>2
<1>4. current = NULL => insert = NULL
  BY <1>1, <1>3 DEF InHand
<1>5. \A a \in Info : info[a] = "queued" => a # current
  BY <1>1 DEF InHand
<1> QED
  BY <1>2, <1>3, <1>4, <1>5

\* A compilation starts.
LEMMA StartGraphStep ==
    ASSUME DependentInv, NEW a \in Info, StartGraph(a)
    PROVE  DependentInv' /\ UNCHANGED <<dep, aborted, markedCode>>
<1>1. UNCHANGED <<dep, aborted, uses, codes, markedCode, assumes, insert>>
  BY DEF StartGraph, codeVars
<1>2. IsArray(dep)' /\ Undone' /\ CodeThere' /\ NobodyForgotten'
  BY <1>1 DEF DependentInv, Undone, CodeThere, NobodyForgotten
<1>3. /\ current = NULL /\ info[a] = "none" /\ current' = a
      /\ info' = [info EXCEPT ![a] = "graph"]
      /\ info \in [Info -> {"none", "graph", "queued", "codegen"}]
  BY DEF StartGraph, DependentInv, DependentTypes
<1>4. DependentTypes'
  BY <1>1, <1>3 DEF DependentInv, DependentTypes
<1>5. InHand'
  <2>1. insert = NULL /\ \A c \in CodeObject : codes[c] # "new"
    BY <1>3, InHandFacts
  <2>2. \A b \in Info : info[b] \notin {"graph", "codegen"}
    BY <1>3 DEF DependentInv, InHand
  <2>3. \A b \in Info : info'[b] = IF b = a THEN "graph" ELSE info[b]
    BY <1>3
  <2> QED
    BY <1>1, <1>3, <2>1, <2>2, <2>3 DEF DependentInv, InHand
<1> QED
  BY <1>1, <1>2, <1>4, <1>5 DEF DependentInv

\* The graph is finished.
LEMMA GraphCreatedStep ==
    ASSUME DependentInv, GraphCreated
    PROVE  DependentInv' /\ UNCHANGED <<dep, aborted, markedCode>>
<1>1. UNCHANGED <<dep, aborted, uses, codes, markedCode, assumes, insert>>
  BY DEF GraphCreated, codeVars
<1>2. IsArray(dep)' /\ Undone' /\ CodeThere' /\ NobodyForgotten'
  BY <1>1 DEF DependentInv, Undone, CodeThere, NobodyForgotten
<1>3. /\ current \in Info /\ info[current] = "graph" /\ insert = NULL /\ current' = NULL
      /\ info' = [info EXCEPT ![current] = "queued"]
      /\ info \in [Info -> {"none", "graph", "queued", "codegen"}]
  BY DEF GraphCreated, DependentInv, DependentTypes
<1>4. DependentTypes'
  BY <1>1, <1>3 DEF DependentInv, DependentTypes
<1>5. InHand'
  <2>1. \A c \in CodeObject : codes[c] # "new"
    BY <1>3, InHandFacts
  <2>2. \A b \in Info : info'[b] = IF b = current THEN "queued" ELSE info[b]
    BY <1>3
  <2>3. \A b \in Info : b # current => info[b] \notin {"graph", "codegen"}
    BY DEF DependentInv, InHand
  <2>4. \A b \in Info : b # NULL
    OBVIOUS
  <2> QED
    BY <1>1, <1>3, <2>1, <2>2, <2>3, <2>4 DEF DependentInv, InHand
<1> QED
  BY <1>1, <1>2, <1>4, <1>5 DEF DependentInv

\* A compilation is given up, and all its entries are removed.
LEMMA DisposeStep ==
    ASSUME DependentInv, NEW a \in Info, Dispose(a)
    PROVE  /\ DependentInv'
           /\ \A g \in Group : Members(dep', g) = Members(dep, g) \ {a}
           /\ aborted' = [aborted EXCEPT ![a] = FALSE] /\ UNCHANGED markedCode
<1>1. /\ UNCHANGED <<codes, markedCode, assumes, insert>>
      /\ dep' = Rollback(dep, a)
      /\ uses' = [uses EXCEPT ![a] = NoUses]
      /\ info' = [info EXCEPT ![a] = "none"]
      /\ aborted' = [aborted EXCEPT ![a] = FALSE]
      /\ current' = IF current = a THEN NULL ELSE current
      /\ info[a] = "queued" \/ (info[a] = "graph" /\ insert = NULL)
  <2>1. UNCHANGED <<codes, markedCode, assumes, insert>>
    BY DEF Dispose, codeVars
  <2>2. info[a] = "queued" \/ (info[a] = "graph" /\ insert = NULL)
    BY DEF Dispose
  <2> QED
    BY <2>1, <2>2 DEF Dispose
<1>2. IsArray(dep) /\ DependentTypes /\ InHand /\ Undone /\ CodeThere /\ NobodyForgotten
  BY DEF DependentInv
<1>3. /\ info \in [Info -> {"none", "graph", "queued", "codegen"}]
      /\ aborted \in [Info -> BOOLEAN]
      /\ uses \in [Info -> [Group -> Nat]]
      /\ current \in Info \cup {NULL}
      /\ NoUses \in [Group -> Nat]
  BY <1>2 DEF DependentTypes, NoUses
<1>4. /\ IsArray(dep')
      /\ \A g \in Group : /\ Members(dep', g) = Members(dep, g) \ {a}
                          /\ \A y : Num(dep', g, y) <= Num(dep, g, y)
                          /\ Num(dep', g, a) = 0
  <2>1. uses[a] \in [Group -> Nat] /\ \A g \in Group : Num(dep, g, a) <= uses[a][g]
    BY <1>2, <1>3 DEF Undone, Num
  <2> QED
    BY <1>1, <1>2, <2>1, RollbackFacts
<1>5. \A b \in Info : /\ uses'[b] = IF b = a THEN NoUses ELSE uses[b]
                      /\ info'[b] = IF b = a THEN "none" ELSE info[b]
                      /\ aborted'[b] = IF b = a THEN FALSE ELSE aborted[b]
  BY <1>1, <1>3
<1>6. DependentTypes'
  <2>1. /\ info' \in [Info -> {"none", "graph", "queued", "codegen"}]
        /\ aborted' \in [Info -> BOOLEAN]
        /\ uses' \in [Info -> [Group -> Nat]]
        /\ current' \in Info \cup {NULL}
    BY <1>1, <1>3
  <2> QED
    BY <1>1, <1>2, <2>1 DEF DependentTypes
<1>7. InHand'
  <2>1. CASE info[a] = "queued"
    <3>1. a # current
      BY <2>1, InHandFacts
    <3>2. current' = current
      BY <1>1, <3>1
    <3>3. \A b \in Info : info'[b] \in {"graph", "codegen"} <=> b = current'
      BY <1>2, <1>5, <3>1, <3>2 DEF InHand
    <3>4. \A b \in Info : info'[b] = "codegen" => ~aborted'[b]
      BY <1>2, <1>5 DEF InHand
    <3>5. \A b \in Info : info'[b] = "none" => uses'[b] = NoUses /\ ~aborted'[b]
      BY <1>2, <1>5 DEF InHand
    <3>6. current \in Info => info'[current] = info[current]
      BY <1>5, <3>1
    <3> QED
      BY <1>1, <1>2, <3>2, <3>3, <3>4, <3>5, <3>6 DEF InHand
  <2>2. CASE info[a] = "graph" /\ insert = NULL
    <3>1. a = current /\ current' = NULL
      BY <1>1, <1>2, <2>2 DEF InHand
    <3>2. \A c \in CodeObject : codes[c] # "new"
      BY <2>2, <3>1, InHandFacts
    <3>3. \A b \in Info : b # a => info[b] \notin {"graph", "codegen"}
      BY <1>2, <3>1 DEF InHand
    <3>4. \A b \in Info : b # NULL
      OBVIOUS
    <3>5. \A b \in Info : info'[b] \in {"graph", "codegen"} <=> b = current'
      BY <1>5, <3>1, <3>3, <3>4
    <3>6. \A b \in Info : info'[b] = "codegen" => ~aborted'[b]
      BY <1>2, <1>5 DEF InHand
    <3>7. \A b \in Info : info'[b] = "none" => uses'[b] = NoUses /\ ~aborted'[b]
      BY <1>2, <1>5 DEF InHand
    <3> QED
      BY <1>1, <2>2, <3>2, <3>5, <3>6, <3>7 DEF InHand
  <2> QED
    BY <1>1, <2>1, <2>2
<1>8. Undone'
  <2>1. \A g \in Group, b \in Info : Num(dep, g, b) \in Nat /\ Num(dep', g, b) \in Nat
    BY <1>2, <1>4, ArrayFacts, PlacesFinite
  <2>2. ASSUME NEW g \in Group, NEW b \in Info PROVE Num(dep', g, b) <= uses'[b][g]
    <3>1. CASE b = a
      <4>1. uses'[b][g] = 0
        BY <1>5, <3>1 DEF NoUses
      <4>2. Num(dep', g, b) = 0
        BY <1>4, <3>1
      <4> QED
        BY <4>1, <4>2
    <3>2. CASE b # a
      <4>1. Num(dep, g, b) <= uses[b][g] /\ uses[b][g] \in Nat
        BY <1>2, <1>3 DEF Undone, Num
      <4>2. Num(dep', g, b) <= Num(dep, g, b) /\ uses'[b] = uses[b]
        BY <1>4, <1>5, <3>2
      <4> QED
        BY <2>1, <4>1, <4>2
    <3> QED
      BY <3>1, <3>2
  <2> QED
    BY <2>2 DEF Undone, Num
<1>9. CodeThere'
  BY <1>1, <1>2, <1>4 DEF CodeThere
<1>10. NobodyForgotten'
  <2>1. ASSUME NEW b \in Info, NEW g \in Group, uses'[b][g] > 0, ~aborted'[b]
        PROVE  b \in Members(dep', g)
    <3>1. b # a
      <4>1. NoUses[g] = 0
        BY DEF NoUses
      <4>2. b = a => uses'[b] = NoUses
        BY <1>5
      <4> QED
        BY <2>1, <4>1, <4>2
    <3>2. b \in Members(dep, g)
      BY <1>2, <1>5, <2>1, <3>1 DEF NobodyForgotten
    <3> QED
      BY <1>4, <3>1, <3>2
  <2>2. ASSUME NEW c \in CodeObject, NEW g \in Group, g \in assumes[c], ~markedCode[c]
        PROVE  c \in Members(dep', g)
    <3>1. c \in Members(dep, g) /\ c # a
      BY <1>2, <2>2 DEF NobodyForgotten
    <3> QED
      BY <1>4, <3>1
  <2> QED
    BY <1>1, <2>1, <2>2 DEF NobodyForgotten
<1> QED
  BY <1>1, <1>4, <1>6, <1>7, <1>8, <1>9, <1>10 DEF DependentInv

\* The code of a queued compilation is made.
LEMMA StartCodegenStep ==
    ASSUME DependentInv, NEW a \in Info, NEW c \in CodeObject, StartCodegen(a, c)
    PROVE  DependentInv' /\ UNCHANGED <<dep, aborted, markedCode>>
<1>1. UNCHANGED <<dep, aborted, uses, markedCode, assumes, insert>>
  BY DEF StartCodegen
<1>2. IsArray(dep) /\ DependentTypes /\ InHand /\ Undone /\ CodeThere /\ NobodyForgotten
  BY DEF DependentInv
<1>3. /\ current = NULL /\ info[a] = "queued" /\ codes[c] = "none" /\ ~aborted[a]
      /\ current' = a
      /\ info' = [info EXCEPT ![a] = "codegen"]
      /\ codes' = [codes EXCEPT ![c] = "new"]
      /\ info \in [Info -> {"none", "graph", "queued", "codegen"}]
      /\ codes \in [CodeObject -> {"none", "new", "live"}]
  BY <1>2 DEF StartCodegen, DependentTypes
<1>4. /\ \A b \in Info : info'[b] = IF b = a THEN "codegen" ELSE info[b]
      /\ \A b \in CodeObject : codes'[b] = IF b = c THEN "new" ELSE codes[b]
  BY <1>3
<1>5. DependentTypes'
  BY <1>1, <1>2, <1>3 DEF DependentTypes
<1>6. InHand'
  <2>1. insert = NULL /\ \A b \in CodeObject : codes[b] # "new"
    BY <1>3, InHandFacts
  <2>2. \A b \in Info : info[b] \notin {"graph", "codegen"}
    BY <1>2, <1>3 DEF InHand
  <2> QED
    BY <1>1, <1>2, <1>3, <1>4, <2>1, <2>2 DEF InHand
<1>7. CodeThere'
  BY <1>1, <1>2, <1>4 DEF CodeThere
<1>8. IsArray(dep)' /\ Undone' /\ NobodyForgotten'
  BY <1>1, <1>2 DEF Undone, NobodyForgotten
<1> QED
  BY <1>1, <1>5, <1>6, <1>7, <1>8 DEF DependentInv

\* The code takes the place of its compilation.
LEMMA CommitDependenciesStep ==
    ASSUME DependentInv, NEW c \in CodeObject, CommitDependencies(c)
    PROVE  /\ DependentInv'
           /\ current \in Info /\ ~aborted[current]
           /\ \A g \in Group : Members(dep', g) =
                 (Members(dep, g) \ {current}) \cup {x \in {c} : current \in Members(dep, g)}
           /\ UNCHANGED <<aborted, markedCode>>
<1>1. /\ codes[c] = "new" /\ insert = NULL
      /\ dep' = Update(dep, current, c)
      /\ codes' = [codes EXCEPT ![c] = "live"]
      /\ assumes' = [assumes EXCEPT ![c] = @ \cup {g \in Group : uses[current][g] > 0}]
      /\ uses' = [uses EXCEPT ![current] = NoUses]
      /\ info' = [info EXCEPT ![current] = "none"]
      /\ current' = NULL
      /\ UNCHANGED <<aborted, markedCode, insert>>
  BY DEF CommitDependencies
<1>2. IsArray(dep) /\ DependentTypes /\ InHand /\ Undone /\ CodeThere /\ NobodyForgotten
  BY DEF DependentInv
<1>3. /\ info \in [Info -> {"none", "graph", "queued", "codegen"}]
      /\ uses \in [Info -> [Group -> Nat]] /\ NoUses \in [Group -> Nat]
      /\ codes \in [CodeObject -> {"none", "new", "live"}]
      /\ assumes \in [CodeObject -> SUBSET Group]
  BY <1>2 DEF DependentTypes, NoUses
<1>4. current \in Info /\ info[current] = "codegen" /\ ~aborted[current]
  BY <1>1, <1>2 DEF InHand
<1>5. /\ IsArray(dep')
      /\ \A g \in Group :
            /\ Members(dep', g) =
                  (Members(dep, g) \ {current}) \cup {x \in {c} : current \in Members(dep, g)}
            /\ \A b \in Info : Num(dep', g, b) <= Num(dep, g, b)
  <2>1. uses[current] \in [Group -> Nat] /\ \A g \in Group : Num(dep, g, current) <= uses[current][g]
    BY <1>2, <1>3, <1>4 DEF Undone, Num
  <2> QED
    BY <1>1, <1>2, <1>4, <2>1, UpdateFacts
<1>6. current # c /\ current \notin CodeObject
  BY <1>4
<1>7. /\ \A b \in Info : /\ uses'[b] = IF b = current THEN NoUses ELSE uses[b]
                         /\ info'[b] = IF b = current THEN "none" ELSE info[b]
      /\ \A b \in CodeObject :
            /\ codes'[b] = IF b = c THEN "live" ELSE codes[b]
            /\ assumes'[b] = IF b = c THEN assumes[c] \cup {g \in Group : uses[current][g] > 0}
                             ELSE assumes[b]
  BY <1>1, <1>3
<1>8. DependentTypes'
  <2>1. /\ info' \in [Info -> {"none", "graph", "queued", "codegen"}]
        /\ uses' \in [Info -> [Group -> Nat]]
        /\ codes' \in [CodeObject -> {"none", "new", "live"}]
    BY <1>1, <1>3
  <2>2. assumes' \in [CodeObject -> SUBSET Group]
    BY <1>1, <1>3
  <2> QED
    BY <1>1, <1>2, <2>1, <2>2 DEF DependentTypes
<1>9. InHand'
  <2>1. \A b \in Info : b # current => info[b] \notin {"graph", "codegen"}
    BY <1>2 DEF InHand
  <2>2. \A b \in CodeObject : codes[b] = "new" => b = c
    BY <1>1, <1>2 DEF InHand
  <2>3. \A b \in Info : b # NULL
    OBVIOUS
  <2>4. \A b \in Info : info'[b] \in {"graph", "codegen"} <=> b = current'
    BY <1>1, <1>7, <2>1, <2>3
  <2>5. \A b \in Info : info'[b] = "codegen" => ~aborted'[b]
    BY <1>1, <1>2, <1>7 DEF InHand
  <2>6. \A b \in Info : info'[b] = "none" => uses'[b] = NoUses /\ ~aborted'[b]
    BY <1>1, <1>2, <1>4, <1>7 DEF InHand
  <2>7. \A b \in CodeObject : codes'[b] # "new"
    BY <1>7, <2>2
  <2> QED
    BY <1>1, <2>4, <2>5, <2>6, <2>7 DEF InHand
<1>10. Undone'
  <2>1. \A g \in Group, b \in Info : Num(dep, g, b) \in Nat /\ Num(dep', g, b) \in Nat
    BY <1>2, <1>5, ArrayFacts, PlacesFinite
  <2>2. ASSUME NEW g \in Group, NEW b \in Info PROVE Num(dep', g, b) <= uses'[b][g]
    <3>1. CASE b = current
      <4>1. b \notin Members(dep', g)
        BY <1>5, <1>6, <3>1
      <4>2. Num(dep', g, b) = 0
        BY <1>5, <4>1, ArrayFacts, PlacesFinite
      <4> QED
        BY <1>7, <3>1, <4>2 DEF NoUses
    <3>2. CASE b # current
      <4>1. Num(dep, g, b) <= uses[b][g] /\ uses[b][g] \in Nat
        BY <1>2, <1>3 DEF Undone, Num
      <4>2. Num(dep', g, b) <= Num(dep, g, b) /\ uses'[b] = uses[b]
        BY <1>5, <1>7, <3>2
      <4> QED
        BY <2>1, <4>1, <4>2
    <3> QED
      BY <3>1, <3>2
  <2> QED
    BY <2>2 DEF Undone, Num
<1>11. CodeThere'
  BY <1>2, <1>5, <1>7 DEF CodeThere
<1>12. NobodyForgotten'
  <2>1. ASSUME NEW b \in Info, NEW g \in Group, uses'[b][g] > 0, ~aborted[b]
        PROVE  b \in Members(dep', g)
    <3>1. b # current
      BY <1>7, <2>1 DEF NoUses
    <3>2. b \in Members(dep, g)
      BY <1>2, <1>7, <2>1, <3>1 DEF NobodyForgotten
    <3> QED
      BY <1>5, <3>1, <3>2
  <2>2. ASSUME NEW b \in CodeObject, NEW g \in Group, g \in assumes'[b], ~markedCode[b]
        PROVE  b \in Members(dep', g)
    <3>1. CASE g \in assumes[b]
      <4>1. b \in Members(dep, g)
        BY <1>2, <2>2, <3>1 DEF NobodyForgotten
      <4> QED
        BY <1>5, <1>6, <4>1
    <3>2. CASE b = c /\ uses[current][g] > 0
      <4>1. current \in Members(dep, g)
        BY <1>2, <1>4, <3>2 DEF NobodyForgotten
      <4> QED
        BY <1>5, <3>2, <4>1
    <3> QED
      BY <1>7, <2>2, <3>1, <3>2
  <2> QED
    BY <1>1, <2>1, <2>2 DEF NobodyForgotten
<1> QED
  BY <1>1, <1>4, <1>5, <1>8, <1>9, <1>10, <1>11, <1>12 DEF DependentInv

\* An assumption fails: all members of the group are told, and forgotten.
LEMMA DeoptimizeStep ==
    ASSUME DependentInv, NEW g \in Group, DeoptimizeDependentCodeGroup(g)
    PROVE  /\ DependentInv'
           /\ Members(dep', g) = {}
           /\ \A h \in Group \ {g} : Members(dep', h) = Members(dep, h)
           /\ aborted' = [a \in Info |-> aborted[a] \/ a \in Members(dep, g)]
           /\ markedCode' = [c \in CodeObject |-> markedCode[c] \/ c \in Members(dep, g)]
<1>1. /\ UNCHANGED <<info, uses, codes, assumes, current, insert>>
      /\ insert = NULL /\ (current # NULL => info[current] = "graph")
      /\ aborted' = [a \in Info |-> aborted[a] \/ a \in Members(dep, g)]
      /\ markedCode' = [c \in CodeObject |-> markedCode[c] \/ c \in Members(dep, g)]
      /\ dep' = Without(dep, g)
  BY DEF DeoptimizeDependentCodeGroup, Without
<1>2. IsArray(dep) /\ DependentTypes /\ InHand /\ Undone /\ CodeThere /\ NobodyForgotten
  BY DEF DependentInv
<1>3. /\ IsArray(dep')
      /\ \A h \in Group \ {g} : /\ Members(dep', h) = Members(dep, h)
                                /\ \A y : Num(dep', h, y) <= Num(dep, h, y)
      /\ Members(dep', g) = {}
      /\ \A y : Num(dep', g, y) = 0
  BY <1>1, <1>2, WithoutFacts DEF SameGroup
<1>4. /\ uses \in [Info -> [Group -> Nat]]
      /\ aborted \in [Info -> BOOLEAN] /\ markedCode \in [CodeObject -> BOOLEAN]
  BY <1>2 DEF DependentTypes
<1>5. \A h \in Group, b \in Info : /\ Num(dep, h, b) \in Nat /\ Num(dep', h, b) \in Nat
                                   /\ Num(dep, h, b) <= uses[b][h] /\ uses[b][h] \in Nat
  <2>1. \A h \in Group, b \in Info : Num(dep, h, b) \in Nat /\ Num(dep', h, b) \in Nat
    BY <1>2, <1>3, ArrayFacts, PlacesFinite
  <2>2. \A h \in Group, b \in Info : Num(dep, h, b) <= uses[b][h] /\ uses[b][h] \in Nat
    BY <1>2, <1>4 DEF Undone, Num
  <2> QED
    BY <2>1, <2>2
<1>6. DependentTypes'
  <2>1. aborted' \in [Info -> BOOLEAN] /\ markedCode' \in [CodeObject -> BOOLEAN]
    BY <1>1
  <2> QED
    BY <1>1, <1>2, <2>1 DEF DependentTypes
<1>7. InHand'
  <2>1. ASSUME NEW a \in Info, info[a] = "codegen" PROVE FALSE
    <3>1. a = current /\ a # NULL
      BY <1>2, <2>1 DEF InHand
    <3> QED
      BY <1>1, <2>1, <3>1
  <2>2. ASSUME NEW a \in Info, info[a] = "none" PROVE uses[a] = NoUses /\ ~aborted'[a]
    <3>1. uses[a] = NoUses /\ ~aborted[a]
      BY <1>2, <2>2 DEF InHand
    <3>2. uses[a][g] = 0
      BY <3>1 DEF NoUses
    <3>3. Num(dep, g, a) = 0
      BY <1>5, <3>2
    <3>4. a \notin Members(dep, g)
      BY <1>2, <3>3, ArrayFacts, PlacesFinite
    <3> QED
      BY <1>1, <3>1, <3>4
  <2> QED
    BY <1>1, <1>2, <2>1, <2>2 DEF InHand
<1>8. Undone'
  <2>1. ASSUME NEW h \in Group, NEW b \in Info PROVE Num(dep', h, b) <= uses[b][h]
    <3>1. Num(dep', h, b) = 0 \/ Num(dep', h, b) <= Num(dep, h, b)
      BY <1>3
    <3> QED
      BY <1>5, <3>1
  <2> QED
    BY <1>1, <2>1 DEF Undone, Num
<1>9. CodeThere'
  <2>1. \A h \in Group : Members(dep', h) \subseteq Members(dep, h)
    BY <1>3
  <2> QED
    BY <1>1, <1>2, <2>1 DEF CodeThere
<1>10. NobodyForgotten'
  <2>1. ASSUME NEW a \in Info, NEW h \in Group, uses[a][h] > 0, ~aborted'[a]
        PROVE  a \in Members(dep', h)
    <3>1. ~aborted[a] /\ a \notin Members(dep, g)
      BY <1>1, <2>1
    <3>2. a \in Members(dep, h)
      BY <1>2, <2>1, <3>1 DEF NobodyForgotten
    <3> QED
      BY <1>3, <3>1, <3>2
  <2>2. ASSUME NEW c \in CodeObject, NEW h \in Group, h \in assumes[c], ~markedCode'[c]
        PROVE  c \in Members(dep', h)
    <3>1. ~markedCode[c] /\ c \notin Members(dep, g)
      BY <1>1, <2>2
    <3>2. c \in Members(dep, h)
      BY <1>2, <2>2, <3>1 DEF NobodyForgotten
    <3> QED
      BY <1>3, <3>1, <3>2
  <2> QED
    BY <1>1, <2>1, <2>2 DEF NobodyForgotten
<1> QED
  BY <1>1, <1>3, <1>6, <1>7, <1>8, <1>9, <1>10 DEF DependentInv

Gone(dead) == dead \cup {c \in CodeObject : markedCode[c]}

\* A collection frees dead code, and forgets it and the code that is marked.
LEMMA ClearNonLiveStep ==
    ASSUME DependentInv, NEW dead \in SUBSET CodeObject, ClearNonLiveDependentCode(dead)
    PROVE  /\ DependentInv'
           /\ \A g \in Group : Members(dep', g) = Members(dep, g) \ Gone(dead)
           /\ UNCHANGED aborted
           /\ markedCode' = [c \in CodeObject |-> markedCode[c] /\ c \notin dead]
<1>1. /\ dead \subseteq {c \in CodeObject : codes[c] = "live"}
      /\ UNCHANGED <<info, aborted, uses, current, insert>>
      /\ codes' = [c \in CodeObject |-> IF c \in dead THEN "none" ELSE codes[c]]
      /\ assumes' = [c \in CodeObject |-> IF c \in dead THEN {} ELSE assumes[c]]
      /\ markedCode' = [c \in CodeObject |-> markedCode[c] /\ c \notin dead]
  BY DEF ClearNonLiveDependentCode, Freed, infoVars
<1>2. dep' = Closed(dep, Kept(dep, Gone(dead)))
  BY DEF ClearNonLiveDependentCode, Closed, Kept, Gone, Before
<1>3. IsArray(dep) /\ DependentTypes /\ InHand /\ Undone /\ CodeThere /\ NobodyForgotten
  BY DEF DependentInv
<1>4. /\ IsArray(dep')
      /\ \A g \in Group : /\ Members(dep', g) = Members(dep, g) \ Gone(dead)
                          /\ \A y : Num(dep', g, y) <= Num(dep, g, y)
  BY <1>2, <1>3, ClosedFacts
<1>5. /\ codes \in [CodeObject -> {"none", "new", "live"}]
      /\ markedCode \in [CodeObject -> BOOLEAN]
      /\ assumes \in [CodeObject -> SUBSET Group]
      /\ uses \in [Info -> [Group -> Nat]]
  BY <1>3 DEF DependentTypes
<1>6. DependentTypes'
  <2>1. /\ codes' \in [CodeObject -> {"none", "new", "live"}]
        /\ markedCode' \in [CodeObject -> BOOLEAN]
        /\ assumes' \in [CodeObject -> SUBSET Group]
    BY <1>1, <1>5
  <2> QED
    BY <1>1, <1>3, <2>1 DEF DependentTypes
<1>7. InHand'
  <2>1. \A c \in CodeObject : codes'[c] = "new" <=> codes[c] = "new"
    BY <1>1
  <2> QED
    BY <1>1, <1>3, <2>1 DEF InHand
<1>8. Undone'
  <2>1. ASSUME NEW h \in Group, NEW b \in Info PROVE Num(dep', h, b) <= uses[b][h]
    <3>1. Num(dep, h, b) \in Nat /\ Num(dep', h, b) \in Nat
      BY <1>3, <1>4, ArrayFacts, PlacesFinite
    <3>2. Num(dep, h, b) <= uses[b][h] /\ uses[b][h] \in Nat
      BY <1>3, <1>5 DEF Undone, Num
    <3>3. Num(dep', h, b) <= Num(dep, h, b)
      BY <1>4
    <3> QED
      BY <3>1, <3>2, <3>3
  <2> QED
    BY <1>1, <2>1 DEF Undone, Num
<1>9. CodeThere'
  <2>1. ASSUME NEW g \in Group, NEW c \in CodeObject, c \in Members(dep', g)
        PROVE  codes'[c] # "none"
    <3>1. c \in Members(dep, g) /\ c \notin dead
      BY <1>4, <2>1 DEF Gone
    <3> QED
      BY <1>1, <1>3, <3>1 DEF CodeThere
  <2> QED
    BY <2>1 DEF CodeThere
<1>10. NobodyForgotten'
  <2>1. ASSUME NEW a \in Info, NEW h \in Group, uses[a][h] > 0, ~aborted[a]
        PROVE  a \in Members(dep', h)
    <3>1. a \in Members(dep, h)
      BY <1>3, <2>1 DEF NobodyForgotten
    <3>2. a \notin Gone(dead)
      BY DEF Gone
    <3> QED
      BY <1>4, <3>1, <3>2
  <2>2. ASSUME NEW c \in CodeObject, NEW h \in Group, h \in assumes'[c], ~markedCode'[c]
        PROVE  c \in Members(dep', h)
    <3>1. c \notin dead /\ h \in assumes[c] /\ ~markedCode[c]
      BY <1>1, <2>2
    <3>2. c \in Members(dep, h) /\ c \notin Gone(dead)
      BY <1>3, <3>1 DEF NobodyForgotten, Gone
    <3> QED
      BY <1>4, <3>2
  <2> QED
    BY <1>1, <2>1, <2>2 DEF NobodyForgotten
<1> QED
  BY <1>1, <1>4, <1>6, <1>7, <1>8, <1>9, <1>10 DEF DependentInv

\* The object dies with its array, and the code that survives it is told.
LEMMA ClearAndDeoptimizeStep ==
    ASSUME DependentInv, NEW dead \in SUBSET CodeObject,
           ClearAndDeoptimizeDependentCode(dead)
    PROVE  /\ DependentInv'
           /\ \A g \in Group : Members(dep, g) \subseteq CodeObject /\ Members(dep', g) = {}
           /\ UNCHANGED aborted
           /\ markedCode' = [c \in CodeObject |->
                 c \notin dead /\ (markedCode[c] \/ \E g \in Group : c \in Members(dep, g))]
<1>1. /\ insert = NULL
      /\ dead \subseteq {c \in CodeObject : codes[c] = "live"}
      /\ \A a \in Info : uses[a] = NoUses
      /\ UNCHANGED <<info, aborted, uses, current, insert>>
      /\ codes' = [c \in CodeObject |-> IF c \in dead THEN "none" ELSE codes[c]]
      /\ assumes' = [c \in CodeObject |-> IF c \in dead THEN {} ELSE assumes[c]]
      /\ markedCode' = [c \in CodeObject |->
            c \notin dead /\ (markedCode[c] \/ \E g \in Group : c \in Members(dep, g))]
      /\ dep' = [count |-> NoUses, entry |-> Undefined]
  BY DEF ClearAndDeoptimizeDependentCode, Freed, infoVars
<1>2. IsArray(dep) /\ DependentTypes /\ InHand /\ Undone /\ CodeThere /\ NobodyForgotten
  BY DEF DependentInv
<1>3. /\ IsArray(dep')
      /\ \A g \in Group : Members(dep', g) = {} /\ \A y : Num(dep', g, y) = 0
  BY <1>1, EmptyArray
<1>4. \A a \in Info, g \in Group : uses[a][g] = 0
  BY <1>1 DEF NoUses
<1>5. ASSUME NEW g \in Group PROVE Members(dep, g) \subseteq CodeObject
  <2>1. ASSUME NEW a \in Info PROVE a \notin Members(dep, g)
    <3>1. Num(dep, g, a) <= uses[a][g] /\ uses[a][g] = 0
      BY <1>2, <1>4 DEF Undone, Num
    <3>2. Num(dep, g, a) \in Nat /\ (a \in Members(dep, g) <=> Num(dep, g, a) # 0)
      BY <1>2, ArrayFacts, PlacesFinite
    <3> QED
      BY <3>1, <3>2
  <2>2. Members(dep, g) \subseteq Info \cup CodeObject
    BY <1>2, ArrayFacts
  <2> QED
    BY <2>1, <2>2
<1>6. /\ codes \in [CodeObject -> {"none", "new", "live"}]
      /\ markedCode \in [CodeObject -> BOOLEAN]
      /\ assumes \in [CodeObject -> SUBSET Group]
  BY <1>2 DEF DependentTypes
<1>7. DependentTypes'
  <2>1. /\ codes' \in [CodeObject -> {"none", "new", "live"}]
        /\ markedCode' \in [CodeObject -> BOOLEAN]
        /\ assumes' \in [CodeObject -> SUBSET Group]
    BY <1>1, <1>6
  <2> QED
    BY <1>1, <1>2, <2>1 DEF DependentTypes
<1>8. InHand'
  <2>1. \A c \in CodeObject : codes'[c] = "new" <=> codes[c] = "new"
    BY <1>1
  <2> QED
    BY <1>1, <1>2, <2>1 DEF InHand
<1>9. Undone' /\ CodeThere'
  <2>1. \A g \in Group, a \in Info : Num(dep', g, a) <= uses'[a][g]
    BY <1>1, <1>3, <1>4
  <2> QED
    BY <1>3, <2>1 DEF Undone, CodeThere, Num
<1>10. NobodyForgotten'
  <2>1. \A a \in Info, g \in Group : ~(uses'[a][g] > 0)
    BY <1>1, <1>4
  <2>2. ASSUME NEW c \in CodeObject, NEW g \in Group, g \in assumes'[c], ~markedCode'[c]
        PROVE  FALSE
    <3>1. c \notin dead /\ g \in assumes[c] /\ ~markedCode[c] /\ c \notin Members(dep, g)
      BY <1>1, <2>2
    <3> QED
      BY <1>2, <3>1 DEF NobodyForgotten
  <2> QED
    BY <2>1, <2>2 DEF NobodyForgotten
<1> QED
  BY <1>1, <1>3, <1>5, <1>7, <1>8, <1>9, <1>10 DEF DependentInv

\* A registration, of a compilation or of code.
LEMMA RegistrationStep ==
    ASSUME DependentInv,
           \/ \E g \in Group : AddDependentCompilationInfo(g)
           \/ \E c \in CodeObject : AddDependentCode(c)
    PROVE  /\ DependentInv'
           /\ \/ \E g \in Group, x \in Info \cup CodeObject : Inserted(dep, dep', g, x)
              \/ UNCHANGED dep
           /\ UNCHANGED <<aborted, markedCode>>
<1>1. CASE \E g \in Group : AddDependentCompilationInfo(g)
  <2>1. PICK g \in Group : AddDependentCompilationInfo(g)
    BY <1>1
  <2>2. current \in Info /\ info[current] = "graph" /\ Insert(g, current)
    BY <2>1 DEF AddDependentCompilationInfo, DependentInv, DependentTypes
  <2>3. MayRegister(current)
    BY <2>2 DEF MayRegister
  <2> QED
    BY <2>2, <2>3, InsertStep
<1>2. CASE \E c \in CodeObject : AddDependentCode(c)
  <2>1. PICK c \in CodeObject : AddDependentCode(c)
    BY <1>2
  <2>2. codes[c] = "new" /\ Insert(kWeaklyEmbeddedGroup, c) /\ kWeaklyEmbeddedGroup \in Group
    BY <2>1 DEF AddDependentCode, kWeaklyEmbeddedGroup, Group
  <2>3. MayRegister(c)
    BY <2>2 DEF MayRegister
  <2> QED
    BY <2>2, <2>3, InsertStep
<1> QED
  BY <1>1, <1>2

\* Every step keeps the invariant.
LEMMA DependentStepInv == DependentInv /\ [DependentNext]_dependentVars => DependentInv'
<1> SUFFICES ASSUME DependentInv, [DependentNext]_dependentVars
             PROVE  DependentInv'
  OBVIOUS
<1>1. ASSUME NEW a \in Info, StartGraph(a) PROVE DependentInv'
  BY <1>1, StartGraphStep
<1>2. ASSUME NEW a \in Info, Dispose(a) PROVE DependentInv'
  BY <1>2, DisposeStep
<1>3. ASSUME NEW a \in Info, NEW c \in CodeObject, StartCodegen(a, c) PROVE DependentInv'
  BY <1>3, StartCodegenStep
<1>4. ASSUME \/ \E g \in Group : AddDependentCompilationInfo(g)
             \/ \E c \in CodeObject : AddDependentCode(c)
      PROVE  DependentInv'
  BY <1>4, RegistrationStep
<1>5. ASSUME NEW g \in Group, DeoptimizeDependentCodeGroup(g) PROVE DependentInv'
  BY <1>5, DeoptimizeStep
<1>6. ASSUME GraphCreated PROVE DependentInv'
  BY <1>6, GraphCreatedStep
<1>7. ASSUME NEW c \in CodeObject, CommitDependencies(c) PROVE DependentInv'
  BY <1>7, CommitDependenciesStep
<1>8. ASSUME InsertIntoCopy PROVE DependentInv'
  BY <1>8, InsertIntoCopyStep
<1>9. ASSUME NEW dead \in SUBSET CodeObject, ClearNonLiveDependentCode(dead)
      PROVE  DependentInv'
  BY <1>9, ClearNonLiveStep
<1>10. ASSUME NEW dead \in SUBSET CodeObject, ClearAndDeoptimizeDependentCode(dead)
       PROVE  DependentInv'
  BY <1>10, ClearAndDeoptimizeStep
<1>11. CASE UNCHANGED dependentVars
  BY <1>11 DEF dependentVars, infoVars, codeVars, DependentInv, DependentTypes, InHand,
               Undone, CodeThere, NobodyForgotten
<1> QED
  BY <1>1, <1>2, <1>3, <1>4, <1>5, <1>6, <1>7, <1>8, <1>9, <1>10, <1>11 DEF DependentNext

\* Every state satisfies the inductive invariant: the array is what its comment
\* draws, one compilation at a time is in hand, and each entry will be undone.
THEOREM DependentInvariant == DependentSpec => []DependentInv
<1>1. DependentInv /\ [DependentNext]_dependentVars => DependentInv'
  BY DependentStepInv
<1> QED
  BY <1>1, DependentInitInv, PTL DEF DependentSpec

\* No compilation and no code that relies on an assumption is forgotten before
\* it has been told that the assumption failed, however the entries are moved.
THEOREM NobodyForgottenTheorem == DependentSpec => []NobodyForgotten
<1>1. DependentInv => NobodyForgotten
  BY DEF DependentInv
<1> QED
  BY <1>1, DependentInvariant, PTL

\* The array never holds a compilation that has been deleted or code that has
\* been freed.
THEOREM NoDanglingEntryTheorem == DependentSpec => []NoDanglingEntry
<1>1. DependentInv => NoDanglingEntry
  <2> SUFFICES ASSUME DependentInv PROVE NoDanglingEntry
    OBVIOUS
  <2>1. IsArray(dep) /\ Undone /\ CodeThere
    BY DEF DependentInv
  <2>2. ArrayOK
    <3>1. /\ dep.count \in [Group -> Nat]
          /\ DOMAIN dep.entry = 0..(Room(dep) - 1)
          /\ Entries(dep) <= Room(dep)
      BY <2>1, ArrayFacts
    <3>2. \A i \in 0..(Room(dep) - 1) :
              dep.entry[i] \in IF i < Entries(dep) THEN Info \cup CodeObject ELSE {NULL}
      BY <2>1 DEF IsArray
    <3> QED
      BY <3>1, <3>2 DEF ArrayOK, Room
  <2> QED
    BY <2>1, <2>2 DEF NoDanglingEntry, Undone, CodeThere
<1> QED
  BY <1>1, DependentInvariant, PTL

-------------------------------------------------------------------------------
(* The groups as sets *)

Sets == [g \in Group |-> Members(dep, g)]

Told == {a \in Info : aborted[a]} \cup {c \in CodeObject : markedCode[c]}

\* The abstract variables stay if these do.
LEMMA GroupsStutter ==
    ASSUME UNCHANGED <<dep, aborted, markedCode>>
    PROVE  UNCHANGED Abstract!groupsVars
BY DEF Abstract!groupsVars

\* A registration is a Join.
LEMMA InsertedJoins ==
    ASSUME NEW g \in Group, NEW x \in Info \cup CodeObject,
           Inserted(dep, dep', g, x), UNCHANGED <<aborted, markedCode>>
    PROVE  Abstract!GroupsNext
<1>1. /\ Members(dep', g) = Members(dep, g) \cup {x}
      /\ \A h \in Group \ {g} : Members(dep', h) = Members(dep, h)
  BY DEF Inserted, SameGroup
<1>2. Sets' = [Sets EXCEPT ![g] = @ \cup {x}]
  BY <1>1 DEF Sets
<1>3. Abstract!Join(x, g)
  BY <1>2 DEF Abstract!Join, Sets
<1> QED
  BY <1>3 DEF Abstract!GroupsNext

\* The end of a compilation without code is a Leave.
LEMMA DisposeLeaves ==
    ASSUME DependentInv, NEW a \in Info, Dispose(a)
    PROVE  Abstract!GroupsNext
<1>1. /\ \A g \in Group : Members(dep', g) = Members(dep, g) \ {a}
      /\ aborted' = [aborted EXCEPT ![a] = FALSE] /\ UNCHANGED markedCode
      /\ aborted \in [Info -> BOOLEAN]
  BY DisposeStep DEF DependentInv, DependentTypes
<1>2. Sets' = [g \in Group |-> Members(dep, g) \ {a}]
  BY <1>1 DEF Sets
<1>3. Told' = Told \ {a}
  <2>1. a \notin CodeObject
    OBVIOUS
  <2>2. \A b \in Info : aborted'[b] = IF b = a THEN FALSE ELSE aborted[b]
    BY <1>1
  <2>3. \A b \in Info : aborted'[b] <=> aborted[b] /\ b # a
    BY <2>2
  <2> QED
    BY <1>1, <2>1, <2>3 DEF Told
<1>4. \A g \in Group : Sets[g] = Members(dep, g)
  BY DEF Sets
<1>5. Sets' = [g \in Group |-> Sets[g] \ {a}]
  BY <1>2, <1>4
<1>6. Abstract!Leave(a)
  BY <1>3, <1>5 DEF Abstract!Leave, Sets, Told
<1> QED
  BY <1>6 DEF Abstract!GroupsNext

\* Code that takes the place of its compilation finishes it.
LEMMA CommitFinishes ==
    ASSUME DependentInv, NEW c \in CodeObject, CommitDependencies(c)
    PROVE  Abstract!GroupsNext
<1>1. /\ current \in Info /\ ~aborted[current]
      /\ \A g \in Group : Members(dep', g) =
            (Members(dep, g) \ {current}) \cup {x \in {c} : current \in Members(dep, g)}
      /\ UNCHANGED <<aborted, markedCode>>
  BY CommitDependenciesStep
<1>2. \A g \in Group : Sets[g] = Members(dep, g)
  BY DEF Sets
<1>3. \A g \in Group : Members(dep', g) =
          IF current \in Sets[g] THEN (Sets[g] \ {current}) \cup {c} ELSE Sets[g]
  BY <1>1, <1>2
<1>4. Sets' = [g \in Group |-> IF current \in Sets[g] THEN (Sets[g] \ {current}) \cup {c}
                               ELSE Sets[g]]
  BY <1>3 DEF Sets
<1>5. current \notin Told /\ Told' = Told
  BY <1>1 DEF Told
<1>6. Abstract!Finish(current, c)
  BY <1>4, <1>5 DEF Abstract!Finish, Sets, Told
<1> QED
  BY <1>1, <1>6 DEF Abstract!GroupsNext

\* An assumption that fails breaks its group.
LEMMA DeoptimizeBreaks ==
    ASSUME DependentInv, NEW g \in Group, DeoptimizeDependentCodeGroup(g)
    PROVE  Abstract!GroupsNext
<1>1. /\ Members(dep', g) = {}
      /\ \A h \in Group \ {g} : Members(dep', h) = Members(dep, h)
      /\ aborted' = [a \in Info |-> aborted[a] \/ a \in Members(dep, g)]
      /\ markedCode' = [c \in CodeObject |-> markedCode[c] \/ c \in Members(dep, g)]
  BY DeoptimizeStep
<1>2. Members(dep, g) \subseteq Info \cup CodeObject
  BY ArrayFacts DEF DependentInv
<1>3. Sets' = [Sets EXCEPT ![g] = {}]
  BY <1>1 DEF Sets
<1>4. Told' = Told \cup Members(dep, g)
  BY <1>1, <1>2 DEF Told
<1>5. Sets[g] = Members(dep, g)
  BY DEF Sets
<1>6. Told' = Told \cup Sets[g]
  BY <1>4, <1>5
<1>7. Abstract!Break(g)
  BY <1>3, <1>6 DEF Abstract!Break, Sets, Told
<1> QED
  BY <1>7 DEF Abstract!GroupsNext

\* A collection that finds the object alive forgets.
LEMMA ClearNonLiveForgets ==
    ASSUME DependentInv, NEW dead \in SUBSET CodeObject, ClearNonLiveDependentCode(dead)
    PROVE  Abstract!GroupsNext
<1>1. /\ \A g \in Group : Members(dep', g) = Members(dep, g) \ Gone(dead)
      /\ UNCHANGED aborted
      /\ markedCode' = [c \in CodeObject |-> markedCode[c] /\ c \notin dead]
  BY ClearNonLiveStep
<1>2. Gone(dead) = dead \cup (Told \cap CodeObject)
  BY DEF Gone, Told
<1>3. \A g \in Group : Sets[g] = Members(dep, g)
  BY DEF Sets
<1>4. \A g \in Group : Members(dep', g) = Sets[g] \ (dead \cup (Told \cap CodeObject))
  BY <1>1, <1>2, <1>3
<1>5. Sets' = [g \in Group |-> Sets[g] \ (dead \cup (Told \cap CodeObject))]
  BY <1>4 DEF Sets
<1>6. Told' = Told \ dead
  BY <1>1 DEF Told
<1>7. Abstract!Forget(dead)
  BY <1>5, <1>6 DEF Abstract!Forget, Sets, Told
<1> QED
  BY <1>7 DEF Abstract!GroupsNext

\* A collection that finds it dead lets it die.
LEMMA ClearAndDeoptimizeDies ==
    ASSUME DependentInv, NEW dead \in SUBSET CodeObject,
           ClearAndDeoptimizeDependentCode(dead)
    PROVE  Abstract!GroupsNext
<1>1. /\ \A g \in Group : Members(dep, g) \subseteq CodeObject /\ Members(dep', g) = {}
      /\ UNCHANGED aborted
      /\ markedCode' = [c \in CodeObject |->
            c \notin dead /\ (markedCode[c] \/ \E g \in Group : c \in Members(dep, g))]
  BY ClearAndDeoptimizeStep
<1>2. \A g \in Group : Sets[g] = Members(dep, g)
  BY DEF Sets
<1>3. Sets' = [g \in Group |-> {}]
  BY <1>1 DEF Sets
<1>4. \A g \in Group : Sets[g] \subseteq CodeObject
  BY <1>1, <1>2
<1>5. Told' = (Told \cup UNION {Sets[g] : g \in Group}) \ dead
  <2>1. \A x : x \in UNION {Sets[g] : g \in Group} <=> \E g \in Group : x \in Members(dep, g)
    BY <1>2
  <2>2. ASSUME NEW x
        PROVE  x \in Told' <=> /\ x \notin dead
                               /\ \/ x \in Told
                                  \/ \E g \in Group : x \in Members(dep, g)
    BY <1>1 DEF Told
  <2> QED
    BY <2>1, <2>2
<1>6. Abstract!Die(dead)
  BY <1>3, <1>4, <1>5 DEF Abstract!Die, Sets, Told
<1> QED
  BY <1>6 DEF Abstract!GroupsNext

\* The array, with all its moving of entries, implements the groups as sets.
THEOREM ImplementsGroups == DependentSpec => GroupsSpec
<1>1. DependentInit => Abstract!GroupsInit
  <2> SUFFICES ASSUME DependentInit PROVE Abstract!GroupsInit
    OBVIOUS
  <2>1. Sets = [g \in Group |-> {}]
    BY EmptyArray DEF DependentInit, Sets
  <2>2. Told = {}
    BY DEF DependentInit, Told
  <2> QED
    BY <2>1, <2>2 DEF Abstract!GroupsInit, Sets, Told
<1>2. DependentInv /\ [DependentNext]_dependentVars
          => [Abstract!GroupsNext]_(Abstract!groupsVars)
  <2> SUFFICES ASSUME DependentInv, [DependentNext]_dependentVars
               PROVE  [Abstract!GroupsNext]_(Abstract!groupsVars)
    OBVIOUS
  <2>1. ASSUME NEW a \in Info, Dispose(a) PROVE Abstract!GroupsNext
    BY <2>1, DisposeLeaves
  <2>2. ASSUME \/ \E g \in Group : AddDependentCompilationInfo(g)
               \/ \E c \in CodeObject : AddDependentCode(c)
        PROVE  [Abstract!GroupsNext]_(Abstract!groupsVars)
    <3>1. /\ \/ \E g \in Group, x \in Info \cup CodeObject : Inserted(dep, dep', g, x)
             \/ UNCHANGED dep
          /\ UNCHANGED <<aborted, markedCode>>
      BY <2>2, RegistrationStep
    <3> QED
      BY <3>1, InsertedJoins, GroupsStutter
  <2>3. ASSUME NEW g \in Group, DeoptimizeDependentCodeGroup(g) PROVE Abstract!GroupsNext
    BY <2>3, DeoptimizeBreaks
  <2>4. ASSUME NEW c \in CodeObject, CommitDependencies(c) PROVE Abstract!GroupsNext
    BY <2>4, CommitFinishes
  <2>5. ASSUME InsertIntoCopy PROVE Abstract!GroupsNext
    <3>1. /\ \E g \in Group, x \in Info \cup CodeObject : Inserted(dep, dep', g, x)
          /\ UNCHANGED <<aborted, markedCode>>
      BY <2>5, InsertIntoCopyStep
    <3> QED
      BY <3>1, InsertedJoins
  <2>6. ASSUME NEW dead \in SUBSET CodeObject, ClearNonLiveDependentCode(dead)
        PROVE  Abstract!GroupsNext
    BY <2>6, ClearNonLiveForgets
  <2>7. ASSUME NEW dead \in SUBSET CodeObject, ClearAndDeoptimizeDependentCode(dead)
        PROVE  Abstract!GroupsNext
    BY <2>7, ClearAndDeoptimizeDies
  <2>8. ASSUME \/ GraphCreated
               \/ \E a \in Info : StartGraph(a) \/ \E c \in CodeObject : StartCodegen(a, c)
               \/ UNCHANGED dependentVars
        PROVE  UNCHANGED Abstract!groupsVars
    <3>1. UNCHANGED <<dep, aborted, markedCode>>
      BY <2>8, GraphCreatedStep, StartGraphStep, StartCodegenStep
         DEF dependentVars, infoVars, codeVars
    <3> QED
      BY <3>1, GroupsStutter
  <2> QED
    BY <2>1, <2>2, <2>3, <2>4, <2>5, <2>6, <2>7, <2>8 DEF DependentNext
<1> QED
  BY <1>1, <1>2, DependentInvariant, PTL DEF DependentSpec, GroupsSpec, Abstract!GroupsSpec
=================================================================================
