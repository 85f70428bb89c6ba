------------------------- MODULE SweeperThreadsProofs -------------------------
(***************************************************************************)
(* Proofs about the sweeper threads, for any number of threads and pages:  *)
(* no page is swept twice and its memory is on one free list at most, and  *)
(* no thread sweeps while the collector marks.                             *)
(***************************************************************************)
EXTENDS SweeperThreads, SequenceTheorems, FiniteSetTheorems, TLAPS

Stopping == main \in {"stop", "join", "done"}

\* The threads that have been told to sweep and not been waited for.
Owing(t) ==
    /\ main = "start" => t < thread
    /\ main = "await" => t >= thread
    /\ main \notin {"start", "await"} => sweeping_pending

\* A thread has one start signal to take, is at work, or has one end signal
\* to give back, exactly while it owes the main thread an answer.
HandshakeOf(t) ==
    /\ ~ stop_thread[t] /\ pc[t] # "exit"
    /\ Owing(t) => \/ start_sweeping[t] = 1 /\ end_sweeping[t] = 0 /\ pc[t] = "wait"
                   \/ start_sweeping[t] = 0 /\ end_sweeping[t] = 1 /\ pc[t] = "wait"
                   \/ start_sweeping[t] = 0 /\ end_sweeping[t] = 0 /\ pc[t] # "wait"
    /\ ~ Owing(t) => start_sweeping[t] = 0 /\ end_sweeping[t] = 0 /\ pc[t] = "wait"
Handshake == ~ Stopping => \A t \in Thread : HandshakeOf(t)

\* Where the main thread can be with sweeping pending or not.
MainInv ==
    /\ main \in {"prepare", "marking", "reset", "swept"} => ~ sweeping_pending
    /\ main \in {"await", "progress"} => sweeping_pending
    /\ main = "progress" => after \in {"mutator", "evacuate"}
    /\ main = "start" => (sweeping_pending <=> thread > 1)
    /\ main \in {"mutator", "evacuate", "prepare", "marking", "swept"} => thread = 1

\* What a thread has walked past has been claimed.
WalkedBy(t) ==
    /\ pc[t] \in {"claim", "sweep", "concatenate"} =>
          \A i \in DOMAIN PageIterator : i < at[t] => PageIterator[i] \notin parallel_sweeping
    /\ pc[t] \in {"sweep", "concatenate"} =>
          at[t] \in DOMAIN PageIterator /\ PageIterator[at[t]] \notin parallel_sweeping
    /\ ~ Stopping /\ end_sweeping[t] > 0 => parallel_sweeping = {}
    /\ IF pc[t] = "concatenate" THEN private[t] \subseteq {PageIterator[at[t]]}
       ELSE private[t] = {}
Walked ==
    /\ \A t \in Thread : WalkedBy(t)
    /\ (main = "await" /\ thread > 1) => parallel_sweeping = {}
    /\ ~ sweeping_pending /\ main # "start" /\ ~ Stopping => parallel_sweeping = {}

\* What the main thread has emptied, or need not empty.
Emptied ==
    /\ main = "reset" => \A t \in Thread :
          /\ (steal = "pointer" \/ t < thread) => shared[t]["data"] = {}
          /\ (steal = "pointer" /\ t < thread) => shared[t]["pointer"] = {}
    /\ ~ sweeping_pending /\ main \notin {"reset", "start"} /\ ~ Stopping =>
          \A t \in Thread, s \in Space : shared[t][s] = {}
    /\ main = "start" /\ thread = 1 => \A t \in Thread, s \in Space : shared[t][s] = {}
    /\ main = "marking" => \A s \in Space : free_list[s] = {}

IInv == TypeOK /\ EachPageOnce /\ Handshake /\ MainInv /\ Walked /\ Emptied

\* The facts about pages and spaces that the proofs use.
LEMMA PageFacts ==
    /\ Page = {PageIterator[i] : i \in DOMAIN PageIterator}
    /\ DOMAIN PageIterator = 1..Len(PageIterator) /\ Len(PageIterator) \in Nat
    /\ \A i, j \in DOMAIN PageIterator : PageIterator[i] = PageIterator[j] => i = j
    /\ PagesOf("data") \cap PagesOf("pointer") = {}
    /\ Page = PagesOf("data") \cup PagesOf("pointer")
    /\ \A p \in Page : SpaceOf(p) \in Space /\ p \in PagesOf(SpaceOf(p))
    /\ \A s \in Space : Pages[s][1] \in PagesOf(s)
<1> DEFINE D == Pages["data"]
           P == Pages["pointer"]
<1>1. /\ D \in Seq(PagesOf("data")) /\ P \in Seq(PagesOf("pointer"))
      /\ D # << >> /\ P # << >>
  BY SweeperThreadsAssumption DEF Space
<1>2. /\ Len(D) \in Nat \ {0} /\ DOMAIN D = 1..Len(D)
      /\ Len(P) \in Nat \ {0} /\ DOMAIN P = 1..Len(P)
  BY <1>1
<1>3. /\ Len(PageIterator) = Len(D) + Len(P)
      /\ DOMAIN PageIterator = 1..(Len(D) + Len(P))
      /\ \A i \in 1..(Len(D) + Len(P)) :
            PageIterator[i] = IF i <= Len(D) THEN D[i] ELSE P[i - Len(D)]
  <2>1. PageIterator = D \o P
    BY DEF PageIterator
  <2>2. D \in Seq(Page) /\ P \in Seq(Page)
    BY <1>1 DEF Page
  <2> HIDE DEF D, P
  <2> QED
    BY <1>2, <2>1, <2>2, ConcatProperties
<1>4. \A i, j \in DOMAIN PageIterator : PageIterator[i] = PageIterator[j] => i = j
  BY SweeperThreadsAssumption
<1>5. /\ PagesOf("data") = {D[i] : i \in 1..Len(D)}
      /\ PagesOf("pointer") = {P[i] : i \in 1..Len(P)}
  BY <1>2 DEF PagesOf
<1> HIDE DEF D, P
<1>6. PagesOf("data") = {PageIterator[i] : i \in 1..Len(D)}
  BY <1>2, <1>3, <1>5
<1>7. PagesOf("pointer") = {PageIterator[i] : i \in (Len(D) + 1)..(Len(D) + Len(P))}
  <2>1. ASSUME NEW i \in 1..Len(P) PROVE P[i] = PageIterator[Len(D) + i]
    BY <1>2, <1>3
  <2>2. ASSUME NEW i \in (Len(D) + 1)..(Len(D) + Len(P)) PROVE PageIterator[i] = P[i - Len(D)]
    BY <1>2, <1>3
  <2>3. ASSUME NEW i \in 1..Len(P) PROVE Len(D) + i \in (Len(D) + 1)..(Len(D) + Len(P))
    BY <1>2
  <2>4. ASSUME NEW i \in (Len(D) + 1)..(Len(D) + Len(P)) PROVE i - Len(D) \in 1..Len(P)
    BY <1>2
  <2>5. ASSUME NEW p \in PagesOf("pointer")
        PROVE  p \in {PageIterator[i] : i \in (Len(D) + 1)..(Len(D) + Len(P))}
    <3>1. PICK i \in 1..Len(P) : p = P[i]
      BY <1>5
    <3> QED
      BY <2>1, <2>3, <3>1
  <2>6. ASSUME NEW i \in (Len(D) + 1)..(Len(D) + Len(P))
        PROVE  PageIterator[i] \in PagesOf("pointer")
    BY <1>5, <2>2, <2>4
  <2> HIDE <1>1, <1>2, <1>3, <1>4, <1>5, <1>6
  <2> QED
    BY <2>5, <2>6
<1>8. Page = PagesOf("data") \cup PagesOf("pointer")
  BY DEF Page
<1>9. PagesOf("data") \cap PagesOf("pointer") = {}
  <2> SUFFICES ASSUME NEW i \in 1..Len(D), NEW j \in (Len(D) + 1)..(Len(D) + Len(P)),
                      PageIterator[i] = PageIterator[j]
               PROVE  FALSE
    BY <1>6, <1>7
  <2> QED
    BY <1>2, <1>3, <1>4
<1>10. Page = {PageIterator[i] : i \in DOMAIN PageIterator}
  <2>1. 1..Len(D) \cup (Len(D) + 1)..(Len(D) + Len(P)) = DOMAIN PageIterator
    BY <1>2, <1>3
  <2> QED
    BY <1>6, <1>7, <1>8, <2>1
<1>11. \A p \in Page : SpaceOf(p) \in Space /\ p \in PagesOf(SpaceOf(p))
  BY <1>8 DEF SpaceOf, Space
<1>12. \A s \in Space : Pages[s][1] \in PagesOf(s)
  BY <1>2, <1>5 DEF Space, D, P
<1> QED
  BY <1>2, <1>3, <1>4, <1>8, <1>9, <1>10, <1>11, <1>12

\* Pages are counted from one.
LEMMA IndexIsNat == \A i \in DOMAIN PageIterator : i \in Nat \ {0}
  BY PageFacts

\* There is a thread, and sweeping is concurrent or not.
LEMMA ThreadsFact == Threads \in Nat \ {0} /\ Concurrent \in BOOLEAN
BY SweeperThreadsAssumption

\* There are finitely many pages.
LEMMA PageFinite == IsFiniteSet(Page)
<1>1. IsFiniteSet(DOMAIN PageIterator)
  BY PageFacts, FS_Interval
<1>2. Page = {PageIterator[i] : i \in DOMAIN PageIterator}
  BY PageFacts
<1> DEFINE f == [i \in DOMAIN PageIterator |-> PageIterator[i]]
<1>3. f \in Surjection(DOMAIN PageIterator, Page)
  BY <1>2 DEF Surjection
<1> QED
  BY <1>1, <1>3, FS_Surjection

\* The actions of Next, flattened.
NextIs ==
    \/ \E t \in Thread : \/ WaitForStart(t) \/ TestStop(t) \/ Claim(t)
                         \/ Sweep(t) \/ Concatenate(t) \/ SignalEnd(t)
    \/ Progress \/ WaitForSweeperThread \/ StealData \/ StealPointer
    \/ ResetUnsweptFreeBytes \/ PrepareForMarkCompact \/ SweepSpaces
    \/ SweepSpacesPrecisely \/ StartSweeping \/ Finish \/ Stop \/ Join \/ Prepare
    \/ \E s \in Space : EnsureSweeperProgress(s) \/ \E p \in Page : Allocate(s, p)
    \/ UNCHANGED vars

\* The steps, one by one.
LEMMA NextCases == [Next]_vars => NextIs
BY DEF Next, NextIs, Mutator, Collector, SweeperThread, Terminated

\* A loop over the threads stays within them.
LEMMA NextThreadType ==
    ASSUME thread \in Thread, NEW follows, NextThread(follows)
    PROVE  thread' \in Thread /\ (main' = main \/ main' = follows)
BY ThreadsFact DEF NextThread, Thread

\* What StealMemory leaves.
LEMMA StealMemoryFacts ==
    ASSUME TypeOK, NEW s \in Space, StealMemory(s)
    PROVE  \E stolen \in SUBSET shared[thread][s] :
              /\ stolen = shared[thread][s] \/ stolen = {}
              /\ pc[thread] = "wait" => stolen = shared[thread][s]
              /\ shared' = [shared EXCEPT ![thread][s] = @ \ stolen]
              /\ free_list' = [free_list EXCEPT ![s] = @ \cup stolen]
              /\ unswept' = [unswept EXCEPT ![s] = @ - Cardinality(stolen)]
              /\ shared'[thread][s] = shared[thread][s] \ stolen
              /\ stolen \subseteq Page
<1> DEFINE W == IF pc[thread] = "wait" THEN {} ELSE {{}}
<1>1. thread \in Thread /\ shared[thread] \in [Space -> SUBSET Page]
  BY DEF TypeOK
<1>2. PICK stolen \in {shared[thread][s]} \cup W :
         /\ shared' = [shared EXCEPT ![thread][s] = @ \ stolen]
         /\ free_list' = [free_list EXCEPT ![s] = @ \cup stolen]
         /\ unswept' = [unswept EXCEPT ![s] = @ - Cardinality(stolen)]
  BY DEF StealMemory
<1>3. stolen \in SUBSET shared[thread][s] /\ (stolen = shared[thread][s] \/ stolen = {})
  BY <1>2
<1>4. pc[thread] = "wait" => stolen = shared[thread][s]
  BY <1>2
<1>5. shared'[thread][s] = shared[thread][s] \ stolen
  BY <1>1, <1>2 DEF TypeOK
<1>6. stolen \subseteq Page
  BY <1>1, <1>3
<1> HIDE DEF W
<1> QED
  BY <1>2, <1>3, <1>4, <1>5, <1>6

\* Where the main thread is follows from its own steps.
LEMMA MainPreserved ==
    ASSUME TypeOK, MainInv, [Next]_vars
    PROVE  MainInv'
<1> USE ThreadsFact DEF Thread, MainInv, TypeOK, threadVars, semaphoreVars, mainVars
<1>1. ASSUME NEW t \in Thread, WaitForStart(t) PROVE MainInv'
  BY <1>1 DEF WaitForStart, Wait
<1>2. ASSUME NEW t \in Thread, TestStop(t) PROVE MainInv'
  BY <1>2 DEF TestStop, Signal
<1>3. ASSUME NEW t \in Thread, Claim(t) PROVE MainInv'
  BY <1>3 DEF Claim, TryParallelSweeping
<1>4. ASSUME NEW t \in Thread, Sweep(t) PROVE MainInv'
  BY <1>4 DEF Sweep
<1>5. ASSUME NEW t \in Thread, Concatenate(t) PROVE MainInv'
  BY <1>5 DEF Concatenate
<1>6. ASSUME NEW t \in Thread, SignalEnd(t) PROVE MainInv'
  BY <1>6 DEF SignalEnd, Signal
<1>7. CASE Progress
  <2>1. PICK follows \in {after} \cup (IF after = "evacuate" THEN {} ELSE {"await"}) :
           NextThread(follows)
    BY <1>7 DEF Progress
  <2>2. follows = after \/ follows = "await"
    BY <2>1
  <2>3. CASE thread < Threads
    BY <1>7, <2>1, <2>3 DEF Progress, NextThread
  <2>4. CASE ~ (thread < Threads)
    <3>1. thread' = 1 /\ main' = follows
      BY <2>1, <2>4 DEF NextThread
    <3>2. thread = Threads /\ main' \in {"mutator", "evacuate", "await"}
      BY <1>7, <2>2, <2>4, <3>1 DEF Progress
    <3> QED
      BY <1>7, <2>2, <3>1, <3>2 DEF Progress
  <2> QED
    BY <2>3, <2>4
<1>8. CASE WaitForSweeperThread
  BY <1>8 DEF WaitForSweeperThread, Wait, NextThread
<1>9. CASE StealData
  BY <1>9 DEF StealData, StealMemory
<1>10. CASE StealPointer
  BY <1>10 DEF StealPointer, StealMemory, NextThread
<1>11. CASE ResetUnsweptFreeBytes
  BY <1>11 DEF ResetUnsweptFreeBytes
<1>12. CASE PrepareForMarkCompact
  BY <1>12 DEF PrepareForMarkCompact
<1>13. CASE SweepSpaces
  BY <1>13 DEF SweepSpaces
<1>14. CASE SweepSpacesPrecisely
  BY <1>14 DEF SweepSpacesPrecisely
<1>15. CASE StartSweeping
  <2>1. CASE thread < Threads
    BY <1>15, <2>1 DEF StartSweeping, Signal, NextThread
  <2>2. CASE ~ (thread < Threads)
    <3>1. thread' = 1 /\ main' = (IF Concurrent THEN "evacuate" ELSE "await")
      BY <1>15, <2>2 DEF StartSweeping, NextThread
    <3>2. main' \in {"evacuate", "await"}
      BY <3>1
    <3>3. thread = Threads
      BY <2>2
    <3> QED
      BY <1>15, <3>1, <3>2, <3>3 DEF StartSweeping, Signal
  <2> QED
    BY <2>1, <2>2
<1>16. CASE Finish
  BY <1>16 DEF Finish
<1>17. CASE Stop
  BY <1>17 DEF Stop, Signal
<1>18. CASE Join
  BY <1>18 DEF Join, Wait
<1>19. CASE Prepare
  BY <1>19 DEF Prepare
<1>20. ASSUME NEW s \in Space, NEW q \in Page, Allocate(s, q) PROVE MainInv'
  BY <1>20 DEF Allocate
<1>21. ASSUME NEW s \in Space, EnsureSweeperProgress(s) PROVE MainInv'
  BY <1>21 DEF EnsureSweeperProgress
<1>22. CASE UNCHANGED vars
  BY <1>22 DEF vars
<1> QED
  BY <1>1, <1>2, <1>3, <1>4, <1>5, <1>6, <1>7, <1>8, <1>9, <1>10, <1>11, <1>12, <1>13, <1>14, <1>15, <1>16, <1>17, <1>18, <1>19, <1>20, <1>21, <1>22, NextCases DEF NextIs

\* Only taking the start signal, giving the end signal and leaving matter to the
\* handshake.
LEMMA HandshakeKept ==
    ASSUME NEW u \in Thread, HandshakeOf(u), UNCHANGED mainVars,
           pc'[u] # "exit", pc'[u] = "wait" <=> pc[u] = "wait",
           start_sweeping'[u] = start_sweeping[u], end_sweeping'[u] = end_sweeping[u],
           stop_thread'[u] = stop_thread[u]
    PROVE  HandshakeOf(u)'
BY DEF HandshakeOf, Owing, mainVars

\* The handshake of each thread with the main thread is kept.
LEMMA HandshakePreserved ==
    ASSUME TypeOK, MainInv, Handshake, [Next]_vars
    PROVE  Handshake'
<1> SUFFICES ASSUME NEW u \in Thread, ~ Stopping' PROVE HandshakeOf(u)'
  BY DEF Handshake
<1> USE ThreadsFact DEF Thread, MainInv, Handshake, HandshakeOf, Owing, Stopping, TypeOK, threadVars, semaphoreVars, mainVars
<1>1. ASSUME NEW t \in Thread, WaitForStart(t) PROVE HandshakeOf(u)'
  BY <1>1 DEF WaitForStart, Wait
<1>2. ASSUME NEW t \in Thread, TestStop(t) PROVE HandshakeOf(u)'
  <2>1. UNCHANGED mainVars /\ HandshakeOf(u) /\ HandshakeOf(t)
    BY <1>2 DEF TestStop
  <2>2. /\ pc'[u] = pc[u] \/ (u = t /\ pc[u] = "test" /\ pc'[u] = "claim")
        /\ start_sweeping' = start_sweeping /\ end_sweeping' = end_sweeping
        /\ stop_thread' = stop_thread
    BY <1>2, <2>1 DEF TestStop
  <2>3. pc[u] # "exit"
    BY <2>1
  <2> QED
    BY <2>1, <2>2, <2>3, HandshakeKept
<1>3. ASSUME NEW t \in Thread, Claim(t) PROVE HandshakeOf(u)'
  <2>1. UNCHANGED mainVars /\ HandshakeOf(u)
    BY <1>3 DEF Claim
  <2>2. /\ pc'[u] = pc[u] \/ (pc[u] = "claim" /\ pc'[u] = "sweep")
        /\ UNCHANGED semaphoreVars
    BY <1>3 DEF Claim
  <2>3. pc[u] # "exit"
    BY <2>1
  <2> QED
    BY <2>1, <2>2, <2>3, HandshakeKept
<1>4. ASSUME NEW t \in Thread, Sweep(t) PROVE HandshakeOf(u)'
  BY <1>4 DEF Sweep
<1>5. ASSUME NEW t \in Thread, Concatenate(t) PROVE HandshakeOf(u)'
  <2>1. UNCHANGED mainVars /\ HandshakeOf(u)
    BY <1>5 DEF Concatenate
  <2>2. /\ pc'[u] = pc[u] \/ (pc[u] = "concatenate" /\ pc'[u] = "claim")
        /\ UNCHANGED semaphoreVars
    BY <1>5 DEF Concatenate
  <2>3. pc[u] # "exit"
    BY <2>1
  <2> QED
    BY <2>1, <2>2, <2>3, HandshakeKept
<1>6. ASSUME NEW t \in Thread, SignalEnd(t) PROVE HandshakeOf(u)'
  <2>3. UNCHANGED mainVars /\ HandshakeOf(u)
    BY <1>6 DEF SignalEnd
  <2>1. CASE u = t
    <3>1. /\ pc[u] = "claim" /\ pc'[u] = "wait" /\ end_sweeping'[u] = end_sweeping[u] + 1
          /\ UNCHANGED <<start_sweeping, stop_thread>>
      BY <1>6, <2>1 DEF SignalEnd, Signal
    <3>2. Owing(u) /\ start_sweeping[u] = 0 /\ end_sweeping[u] = 0
      BY <2>3, <3>1
    <3>3. Owing(u)' /\ end_sweeping'[u] = 1
      BY <2>3, <3>1, <3>2
    <3> QED
      BY <2>3, <3>1, <3>2, <3>3
  <2>2. CASE u # t
    <3>1. /\ pc'[u] = pc[u] /\ end_sweeping'[u] = end_sweeping[u]
          /\ UNCHANGED <<start_sweeping, stop_thread>>
      BY <1>6, <2>2 DEF SignalEnd, Signal
    <3> QED
      BY <2>3, <3>1, HandshakeKept
  <2> QED
    BY <2>1, <2>2
<1>7. CASE Progress
  <2>1. PICK follows \in {after} \cup (IF after = "evacuate" THEN {} ELSE {"await"}) :
           NextThread(follows)
    BY <1>7 DEF Progress
  <2>2. follows = after \/ follows = "await"
    BY <2>1
  <2>3. CASE thread < Threads
    BY <1>7, <2>1, <2>3 DEF Progress, NextThread
  <2>4. CASE ~ (thread < Threads)
    <3>1. thread' = 1 /\ main' = follows
      BY <2>1, <2>4 DEF NextThread
    <3>2. thread = Threads /\ main' \in {"mutator", "evacuate", "await"}
      BY <1>7, <2>2, <2>4, <3>1 DEF Progress
    <3> QED
      BY <1>7, <2>2, <3>1, <3>2 DEF Progress
  <2> QED
    BY <2>3, <2>4
<1>8. CASE WaitForSweeperThread
  <2>1. CASE thread < Threads
    <3>1. thread' = thread + 1 /\ main' = "await" /\ sweeping_pending'
      BY <1>8, <2>1 DEF WaitForSweeperThread, NextThread
    <3>2. CASE u = thread
      BY <1>8, <3>1, <3>2 DEF WaitForSweeperThread, Wait
    <3>3. CASE u # thread
      <4>1. u >= thread' <=> u >= thread
        BY <3>1, <3>3
      <4> QED
        BY <1>8, <3>1, <3>3, <4>1 DEF WaitForSweeperThread, Wait
    <3> QED
      BY <3>2, <3>3
  <2>2. CASE ~ (thread < Threads)
    <3>1. thread' = 1 /\ main' = "reset" /\ ~ sweeping_pending' /\ thread = Threads
      BY <1>8, <2>2 DEF WaitForSweeperThread, NextThread
    <3>2. u = thread \/ u < thread
      BY <3>1
    <3> QED
      BY <1>8, <3>1, <3>2 DEF WaitForSweeperThread, Wait
  <2> QED
    BY <2>1, <2>2
<1>9. CASE StealData
  BY <1>9 DEF StealData, StealMemory
<1>10. CASE StealPointer
  BY <1>10 DEF StealPointer, StealMemory, NextThread
<1>11. CASE ResetUnsweptFreeBytes
  BY <1>11 DEF ResetUnsweptFreeBytes
<1>12. CASE PrepareForMarkCompact
  BY <1>12 DEF PrepareForMarkCompact
<1>13. CASE SweepSpaces
  BY <1>13 DEF SweepSpaces
<1>14. CASE SweepSpacesPrecisely
  BY <1>14 DEF SweepSpacesPrecisely
<1>15. CASE StartSweeping
  <2>1. CASE thread < Threads
    <3>1. thread' = thread + 1 /\ main' = "start"
      BY <1>15, <2>1 DEF StartSweeping, NextThread
    <3>2. CASE u = thread
      BY <1>15, <3>1, <3>2 DEF StartSweeping, Signal
    <3>3. CASE u # thread
      <4>1. u < thread' <=> u < thread
        BY <3>1, <3>3
      <4> QED
        BY <1>15, <3>1, <3>3, <4>1 DEF StartSweeping, Signal
    <3> QED
      BY <3>2, <3>3
  <2>2. CASE ~ (thread < Threads)
    <3>1. thread' = 1 /\ main' = (IF Concurrent THEN "evacuate" ELSE "await")
      BY <1>15, <2>2 DEF StartSweeping, NextThread
    <3>2. main' \in {"evacuate", "await"}
      BY <3>1
    <3>3. thread = Threads
      BY <2>2
    <3> QED
      BY <1>15, <3>1, <3>2, <3>3 DEF StartSweeping, Signal
  <2> QED
    BY <2>1, <2>2
<1>16. CASE Finish
  BY <1>16 DEF Finish
<1>17. CASE Stop
  BY <1>17 DEF Stop, Signal
<1>18. CASE Join
  BY <1>18 DEF Join, Wait
<1>19. CASE Prepare
  BY <1>19 DEF Prepare
<1>20. ASSUME NEW s \in Space, NEW q \in Page, Allocate(s, q) PROVE HandshakeOf(u)'
  BY <1>20 DEF Allocate
<1>21. ASSUME NEW s \in Space, EnsureSweeperProgress(s) PROVE HandshakeOf(u)'
  BY <1>21 DEF EnsureSweeperProgress
<1>22. CASE UNCHANGED vars
  BY <1>22 DEF vars
<1> QED
  BY <1>1, <1>2, <1>3, <1>4, <1>5, <1>6, <1>7, <1>8, <1>9, <1>10, <1>11, <1>12, <1>13, <1>14, <1>15, <1>16, <1>17, <1>18, <1>19, <1>20, <1>21, <1>22, NextCases DEF NextIs

\* The types are kept.
LEMMA TypePreserved ==
    ASSUME TypeOK, MainInv, Walked, [Next]_vars
    PROVE  TypeOK'
<1> USE DEF TypeOK, Signal, Wait, threadVars, semaphoreVars, mainVars
<1>1. ASSUME NEW t \in Thread, WaitForStart(t) PROVE TypeOK'
  BY <1>1 DEF WaitForStart, Wait
<1>2. ASSUME NEW t \in Thread, TestStop(t) PROVE TypeOK'
  <2>1. pc' \in [Thread -> {"wait", "test", "claim", "sweep", "concatenate", "exit"}] /\ stop_semaphore' \in [Thread -> Nat] /\ at' \in [Thread -> Nat \ {0}]
    <3>1. CASE stop_thread[t]
      BY <1>2, <3>1 DEF TestStop
    <3>2. CASE ~ stop_thread[t]
      <4>1. /\ pc' = [pc EXCEPT ![t] = "claim"] /\ at' = [at EXCEPT ![t] = 1]
            /\ stop_semaphore' = stop_semaphore
        BY <1>2, <3>2 DEF TestStop
      <4> QED
        BY <4>1
    <3> QED
      BY <3>1, <3>2
  <2> QED
    BY <1>2, <2>1 DEF TestStop
<1>3. ASSUME NEW t \in Thread, Claim(t) PROVE TypeOK'
  <2>1. pc' \in [Thread -> {"wait", "test", "claim", "sweep", "concatenate", "exit"}] /\ at' \in [Thread -> Nat \ {0}] /\ parallel_sweeping' \subseteq Page
    <3>1. CASE PageIterator[at[t]] \in parallel_sweeping
      BY <1>3, <3>1 DEF Claim, TryParallelSweeping
    <3>2. CASE PageIterator[at[t]] \notin parallel_sweeping
      <4>1. at' = [at EXCEPT ![t] = @ + 1] /\ pc' = pc /\ parallel_sweeping' = parallel_sweeping
        BY <1>3, <3>2 DEF Claim
      <4> QED
        BY <4>1
    <3> QED
      BY <3>1, <3>2
  <2> QED
    BY <1>3, <2>1 DEF Claim
<1>4. ASSUME NEW t \in Thread, Sweep(t) PROVE TypeOK'
  <2>1. PageIterator[at[t]] \in Page
    BY <1>4, PageFacts DEF Walked, WalkedBy, Sweep
  <2>2. PICK freed \in SUBSET {PageIterator[at[t]]} :
           private' = [private EXCEPT ![t] = @ \cup freed]
    BY <1>4 DEF Sweep
  <2>3. freed \subseteq Page
    BY <2>1, <2>2
  <2>4. private' \in [Thread -> SUBSET Page]
    BY <2>2, <2>3
  <2> QED
    BY <1>4, <2>4 DEF Sweep
<1>5. ASSUME NEW t \in Thread, Concatenate(t) PROVE TypeOK'
  <2>1. SpaceOf(PageIterator[at[t]]) \in Space
    BY <1>5, PageFacts DEF Walked, WalkedBy, Concatenate
  <2>2. shared' \in [Thread -> [Space -> SUBSET Page]] /\ private' \in [Thread -> SUBSET Page]
    BY <1>5, <2>1 DEF Concatenate
  <2>3. at' \in [Thread -> Nat \ {0}] /\ pc' \in [Thread -> {"wait", "test", "claim", "sweep", "concatenate", "exit"}]
    BY <1>5 DEF Concatenate
  <2> QED
    BY <1>5, <2>2, <2>3 DEF Concatenate
<1>6. ASSUME NEW t \in Thread, SignalEnd(t) PROVE TypeOK'
  BY <1>6 DEF SignalEnd, Signal
<1>7. CASE Progress
  <2>1. PICK stolen \in SUBSET shared[thread][steal] :
           /\ shared' = [shared EXCEPT ![thread][steal] = @ \ stolen]
           /\ free_list' = [free_list EXCEPT ![steal] = @ \cup stolen]
           /\ unswept' = [unswept EXCEPT ![steal] = @ - Cardinality(stolen)]
           /\ stolen \subseteq Page
    <3>1. steal \in Space /\ StealMemory(steal)
      BY <1>7 DEF Progress, Space
    <3> HIDE DEF TypeOK
    <3> QED
      BY <3>1, StealMemoryFacts
  <2>2. IsFiniteSet(stolen) /\ Cardinality(stolen) \in Nat
    BY <2>1, PageFinite, FS_Subset, FS_CardinalityType
  <2>3. shared' \in [Thread -> [Space -> SUBSET Page]]
    BY <2>1
  <2>4. free_list' \in [Space -> SUBSET Page]
    BY <2>1
  <2>5. unswept' \in [Space -> Int]
    BY <2>1, <2>2
  <2>6. thread' \in Thread /\ main' \in {"progress", "mutator", "prepare", "evacuate", "await"}
    <3>1. PICK follows \in {after} \cup (IF after = "evacuate" THEN {} ELSE {"await"}) :
             NextThread(follows)
      BY <1>7 DEF Progress
    <3>2. follows \in {"mutator", "prepare", "evacuate", "await"} /\ main = "progress"
      BY <1>7, <3>1 DEF Progress
    <3>3. thread \in Thread
      OBVIOUS
    <3> HIDE DEF TypeOK
    <3> QED
      BY <3>1, <3>2, <3>3, NextThreadType
  <2>7. steal' \in Space
    BY <1>7 DEF Progress, Space
  <2> QED
    BY <1>7, <2>3, <2>4, <2>5, <2>6, <2>7 DEF Progress
<1>8. CASE WaitForSweeperThread
  <2>1. thread' \in Thread /\ main' \in {"mutator", "progress", "await", "reset", "swept", "prepare", "marking", "start", "evacuate", "stop", "join", "done"}
    <3>1. CASE thread < Threads
      BY <1>8, <3>1, ThreadsFact DEF WaitForSweeperThread, NextThread, Thread
    <3>2. CASE ~ (thread < Threads)
      BY <1>8, <3>2, ThreadsFact DEF WaitForSweeperThread, NextThread, Thread
    <3> QED
      BY <3>1, <3>2
  <2>2. end_sweeping' \in [Thread -> Nat] /\ sweeping_pending' \in BOOLEAN /\ steal' \in Space
    BY <1>8 DEF WaitForSweeperThread, Space
  <2> QED
    BY <1>8, <2>1, <2>2 DEF WaitForSweeperThread
<1>9. CASE StealData
  <2>1. PICK stolen \in SUBSET shared[thread]["data"] :
           /\ shared' = [shared EXCEPT ![thread]["data"] = @ \ stolen]
           /\ free_list' = [free_list EXCEPT !["data"] = @ \cup stolen]
           /\ unswept' = [unswept EXCEPT !["data"] = @ - Cardinality(stolen)]
           /\ stolen \subseteq Page
    <3>1. "data" \in Space /\ StealMemory("data")
      BY <1>9 DEF StealData, Space
    <3> HIDE DEF TypeOK
    <3> QED
      BY <3>1, StealMemoryFacts
  <2>2. IsFiniteSet(stolen) /\ Cardinality(stolen) \in Nat
    BY <2>1, PageFinite, FS_Subset, FS_CardinalityType
  <2>8. "data" \in Space /\ thread \in Thread
    BY DEF Space
  <2>3. shared' \in [Thread -> [Space -> SUBSET Page]]
    BY <2>1, <2>8
  <2>4. free_list' \in [Space -> SUBSET Page]
    BY <2>1
  <2>5. unswept' \in [Space -> Int]
    BY <2>1, <2>2, <2>8
  <2>6. thread' \in Thread /\ main' \in {"reset"}
    BY <1>9, ThreadsFact DEF StealData, NextThread, Thread
  <2>7. steal' \in Space
    BY <1>9 DEF StealData, Space
  <2> QED
    BY <1>9, <2>3, <2>4, <2>5, <2>6, <2>7 DEF StealData
<1>10. CASE StealPointer
  <2>1. PICK stolen \in SUBSET shared[thread]["pointer"] :
           /\ shared' = [shared EXCEPT ![thread]["pointer"] = @ \ stolen]
           /\ free_list' = [free_list EXCEPT !["pointer"] = @ \cup stolen]
           /\ unswept' = [unswept EXCEPT !["pointer"] = @ - Cardinality(stolen)]
           /\ stolen \subseteq Page
    <3>1. "pointer" \in Space /\ StealMemory("pointer")
      BY <1>10 DEF StealPointer, Space
    <3> HIDE DEF TypeOK
    <3> QED
      BY <3>1, StealMemoryFacts
  <2>2. IsFiniteSet(stolen) /\ Cardinality(stolen) \in Nat
    BY <2>1, PageFinite, FS_Subset, FS_CardinalityType
  <2>8. "pointer" \in Space /\ thread \in Thread
    BY DEF Space
  <2>3. shared' \in [Thread -> [Space -> SUBSET Page]]
    BY <2>1, <2>8
  <2>4. free_list' \in [Space -> SUBSET Page]
    BY <2>1
  <2>5. unswept' \in [Space -> Int]
    BY <2>1, <2>2, <2>8
  <2>6. thread' \in Thread /\ main' \in {"reset", "swept"}
    <3>1. NextThread("swept") /\ main = "reset" /\ thread \in Thread
      BY <1>10 DEF StealPointer
    <3> HIDE DEF TypeOK
    <3> QED
      BY <3>1, NextThreadType
  <2>7. steal' \in Space
    BY <1>10 DEF StealPointer, Space
  <2> QED
    BY <1>10, <2>3, <2>4, <2>5, <2>6, <2>7 DEF StealPointer
<1>11. CASE ResetUnsweptFreeBytes
  BY <1>11 DEF ResetUnsweptFreeBytes
<1>12. CASE PrepareForMarkCompact
  BY <1>12 DEF PrepareForMarkCompact
<1>13. CASE SweepSpaces
  <2>1. PICK freed \in SUBSET {Pages[s][1] : s \in Space} :
           free_list' = [s \in Space |-> free_list[s] \cup (freed \cap PagesOf(s))]
    BY <1>13 DEF SweepSpaces
  <2>2. \A s \in Space : PagesOf(s) \subseteq Page
    BY DEF Page, Space
  <2>3. free_list' \in [Space -> SUBSET Page]
    BY <2>1, <2>2
  <2>4. \A s \in Space : Len(Pages[s]) \in Nat
    BY SweeperThreadsAssumption
  <2>5. unswept' \in [Space -> Int]
    BY <1>13, <2>4 DEF SweepSpaces
  <2>6. parallel_sweeping' \subseteq Page
    BY <1>13 DEF SweepSpaces
  <2> QED
    BY <1>13, <2>3, <2>5, <2>6 DEF SweepSpaces
<1>14. CASE SweepSpacesPrecisely
  BY <1>14 DEF SweepSpacesPrecisely
<1>15. CASE StartSweeping
  <2>1. thread' \in Thread /\ main' \in {"start", "evacuate", "await"}
    <3>1. CASE thread < Threads
      BY <1>15, <3>1, ThreadsFact DEF StartSweeping, NextThread, Thread
    <3>2. CASE ~ (thread < Threads)
      <4>1. thread' = 1 /\ main' = (IF Concurrent THEN "evacuate" ELSE "await")
        BY <1>15, <3>2 DEF StartSweeping, NextThread
      <4> QED
        BY <4>1, ThreadsFact DEF Thread
    <3> QED
      BY <3>1, <3>2
  <2>2. start_sweeping' \in [Thread -> Nat]
    BY <1>15 DEF StartSweeping
  <2> QED
    BY <1>15, <2>1, <2>2 DEF StartSweeping
<1>16. CASE Finish
  BY <1>16 DEF Finish
<1>17. CASE Stop
  BY <1>17 DEF Stop, Signal
<1>18. CASE Join
  <2>1. thread' \in Thread /\ main' \in {"stop", "done"}
    <3>1. CASE thread < Threads
      BY <1>18, <3>1, ThreadsFact DEF Join, Thread
    <3>2. CASE ~ (thread < Threads)
      BY <1>18, <3>2, ThreadsFact DEF Join, Thread
    <3> QED
      BY <3>1, <3>2
  <2>2. stop_semaphore' \in [Thread -> Nat]
    BY <1>18 DEF Join
  <2> QED
    BY <1>18, <2>1, <2>2 DEF Join
<1>19. CASE Prepare
  BY <1>19 DEF Prepare
<1>20. ASSUME NEW s \in Space, NEW q \in Page, Allocate(s, q) PROVE TypeOK'
  BY <1>20 DEF Allocate
<1>21. ASSUME NEW s \in Space, EnsureSweeperProgress(s) PROVE TypeOK'
  BY <1>21 DEF EnsureSweeperProgress
<1>22. CASE UNCHANGED vars
  BY <1>22 DEF vars
<1> QED
  BY <1>1, <1>2, <1>3, <1>4, <1>5, <1>6, <1>7, <1>8, <1>9, <1>10, <1>11, <1>12, <1>13, <1>14, <1>15, <1>16, <1>17, <1>18, <1>19, <1>20, <1>21, <1>22, NextCases DEF NextIs

\* What the threads have walked past stays claimed.
LEMMA WalkedPreserved ==
    ASSUME TypeOK, MainInv, Handshake, Walked, [Next]_vars
    PROVE  Walked'
<1> USE ThreadsFact DEF Thread, MainInv, Handshake, HandshakeOf, Owing, Stopping, Walked, WalkedBy, TypeOK, threadVars, semaphoreVars, mainVars
<1>1. ASSUME NEW t \in Thread, WaitForStart(t) PROVE Walked'
  BY <1>1 DEF WaitForStart, Wait
<1>2. ASSUME NEW t \in Thread, TestStop(t) PROVE Walked'
  <2>1. ASSUME NEW u \in Thread PROVE WalkedBy(u)'
    <3>1. CASE u = t
      <4>1. CASE stop_thread[t]
        BY <1>2, <3>1, <4>1 DEF TestStop, Signal
      <4>2. CASE ~ stop_thread[t]
        <5>1. pc'[t] = "claim" /\ at'[t] = 1 /\ private' = private
          BY <1>2, <4>2 DEF TestStop
        <5>2. \A i \in DOMAIN PageIterator : ~ (i < 1)
          BY PageFacts
        <5>3. private[t] = {} /\ (~ Stopping' /\ end_sweeping'[t] > 0 => parallel_sweeping' = {})
          BY <1>2 DEF TestStop
        <5> QED
          BY <3>1, <5>1, <5>2, <5>3
      <4> QED
        BY <4>1, <4>2
    <3>2. CASE u # t
      BY <1>2, <3>2 DEF TestStop, Signal
    <3> QED
      BY <3>1, <3>2
  <2>2. /\ (main' = "await" /\ thread' > 1) => parallel_sweeping' = {}
        /\ ~ sweeping_pending' /\ main' # "start" /\ ~ Stopping' => parallel_sweeping' = {}
    BY <1>2 DEF TestStop, Signal
  <2> QED
    BY <2>1, <2>2
<1>3. ASSUME NEW t \in Thread, Claim(t) PROVE Walked'
  <2>1. ASSUME NEW u \in Thread PROVE WalkedBy(u)'
    <3>1. CASE u = t
      <4>1. CASE PageIterator[at[t]] \in parallel_sweeping
        <5>1. pc'[t] = "sweep" /\ at' = at /\ private' = private /\ end_sweeping' = end_sweeping
          BY <1>3, <4>1 DEF Claim, TryParallelSweeping
        <5>2. parallel_sweeping' = parallel_sweeping \ {PageIterator[at[t]]} /\ main' = main
          BY <1>3, <4>1 DEF Claim, TryParallelSweeping
        <5>3. private[t] = {} /\ \A i \in DOMAIN PageIterator :
                 i < at[t] => PageIterator[i] \notin parallel_sweeping
          BY <1>3 DEF Claim
        <5>4. at[t] \in Nat \ {0} /\ at[t] <= Len(PageIterator)
          BY <1>3 DEF Claim
        <5>5. at[t] \in DOMAIN PageIterator
          BY <5>4, PageFacts
        <5> QED
          BY <3>1, <5>1, <5>2, <5>3, <5>5
      <4>3. CASE PageIterator[at[t]] \notin parallel_sweeping
        <5>1. /\ at'[t] = at[t] + 1 /\ pc' = pc /\ private' = private /\ end_sweeping' = end_sweeping
              /\ parallel_sweeping' = parallel_sweeping /\ main' = main /\ pc[t] = "claim"
          BY <1>3, <4>3 DEF Claim
        <5>2. \A i \in DOMAIN PageIterator : i < at[t] + 1 => PageIterator[i] \notin parallel_sweeping
          <6>1. ASSUME NEW i \in DOMAIN PageIterator, i < at[t] + 1 PROVE i < at[t] \/ i = at[t]
            <7>1. i \in Nat /\ at[t] \in Nat
              BY IndexIsNat
            <7> QED
              BY ONLY <6>1, <7>1
          <6> QED
            BY <4>3, <5>1, <6>1
        <5> QED
          BY <3>1, <5>1, <5>2
      <4> QED
        BY <4>1, <4>3
    <3>2. CASE u # t
      <4> HIDE DEF MainInv, Handshake, HandshakeOf, Owing, Stopping, Walked, WalkedBy
      <4>1. /\ pc'[u] = pc[u] /\ at'[u] = at[u] /\ private' = private
            /\ end_sweeping' = end_sweeping /\ main' = main
            /\ parallel_sweeping' \subseteq parallel_sweeping
        BY <1>3, <3>2 DEF Claim, TryParallelSweeping
      <4>2. WalkedBy(u) /\ (Stopping' <=> Stopping)
        BY <4>1 DEF Walked, Stopping
      <4> QED
        BY ONLY <4>1, <4>2 DEF WalkedBy
    <3> QED
      BY <3>1, <3>2
  <2>2. /\ (main' = "await" /\ thread' > 1) => parallel_sweeping' = {}
        /\ ~ sweeping_pending' /\ main' # "start" /\ ~ Stopping' => parallel_sweeping' = {}
    BY <1>3 DEF Claim, TryParallelSweeping
  <2> QED
    BY <2>1, <2>2
<1>4. ASSUME NEW t \in Thread, Sweep(t) PROVE Walked'
  <2>1. PICK freed \in SUBSET {PageIterator[at[t]]} :
           private' = [private EXCEPT ![t] = @ \cup freed]
    BY <1>4 DEF Sweep
  <2>2. private'[t] \subseteq {PageIterator[at[t]]} /\ \A u \in Thread \ {t} : private'[u] = private[u]
    BY <1>4, <2>1 DEF Sweep
  <2>3. ASSUME NEW u \in Thread PROVE WalkedBy(u)'
    <3>1. CASE u = t
      BY <1>4, <2>2, <3>1 DEF Sweep
    <3>2. CASE u # t
      BY <1>4, <2>2, <3>2 DEF Sweep
    <3> QED
      BY <3>1, <3>2
  <2> QED
    BY <1>4, <2>3 DEF Sweep
<1>5. ASSUME NEW t \in Thread, Concatenate(t) PROVE Walked'
  <2>1. ASSUME NEW u \in Thread PROVE WalkedBy(u)'
    <3>1. CASE u = t
      <4>1. /\ at'[t] = at[t] + 1 /\ pc'[t] = "claim" /\ private'[t] = {}
            /\ end_sweeping' = end_sweeping /\ parallel_sweeping' = parallel_sweeping
            /\ main' = main /\ pc[t] = "concatenate"
        BY <1>5 DEF Concatenate
      <4>2. \A i \in DOMAIN PageIterator : i < at[t] + 1 => PageIterator[i] \notin parallel_sweeping
        <5>1. ASSUME NEW i \in DOMAIN PageIterator, i < at[t] + 1 PROVE i < at[t] \/ i = at[t]
          <6>1. i \in Nat /\ at[t] \in Nat
            BY IndexIsNat
          <6> QED
            BY ONLY <5>1, <6>1
        <5> QED
          BY <4>1, <5>1
      <4> QED
        BY <3>1, <4>1, <4>2
    <3>2. CASE u # t
      BY <1>5, <3>2 DEF Concatenate
    <3> QED
      BY <3>1, <3>2
  <2>2. /\ (main' = "await" /\ thread' > 1) => parallel_sweeping' = {}
        /\ ~ sweeping_pending' /\ main' # "start" /\ ~ Stopping' => parallel_sweeping' = {}
    BY <1>5 DEF Concatenate
  <2> QED
    BY <2>1, <2>2
<1>6. ASSUME NEW t \in Thread, SignalEnd(t) PROVE Walked'
  <2>1. ASSUME NEW u \in Thread PROVE WalkedBy(u)'
    <3>1. CASE u = t
      <4>1. /\ pc[t] = "claim" /\ at[t] > Len(PageIterator) /\ pc'[t] = "wait"
            /\ private' = private /\ parallel_sweeping' = parallel_sweeping
        BY <1>6 DEF SignalEnd
      <4>2. \A i \in DOMAIN PageIterator : PageIterator[i] \notin parallel_sweeping
        <5>1. \A i \in DOMAIN PageIterator : i < at[t]
          <6>1. DOMAIN PageIterator = 1..Len(PageIterator) /\ Len(PageIterator) \in Nat
            BY PageFacts
          <6>2. at[t] \in Nat /\ at[t] > Len(PageIterator)
            BY <4>1 DEF TypeOK
          <6> HIDE DEF TypeOK, WalkedBy
          <6> QED
            BY <6>1, <6>2
        <5> QED
          BY <4>1, <5>1
      <4>3. parallel_sweeping = {}
        <5> SUFFICES ASSUME NEW p \in parallel_sweeping PROVE FALSE
          OBVIOUS
        <5>1. p \in Page
          OBVIOUS
        <5>2. PICK i \in DOMAIN PageIterator : p = PageIterator[i]
          BY <5>1, PageFacts
        <5> QED
          BY <4>2, <5>2
      <4> QED
        BY <3>1, <4>1, <4>3
    <3>2. CASE u # t
      BY <1>6, <3>2 DEF SignalEnd, Signal
    <3> QED
      BY <3>1, <3>2
  <2>2. /\ (main' = "await" /\ thread' > 1) => parallel_sweeping' = {}
        /\ ~ sweeping_pending' /\ main' # "start" /\ ~ Stopping' => parallel_sweeping' = {}
    BY <1>6 DEF SignalEnd, Signal
  <2> QED
    BY <2>1, <2>2
<1>7. CASE Progress
  <2>1. PICK follows \in {after} \cup (IF after = "evacuate" THEN {} ELSE {"await"}) :
           NextThread(follows)
    BY <1>7 DEF Progress
  <2>2. CASE thread < Threads
    BY <1>7, <2>1, <2>2 DEF Progress, NextThread
  <2>3. CASE ~ (thread < Threads)
    <3>1. thread' = 1 /\ main' \in {"mutator", "evacuate", "await"}
      BY <1>7, <2>1, <2>3 DEF Progress, NextThread
    <3> QED
      BY <1>7, <3>1 DEF Progress
  <2> QED
    BY <2>2, <2>3
<1>8. CASE WaitForSweeperThread
  BY <1>8 DEF WaitForSweeperThread, Wait, NextThread
<1>9. CASE StealData
  BY <1>9 DEF StealData, StealMemory
<1>10. CASE StealPointer
  BY <1>10 DEF StealPointer, StealMemory, NextThread
<1>11. CASE ResetUnsweptFreeBytes
  BY <1>11 DEF ResetUnsweptFreeBytes
<1>12. CASE PrepareForMarkCompact
  BY <1>12 DEF PrepareForMarkCompact
<1>13. CASE SweepSpaces
  BY <1>13 DEF SweepSpaces
<1>14. CASE SweepSpacesPrecisely
  BY <1>14 DEF SweepSpacesPrecisely
<1>15. CASE StartSweeping
  BY <1>15 DEF StartSweeping, Signal, NextThread
<1>16. CASE Finish
  BY <1>16 DEF Finish
<1>17. CASE Stop
  BY <1>17 DEF Stop, Signal
<1>18. CASE Join
  BY <1>18 DEF Join, Wait
<1>19. CASE Prepare
  BY <1>19 DEF Prepare
<1>20. ASSUME NEW s \in Space, NEW q \in Page, Allocate(s, q) PROVE Walked'
  BY <1>20 DEF Allocate
<1>21. ASSUME NEW s \in Space, EnsureSweeperProgress(s) PROVE Walked'
  BY <1>21 DEF EnsureSweeperProgress
<1>22. CASE UNCHANGED vars
  BY <1>22 DEF vars
<1> QED
  BY <1>1, <1>2, <1>3, <1>4, <1>5, <1>6, <1>7, <1>8, <1>9, <1>10, <1>11, <1>12, <1>13, <1>14, <1>15, <1>16, <1>17, <1>18, <1>19, <1>20, <1>21, <1>22, NextCases DEF NextIs

\* What the main thread has emptied stays empty.
LEMMA EmptiedPreserved ==
    ASSUME TypeOK, MainInv, Handshake, Walked, Emptied, [Next]_vars
    PROVE  Emptied'
<1> USE ThreadsFact DEF Thread, MainInv, Handshake, HandshakeOf, Owing, Stopping, Emptied, TypeOK, threadVars, semaphoreVars, mainVars
<1>1. ASSUME NEW t \in Thread, WaitForStart(t) PROVE Emptied'
  BY <1>1 DEF WaitForStart, Wait
<1>2. ASSUME NEW t \in Thread, TestStop(t) PROVE Emptied'
  BY <1>2 DEF TestStop, Signal
<1>3. ASSUME NEW t \in Thread, Claim(t) PROVE Emptied'
  BY <1>3 DEF Claim, TryParallelSweeping
<1>4. ASSUME NEW t \in Thread, Sweep(t) PROVE Emptied'
  BY <1>4 DEF Sweep
<1>5. ASSUME NEW t \in Thread, Concatenate(t) PROVE Emptied'
  BY <1>5 DEF Concatenate
<1>6. ASSUME NEW t \in Thread, SignalEnd(t) PROVE Emptied'
  BY <1>6 DEF SignalEnd, Signal
<1>7. CASE Progress
  BY <1>7 DEF Progress, StealMemory, NextThread
<1>8. CASE WaitForSweeperThread
  <2>1. shared' = shared /\ free_list' = free_list /\ steal' = "data" /\ thread' \in Nat
    BY <1>8 DEF WaitForSweeperThread, NextThread
  <2>2. CASE thread < Threads
    BY <1>8, <2>1, <2>2 DEF WaitForSweeperThread, NextThread
  <2>3. CASE ~ (thread < Threads)
    BY <1>8, <2>1, <2>3 DEF WaitForSweeperThread, NextThread
  <2> QED
    BY <2>2, <2>3
<1>9. CASE StealData
  BY <1>9 DEF StealData, StealMemory
<1>10. CASE StealPointer
  <2>1. "pointer" \in Space /\ "data" \in Space /\ Space = {"data", "pointer"}
    BY DEF Space
  <2>2. pc[thread] = "wait"
    BY <1>10 DEF StealPointer
  <2>3. /\ shared' = [shared EXCEPT ![thread]["pointer"] = {}]
        /\ free_list' = [free_list EXCEPT !["pointer"] = @ \cup shared[thread]["pointer"]]
    BY <1>10, <2>1, <2>2, StealMemoryFacts DEF StealPointer
  <2>4. shared'[thread]["pointer"] = {} /\ shared'[thread]["data"] = {}
    BY <1>10, <2>1, <2>3 DEF StealPointer
  <2>5. \A t \in Thread \ {thread} : shared'[t] = shared[t]
    BY <2>3
  <2>8. \A t \in Thread : /\ shared'[t]["data"] = {}
                          /\ t <= thread => shared'[t]["pointer"] = {}
    <3> SUFFICES ASSUME NEW t \in Thread
                 PROVE  shared'[t]["data"] = {} /\ (t <= thread => shared'[t]["pointer"] = {})
      OBVIOUS
    <3>1. CASE t = thread
      BY <2>4, <3>1
    <3>2. CASE t # thread
      <4>1. shared'[t] = shared[t] /\ (t <= thread => t < thread)
        BY <2>5, <3>2
      <4>2. main = "reset" /\ steal = "pointer"
        BY <1>10 DEF StealPointer
      <4> QED
        BY <4>1, <4>2
    <3> QED
      BY <3>1, <3>2
  <2>6. CASE thread < Threads
    <3>1. main' = "reset" /\ steal' = "pointer" /\ thread' = thread + 1
      BY <1>10, <2>6 DEF StealPointer, NextThread
    <3>2. \A t \in Thread : t < thread' => t <= thread
      BY <3>1
    <3>3. main' = "reset" => \A t \in Thread :
             /\ (steal' = "pointer" \/ t < thread') => shared'[t]["data"] = {}
             /\ (steal' = "pointer" /\ t < thread') => shared'[t]["pointer"] = {}
      <4> HIDE DEF TypeOK, Thread
      <4> QED
        BY <2>8, <3>2
    <3> QED
      BY <1>10, <3>1, <3>3 DEF StealPointer
  <2>7. CASE ~ (thread < Threads)
    <3>1. main' = "swept" /\ thread = Threads
      BY <1>10, <2>7 DEF StealPointer, NextThread
    <3>2. \A t \in Thread : shared'[t]["data"] = {} /\ shared'[t]["pointer"] = {}
      <4>1. \A t \in Thread : t <= thread
        BY <3>1
      <4> HIDE DEF TypeOK, Thread
      <4> QED
        BY <2>8, <4>1
    <3> QED
      BY <2>1, <3>1, <3>2
  <2> QED
    BY <2>6, <2>7
<1>11. CASE ResetUnsweptFreeBytes
  BY <1>11 DEF ResetUnsweptFreeBytes
<1>12. CASE PrepareForMarkCompact
  BY <1>12 DEF PrepareForMarkCompact
<1>13. CASE SweepSpaces
  BY <1>13 DEF SweepSpaces
<1>14. CASE SweepSpacesPrecisely
  BY <1>14 DEF SweepSpacesPrecisely
<1>15. CASE StartSweeping
  <2>1. /\ shared' = shared /\ free_list' = free_list /\ sweeping_pending'
        /\ main' \in {"start", "evacuate", "await"} /\ (main' = "start" => thread' > 1)
    <3> HIDE DEF MainInv, Handshake, HandshakeOf, Owing, Emptied
    <3> QED
      BY <1>15 DEF StartSweeping, NextThread
  <2> QED
    BY <2>1
<1>16. CASE Finish
  BY <1>16 DEF Finish
<1>17. CASE Stop
  BY <1>17 DEF Stop, Signal
<1>18. CASE Join
  BY <1>18 DEF Join, Wait
<1>19. CASE Prepare
  BY <1>19 DEF Prepare
<1>20. ASSUME NEW s \in Space, NEW q \in Page, Allocate(s, q) PROVE Emptied'
  BY <1>20 DEF Allocate
<1>21. ASSUME NEW s \in Space, EnsureSweeperProgress(s) PROVE Emptied'
  BY <1>21 DEF EnsureSweeperProgress
<1>22. CASE UNCHANGED vars
  BY <1>22 DEF vars
<1> QED
  BY <1>1, <1>2, <1>3, <1>4, <1>5, <1>6, <1>7, <1>8, <1>9, <1>10, <1>11, <1>12, <1>13, <1>14, <1>15, <1>16, <1>17, <1>18, <1>19, <1>20, <1>21, <1>22, NextCases DEF NextIs

(* EachPageOnce, said of one page. *)
InSweep(t, p) == pc[t] = "sweep" /\ p = PageIterator[at[t]]
Has(t, p) == InSweep(t, p) \/ p \in private[t] \/ \E s \in Space : p \in shared[t][s]
Placed(p) ==
    /\ \A t \in Thread :
          /\ Has(t, p) => p \notin parallel_sweeping /\ \A s \in Space : p \notin free_list[s]
          /\ InSweep(t, p) => p \notin private[t]
          /\ \A s \in Space : p \in shared[t][s] =>
                ~ InSweep(t, p) /\ p \notin private[t] /\ p \in PagesOf(s)
          /\ \A u \in Thread : Has(t, p) /\ Has(u, p) => t = u
    /\ \A s \in Space : p \in free_list[s] => p \notin parallel_sweeping /\ p \in PagesOf(s)

\* Each page once, page by page.
LEMMA OnceIsPlaced == EachPageOnce <=> \A p : Placed(p)
<1>1. \A t \in Thread : \A p : /\ p \in Swept(t) <=> InSweep(t, p)
                               /\ p \in Held(t) <=> Has(t, p)
  BY DEF Swept, Held, InSweep, Has, Space
<1>2. \A t \in Thread : \A p : p \in UNION {shared[t][s] : s \in Space} <=> \E s \in Space : p \in shared[t][s]
  OBVIOUS
<1>3. ASSUME EachPageOnce, NEW p PROVE Placed(p)
  <2>1. ASSUME NEW t \in Thread
        PROVE  /\ Has(t, p) => p \notin parallel_sweeping /\ \A s \in Space : p \notin free_list[s]
               /\ InSweep(t, p) => p \notin private[t]
               /\ \A s \in Space : p \in shared[t][s] =>
                     ~ InSweep(t, p) /\ p \notin private[t] /\ p \in PagesOf(s)
    BY <1>1, <1>2, <1>3 DEF EachPageOnce, Has
  <2>2. ASSUME NEW t \in Thread, NEW u \in Thread, Has(t, p), Has(u, p) PROVE t = u
    BY <1>1, <1>3, <2>2 DEF EachPageOnce
  <2>3. \A s \in Space : p \in free_list[s] => p \notin parallel_sweeping /\ p \in PagesOf(s)
    BY <1>3 DEF EachPageOnce
  <2> QED
    BY <2>1, <2>2, <2>3 DEF Placed
<1>4. ASSUME \A p : Placed(p) PROVE EachPageOnce
  <2>1. ASSUME NEW t \in Thread
        PROVE  /\ Held(t) \cap parallel_sweeping = {}
               /\ Swept(t) \cap (private[t] \cup UNION {shared[t][s] : s \in Space}) = {}
    BY <1>1, <1>2, <1>4 DEF Placed
  <2>2. ASSUME NEW t \in Thread, NEW s \in Space
        PROVE  private[t] \cap shared[t][s] = {} /\ Held(t) \cap free_list[s] = {}
    BY <1>1, <1>4 DEF Placed
  <2>3. ASSUME NEW t \in Thread, NEW u \in Thread \ {t} PROVE Held(t) \cap Held(u) = {}
    BY <1>1, <1>4 DEF Placed
  <2>4. ASSUME NEW s \in Space
        PROVE  /\ free_list[s] \cap parallel_sweeping = {}
               /\ free_list[s] \subseteq PagesOf(s)
               /\ \A t \in Thread : shared[t][s] \subseteq PagesOf(s)
    BY <1>4 DEF Placed
  <2> QED
    BY <2>1, <2>2, <2>3, <2>4 DEF EachPageOnce
<1> QED
  BY <1>3, <1>4

\* The step puts the page nowhere it was not.
NowhereNew(p) ==
    /\ \A t \in Thread : /\ InSweep(t, p)' => InSweep(t, p)
                         /\ p \in private'[t] => p \in private[t]
                         /\ \A s \in Space : p \in shared'[t][s] => p \in shared[t][s]
    /\ \A s \in Space : p \in free_list'[s] => p \in free_list[s]
    /\ p \in parallel_sweeping' => p \in parallel_sweeping

\* Such a step keeps it placed.
LEMMA PlacedNowhereNew ==
    ASSUME NEW p, Placed(p), NowhereNew(p)
    PROVE  Placed(p)'
<1>1. \A t \in Thread : Has(t, p)' => Has(t, p)
  BY DEF Has, NowhereNew
<1> QED
  BY <1>1 DEF Placed, NowhereNew

\* StealMemory moves the page from one thread's list to the free list.
LEMMA PlacedWhenStolen ==
    ASSUME NEW p, Placed(p), TypeOK, NEW s \in Space, StealMemory(s),
           UNCHANGED <<pc, at, private, parallel_sweeping>>
    PROVE  Placed(p)'
<1>1. PICK stolen \in SUBSET shared[thread][s] :
         /\ shared' = [shared EXCEPT ![thread][s] = @ \ stolen]
         /\ free_list' = [free_list EXCEPT ![s] = @ \cup stolen]
  BY StealMemoryFacts
<1>2. thread \in Thread /\ shared[thread] \in [Space -> SUBSET Page]
  BY DEF TypeOK
<1>3. \A t \in Thread, r \in Space : p \in shared'[t][r] => p \in shared[t][r]
  BY <1>1 DEF TypeOK
<1>4. \A t \in Thread : (InSweep(t, p)' <=> InSweep(t, p)) /\ private'[t] = private[t]
  BY DEF InSweep
<1>5. CASE p \notin stolen
  <2>1. \A r \in Space : p \in free_list'[r] => p \in free_list[r]
    BY <1>1, <1>5 DEF TypeOK
  <2> QED
    BY <1>3, <1>4, <2>1, PlacedNowhereNew DEF NowhereNew
<1>6. CASE p \in stolen
  <2>1. p \in shared[thread][s] /\ Has(thread, p)
    BY <1>1, <1>2, <1>6 DEF Has
  <2>2. p \in PagesOf(s) /\ p \notin parallel_sweeping
    BY <1>2, <2>1 DEF Placed
  <2>3. \A r \in Space : p \in shared[thread][r] => r = s
    BY <1>2, <2>1, <2>2, PageFacts DEF Placed, Space
  <2>4. p \notin shared'[thread][s]
    BY <1>1, <1>2, <1>6 DEF TypeOK
  <2>5. \A t \in Thread : ~ Has(t, p)'
    <3> SUFFICES ASSUME NEW t \in Thread, Has(t, p)' PROVE FALSE
      OBVIOUS
    <3>1. Has(t, p)
      BY <1>3, <1>4 DEF Has
    <3>2. t = thread
      BY <1>2, <2>1, <3>1 DEF Placed
    <3>3. ~ InSweep(t, p) /\ p \notin private[t]
      BY <2>1, <3>2 DEF Placed
    <3>4. \A r \in Space : p \notin shared'[t][r]
      BY <1>3, <2>3, <2>4, <3>2
    <3> QED
      BY <1>4, <3>3, <3>4 DEF Has
  <2>6. \A r \in Space : p \in free_list'[r] => p \in PagesOf(r)
    <3> SUFFICES ASSUME NEW r \in Space, p \in free_list'[r] PROVE p \in PagesOf(r)
      OBVIOUS
    <3>1. CASE r = s
      BY <2>2, <3>1
    <3>2. CASE r # s
      <4>1. p \in free_list[r]
        BY <1>1, <3>2 DEF TypeOK
      <4> QED
        BY <4>1 DEF Placed
    <3> QED
      BY <3>1, <3>2
  <2> QED
    BY <2>2, <2>5, <2>6 DEF Placed, Has
<1> QED
  BY <1>5, <1>6

\* A step moves a page at most one place on.
LEMMA OncePreserved ==
    ASSUME TypeOK, MainInv, Handshake, Walked, Emptied, EachPageOnce, [Next]_vars
    PROVE  EachPageOnce'
<1>  SUFFICES ASSUME NEW p PROVE Placed(p)'
  <2>1. (\A p : Placed(p))' => EachPageOnce'
    BY OnceIsPlaced, PTL
  <2> QED
    BY <2>1
<1> USE DEF TypeOK, InSweep, threadVars, semaphoreVars, mainVars
<1>30. Placed(p)
  BY OnceIsPlaced
<1>1. ASSUME NEW t \in Thread, WaitForStart(t) PROVE Placed(p)'
  <2>1. NowhereNew(p)
    BY <1>1 DEF WaitForStart, Wait, NowhereNew
  <2> HIDE DEF InSweep, TypeOK
  <2> QED
    BY <2>1, <1>30, PlacedNowhereNew
<1>2. ASSUME NEW t \in Thread, TestStop(t) PROVE Placed(p)'
  <2>1. NowhereNew(p)
    BY <1>2 DEF TestStop, Signal, NowhereNew
  <2> HIDE DEF InSweep, TypeOK
  <2> QED
    BY <2>1, <1>30, PlacedNowhereNew
<1>3. ASSUME NEW t \in Thread, Claim(t) PROVE Placed(p)'
  <2>1. CASE PageIterator[at[t]] \notin parallel_sweeping
    <3>1. \A u \in Thread : InSweep(u, p)' => InSweep(u, p)
      BY <1>3, <2>1 DEF Claim
    <3> QED
      BY <1>3, <2>1, <3>1, <1>30, PlacedNowhereNew DEF Claim, NowhereNew
  <2>2. CASE PageIterator[at[t]] \in parallel_sweeping
    <3>1. /\ pc' = [pc EXCEPT ![t] = "sweep"] /\ pc[t] = "claim"
          /\ parallel_sweeping' = parallel_sweeping \ {PageIterator[at[t]]}
          /\ UNCHANGED <<at, private, shared, free_list>>
      BY <1>3, <2>2 DEF Claim, TryParallelSweeping
    <3>2. CASE p # PageIterator[at[t]]
      BY <3>1, <3>2, <1>30, PlacedNowhereNew DEF NowhereNew
    <3>3. CASE p = PageIterator[at[t]]
      <4>1. /\ \A u \in Thread : ~ Has(u, p)
            /\ \A s \in Space : p \notin free_list[s]
        BY <1>30, <2>2, <3>3 DEF Placed
      <4>2. p \notin parallel_sweeping' /\ \A u \in Thread : InSweep(u, p)' => u = t
        BY <3>1, <3>3, <4>1 DEF Has
      <4>3. \A u \in Thread : p \notin private'[u] /\ \A s \in Space : p \notin shared'[u][s]
        BY <3>1, <4>1 DEF Has
      <4>4. \A u \in Thread : Has(u, p)' => u = t
        BY <4>2, <4>3 DEF Has
      <4> HIDE DEF InSweep, TypeOK
      <4> QED
        BY <1>30, <3>1, <4>1, <4>2, <4>3, <4>4 DEF Placed
    <3> QED
      BY <3>2, <3>3
  <2> QED
    BY <2>1, <2>2
<1>4. ASSUME NEW t \in Thread, Sweep(t) PROVE Placed(p)'
  <2>1. PICK freed \in SUBSET {PageIterator[at[t]]} :
           private' = [private EXCEPT ![t] = @ \cup freed]
    BY <1>4 DEF Sweep
  <2>2. /\ pc' = [pc EXCEPT ![t] = "concatenate"] /\ pc[t] = "sweep" /\ private[t] = {}
        /\ UNCHANGED <<at, shared, free_list, parallel_sweeping>>
    BY <1>4 DEF Sweep, Walked, WalkedBy
  <2>3. \A u \in Thread : InSweep(u, p)' <=> InSweep(u, p) /\ u # t
    BY <2>2
  <2>4. CASE p \notin freed
    BY <2>1, <2>2, <2>3, <2>4, <1>30, PlacedNowhereNew DEF NowhereNew
  <2>5. CASE p \in freed
    <3>1. InSweep(t, p) /\ Has(t, p)
      BY <2>1, <2>2, <2>5 DEF Has
    <3>2. /\ p \notin parallel_sweeping /\ \A s \in Space : p \notin free_list[s]
          /\ \A s \in Space : p \notin shared[t][s]
          /\ \A u \in Thread : Has(u, p) => u = t
      BY <1>30, <3>1 DEF Placed
    <3>3. \A u \in Thread : Has(u, p)' => u = t
      BY <2>1, <2>2, <2>3, <3>2 DEF Has
    <3>4. /\ ~ InSweep(t, p)' /\ \A u \in Thread : InSweep(u, p)' => u = t
          /\ \A u \in Thread, s \in Space : p \notin shared'[u][s]
      BY <2>2, <2>3, <3>2, <3>3 DEF Has
    <3> HIDE DEF InSweep, TypeOK
    <3> QED
      BY <1>30, <2>2, <3>2, <3>3, <3>4 DEF Placed
  <2> QED
    BY <2>4, <2>5
<1>5. ASSUME NEW t \in Thread, Concatenate(t) PROVE Placed(p)'
  <2> DEFINE r == SpaceOf(PageIterator[at[t]])
  <2>1. /\ pc[t] = "concatenate" /\ private[t] \subseteq {PageIterator[at[t]]}
        /\ r \in Space /\ PageIterator[at[t]] \in PagesOf(r)
    BY <1>5, PageFacts DEF Concatenate, Walked, WalkedBy
  <2>2. /\ shared' = [shared EXCEPT ![t][r] = @ \cup private[t]]
        /\ private' = [private EXCEPT ![t] = {}]
        /\ pc' = [pc EXCEPT ![t] = "claim"] /\ at' = [at EXCEPT ![t] = @ + 1]
        /\ UNCHANGED <<free_list, parallel_sweeping>>
    BY <1>5 DEF Concatenate
  <2> HIDE DEF r
  <2>3. \A u \in Thread : InSweep(u, p)' => InSweep(u, p) /\ u # t
    BY <2>2
  <2>4. CASE p \notin private[t]
    <3>1. \A u \in Thread, s \in Space : p \in shared'[u][s] => p \in shared[u][s]
      BY <2>1, <2>2, <2>4
    <3> QED
      BY <2>2, <2>3, <3>1, <1>30, PlacedNowhereNew DEF NowhereNew
  <2>5. CASE p \in private[t]
    <3>1. Has(t, p) /\ p \in PagesOf(r)
      BY <2>1, <2>5 DEF Has
    <3>2. /\ p \notin parallel_sweeping /\ \A s \in Space : p \notin free_list[s]
          /\ \A s \in Space : p \notin shared[t][s]
          /\ \A u \in Thread : Has(u, p) => u = t
      BY <1>30, <2>5, <3>1 DEF Placed
    <3>3. \A u \in Thread : /\ ~ InSweep(u, p)' /\ p \notin private'[u]
                            /\ \A s \in Space : p \in shared'[u][s] => u = t /\ s = r
      <4> SUFFICES ASSUME NEW u \in Thread
                   PROVE  /\ ~ InSweep(u, p)' /\ p \notin private'[u]
                          /\ \A s \in Space : p \in shared'[u][s] => u = t /\ s = r
        OBVIOUS
      <4>1. CASE u = t
        BY <2>1, <2>2, <2>3, <3>2, <4>1
      <4>2. CASE u # t
        <5>1. ~ Has(u, p)
          BY <3>2, <4>2
        <5> QED
          BY <2>1, <2>2, <2>3, <4>2, <5>1 DEF Has
      <4> QED
        BY <4>1, <4>2
    <3>4. \A u \in Thread : Has(u, p)' => u = t
      BY <3>3 DEF Has
    <3> HIDE DEF InSweep, TypeOK
    <3> QED
      BY <1>30, <2>2, <3>1, <3>2, <3>3, <3>4 DEF Placed
  <2> QED
    BY <2>4, <2>5
<1>6. ASSUME NEW t \in Thread, SignalEnd(t) PROVE Placed(p)'
  <2>1. NowhereNew(p)
    BY <1>6 DEF SignalEnd, Signal, NowhereNew
  <2> HIDE DEF InSweep, TypeOK
  <2> QED
    BY <2>1, <1>30, PlacedNowhereNew
<1>7. CASE Progress
  <2>1. steal \in Space /\ StealMemory(steal) /\ UNCHANGED <<pc, at, private, parallel_sweeping>>
    BY <1>7 DEF Progress, Space
  <2> QED
    BY <2>1, <1>30, PlacedWhenStolen
<1>8. CASE WaitForSweeperThread
  <2>1. NowhereNew(p)
    BY <1>8 DEF WaitForSweeperThread, Wait, NextThread, NowhereNew
  <2> HIDE DEF InSweep, TypeOK
  <2> QED
    BY <2>1, <1>30, PlacedNowhereNew
<1>9. CASE StealData
  <2>1. "data" \in Space /\ StealMemory("data") /\ UNCHANGED <<pc, at, private, parallel_sweeping>>
    BY <1>9 DEF StealData, Space
  <2> QED
    BY <2>1, <1>30, PlacedWhenStolen
<1>10. CASE StealPointer
  <2>1. "pointer" \in Space /\ StealMemory("pointer") /\ UNCHANGED <<pc, at, private, parallel_sweeping>>
    BY <1>10 DEF StealPointer, Space
  <2> QED
    BY <2>1, <1>30, PlacedWhenStolen
<1>11. CASE ResetUnsweptFreeBytes
  <2>1. NowhereNew(p)
    BY <1>11 DEF ResetUnsweptFreeBytes, NowhereNew
  <2> HIDE DEF InSweep, TypeOK
  <2> QED
    BY <2>1, <1>30, PlacedNowhereNew
<1>12. CASE PrepareForMarkCompact
  <2>1. NowhereNew(p)
    BY <1>12 DEF PrepareForMarkCompact, NowhereNew
  <2> HIDE DEF InSweep, TypeOK
  <2> QED
    BY <2>1, <1>30, PlacedNowhereNew
<1>13. CASE SweepSpaces
  <2>1. \A u \in Thread : ~ Has(u, p)
    <3>1. \A u \in Thread : pc[u] = "wait" /\ private[u] = {} /\ \A s \in Space : shared[u][s] = {}
      BY <1>13 DEF SweepSpaces, MainInv, Handshake, HandshakeOf, Owing, Stopping, Walked, WalkedBy, Emptied
    <3> QED
      BY <3>1 DEF Has
  <2>2. UNCHANGED <<pc, at, private, shared>> /\ \A s \in Space : free_list[s] = {}
    BY <1>13 DEF SweepSpaces, Emptied
  <2>3. \A u \in Thread : ~ Has(u, p)' /\ \A s \in Space : p \notin shared'[u][s]
    BY <2>1, <2>2 DEF Has
  <2>4. PICK freed \in SUBSET {Pages[s][1] : s \in Space} :
           free_list' = [s \in Space |-> free_list[s] \cup (freed \cap PagesOf(s))]
    BY <1>13 DEF SweepSpaces
  <2>5. parallel_sweeping' = Page \ {Pages[s][1] : s \in Space}
    BY <1>13 DEF SweepSpaces
  <2>6. \A s \in Space : p \in free_list'[s] => p \in freed /\ p \in PagesOf(s)
    BY <2>2, <2>4
  <2> QED
    BY <1>30, <2>3, <2>4, <2>5, <2>6 DEF Placed, Has
<1>14. CASE SweepSpacesPrecisely
  <2>1. \A u \in Thread : ~ Has(u, p)
    <3>1. \A u \in Thread : pc[u] = "wait" /\ private[u] = {} /\ \A s \in Space : shared[u][s] = {}
      BY <1>14 DEF SweepSpacesPrecisely, MainInv, Handshake, HandshakeOf, Owing, Stopping, Walked, WalkedBy, Emptied
    <3> QED
      BY <3>1 DEF Has
  <2>2. UNCHANGED <<pc, at, private, shared>> /\ \A s \in Space : free_list[s] = {}
    BY <1>14 DEF SweepSpacesPrecisely, Emptied
  <2>3. \A u \in Thread : ~ Has(u, p)' /\ \A s \in Space : p \notin shared'[u][s]
    BY <2>1, <2>2 DEF Has
  <2>4. \A s \in Space : p \in free_list'[s] => p \in PagesOf(s)
    BY <1>14, <2>2 DEF SweepSpacesPrecisely
  <2>5. parallel_sweeping' = {}
    BY <1>14 DEF SweepSpacesPrecisely, MainInv, Walked, Stopping
  <2> QED
    BY <1>30, <2>3, <2>4, <2>5 DEF Placed, Has
<1>15. CASE StartSweeping
  <2>1. NowhereNew(p)
    BY <1>15 DEF StartSweeping, Signal, NextThread, NowhereNew
  <2> HIDE DEF InSweep, TypeOK
  <2> QED
    BY <2>1, <1>30, PlacedNowhereNew
<1>16. CASE Finish
  <2>1. NowhereNew(p)
    BY <1>16 DEF Finish, NowhereNew
  <2> HIDE DEF InSweep, TypeOK
  <2> QED
    BY <2>1, <1>30, PlacedNowhereNew
<1>17. CASE Stop
  <2>1. NowhereNew(p)
    BY <1>17 DEF Stop, Signal, NowhereNew
  <2> HIDE DEF InSweep, TypeOK
  <2> QED
    BY <2>1, <1>30, PlacedNowhereNew
<1>18. CASE Join
  <2>1. NowhereNew(p)
    BY <1>18 DEF Join, Wait, NowhereNew
  <2> HIDE DEF InSweep, TypeOK
  <2> QED
    BY <2>1, <1>30, PlacedNowhereNew
<1>19. CASE Prepare
  <2>1. NowhereNew(p)
    BY <1>19 DEF Prepare, NowhereNew
  <2> HIDE DEF InSweep, TypeOK
  <2> QED
    BY <2>1, <1>30, PlacedNowhereNew
<1>20. ASSUME NEW s \in Space, NEW q \in Page, Allocate(s, q) PROVE Placed(p)'
  <2>1. NowhereNew(p)
    BY <1>20 DEF Allocate, NowhereNew
  <2> HIDE DEF InSweep, TypeOK
  <2> QED
    BY <2>1, <1>30, PlacedNowhereNew
<1>21. ASSUME NEW s \in Space, EnsureSweeperProgress(s) PROVE Placed(p)'
  <2>1. NowhereNew(p)
    BY <1>21 DEF EnsureSweeperProgress, NowhereNew
  <2> HIDE DEF InSweep, TypeOK
  <2> QED
    BY <2>1, <1>30, PlacedNowhereNew
<1>22. CASE UNCHANGED vars
  <2>1. NowhereNew(p)
    BY <1>22 DEF vars, NowhereNew
  <2> HIDE DEF InSweep, TypeOK
  <2> QED
    BY <2>1, <1>30, PlacedNowhereNew
<1> HIDE DEF TypeOK, InSweep, threadVars, semaphoreVars, mainVars
<1>31. NextIs
  BY NextCases
<1> QED
  BY <1>1, <1>2, <1>3, <1>4, <1>5, <1>6, <1>7, <1>8, <1>9, <1>10, <1>11, <1>12, <1>13, <1>14, <1>15, <1>16, <1>17, <1>18, <1>19, <1>20, <1>21, <1>22, <1>31 DEF NextIs

\* The inductive invariant.
LEMMA InvInit == Init => IInv
<1> SUFFICES ASSUME Init PROVE IInv
  OBVIOUS
<1> USE DEF Init
<1>1. TypeOK
  <2>1. thread \in Thread /\ steal \in Space
    BY ThreadsFact DEF Space, Thread
  <2>2. /\ pc \in [Thread -> {"wait", "test", "claim", "sweep", "concatenate", "exit"}]
        /\ at \in [Thread -> Nat \ {0}] /\ private \in [Thread -> SUBSET Page]
        /\ shared \in [Thread -> [Space -> SUBSET Page]]
    OBVIOUS
  <2>3. /\ start_sweeping \in [Thread -> Nat] /\ end_sweeping \in [Thread -> Nat]
        /\ stop_semaphore \in [Thread -> Nat] /\ stop_thread \in [Thread -> BOOLEAN]
        /\ free_list \in [Space -> SUBSET Page] /\ unswept \in [Space -> Int]
    OBVIOUS
  <2> QED
    BY <2>1, <2>2, <2>3 DEF TypeOK
<1>2. \A p : Placed(p)
  BY DEF Placed, Has, InSweep
<1>3. EachPageOnce
  BY <1>2, OnceIsPlaced
<1>4. Handshake /\ MainInv /\ Walked /\ Emptied
  BY ThreadsFact DEF Handshake, HandshakeOf, Owing, MainInv, Walked, WalkedBy, Emptied, Stopping, Thread
<1> QED
  BY <1>1, <1>3, <1>4 DEF IInv

\* Every step preserves the invariant.
LEMMA InvNext == IInv /\ [Next]_vars => IInv'
BY TypePreserved, MainPreserved, HandshakePreserved, WalkedPreserved, EmptiedPreserved,
   OncePreserved DEF IInv

\* The invariant holds always.
LEMMA InvHolds == Spec => []IInv
BY InvInit, InvNext, PTL DEF Spec

(* UnsweptAccounted: what a space has not got yet, page by page. *)
Out(p) == p \in parallel_sweeping \/ \E t \in Thread : Has(t, p)
Unsettled(s) == {p \in PagesOf(s) : Out(p)}

\* Pages still counted are unclaimed or with a thread.
LEMMA UnsettledIsPending ==
    ASSUME NEW s \in Space
    PROVE  Unsettled(s) = (parallel_sweeping \cup UNION {Held(t) : t \in Thread}) \cap PagesOf(s)
<1>1. \A t \in Thread : \A p : p \in Held(t) <=> Has(t, p)
  BY DEF Held, Swept, Has, InSweep, Space
<1>2. ASSUME NEW p
      PROVE  p \in UNION {Held(t) : t \in Thread} <=> \E t \in Thread : Has(t, p)
  BY <1>1
<1> QED
  BY <1>2 DEF Unsettled, Out

\* A set of pages has a size.
LEMMA PagesCounted ==
    ASSUME NEW s \in Space, NEW S \in SUBSET PagesOf(s)
    PROVE  IsFiniteSet(S) /\ Cardinality(S) \in Nat
<1>1. S \in SUBSET Page
  BY PageFacts DEF Space
<1>2. IsFiniteSet(S)
  BY <1>1, PageFinite, FS_Subset
<1> QED
  BY <1>2, FS_CardinalityType

\* A step that takes no page out does not add to what is unsettled.
LEMMA UnsettledShrinks ==
    ASSUME NEW s \in Space, \A p : Out(p)' => Out(p)
    PROVE  /\ Cardinality(Unsettled(s)') <= Cardinality(Unsettled(s))
           /\ Cardinality(Unsettled(s)) \in Nat /\ Cardinality(Unsettled(s)') \in Nat
<1>1. Unsettled(s)' \in SUBSET Unsettled(s) /\ Unsettled(s) \in SUBSET PagesOf(s)
  BY DEF Unsettled
<1>2. IsFiniteSet(Unsettled(s)) /\ Cardinality(Unsettled(s)) \in Nat
  BY <1>1, PagesCounted
<1>3. Cardinality(Unsettled(s)') <= Cardinality(Unsettled(s))
  BY <1>1, <1>2, FS_Subset
<1>4. Cardinality(Unsettled(s)') \in Nat
  BY <1>1, PagesCounted
<1> QED
  BY <1>2, <1>3, <1>4

\* StealMemory counts down by what it gives to the space.
LEMMA UnsettledWhenStolen ==
    ASSUME TypeOK, EachPageOnce, NEW r \in Space, StealMemory(r), NEW s \in Space,
           UNCHANGED <<pc, at, private, parallel_sweeping>>,
           Cardinality(Unsettled(s)) <= unswept[s]
    PROVE  Cardinality(Unsettled(s)') <= unswept'[s]
<1>1. PICK stolen \in SUBSET shared[thread][r] :
         /\ shared' = [shared EXCEPT ![thread][r] = @ \ stolen]
         /\ unswept' = [unswept EXCEPT ![r] = @ - Cardinality(stolen)]
  BY StealMemoryFacts
<1>2. thread \in Thread /\ shared[thread] \in [Space -> SUBSET Page] /\ unswept \in [Space -> Int]
  BY DEF TypeOK
<1>3. \A p : Placed(p)
  BY OnceIsPlaced
<1>4. ASSUME NEW t \in Thread, NEW q \in Space
      PROVE  shared'[t][q] = IF t = thread /\ q = r THEN shared[t][q] \ stolen ELSE shared[t][q]
  BY <1>1 DEF TypeOK
<1>5. ASSUME NEW t \in Thread, NEW p, Has(t, p)' PROVE Has(t, p)
  BY <1>4, <1>5 DEF Has, InSweep
<1>6. \A p : Out(p)' => Out(p)
  BY <1>5 DEF Out
<1>7. CASE s = r
  <2>1. \A p \in stolen : Has(thread, p) /\ p \in PagesOf(r) /\ Out(p)
    BY <1>1, <1>2, <1>3 DEF Has, Placed, Out
  <2>2. ASSUME NEW p \in stolen PROVE ~ Out(p)'
    <3>1. p \notin parallel_sweeping'
      BY <1>2, <1>3, <2>1 DEF Placed
    <3>2. ASSUME NEW t \in Thread, Has(t, p)' PROVE FALSE
      <4>1. t = thread
        BY <1>2, <1>3, <1>5, <2>1, <3>2 DEF Placed
      <4>2. ~ InSweep(thread, p) /\ p \notin private[thread]
        BY <1>1, <1>2, <1>3 DEF Placed
      <4>3. ASSUME NEW q \in Space, p \in shared'[thread][q] PROVE FALSE
        <5>1. q # r /\ p \in shared[thread][q]
          BY <1>2, <1>4, <4>3
        <5>2. p \in PagesOf(q)
          BY <1>2, <1>3, <5>1 DEF Placed
        <5> QED
          BY <2>1, <5>1, <5>2, PageFacts DEF Space
      <4> QED
        BY <1>2, <3>2, <4>1, <4>2, <4>3 DEF Has, InSweep
    <3> QED
      BY <3>1, <3>2 DEF Out
  <2>3. Unsettled(s)' \in SUBSET (Unsettled(s) \ stolen)
    BY <1>6, <2>2 DEF Unsettled
  <2>4. stolen \in SUBSET Unsettled(s)
    BY <1>7, <2>1 DEF Unsettled
  <2>5. Unsettled(s) \in SUBSET PagesOf(s)
    BY DEF Unsettled
  <2>6. IsFiniteSet(Unsettled(s)) /\ Cardinality(Unsettled(s)) \in Nat
    BY <2>5, PagesCounted
  <2>7. IsFiniteSet(stolen) /\ Cardinality(stolen) \in Nat
    BY <2>4, <2>6, FS_Subset, FS_CardinalityType
  <2>8. Unsettled(s) \cap stolen = stolen
    BY <2>4
  <2>9. /\ IsFiniteSet(Unsettled(s) \ stolen)
        /\ Cardinality(Unsettled(s) \ stolen) = Cardinality(Unsettled(s)) - Cardinality(stolen)
    BY <2>6, <2>8, FS_Difference
  <2>10. Cardinality(Unsettled(s)') <= Cardinality(Unsettled(s) \ stolen)
    BY <2>3, <2>9, FS_Subset
  <2>11. unswept'[s] = unswept[s] - Cardinality(stolen) /\ unswept[s] \in Int
    BY <1>1, <1>2, <1>7
  <2>12. Cardinality(Unsettled(s)') \in Nat
    BY <2>3, <2>5, PagesCounted
  <2> HIDE DEF Unsettled
  <2> QED
    BY <2>6, <2>7, <2>9, <2>10, <2>11, <2>12
<1>8. CASE s # r
  <2>1. unswept'[s] = unswept[s] /\ unswept[s] \in Int
    BY <1>1, <1>2, <1>8
  <2> QED
    BY <1>6, <2>1, UnsettledShrinks
<1> QED
  BY <1>7, <1>8

\* A sweeper thread takes no page that is not out already.
LEMMA ThreadTakesNone ==
    ASSUME TypeOK, Walked, NEW t \in Thread, SweeperThread(t), NEW p, Out(p)'
    PROVE  Out(p)
<1> USE DEF Out, Has, InSweep, TypeOK, semaphoreVars
<1>1. CASE WaitForStart(t)
  BY <1>1 DEF WaitForStart
<1>2. CASE TestStop(t)
  BY <1>2 DEF TestStop
<1>3. CASE Claim(t)
  BY <1>3 DEF Claim, TryParallelSweeping
<1>4. CASE Sweep(t)
  <2>1. PICK freed \in SUBSET {PageIterator[at[t]]} :
           private' = [private EXCEPT ![t] = @ \cup freed]
    BY <1>4 DEF Sweep
  <2>2. p \in freed => p = PageIterator[at[t]] /\ pc[t] = "sweep"
    BY <1>4, <2>1 DEF Sweep
  <2>3. \A u \in Thread : p \in private'[u] => p \in private[u] \/ (u = t /\ p \in freed)
    BY <2>1
  <2> QED
    BY <1>4, <2>2, <2>3 DEF Sweep
<1>5. CASE Concatenate(t)
  <2> DEFINE r == SpaceOf(PageIterator[at[t]])
  <2>1. shared' = [shared EXCEPT ![t][r] = @ \cup private[t]]
    BY <1>5 DEF Concatenate
  <2> HIDE DEF r
  <2>2. \A u \in Thread, q \in Space : p \in shared'[u][q] => p \in shared[u][q] \/ p \in private[u]
    BY <2>1
  <2>3. \A u \in Thread : p \in private'[u] => p \in private[u]
    BY <1>5 DEF Concatenate
  <2>4. \A u \in Thread : InSweep(u, p)' => InSweep(u, p)
    BY <1>5 DEF Concatenate
  <2>5. parallel_sweeping' = parallel_sweeping
    BY <1>5 DEF Concatenate
  <2> HIDE DEF InSweep
  <2> QED
    BY <2>2, <2>3, <2>4, <2>5
<1>6. CASE SignalEnd(t)
  BY <1>6 DEF SignalEnd
<1> QED
  BY <1>1, <1>2, <1>3, <1>4, <1>5, <1>6 DEF SweeperThread

\* No page is listed twice.
LEMMA PagesOfSize ==
    ASSUME NEW s \in Space
    PROVE  /\ IsFiniteSet(PagesOf(s)) /\ Len(Pages[s]) \in Nat
           /\ Cardinality(PagesOf(s)) = Len(Pages[s])
<1> DEFINE D == Pages["data"]
           P == Pages["pointer"]
           B == Pages[s]
<1>1. /\ D \in Seq(PagesOf("data")) /\ P \in Seq(PagesOf("pointer")) /\ B \in Seq(PagesOf(s))
  BY SweeperThreadsAssumption DEF Space
<1>2. /\ Len(D) \in Nat /\ DOMAIN D = 1..Len(D)
      /\ Len(P) \in Nat /\ DOMAIN P = 1..Len(P)
      /\ Len(B) \in Nat /\ DOMAIN B = 1..Len(B)
  BY <1>1
<1>3. /\ DOMAIN PageIterator = 1..(Len(D) + Len(P))
      /\ \A i \in 1..(Len(D) + Len(P)) :
            PageIterator[i] = IF i <= Len(D) THEN D[i] ELSE P[i - Len(D)]
  <2>1. PageIterator = D \o P
    BY DEF PageIterator
  <2>2. D \in Seq(Page) /\ P \in Seq(Page)
    BY <1>1 DEF Page
  <2> HIDE DEF D, P, B
  <2> QED
    BY <1>2, <2>1, <2>2, ConcatProperties
<1>4. \A i, j \in DOMAIN PageIterator : PageIterator[i] = PageIterator[j] => i = j
  BY SweeperThreadsAssumption
<1>5. (s = "data" /\ B = D) \/ (s = "pointer" /\ B = P)
  BY DEF Space
<1>6. PagesOf(s) = {B[i] : i \in 1..Len(B)}
  BY <1>2 DEF PagesOf
<1> HIDE DEF D, P, B
<1>7. ASSUME NEW i \in 1..Len(B), NEW j \in 1..Len(B), B[i] = B[j] PROVE i = j
  <2>1. CASE B = D
    <3>1. i \in DOMAIN PageIterator /\ j \in DOMAIN PageIterator
      BY <1>2, <1>3, <2>1
    <3>2. PageIterator[i] = PageIterator[j]
      BY <1>2, <1>3, <1>7, <2>1
    <3> QED
      BY <1>4, <3>1, <3>2
  <2>2. CASE B = P
    <3>1. Len(D) + i \in DOMAIN PageIterator /\ Len(D) + j \in DOMAIN PageIterator
      BY <1>2, <1>3, <2>2
    <3>2. PageIterator[Len(D) + i] = B[i] /\ PageIterator[Len(D) + j] = B[j]
      <4>1. \A k \in 1..Len(B) : /\ Len(D) + k \in 1..(Len(D) + Len(P))
                                 /\ ~ (Len(D) + k <= Len(D)) /\ (Len(D) + k) - Len(D) = k
        BY <1>2, <2>2
      <4> QED
        BY <1>3, <2>2, <4>1
    <3>3. Len(D) + i = Len(D) + j
      BY <1>4, <1>7, <3>1, <3>2
    <3> QED
      BY <1>2, <3>3
  <2> QED
    BY <1>5, <2>1, <2>2
<1> DEFINE f == [i \in 1..Len(B) |-> B[i]]
<1>8. f \in Bijection(1..Len(B), PagesOf(s))
  <2>1. f \in [1..Len(B) -> PagesOf(s)]
    BY <1>6
  <2>2. \A i, j \in 1..Len(B) : f[i] = f[j] => i = j
    BY <1>7
  <2>3. \A p \in PagesOf(s) : \E i \in 1..Len(B) : f[i] = p
    BY <1>6
  <2> HIDE DEF f
  <2> QED
    BY <2>1, <2>2, <2>3 DEF Bijection, Injection, IsInjective, Surjection
<1>9. ExistsBijection(1..Len(B), PagesOf(s))
  BY <1>8 DEF ExistsBijection
<1> DEFINE n == Len(B)
<1>10. IsFiniteSet(1..n) /\ Cardinality(1..n) = n
  <2>1. n \in Nat
    BY <1>2
  <2> HIDE DEF n
  <2>2. 1 \in Int /\ n \in Int
    BY <2>1
  <2>3. IsFiniteSet(1..n)
    BY <2>2, FS_Interval
  <2>4. Cardinality(1..n) = IF 1 > n THEN 0 ELSE n - 1 + 1
    BY <2>2, FS_Interval
  <2> QED
    BY <2>1, <2>3, <2>4
<1>11. IsFiniteSet(PagesOf(s)) /\ Cardinality(PagesOf(s)) = Len(B)
  BY <1>9, <1>10, FS_Bijection
<1> QED
  BY <1>2, <1>11 DEF B

\* What a space leaves to the threads is all but its first page.
LEMMA LeftToThreads ==
    ASSUME NEW s \in Space
    PROVE  Cardinality((Page \ {Pages[r][1] : r \in Space}) \cap PagesOf(s)) = Len(Pages[s]) - 1
<1> DEFINE L == (Page \ {Pages[r][1] : r \in Space}) \cap PagesOf(s)
<1>1. \A r \in Space : Pages[r][1] \in PagesOf(r)
  BY PageFacts
<1>2. \A r \in Space : r # s => Pages[r][1] \notin PagesOf(s)
  BY <1>1, PageFacts DEF Space
<1>3. PagesOf(s) \subseteq Page
  BY PageFacts DEF Space
<1>4. L = PagesOf(s) \ {Pages[s][1]}
  BY <1>2, <1>3
<1>5. Cardinality(PagesOf(s) \ {Pages[s][1]}) = Cardinality(PagesOf(s)) - 1
  BY <1>1, PagesOfSize, FS_RemoveElement
<1> QED
  BY <1>4, <1>5, PagesOfSize

\* Whenever the main thread believes that sweeping is over, it is.
LEMMA OverIsOver == IInv => QuietWhileMarking
<1> SUFFICES ASSUME IInv PROVE QuietWhileMarking
  OBVIOUS
<1>1. main \in {"prepare", "marking"} => ~ sweeping_pending
  BY DEF IInv, MainInv
<1>2. ASSUME ~ sweeping_pending, main \notin {"reset", "start", "stop", "join", "done"}
      PROVE  /\ parallel_sweeping = {}
             /\ \A t \in Thread : /\ pc[t] = "wait" /\ start_sweeping[t] = 0 /\ end_sweeping[t] = 0
                                  /\ Held(t) = {}
  <2>1. ~ Stopping /\ main # "await"
    BY <1>2 DEF IInv, MainInv, Stopping
  <2>2. \A t \in Thread : pc[t] = "wait" /\ start_sweeping[t] = 0 /\ end_sweeping[t] = 0
    BY <1>2, <2>1 DEF IInv, Handshake, HandshakeOf, Owing
  <2>3. parallel_sweeping = {} /\ \A t \in Thread : private[t] = {}
    BY <1>2, <2>1, <2>2 DEF IInv, Walked, WalkedBy
  <2>4. \A t \in Thread : shared[t]["data"] = {} /\ shared[t]["pointer"] = {}
    BY <1>2, <2>1 DEF IInv, Emptied, Space
  <2> QED
    BY <2>2, <2>3, <2>4 DEF Held, Swept
<1> QED
  BY <1>1, <1>2 DEF QuietWhileMarking, SweepingOver

\* Then nothing is unsettled.
LEMMA NothingUnsettled ==
    ASSUME IInv, NEW s \in Space, ~ sweeping_pending,
           main \notin {"reset", "start", "stop", "join", "done"}
    PROVE  (\A p : ~ Out(p)) /\ Unsettled(s) = {} /\ Cardinality(Unsettled(s)) = 0
<1>1. parallel_sweeping = {} /\ \A t \in Thread : Held(t) = {}
  BY OverIsOver DEF QuietWhileMarking, SweepingOver
<1>2. \A p : ~ Out(p)
  BY <1>1 DEF Out, Has, InSweep, Held, Swept, Space
<1> QED
  BY <1>2, FS_EmptySet DEF Unsettled

\* The two halves of UnsweptAccounted.
Covered == \A s \in Space : Cardinality(Unsettled(s)) <= unswept[s]
Settled ==
    ~ sweeping_pending /\ main \notin {"reset", "swept", "start", "stop", "join", "done"}
        => \A s \in Space : unswept[s] = 0

\* The account in two halves.
LEMMA UnsweptHalves == UnsweptAccounted <=> Covered /\ Settled
BY UnsettledIsPending DEF UnsweptAccounted, Covered, Settled

\* unswept_free_bytes_ goes on covering what is unsettled.
LEMMA CoveredPreserved ==
    ASSUME IInv, Covered, Settled, [Next]_vars
    PROVE  Covered'
<1> SUFFICES ASSUME NEW s \in Space PROVE Cardinality(Unsettled(s)') <= unswept'[s]
  BY DEF Covered
<1>1. TypeOK /\ EachPageOnce /\ Walked /\ MainInv
  BY DEF IInv
<1>2. Cardinality(Unsettled(s)) <= unswept[s]
  BY DEF Covered
<1>3. unswept[s] \in Int
  BY <1>1 DEF TypeOK
\* Most steps move no page and leave the count alone.
<1>4. ASSUME unswept' = unswept, \A p : Out(p)' => Out(p)
      PROVE  Cardinality(Unsettled(s)') <= unswept'[s]
  BY <1>2, <1>3, <1>4, UnsettledShrinks
<1>5. ASSUME unswept' = unswept, UNCHANGED <<pc, at, private, shared, parallel_sweeping>>
      PROVE  Cardinality(Unsettled(s)') <= unswept'[s]
  BY <1>4, <1>5 DEF Out, Has, InSweep
<1>6. ASSUME NEW t \in Thread, SweeperThread(t) PROVE Cardinality(Unsettled(s)') <= unswept'[s]
  <2>1. \A p : Out(p)' => Out(p)
    BY <1>1, <1>6, ThreadTakesNone
  <2>2. unswept' = unswept
    BY <1>6 DEF SweeperThread, WaitForStart, TestStop, Claim, Sweep, Concatenate, SignalEnd, mainVars
  <2> QED
    BY <1>4, <2>1, <2>2
<1>7. ASSUME NEW r \in Space, StealMemory(r), UNCHANGED <<pc, at, private, parallel_sweeping>>
      PROVE  Cardinality(Unsettled(s)') <= unswept'[s]
  BY <1>1, <1>2, <1>7, UnsettledWhenStolen
<1>8. CASE Progress
  <2>1. steal \in Space
    BY <1>1 DEF TypeOK
  <2> QED
    BY <1>7, <1>8, <2>1 DEF Progress, threadVars
<1>9. CASE StealData
  BY <1>7, <1>9 DEF StealData, threadVars, Space
<1>10. CASE StealPointer
  BY <1>7, <1>10 DEF StealPointer, threadVars, Space
<1>11. CASE ResetUnsweptFreeBytes \/ PrepareForMarkCompact
  <2>1. ~ sweeping_pending /\ main \notin {"reset", "start", "stop", "join", "done"}
    BY <1>1, <1>11 DEF MainInv, ResetUnsweptFreeBytes, PrepareForMarkCompact
  <2>2. (\A p : ~ Out(p)) /\ Cardinality(Unsettled(s)) = 0
    BY <2>1, NothingUnsettled
  <2>3. UNCHANGED <<pc, at, private, shared, parallel_sweeping>> /\ unswept'[s] = 0
    BY <1>11 DEF ResetUnsweptFreeBytes, PrepareForMarkCompact, threadVars
  <2>4. Unsettled(s)' = Unsettled(s)
    BY <2>3 DEF Unsettled, Out, Has, InSweep
  <2> QED
    BY <2>2, <2>3, <2>4
<1>12. CASE SweepSpaces
  <2>1. ~ sweeping_pending /\ main = "marking"
    BY <1>1, <1>12 DEF MainInv, SweepSpaces
  <2>2. unswept[s] = 0 /\ \A p : ~ Out(p)
    BY <2>1, NothingUnsettled DEF Settled
  <2>3. /\ UNCHANGED <<pc, at, private, shared>>
        /\ parallel_sweeping' = Page \ {Pages[r][1] : r \in Space}
        /\ unswept'[s] = unswept[s] + Len(Pages[s]) - 1
    BY <1>12 DEF SweepSpaces, threadVars
  <2>4. \A p : Out(p)' <=> p \in Page \ {Pages[r][1] : r \in Space}
    BY <2>2, <2>3 DEF Out, Has, InSweep
  <2>5. Unsettled(s)' = (Page \ {Pages[r][1] : r \in Space}) \cap PagesOf(s)
    BY <2>4 DEF Unsettled
  <2> QED
    BY <2>2, <2>3, <2>5, LeftToThreads, PagesOfSize
<1>13. CASE \/ SweepSpacesPrecisely \/ StartSweeping \/ Finish \/ Stop \/ Join
            \/ WaitForSweeperThread \/ Prepare \/ UNCHANGED vars
  BY <1>5, <1>13 DEF SweepSpacesPrecisely, StartSweeping, Finish, Stop, Join,
     WaitForSweeperThread, Prepare, threadVars, vars
<1>14. ASSUME NEW r \in Space, EnsureSweeperProgress(r) \/ \E p \in Page : Allocate(r, p)
       PROVE  Cardinality(Unsettled(s)') <= unswept'[s]
  BY <1>5, <1>14 DEF EnsureSweeperProgress, Allocate, threadVars
<1> QED
  BY <1>6, <1>8, <1>9, <1>10, <1>11, <1>12, <1>13, <1>14 DEF Next, Mutator, Collector, Terminated

\* ... and is zero again when sweeping is over.
LEMMA SettledPreserved ==
    ASSUME IInv, Settled, [Next]_vars
    PROVE  Settled'
<1>1. TypeOK /\ MainInv
  BY DEF IInv
<1> SUFFICES ASSUME NEW s \in Space, ~ sweeping_pending',
                    main' \notin {"reset", "swept", "start", "stop", "join", "done"}
             PROVE  unswept'[s] = 0
  BY DEF Settled
<1>2. ASSUME unswept' = unswept, ~ sweeping_pending,
             main \notin {"reset", "swept", "start", "stop", "join", "done"}
      PROVE  unswept'[s] = 0
  BY <1>2 DEF Settled
<1>3. ASSUME NEW t \in Thread, SweeperThread(t) PROVE unswept'[s] = 0
  BY <1>2, <1>3 DEF SweeperThread, WaitForStart, TestStop, Claim, Sweep, Concatenate, SignalEnd, mainVars
<1>4. CASE Progress
  BY <1>1, <1>4 DEF MainInv, Progress
<1>5. CASE StealData
  BY <1>5 DEF StealData
<1>6. CASE StealPointer
  BY <1>6 DEF StealPointer, NextThread
<1>7. CASE ResetUnsweptFreeBytes \/ PrepareForMarkCompact
  BY <1>7 DEF ResetUnsweptFreeBytes, PrepareForMarkCompact
<1>8. CASE SweepSpaces \/ Stop \/ Join
  BY <1>8 DEF SweepSpaces, Stop, Join
<1>9. CASE StartSweeping
  BY <1>9 DEF StartSweeping
<1>10. CASE WaitForSweeperThread
  <2>1. thread \in 1..Threads /\ Threads \in Nat \ {0}
    BY <1>1, ThreadsFact DEF TypeOK, Thread
  <2>2. ~ (thread < Threads)
    BY <1>10 DEF WaitForSweeperThread
  <2> QED
    BY <1>10, <2>2 DEF WaitForSweeperThread, NextThread
<1>11. CASE SweepSpacesPrecisely \/ Finish \/ Prepare \/ UNCHANGED vars
  BY <1>1, <1>2, <1>11 DEF MainInv, SweepSpacesPrecisely, Finish, Prepare, vars, mainVars
<1>12. ASSUME NEW r \in Space, EnsureSweeperProgress(r) \/ \E p \in Page : Allocate(r, p)
       PROVE  unswept'[s] = 0
  BY <1>2, <1>12 DEF EnsureSweeperProgress, Allocate, mainVars
<1> QED
  BY <1>3, <1>4, <1>5, <1>6, <1>7, <1>8, <1>9, <1>10, <1>11, <1>12 DEF Next, Mutator, Collector, Terminated

\* The variables have their types.
THEOREM TypeCorrect == Spec => []TypeOK
<1>1. IInv => TypeOK
  BY DEF IInv
<1> QED
  BY <1>1, InvHolds, PTL

\* However many threads sweep however many pages, a page is claimed by one
\* and its memory is in one place, also when the main thread steals from a
\* thread that is at work (Page::TryParallelSweeping, FreeList::Concatenate).
THEOREM PagesSweptOnce == Spec => []EachPageOnce
<1>1. IInv => EachPageOnce
  BY DEF IInv
<1> QED
  BY <1>1, InvHolds, PTL

\* No sweeper thread is at work while the collector marks, and nothing is
\* left with the threads once the main thread believes sweeping is over
\* (WaitUntilSweepingCompleted, called by Prepare).
THEOREM MarkingUndisturbed == Spec => []QuietWhileMarking
BY OverIsOver, InvHolds, PTL

\* unswept_free_bytes_ covers what a space has not got yet, counting every
\* page left to the threads and taken back by StealMemory, and is zero when
\* sweeping is over, as PagedSpace::SizeOfObjects asserts.
THEOREM UnsweptIsAccounted == Spec => []UnsweptAccounted
<1>1. Init => Covered /\ Settled
  <2> SUFFICES ASSUME Init PROVE Covered /\ Settled
    OBVIOUS
  <2>1. IInv
    BY InvInit
  <2>2. \A s \in Space : unswept[s] = 0
    BY DEF Init
  <2>3. \A s \in Space : Cardinality(Unsettled(s)) = 0
    BY <2>1, NothingUnsettled DEF Init
  <2> QED
    BY <2>2, <2>3 DEF Covered, Settled
<1>2. IInv /\ Covered /\ Settled /\ [Next]_vars => (Covered /\ Settled)'
  BY CoveredPreserved, SettledPreserved
<1>3. Covered /\ Settled => UnsweptAccounted
  BY UnsweptHalves
<1> QED
  BY <1>1, <1>2, <1>3, InvHolds, PTL DEF Spec
===============================================================================
