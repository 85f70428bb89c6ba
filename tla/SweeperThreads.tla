----------------------------- MODULE SweeperThreads -----------------------------
(***************************************************************************)
(* The sweeper threads of the mark-compact collector.  After marking, the  *)
(* main thread leaves all but the first page of the two old spaces to      *)
(* them.  Every thread walks over all pages and claims those nobody has    *)
(* claimed; what it frees goes by way of a private list to a list that the *)
(* main thread steals from.  With parallel sweeping the main thread waits  *)
(* for the threads before the collection goes on, with concurrent sweeping *)
(* the mutator runs and waits when it needs the memory, or at the next     *)
(* collection.                                                             *)
(*                                                                         *)
(* Memory is counted in pages: what sweeping a page yields is the page's   *)
(* name in a free list.  Left out: pages without live objects, which are   *)
(* released, new pages, and the mutexes, held for one Concatenate each.    *)
(***************************************************************************)
EXTENDS Integers, FiniteSets, Sequences

CONSTANTS
    Threads,      \* FLAG_sweeper_threads
    Pages,        \* the sequence of pages of each space
    Concurrent    \* FLAG_concurrent_sweeping, else FLAG_parallel_sweeping

Thread == 1..Threads
Space == {"data", "pointer"}
PagesOf(s) == {Pages[s][i] : i \in DOMAIN Pages[s]}
Page == PagesOf("data") \cup PagesOf("pointer")
\* SweepInParallel is called for one space after the other.
PageIterator == Pages["data"] \o Pages["pointer"]
SpaceOf(p) == IF p \in PagesOf("data") THEN "data" ELSE "pointer"

ASSUME SweeperThreadsAssumption ==
    /\ Threads \in Nat \ {0}
    /\ Concurrent \in BOOLEAN
    /\ DOMAIN Pages = Space
    /\ \A s \in Space : Pages[s] \in Seq(PagesOf(s)) /\ Pages[s] # << >>
    /\ \A i, j \in DOMAIN PageIterator : PageIterator[i] = PageIterator[j] => i = j

VARIABLES
    (* Each sweeper thread *)
    pc,                 \* where it is
    at,                 \* the index of its page iterator
    private,            \* its private free list, of the space it sweeps
    shared,             \* its free list of each space, which main steals from
    start_sweeping, end_sweeping, stop_semaphore,   \* semaphores
    stop_thread,
    (* The pages and spaces *)
    parallel_sweeping,  \* the pages with parallel_sweeping() = 1
    free_list,          \* of each space
    unswept,            \* unswept_free_bytes_ of each space, in pages
    (* The main thread *)
    main,               \* where it is
    thread,             \* the thread its loop has come to
    steal,              \* the space it steals memory for
    after,              \* where it goes when sweeping is completed
    sweeping_pending    \* sweeping_pending_

threadVars == <<pc, at, private>>
semaphoreVars == <<start_sweeping, end_sweeping, stop_semaphore, stop_thread>>
mainVars == <<main, thread, steal, after, sweeping_pending>>
vars == <<threadVars, shared, semaphoreVars, parallel_sweeping, free_list, unswept, mainVars>>

TypeOK ==
    /\ pc \in [Thread -> {"wait", "test", "claim", "sweep", "concatenate", "exit"}]
    /\ at \in [Thread -> Nat \ {0}]
    /\ private \in [Thread -> SUBSET Page]
    /\ shared \in [Thread -> [Space -> SUBSET Page]]
    /\ start_sweeping \in [Thread -> Nat]
    /\ end_sweeping \in [Thread -> Nat]
    /\ stop_semaphore \in [Thread -> Nat]
    /\ stop_thread \in [Thread -> BOOLEAN]
    /\ parallel_sweeping \subseteq Page
    /\ free_list \in [Space -> SUBSET Page]
    /\ unswept \in [Space -> Int]
    /\ main \in {"mutator", "progress", "await", "reset", "swept", "prepare", "marking",
                 "start", "evacuate", "stop", "join", "done"}
    /\ thread \in Thread
    /\ steal \in Space
    /\ after \in {"mutator", "prepare", "evacuate"}
    /\ sweeping_pending \in BOOLEAN

Init ==
    /\ pc = [t \in Thread |-> "wait"] /\ at = [t \in Thread |-> 1]
    /\ private = [t \in Thread |-> {}]
    /\ shared = [t \in Thread |-> [s \in Space |-> {}]]
    /\ start_sweeping = [t \in Thread |-> 0]
    /\ end_sweeping = [t \in Thread |-> 0]
    /\ stop_semaphore = [t \in Thread |-> 0]
    /\ stop_thread = [t \in Thread |-> FALSE]
    /\ parallel_sweeping = {}
    /\ free_list = [s \in Space |-> {}] /\ unswept = [s \in Space |-> 0]
    /\ main = "mutator" /\ thread = 1 /\ steal = "data" /\ after = "mutator"
    /\ sweeping_pending = FALSE

Signal(semaphore, t) == [semaphore EXCEPT ![t] = @ + 1]
Wait(semaphore, t) == [semaphore EXCEPT ![t] = @ - 1]

-------------------------------------------------------------------------------
(* A sweeper thread: SweeperThread::Run and SweepInParallel                 *)

WaitForStart(t) ==
    /\ pc[t] = "wait" /\ start_sweeping[t] > 0
    /\ start_sweeping' = Wait(start_sweeping, t)
    /\ pc' = [pc EXCEPT ![t] = "test"]
    /\ UNCHANGED <<at, private, shared, end_sweeping, stop_semaphore, stop_thread,
                   parallel_sweeping, free_list, unswept, mainVars>>

TestStop(t) ==
    /\ pc[t] = "test"
    /\ IF stop_thread[t]
       THEN /\ stop_semaphore' = Signal(stop_semaphore, t)
            /\ pc' = [pc EXCEPT ![t] = "exit"]
            /\ UNCHANGED at
       ELSE /\ pc' = [pc EXCEPT ![t] = "claim"]
            /\ at' = [at EXCEPT ![t] = 1]
            /\ UNCHANGED stop_semaphore
    /\ UNCHANGED <<private, shared, start_sweeping, end_sweeping, stop_thread,
                   parallel_sweeping, free_list, unswept, mainVars>>

\* Fault: the flag is read and not exchanged.
TryParallelSweepingReads(p) == UNCHANGED parallel_sweeping

\* TryParallelSweeping, when it finds the page's flag set.
TryParallelSweeping(p) == parallel_sweeping' = parallel_sweeping \ {p}

\* The next page, claimed by compare-and-swap or left to whoever has it.
Claim(t) ==
    /\ pc[t] = "claim" /\ at[t] <= Len(PageIterator)
    /\ LET p == PageIterator[at[t]] IN
       IF p \in parallel_sweeping
       THEN /\ TryParallelSweeping(p)
            /\ pc' = [pc EXCEPT ![t] = "sweep"]
            /\ UNCHANGED at
       ELSE /\ at' = [at EXCEPT ![t] = @ + 1]
            /\ UNCHANGED <<parallel_sweeping, pc>>
    /\ UNCHANGED <<private, shared, semaphoreVars, free_list, unswept, mainVars>>

\* SweepConservatively, of the page claimed.  What is too small for the free
\* list is wasted.
Sweep(t) ==
    /\ pc[t] = "sweep"
    /\ \E freed \in SUBSET {PageIterator[at[t]]} :
          private' = [private EXCEPT ![t] = @ \cup freed]
    /\ pc' = [pc EXCEPT ![t] = "concatenate"]
    /\ UNCHANGED <<at, shared, semaphoreVars, parallel_sweeping, free_list, unswept, mainVars>>

Concatenate(t) ==
    /\ pc[t] = "concatenate"
    /\ shared' = [shared EXCEPT ![t][SpaceOf(PageIterator[at[t]])] = @ \cup private[t]]
    /\ private' = [private EXCEPT ![t] = {}]
    /\ pc' = [pc EXCEPT ![t] = "claim"] /\ at' = [at EXCEPT ![t] = @ + 1]
    /\ UNCHANGED <<semaphoreVars, parallel_sweeping, free_list, unswept, mainVars>>

\* Both spaces have been walked over.
SignalEnd(t) ==
    /\ pc[t] = "claim" /\ at[t] > Len(PageIterator)
    /\ end_sweeping' = Signal(end_sweeping, t)
    /\ pc' = [pc EXCEPT ![t] = "wait"]
    /\ UNCHANGED <<at, private, shared, start_sweeping, stop_semaphore, stop_thread,
                   parallel_sweeping, free_list, unswept, mainVars>>

SweeperThread(t) ==
    \/ WaitForStart(t) \/ TestStop(t) \/ Claim(t)
    \/ Sweep(t) \/ Concatenate(t) \/ SignalEnd(t)

-------------------------------------------------------------------------------
(* The main thread                                                          *)

\* A loop over the threads: the next one, or what follows the loop.
NextThread(follows) ==
    IF thread < Threads
    THEN thread' = thread + 1 /\ UNCHANGED main
    ELSE thread' = 1 /\ main' = follows

\* SweeperThread::StealMemory: Concatenate of the thread's list of the space.
\* It looks for an entry before it takes the lock, and may miss one that the
\* thread has put there since it last synchronized with main.
StealMemory(s) ==
    \E stolen \in {shared[thread][s]} \cup (IF pc[thread] = "wait" THEN {} ELSE {{}}) :
        /\ shared' = [shared EXCEPT ![thread][s] = @ \ stolen]
        /\ free_list' = [free_list EXCEPT ![s] = @ \cup stolen]
        /\ unswept' = [unswept EXCEPT ![s] = @ - Cardinality(stolen)]

\* Allocation from the free list, also of what a collection evacuates.
Allocate(s, p) ==
    /\ main \in {"mutator", "evacuate"} /\ p \in free_list[s]
    /\ free_list' = [free_list EXCEPT ![s] = @ \ {p}]
    /\ UNCHANGED <<threadVars, shared, semaphoreVars, parallel_sweeping, unswept, mainVars>>

\* PagedSpace::EnsureSweeperProgress, from SlowAllocateRaw, Scavenge and
\* incremental steps: StealMemoryFromSweeperThreads for the space, ...
EnsureSweeperProgress(s) ==
    /\ main \in {"mutator", "evacuate"} /\ sweeping_pending
    /\ main' = "progress" /\ steal' = s /\ after' = main
    /\ UNCHANGED <<threadVars, shared, semaphoreVars, parallel_sweeping,
                   free_list, unswept, thread, sweeping_pending>>

\* ... and unless that was enough, or the collection is still going on
\* (sequential_sweeping), WaitUntilSweepingCompleted.
Progress ==
    /\ main = "progress"
    /\ StealMemory(steal)
    /\ \E follows \in {after} \cup (IF after = "evacuate" THEN {} ELSE {"await"}) :
          NextThread(follows)
    /\ UNCHANGED <<threadVars, semaphoreVars, parallel_sweeping, steal, after, sweeping_pending>>

\* Fault: sweeping stays pending.
WaitLeavesPending ==
    /\ main = "await" /\ end_sweeping[thread] > 0
    /\ end_sweeping' = Wait(end_sweeping, thread)
    /\ NextThread("reset")
    /\ steal' = "data"
    /\ UNCHANGED <<threadVars, shared, start_sweeping, stop_semaphore, stop_thread,
                   parallel_sweeping, free_list, unswept, after, sweeping_pending>>

\* WaitUntilSweepingCompleted: WaitForSweeperThread for every thread ...
WaitForSweeperThread ==
    /\ main = "await" /\ end_sweeping[thread] > 0
    /\ end_sweeping' = Wait(end_sweeping, thread)
    /\ NextThread("reset")
    /\ sweeping_pending' = (thread < Threads)
    /\ steal' = "data"
    /\ UNCHANGED <<threadVars, shared, start_sweeping, stop_semaphore, stop_thread,
                   parallel_sweeping, free_list, unswept, after>>

\* ... StealMemoryFromSweeperThreads for the data space, ...
StealData ==
    /\ main = "reset" /\ steal = "data"
    /\ StealMemory("data")
    /\ thread' = IF thread < Threads THEN thread + 1 ELSE 1
    /\ steal' = IF thread < Threads THEN "data" ELSE "pointer"
    /\ UNCHANGED <<threadVars, semaphoreVars, parallel_sweeping, main, after, sweeping_pending>>

\* ... and for the pointer space.
StealPointer ==
    /\ main = "reset" /\ steal = "pointer"
    /\ StealMemory("pointer")
    /\ NextThread("swept")
    /\ UNCHANGED <<threadVars, semaphoreVars, parallel_sweeping, steal, after, sweeping_pending>>

ResetUnsweptFreeBytes ==
    /\ main = "swept"
    /\ unswept' = [s \in Space |-> 0]
    /\ main' = after
    /\ UNCHANGED <<threadVars, shared, semaphoreVars, parallel_sweeping, free_list,
                   thread, steal, after, sweeping_pending>>

\* Fault: the collection does not wait for the sweeper threads.
PrepareWithoutWait ==
    /\ main = "mutator"
    /\ after' = "prepare"
    /\ main' = "prepare"
    /\ UNCHANGED <<threadVars, shared, semaphoreVars, parallel_sweeping, free_list,
                   unswept, thread, steal, sweeping_pending>>

\* MarkCompactCollector::Prepare, at the start of a full collection.
Prepare ==
    /\ main = "mutator"
    /\ after' = "prepare"
    /\ main' = IF sweeping_pending THEN "await" ELSE "prepare"
    /\ UNCHANGED <<threadVars, shared, semaphoreVars, parallel_sweeping, free_list,
                   unswept, thread, steal, sweeping_pending>>

\* ... whose free lists will be rebuilt by sweeping.
PrepareForMarkCompact ==
    /\ main = "prepare"
    /\ free_list' = [s \in Space |-> {}] /\ unswept' = [s \in Space |-> 0]
    /\ main' = "marking"
    /\ UNCHANGED <<threadVars, shared, semaphoreVars, parallel_sweeping,
                   thread, steal, after, sweeping_pending>>

\* Fault: the pages left to the threads are not counted.
SweepSpacesUncounted ==
    /\ main = "marking"
    /\ \E freed \in SUBSET {Pages[s][1] : s \in Space} :
          free_list' = [s \in Space |-> free_list[s] \cup (freed \cap PagesOf(s))]
    /\ parallel_sweeping' = Page \ {Pages[s][1] : s \in Space}
    /\ main' = "start" /\ after' = "evacuate"
    /\ UNCHANGED <<threadVars, shared, semaphoreVars, unswept, thread, steal, sweeping_pending>>

\* SweepSpaces after marking: of each space the first page is swept, the
\* others are left to the threads.
SweepSpaces ==
    /\ main = "marking"
    /\ \E freed \in SUBSET {Pages[s][1] : s \in Space} :
          free_list' = [s \in Space |-> free_list[s] \cup (freed \cap PagesOf(s))]
    /\ parallel_sweeping' = Page \ {Pages[s][1] : s \in Space}
    /\ unswept' = [s \in Space |-> unswept[s] + Len(Pages[s]) - 1]
    /\ main' = "start" /\ after' = "evacuate"
    /\ UNCHANGED <<threadVars, shared, semaphoreVars, thread, steal, sweeping_pending>>

\* With sweep_precisely_ all pages are swept, and the threads left alone.
SweepSpacesPrecisely ==
    /\ main = "marking"
    /\ \E freed \in SUBSET Page :
          free_list' = [s \in Space |-> free_list[s] \cup (freed \cap PagesOf(s))]
    /\ main' = "evacuate"
    /\ UNCHANGED <<threadVars, shared, semaphoreVars, parallel_sweeping, unswept,
                   thread, steal, after, sweeping_pending>>

\* StartSweeperThreads, and the wait at once of parallel sweeping.
StartSweeping ==
    /\ main = "start"
    /\ sweeping_pending' = TRUE
    /\ start_sweeping' = Signal(start_sweeping, thread)
    /\ NextThread(IF Concurrent THEN "evacuate" ELSE "await")
    /\ UNCHANGED <<threadVars, shared, end_sweeping, stop_semaphore, stop_thread,
                   parallel_sweeping, free_list, unswept, steal, after>>

\* The end of EvacuateNewSpaceAndCandidates and of the collection.
Finish ==
    /\ main = "evacuate" /\ main' = "mutator"
    /\ UNCHANGED <<threadVars, shared, semaphoreVars, parallel_sweeping, free_list,
                   unswept, thread, steal, after, sweeping_pending>>

\* Isolate::Deinit: SweeperThread::Stop of each thread, whatever it is doing.
Stop ==
    /\ main \in {"mutator", "stop"}
    /\ stop_thread' = [stop_thread EXCEPT ![thread] = TRUE]
    /\ start_sweeping' = Signal(start_sweeping, thread)
    /\ main' = "join"
    /\ UNCHANGED <<threadVars, shared, end_sweeping, stop_semaphore, parallel_sweeping,
                   free_list, unswept, thread, steal, after, sweeping_pending>>

Join ==
    /\ main = "join" /\ stop_semaphore[thread] > 0
    /\ stop_semaphore' = Wait(stop_semaphore, thread)
    /\ IF thread < Threads THEN thread' = thread + 1 /\ main' = "stop"
       ELSE main' = "done" /\ UNCHANGED thread
    /\ UNCHANGED <<threadVars, shared, start_sweeping, end_sweeping, stop_thread,
                   parallel_sweeping, free_list, unswept, steal, after, sweeping_pending>>

\* What the main thread does once it has begun it.
Collector ==
    \/ Progress \/ WaitForSweeperThread \/ StealData \/ StealPointer
    \/ ResetUnsweptFreeBytes \/ PrepareForMarkCompact
    \/ SweepSpaces \/ SweepSpacesPrecisely \/ StartSweeping \/ Finish
    \/ (main = "stop" /\ Stop) \/ Join

Mutator ==
    \/ \E s \in Space : EnsureSweeperProgress(s) \/ \E p \in Page : Allocate(s, p)
    \/ Prepare
    \/ (main = "mutator" /\ Stop)

Terminated == main = "done" /\ UNCHANGED vars

Next == Mutator \/ Collector \/ (\E t \in Thread : SweeperThread(t)) \/ Terminated

Spec == Init /\ [][Next]_vars

\* The operating system runs every thread.
FairSpec ==
    /\ Spec
    /\ WF_vars(Collector)
    /\ \A t \in Thread : WF_vars(SweeperThread(t))

-------------------------------------------------------------------------------
(* Properties                                                               *)

\* The page whose memory a thread has in its hands.
Swept(t) == IF pc[t] = "sweep" THEN {PageIterator[at[t]]} ELSE {}
Held(t) == Swept(t) \cup private[t] \cup shared[t]["data"] \cup shared[t]["pointer"]

\* No page is swept twice in a cycle, and no memory is on two free lists:
\* whatever the threads and the main thread do at the same time, a page is
\* claimed by one (page->TryParallelSweeping()), and what it yields is in the
\* hands of one of them, and in the free list of its own space.
EachPageOnce ==
    /\ \A t \in Thread :
          /\ Held(t) \cap parallel_sweeping = {}
          /\ Swept(t) \cap (private[t] \cup UNION {shared[t][s] : s \in Space}) = {}
          /\ \A s \in Space : private[t] \cap shared[t][s] = {} /\ Held(t) \cap free_list[s] = {}
          /\ \A u \in Thread \ {t} : Held(t) \cap Held(u) = {}
    /\ \A s \in Space :
          /\ free_list[s] \cap parallel_sweeping = {}
          /\ free_list[s] \subseteq PagesOf(s)
          /\ \A t \in Thread : shared[t][s] \subseteq PagesOf(s)

\* While marking, and whenever the main thread believes that sweeping is
\* over, it is: no thread is at work or about to be, no page waits for one,
\* and no free memory has been left behind in a thread's list.  Marking would
\* otherwise meet a sweeper on the same mark bits.
SweepingOver ==
    ~ sweeping_pending /\ main \notin {"reset", "start", "stop", "join", "done"} =>
        /\ parallel_sweeping = {}
        /\ \A t \in Thread :
              /\ pc[t] = "wait" /\ start_sweeping[t] = 0 /\ end_sweeping[t] = 0
              /\ Held(t) = {}
QuietWhileMarking == (main \in {"prepare", "marking"} => ~ sweeping_pending) /\ SweepingOver

\* unswept_free_bytes_ covers what the space has not got yet (SizeOfObjects
\* subtracts it), and is zero when sweeping is over, as SizeOfObjects asserts.
UnsweptAccounted ==
    \A s \in Space :
        /\ Cardinality((parallel_sweeping \cup UNION {Held(t) : t \in Thread}) \cap PagesOf(s))
              <= unswept[s]
        /\ ~ sweeping_pending /\ main \notin {"reset", "swept", "start", "stop", "join", "done"}
              => unswept[s] = 0

\* Whoever waits for the sweeper threads, for their sweeping or for their
\* end, goes on.
WaitsReturn ==
    /\ main = "await" ~> main = after
    /\ main = "join" ~> main = "done"
=============================================================================
