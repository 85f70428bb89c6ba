-------------------------- MODULE IncrementalMarking --------------------------
(***************************************************************************)
(* Incremental marking: the collector marks the heap in steps between      *)
(* which the mutator runs, and finishes in a pause of the mark-compact     *)
(* collector.  The write barrier, the marking deque and its overflow, the  *)
(* scavenges that move what the deque points at, the array trimmed in      *)
(* place, the progress bar of a large array, and the lazy sweeping that    *)
(* must be over before the next marking starts.                            *)
(*                                                                         *)
(* The heap is a graph on a few addresses: one large array scanned a chunk *)
(* (here one slot) at a time, cells that are written without a barrier,    *)
(* old space and two semispaces.  Left out: leaf objects (marked black at  *)
(* once), code and evacuation slots, weak references, maps, the move of    *)
(* the new-space survivors after marking.                                  *)
(***************************************************************************)
EXTENDS Integers, Sequences, FiniteSets, SequencesExt

CONSTANTS
    Large,         \* a FixedArray in the large object space, a root
    LargeLength,   \* the number of its chunks
    Cells,         \* addresses of cells, roots
    Old,           \* addresses of the other old spaces
    Semi,          \* the two semispaces, a pair of sets of addresses
    Capacity,      \* how many entries a marking deque holds
    NULL,          \* a Smi, or no object
    Free, Filler   \* contents of an address without an object

New == Semi[1] \cup Semi[2]
Addr == {Large} \cup Cells \cup Old \cup New
Slots(a) == IF a = Large THEN 1..LargeLength ELSE {1}

ASSUME IncrementalMarkingAssumption ==
    /\ LargeLength \in Nat \ {0}
    /\ Capacity \in Nat \ {0}
    /\ IsFiniteSet(Addr) /\ NULL \notin Addr
    /\ Large \notin Cells \cup Old \cup New
    /\ Cells \cap (Old \cup New) = {}
    /\ Old \cap New = {}

\* A free address and a filler are no objects.
ASSUME ContentsAssumption ==
    /\ Free # Filler
    /\ \A a \in Addr, gap \in {Free, Filler} : gap \notin [Slots(a) -> Addr \cup {NULL}]

VARIABLES
    contents,      \* at each address: an object's slots, a filler, or free
    handle,        \* the mutator's only handle on an object
    to,            \* the semispace in use, 1 or 2
    unswept,       \* addresses on pages left to the lazy sweeper
    color,         \* the mark bits
    progress_bar,  \* of the large array: its first chunks are scanned
    state,         \* IncrementalMarking::state_
    should_hurry,
    no_marking,    \* no_marking_scope_depth_ > 0: handle is the witness
    marking_deque, \* the incremental marker's
    gc,            \* the phase of the full collection, or NOT_IN_GC
    roots,         \* roots the collection has not come to yet
    gc_deque       \* the mark-compact collector's deque

heapVars == <<contents, handle, to, unswept>>
markVars == <<color, progress_bar, marking_deque>>
stateVars == <<state, should_hurry, no_marking>>
gcVars == <<gc, roots, gc_deque>>
vars == <<heapVars, markVars, stateVars, gcVars>>

Object(a) == contents[a] \notin {Free, Filler}
IsMarking == state \in {"MARKING", "COMPLETE"}
Values(a) == {contents[a][i] : i \in Slots(a)} \ {NULL}

Closed(S) == \A a \in S : Object(a) => Values(a) \subseteq S

\* Everything that can be reached from S: the smallest closed set around it.
ReachFrom(S) ==
    LET around == {S \cup D : D \in SUBSET (Addr \ S)}
        closed == {C \in around : Closed(C)}
    IN  {a \in Addr : \A C \in closed : a \in C}

\* IterateStrongRoots visits the roots in an order of its own.
StrongRoots == <<Large>> \o SetToSeq(Cells) \o (IF handle = NULL THEN << >> ELSE <<handle>>)
Reachable == ReachFrom(ToSet(StrongRoots))

Deque == [entries : Seq(Addr), overflowed : BOOLEAN]
EmptyDeque == [entries |-> << >>, overflowed |-> FALSE]

TypeOK ==
    /\ DOMAIN contents = Addr
    /\ \A a \in Addr : contents[a] \in {Free, Filler} \cup [Slots(a) -> Addr \cup {NULL}]
    /\ handle \in Addr \cup {NULL}
    /\ to \in {1, 2}
    /\ unswept \subseteq Old
    /\ color \in [Addr -> {"white", "grey", "black"}]
    /\ progress_bar \in 0..LargeLength
    /\ state \in {"STOPPED", "SWEEPING", "MARKING", "COMPLETE"}
    /\ should_hurry \in BOOLEAN
    /\ no_marking \in BOOLEAN
    /\ marking_deque \in Deque
    /\ gc \in {"NOT_IN_GC", "FINALIZE", "ROOTS", "EMPTY"}
    /\ roots \in Seq(Addr)
    /\ gc_deque \in Deque

Fresh(a) == [i \in Slots(a) |-> NULL]

Init ==
    /\ contents = [a \in Addr |-> IF a \in {Large} \cup Cells THEN Fresh(a) ELSE Free]
    /\ handle = NULL /\ to = 1 /\ unswept = {}
    /\ color = [a \in Addr |-> "white"]
    /\ progress_bar = 0 /\ marking_deque = EmptyDeque
    /\ state = "STOPPED" /\ should_hurry = FALSE /\ no_marking = FALSE
    /\ gc = "NOT_IN_GC" /\ roots = << >> /\ gc_deque = EmptyDeque

-------------------------------------------------------------------------------
(* MarkingDeque.  Pop takes from the end, Unshift puts at the beginning.    *)

IsFull(d) == Len(d.entries) = Capacity
IsEmpty(d) == d.entries = << >>
Top(d) == Last(d.entries)
Pop(d) == [d EXCEPT !.entries = Front(@)]

Push(d, a) ==
    IF IsFull(d) THEN [d EXCEPT !.overflowed = TRUE]
    ELSE [d EXCEPT !.entries = Append(@, a)]

UnshiftGrey(d, a) ==
    IF IsFull(d) THEN [d EXCEPT !.overflowed = TRUE]
    ELSE [d EXCEPT !.entries = <<a>> \o @]

-------------------------------------------------------------------------------
(* Marks are a record m = [color, deque].                                   *)

\* MarkObject of the incremental marker (WhiteToGreyAndPush) and of the
\* collector (PushBlack).  They differ in the color c of what is pushed; what
\* finds no room is grey.
MarkAs(c, m, v) ==
    IF v = NULL \/ m.color[v] # "white" THEN m
    ELSE [color |-> [m.color EXCEPT ![v] = IF IsFull(m.deque) THEN "grey" ELSE c],
          deque |-> Push(m.deque, v)]

\* A visitor goes over values one by one.
MarkAll(c, m, values) ==
    LET marked[i \in 0..Len(values)] ==
            IF i = 0 THEN m ELSE MarkAs(c, marked[i - 1], values[i])
    IN  marked[Len(values)]

-------------------------------------------------------------------------------
(* The incremental marker                                                   *)

Marks == [color |-> color, deque |-> marking_deque]

WhiteToGreyAndPush(m, a) ==
    [color |-> [m.color EXCEPT ![a] = "grey"], deque |-> Push(m.deque, a)]

BlackToGreyAndUnshift(m, a) ==
    [color |-> [m.color EXCEPT ![a] = "grey"], deque |-> UnshiftGrey(m.deque, a)]

\* VisitFixedArrayIncremental: one chunk more, and further ones as long as
\* the deque is full.
VisitLarge(m) ==
    LET After(i) == MarkAll("grey", m, SubSeq(contents[Large], progress_bar + 1, i))
        bar == Min({i \in progress_bar..LargeLength :
                       \/ i = LargeLength
                       \/ i > progress_bar /\ ~IsFull(After(i).deque)})
    IN  [marks |-> IF bar < LargeLength
                   THEN [After(bar) EXCEPT !.deque = UnshiftGrey(@, Large)]
                   ELSE After(bar),
         bar |-> bar]

\* VisitObject: mark what the object refers to, then make it black.
VisitObject(m, a) ==
    LET visit == IF a = Large THEN VisitLarge(m)
                 ELSE [marks |-> MarkAll("grey", m, contents[a]), bar |-> progress_bar]
    IN  [visit EXCEPT !.marks.color[a] = "black"]

\* One round of ProcessMarkingDeque; fillers are skipped.
ProcessTop ==
    LET a == Top(marking_deque)
        popped == [Marks EXCEPT !.deque = Pop(@)]
        visited == IF contents[a] = Filler
                   THEN [marks |-> popped, bar |-> progress_bar]
                   ELSE VisitObject(popped, a)
    IN  /\ color' = visited.marks.color
        /\ marking_deque' = visited.marks.deque
        /\ progress_bar' = visited.bar

\* RestartIfNotMarking.
Restart == state' = "MARKING"

\* BaseRecordWrite, when a value has been stored in a slot.  (The chunk of a
\* black large array has its progress bar flag set.)
RecordWrite(obj, slot, value) ==
    IF ~IsMarking \/ value = NULL THEN UNCHANGED <<markVars, state>>
    ELSE IF color[value] # "white" \/ color[obj] # "black"
         THEN UNCHANGED <<markVars, state>>
    ELSE IF obj = Large /\ slot > progress_bar THEN UNCHANGED <<markVars, state>>
    ELSE LET m == IF obj = Large THEN WhiteToGreyAndPush(Marks, value)
                  ELSE BlackToGreyAndUnshift(Marks, obj)
         IN  /\ color' = m.color /\ marking_deque' = m.deque
             /\ Restart
             /\ UNCHANGED progress_bar

\* RecordWrites, when many slots have been written; the bar is set back.
RecordWritesFrom(obj, bar) ==
    IF IsMarking /\ color[obj] = "black"
    THEN LET m == BlackToGreyAndUnshift(Marks, obj)
         IN  /\ color' = m.color /\ marking_deque' = m.deque
             /\ progress_bar' = IF obj = Large THEN bar ELSE progress_bar
             /\ Restart
    ELSE UNCHANGED <<markVars, state>>

\* Fault: an array scanned in part is not scanned from the beginning.
RecordWritesKeepsBar(obj) == RecordWritesFrom(obj, progress_bar)

RecordWrites(obj) == RecordWritesFrom(obj, 0)

-------------------------------------------------------------------------------
(* The mutator                                                              *)

NotInGC == gc = "NOT_IN_GC"

\* A free address an object can be put at: unswept pages have no free list.
Available(a) == contents[a] = Free /\ a \notin unswept

\* Objects are allocated white.  The handle keeps the new one.
Allocate(a) ==
    /\ NotInGC /\ ~no_marking
    /\ Available(a) /\ a \in Old \cup Semi[to]
    /\ contents' = [contents EXCEPT ![a] = Fresh(a)]
    /\ handle' = a
    /\ UNCHANGED <<to, unswept, markVars, stateVars, gcVars>>

DropHandle ==
    /\ NotInGC /\ ~no_marking
    /\ handle' = NULL
    /\ UNCHANGED <<contents, to, unswept, markVars, stateVars, gcVars>>

\* A store with the write barrier.
Write(obj, slot, value) ==
    /\ NotInGC /\ obj \notin Cells
    /\ contents' = [contents EXCEPT ![obj][slot] = value]
    /\ RecordWrite(obj, slot, value)
    /\ UNCHANGED <<handle, to, unswept, should_hurry, no_marking, gcVars>>

\* There is no write barrier on cells.
WriteCell(cell, value) ==
    /\ NotInGC
    /\ contents' = [contents EXCEPT ![cell][1] = value]
    /\ UNCHANGED <<handle, to, unswept, markVars, stateVars, gcVars>>

\* Elements are copied into an array and the barrier is told at the end.
CopyElements(obj, values) ==
    /\ NotInGC
    /\ contents' = [contents EXCEPT ![obj] = values]
    /\ RecordWrites(obj)
    /\ UNCHANGED <<handle, to, unswept, should_hurry, no_marking, gcVars>>

\* DescriptorArray::WhitenessWitness: a fresh array is filled without barrier
\* while no marking step may look at it.
EnterNoMarkingScope ==
    /\ NotInGC /\ ~no_marking
    /\ handle \in Old /\ color[handle] = "white" /\ handle \notin unswept
    /\ no_marking' = TRUE
    /\ UNCHANGED <<heapVars, markVars, state, should_hurry, gcVars>>

WriteWitnessed(value) ==
    /\ NotInGC /\ no_marking
    /\ contents' = [contents EXCEPT ![handle][1] = value]
    /\ UNCHANGED <<handle, to, unswept, markVars, stateVars, gcVars>>

LeaveNoMarkingScope ==
    /\ NotInGC /\ no_marking
    /\ no_marking' = FALSE
    /\ UNCHANGED <<heapVars, markVars, state, should_hurry, gcVars>>

\* Marking::TransferMark.
TransferMark(m, old, new) ==
    LET cleared == [m EXCEPT !.color[old] = "white"]
    IN  CASE m.color[old] = "black" -> [cleared EXCEPT !.color[new] = "black"]
          [] m.color[old] = "grey" -> WhiteToGreyAndPush(cleared, new)
          [] OTHER -> m

\* LeftTrimFixedArray: the array now begins further on in the same page, and
\* the one object that refers to it is updated, with the write barrier (which
\* finds nothing to do unless the array is white).
LeftTrim(new, holder, slot) ==
    LET old == contents[holder][slot] IN
    /\ NotInGC /\ ~no_marking
    /\ contents[new] = Free
    /\ \/ {old, new} \subseteq Old /\ (old \in unswept <=> new \in unswept)
       \/ {old, new} \subseteq Semi[to]
    /\ holder # old /\ handle # old
    /\ \A b \in Addr : Object(b) =>
          \A i \in Slots(b) : contents[b][i] = old => <<b, i>> = <<holder, slot>>
    /\ contents' = [contents EXCEPT ![new] = contents[old], ![old] = Filler,
                                    ![holder][slot] = new]
    /\ LET m == TransferMark(Marks, old, new)
       IN  /\ color' = m.color /\ marking_deque' = m.deque
           /\ state' = IF color[old] = "grey" THEN "MARKING" ELSE state
    /\ UNCHANGED <<handle, to, unswept, progress_bar, should_hurry, no_marking, gcVars>>

-------------------------------------------------------------------------------
(* Incremental steps                                                        *)

\* StartMarking: the strong roots are marked grey.
StartMarking ==
    LET m == MarkAll("grey", [Marks EXCEPT !.deque = EmptyDeque], StrongRoots)
    IN  /\ state' = "MARKING"
        /\ color' = m.color /\ marking_deque' = m.deque
        /\ UNCHANGED <<progress_bar, should_hurry, no_marking>>

\* Start, when it is worth activating.
Start ==
    /\ NotInGC /\ state = "STOPPED"
    /\ IF unswept = {} THEN StartMarking
       ELSE state' = "SWEEPING" /\ UNCHANGED <<markVars, should_hurry, no_marking>>
    /\ UNCHANGED <<heapVars, gcVars>>

\* AdvanceSweeper, by an allocation or a step: a page is swept lazily, which
\* frees what is not marked and clears the marks.
SweepPage(a) ==
    /\ NotInGC /\ a \in unswept
    /\ unswept' = unswept \ {a}
    /\ contents' = [contents EXCEPT ![a] = IF color[a] = "white" THEN Free ELSE @]
    /\ color' = [color EXCEPT ![a] = "white"]
    /\ UNCHANGED <<handle, to, progress_bar, marking_deque, stateVars, gcVars>>

\* Step in state SWEEPING, when sweeping is complete.
StepSweeping ==
    /\ NotInGC /\ state = "SWEEPING" /\ unswept = {}
    /\ StartMarking
    /\ UNCHANGED <<heapVars, gcVars>>

\* Step in state MARKING; a step that processes more objects is several of these.
ProcessMarkingDeque ==
    /\ NotInGC /\ state = "MARKING"
    /\ IF IsEmpty(marking_deque) THEN UNCHANGED markVars ELSE ProcessTop
    /\ IF IsEmpty(marking_deque')
       THEN state' = "COMPLETE" /\ should_hurry' = TRUE
       ELSE UNCHANGED <<state, should_hurry>>
    /\ UNCHANGED <<heapVars, no_marking, gcVars>>

\* Fault: steps are taken inside a no-marking scope.
StepInNoMarkingScope == ProcessMarkingDeque

StepMarking == ~no_marking /\ ProcessMarkingDeque

-------------------------------------------------------------------------------
(* Scavenges                                                                *)

Forward(dest, v) == IF v \in DOMAIN dest THEN dest[v] ELSE v

\* The entries in keep, at their present addresses.
Updated(entries, keep, dest) ==
    LET updated[i \in 0..Len(entries)] ==
            IF i = 0 THEN << >>
            ELSE IF entries[i] \in keep
            THEN Append(updated[i - 1], Forward(dest, entries[i]))
            ELSE updated[i - 1]
    IN  updated[Len(entries)]

\* Fault: the entries of dead objects stay.
UpdatedDequeKeepsDead(dest) ==
    [marking_deque EXCEPT !.entries = Updated(@, Addr, dest)]

\* UpdateMarkingDequeAfterScavenge: entries of moved objects are forwarded;
\* those of dead objects and of fillers are dropped.
UpdatedDeque(dest) ==
    LET keep == DOMAIN dest \cup {a \in Addr \ New : contents[a] # Filler}
    IN  [marking_deque EXCEPT !.entries = Updated(@, keep, dest)]

\* The new-space objects a scavenge keeps: those the handle and the objects of
\* the other spaces lead to (garbage on unswept pages is in no store buffer).
Survivors ==
    ReachFrom(ToSet(StrongRoots) \cup
        {a \in Old : Object(a) /\ (a \in unswept => color[a] # "white")}) \cap New

\* Each survivor is copied to the other semispace or promoted, with its color
\* if marking is on.  The bits of the space it leaves are cleared before that
\* space is used again (PrepareForScavenge, ResetAllocationInfo); here at once.
Scavenge ==
    LET live == Survivors IN
    /\ NotInGC
    /\ \E dest \in [live -> {a \in Old \cup Semi[3 - to] : Available(a)}] :
          /\ \A a, b \in live : a # b => dest[a] # dest[b]
          /\ LET moved == {dest[a] : a \in live}
                 Source(b) == CHOOSE a \in live : dest[a] = b
                 Forwarded(f) == [i \in DOMAIN f |-> Forward(dest, f[i])]
             IN  /\ contents' = [a \in Addr |->
                        IF a \in moved THEN Forwarded(contents[Source(a)])
                        ELSE IF a \in New THEN Free
                        ELSE IF Object(a) THEN Forwarded(contents[a])
                        ELSE contents[a]]
                 /\ color' = [a \in Addr |->
                        IF a \in moved THEN color[Source(a)]
                        ELSE IF a \in New THEN "white" ELSE color[a]]
          /\ handle' = Forward(dest, handle)
          /\ marking_deque' = IF IsMarking THEN UpdatedDeque(dest) ELSE marking_deque
    /\ to' = 3 - to
    /\ UNCHANGED <<unswept, progress_bar, stateVars, gcVars>>

-------------------------------------------------------------------------------
(* The full collection: MarkCompactCollector::Prepare, MarkLiveObjects and  *)
(* the sweep.  It is one pause of the mutator, taken here in its steps.      *)

GCMarks == [color |-> color, deque |-> gc_deque]

GCVisit(m, a) == MarkAll("black", m, contents[a])

\* Heap::CollectGarbage and Prepare.  A collection that is not told to abort
\* waits until incremental marking is complete, or close to it.
CollectGarbage(abort) ==
    /\ NotInGC
    /\ abort \/ should_hurry \/ state \in {"STOPPED", "COMPLETE"}
    /\ roots' = StrongRoots
    /\ IF IsMarking /\ ~abort
       THEN /\ gc' = "FINALIZE"
            /\ UNCHANGED <<markVars, state, should_hurry, gc_deque>>
       ELSE \* Abort and ClearMarkbits; or lazy sweeping is abandoned.
            /\ gc' = "ROOTS"
            /\ state' = "STOPPED" /\ should_hurry' = FALSE
            /\ color' = [a \in Addr |-> "white"]
            /\ progress_bar' = 0
            /\ marking_deque' = EmptyDeque
            /\ gc_deque' = EmptyDeque
    /\ unswept' = {}
    /\ UNCHANGED <<contents, handle, to, no_marking>>

\* Finalize: Hurry processes the deque, but only in state MARKING.
Hurry ==
    /\ gc = "FINALIZE" /\ state = "MARKING" /\ ~IsEmpty(marking_deque)
    /\ ProcessTop
    /\ UNCHANGED <<heapVars, stateVars, gcVars>>

\* The end of Finalize.  The values of marked cells, which have no barrier,
\* are marked, on the collector's own deque.
FinalizeWith(overflowed) ==
    /\ gc = "FINALIZE" /\ (state = "MARKING" => IsEmpty(marking_deque))
    /\ state' = "STOPPED" /\ should_hurry' = FALSE
    /\ marking_deque' = [marking_deque EXCEPT !.overflowed = FALSE]
    /\ LET cells == SetToSeq({c \in Cells : color[c] # "white"})
           start == [color |-> color, deque |-> [EmptyDeque EXCEPT !.overflowed = overflowed]]
           m == MarkAll("black", start, [i \in DOMAIN cells |-> contents[cells[i]][1]])
       IN  color' = m.color /\ gc_deque' = m.deque
    /\ gc' = "ROOTS"
    /\ UNCHANGED <<heapVars, progress_bar, no_marking, roots>>

\* Fault: the overflow of the incremental marker is not taken over.
FinalizeForgetsOverflow == FinalizeWith(FALSE)

Finalize == FinalizeWith(marking_deque.overflowed)

\* RootMarkingVisitor::MarkObjectByPointer; a root that was not marked is
\* followed by EmptyMarkingDeque, and so is the last one (MarkStringTable).
MarkRoot ==
    /\ gc = "ROOTS" \/ (gc = "EMPTY" /\ IsEmpty(gc_deque))
    /\ roots # << >>
    /\ LET r == Head(roots)
           m == IF color[r] = "white"
                THEN GCVisit([GCMarks EXCEPT !.color[r] = "black"], r) ELSE GCMarks
       IN  /\ color' = m.color /\ gc_deque' = m.deque
           /\ gc' = IF color[r] = "white" \/ Tail(roots) = << >> THEN "EMPTY" ELSE "ROOTS"
    /\ roots' = Tail(roots)
    /\ UNCHANGED <<heapVars, progress_bar, marking_deque, stateVars>>

\* A round of EmptyMarkingDeque.
EmptyMarkingDeque ==
    /\ gc = "EMPTY" /\ ~IsEmpty(gc_deque)
    /\ LET m == GCVisit([GCMarks EXCEPT !.deque = Pop(@)], Top(gc_deque))
       IN  color' = m.color /\ gc_deque' = m.deque
    /\ UNCHANGED <<heapVars, progress_bar, marking_deque, stateVars, gc, roots>>

\* RefillMarkingDeque: grey objects become black entries until the deque is
\* full; only if it never is, the overflow flag is cleared.  (Which of them
\* come first depends on the layout of the heap.)
RefillMarking(found_color) ==
    /\ gc = "EMPTY" /\ IsEmpty(gc_deque) /\ roots = << >> /\ gc_deque.overflowed
    /\ LET grey == {a \in Addr : Object(a) /\ color[a] = "grey"} IN
       \E found \in SUBSET grey : \E entries \in SetToSeqs(found) :
          /\ Cardinality(found) = Capacity \/ (found = grey /\ Cardinality(found) < Capacity)
          /\ color' = [a \in Addr |-> IF a \in found THEN found_color ELSE color[a]]
          /\ gc_deque' = [entries |-> entries,
                          overflowed |-> Cardinality(found) = Capacity]
    /\ UNCHANGED <<heapVars, progress_bar, marking_deque, stateVars, gc, roots>>

\* Fault: the objects found stay grey.
RefillLeavesGrey == RefillMarking("grey")

RefillMarkingDeque == RefillMarking("black")

\* The end of MarkLiveObjects, and SweepSpaces: what is not marked is freed and
\* the marks are cleared, except on the pages left to the lazy sweeper.
SweepSpaces(lazy) ==
    /\ gc = "EMPTY" /\ IsEmpty(gc_deque) /\ roots = << >> /\ ~gc_deque.overflowed
    /\ contents' = [a \in Addr |->
           IF a \notin lazy /\ color[a] = "white" THEN Free ELSE contents[a]]
    /\ color' = [a \in Addr |-> IF a \in lazy THEN color[a] ELSE "white"]
    /\ progress_bar' = 0
    /\ unswept' = lazy
    /\ gc' = "NOT_IN_GC"
    /\ UNCHANGED <<handle, to, marking_deque, stateVars, roots, gc_deque>>

-------------------------------------------------------------------------------

Mutate ==
    LET objects == Reachable
        values == objects \cup {NULL}
    IN  \/ \E a \in Addr : Allocate(a)
        \/ DropHandle
        \/ \E obj \in objects, value \in values :
              \E slot \in Slots(obj) : Write(obj, slot, value)
        \/ \E cell \in Cells, value \in values : WriteCell(cell, value)
        \/ \E copied \in [Slots(Large) -> values] : CopyElements(Large, copied)
        \/ EnterNoMarkingScope \/ LeaveNoMarkingScope
        \/ \E value \in values : WriteWitnessed(value)
        \/ \E holder \in objects, new \in Addr :
              \E slot \in Slots(holder) : LeftTrim(new, holder, slot)

Step ==
    \/ Start \/ StepSweeping \/ StepMarking
    \/ \E a \in Old : SweepPage(a)

Collect ==
    \/ Hurry \/ Finalize
    \/ MarkRoot \/ EmptyMarkingDeque \/ RefillMarkingDeque
    \/ \E lazy \in SUBSET Old : SweepSpaces(lazy)

Next ==
    \/ Mutate \/ Step \/ Scavenge
    \/ \E abort \in BOOLEAN : CollectGarbage(abort)
    \/ Collect

Spec == Init /\ [][Next]_vars

-------------------------------------------------------------------------------
(* Properties                                                               *)

\* While the marker is at work and the mutator runs, no black object refers to
\* a white one, whatever the mutator has stored, moved or trimmed between two
\* steps (incremental-marking-inl.h:37).  Excepted are cells, which are
\* scanned again, and the chunks of a large array right of its progress bar.
BlackSeesNoWhite ==
    (NotInGC /\ IsMarking) =>
        \A a \in Addr : Object(a) /\ color[a] = "black" /\ a \notin Cells =>
            \A i \in Slots(a) :
                contents[a][i] # NULL /\ color[contents[a][i]] = "white" =>
                    a = Large /\ i > progress_bar

\* Whatever still has to be scanned is going to be: it is on the deque, or the
\* deque has overflowed (incremental-marking.cc:670, 763, 856).  Nothing else
\* is on it, and nothing at all when Finalize will not look at it again.
DequeHoldsGrey ==
    (NotInGC /\ IsMarking) =>
        LET entries == ToSet(marking_deque.entries)
        IN  /\ \A a \in Addr : Object(a) /\ color[a] = "grey" =>
                  a \in entries \/ marking_deque.overflowed
            /\ color[Large] = "black" /\ progress_bar < LargeLength => Large \in entries
            /\ \A a \in entries :
                  \/ Object(a) /\ (color[a] = "grey" \/ a = Large)
                  \/ contents[a] = Filler /\ color[a] = "white"
            /\ state = "COMPLETE" => entries = {}

\* No collection ever frees an object the mutator can still reach, and none
\* leaves it behind at an address it has moved from (mark-compact.cc:2186).
ReachableIntact == TypeOK /\ \A a \in Reachable : Object(a)

\* What is left to do for the collector: white and grey objects, entries, a
\* pass over the heap for what has overflowed, and roots.
Work ==
    LET Of(c) == Cardinality({a \in Addr : Object(a) /\ color[a] = c})
    IN  4 * Of("white") + 2 * Of("grey") + Len(gc_deque.entries)
          + (IF gc_deque.overflowed THEN 1 ELSE 0) + Len(roots)

\* Marking in the pause ends: even if the deque, refilled from the heap,
\* overflows again, every step leaves less to do (mark-compact.cc:2186).
PauseMakesProgress ==
    [][(gc \in {"ROOTS", "EMPTY"} /\ gc' # "NOT_IN_GC") => (Work' < Work)]_vars

===============================================================================
