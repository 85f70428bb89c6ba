------------------------ MODULE SamplingCircularQueue -------------------------
(***************************************************************************)
(* The ring of ticks of the CPU profiler, src/src/circular-queue-inl.h.    *)
(*                                                                         *)
(* Every entry has a marker of its own, and the producer and the consumer  *)
(* share nothing else: each keeps its position to itself.  A record is     *)
(* written and read in place, between StartEnqueue and FinishEnqueue by    *)
(* the producer, between Peek and Remove by the consumer.  A step is one   *)
(* access to a marker, together with the private accesses around it.       *)
(***************************************************************************)
EXTENDS Integers, Sequences

CONSTANTS
    Length,          \* the entries of the ring
    Uninitialized    \* what an entry holds before its first record

ASSUME LengthAssumption == Length \in Nat \ {0}

VARIABLES
    marker,          \* kEmpty or kFull, for each entry
    record,          \* the records in the entries
    enqueue_pos_,    \* the producer's entry
    dequeue_pos_,    \* the consumer's entry
    writing,         \* the producer has started an enqueue
    reading          \* the consumer has been given a record

ringVars == <<marker, record, enqueue_pos_, dequeue_pos_, writing, reading>>

Position == 0..(Length - 1)

\* The ring as its constructor makes it, in a step and in the initial state.
EmptyMarkers == [i \in Position |-> "kEmpty"]
NoRecords == [i \in Position |-> Uninitialized]

RingInit ==
    /\ marker = EmptyMarkers /\ record = NoRecords
    /\ enqueue_pos_ = 0 /\ dequeue_pos_ = 0
    /\ writing = FALSE /\ reading = FALSE

RingRenew ==
    /\ marker' = EmptyMarkers /\ record' = NoRecords
    /\ enqueue_pos_' = 0 /\ dequeue_pos_' = 0
    /\ writing' = FALSE /\ reading' = FALSE

NextEntry(pos) == IF pos + 1 = Length THEN 0 ELSE pos + 1

-------------------------------------------------------------------------------
(* The producer *)

\* StartEnqueue returns NULL.
IsFull == marker[enqueue_pos_] # "kEmpty"

\* Fault: the entry is not looked at before it is written.
StartEnqueueUnchecked(r) ==
    /\ record' = [record EXCEPT ![enqueue_pos_] = r]
    /\ writing' = TRUE
    /\ UNCHANGED <<marker, enqueue_pos_, dequeue_pos_, reading>>

\* StartEnqueue finds room, and the producer begins to write r.
StartEnqueue(r) ==
    /\ ~IsFull
    /\ record' = [record EXCEPT ![enqueue_pos_] = r]
    /\ writing' = TRUE
    /\ UNCHANGED <<marker, enqueue_pos_, dequeue_pos_, reading>>

\* The record is complete and becomes r.
FinishEnqueue(r) ==
    /\ record' = [record EXCEPT ![enqueue_pos_] = r]
    /\ marker' = [marker EXCEPT ![enqueue_pos_] = "kFull"]
    /\ enqueue_pos_' = NextEntry(enqueue_pos_)
    /\ writing' = FALSE
    /\ UNCHANGED <<dequeue_pos_, reading>>

-------------------------------------------------------------------------------
(* The consumer *)

\* Peek returns NULL.
IsEmpty == marker[dequeue_pos_] # "kFull"

\* Peek returns the record Front, and the consumer goes on to read it.
Front == record[dequeue_pos_]

Peek ==
    /\ ~IsEmpty
    /\ reading' = TRUE
    /\ UNCHANGED <<marker, record, enqueue_pos_, dequeue_pos_, writing>>

Remove ==
    /\ marker' = [marker EXCEPT ![dequeue_pos_] = "kEmpty"]
    /\ dequeue_pos_' = NextEntry(dequeue_pos_)
    /\ reading' = FALSE
    /\ UNCHANGED <<record, enqueue_pos_, writing>>

-------------------------------------------------------------------------------
(* Properties *)

\* How far entry i is behind the consumer's.
Offset(i) == IF i >= dequeue_pos_ THEN i - dequeue_pos_ ELSE i - dequeue_pos_ + Length

\* The entries in use.  Equal positions mean a full ring or an empty one: the
\* marker tells.
Count ==
    IF marker[dequeue_pos_] = "kEmpty" THEN 0
    ELSE IF enqueue_pos_ = dequeue_pos_ THEN Length
    ELSE Offset(enqueue_pos_)

\* The full entries are those from the consumer's position up to the
\* producer's, although neither thread knows the other's position; and the
\* two are never at work on one entry.
RingInv ==
    /\ marker \in [Position -> {"kEmpty", "kFull"}]
    /\ DOMAIN record = Position
    /\ enqueue_pos_ \in Position /\ dequeue_pos_ \in Position
    /\ writing \in BOOLEAN /\ reading \in BOOLEAN
    /\ \A i \in Position : marker[i] = "kFull" <=> Offset(i) < Count
    /\ Offset(enqueue_pos_) = IF Count = Length THEN 0 ELSE Count
    /\ writing => ~IsFull
    /\ reading => ~IsEmpty

Contents == [i \in 1..Count |->
                record[IF dequeue_pos_ + i - 1 < Length THEN dequeue_pos_ + i - 1
                       ELSE dequeue_pos_ + i - 1 - Length]]
==============================================================================
