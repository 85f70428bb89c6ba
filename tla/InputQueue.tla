------------------------------ MODULE InputQueue ------------------------------
(***************************************************************************)
(* The input queue of the optimizing compiler thread: a ring in a fixed    *)
(* array, src/src/optimizing-compiler-thread.cc:109-117 and 271-285.       *)
(*                                                                         *)
(* The main thread looks for room (IsQueueAvailable), builds a job and     *)
(* adds it, at the back or, for on-stack replacement, at the front; both   *)
(* threads take jobs (NextInput).  Each operation holds input_queue_mutex_ *)
(* from its first access to its last and is one step; between the main     *)
(* thread's look for room and its enqueue the compiler thread may run.     *)
(***************************************************************************)
EXTENDS Integers, Sequences

CONSTANTS
    Job,        \* recompile jobs
    NoJob,      \* NULL, no job
    Capacity    \* input_queue_capacity_

ASSUME CapacityAssumption == Capacity \in Nat \ {0}
ASSUME JobAssumption == NoJob \notin Job

VARIABLES
    input_queue_,         \* the array
    input_queue_shift_,   \* the index of the front
    input_queue_length_,  \* the jobs in the queue
    room,                 \* IsQueueAvailable has promised room for one job
    job                   \* what the last NextInput returned

ringVars == <<input_queue_, input_queue_shift_, input_queue_length_, room, job>>

\* NewArray leaves the array as the allocator found it.
RingInit ==
    /\ input_queue_ \in [0..(Capacity - 1) -> Job]
    /\ input_queue_shift_ = 0
    /\ input_queue_length_ = 0
    /\ room = FALSE
    /\ job = NoJob

InputQueueIndex(i) == (i + input_queue_shift_) % Capacity

IsQueueAvailable ==
    /\ room' = (input_queue_length_ < Capacity)
    /\ UNCHANGED <<input_queue_, input_queue_shift_, input_queue_length_, job>>

EnqueueBack(j) ==
    /\ room
    /\ input_queue_' = [input_queue_ EXCEPT ![InputQueueIndex(input_queue_length_)] = j]
    /\ input_queue_length_' = input_queue_length_ + 1
    /\ room' = FALSE
    /\ UNCHANGED <<input_queue_shift_, job>>

\* Fault: the front moves past the array's start instead of around it.
EnqueueFrontWithoutWrap(j) ==
    /\ room
    /\ input_queue_shift_' = IF input_queue_shift_ > 0 THEN input_queue_shift_ - 1 ELSE 0
    /\ input_queue_' = [input_queue_ EXCEPT ![input_queue_shift_'] = j]
    /\ input_queue_length_' = input_queue_length_ + 1
    /\ room' = FALSE
    /\ UNCHANGED job

\* Move shift_ back by one and write at index 0.
EnqueueFront(j) ==
    /\ room
    /\ input_queue_shift_' = InputQueueIndex(Capacity - 1)
    /\ input_queue_' = [input_queue_ EXCEPT ![input_queue_shift_' % Capacity] = j]
    /\ input_queue_length_' = input_queue_length_ + 1
    /\ room' = FALSE
    /\ UNCHANGED job

NextInput ==
    \/ /\ input_queue_length_ = 0
       /\ job' = NoJob
       /\ UNCHANGED <<input_queue_, input_queue_shift_, input_queue_length_, room>>
    \/ /\ input_queue_length_ # 0
       /\ job' = input_queue_[InputQueueIndex(0)]
       /\ input_queue_shift_' = InputQueueIndex(1)
       /\ input_queue_length_' = input_queue_length_ - 1
       /\ UNCHANGED <<input_queue_, room>>

RingNext ==
    \/ IsQueueAvailable
    \/ \E j \in Job : EnqueueBack(j)
    \/ \E j \in Job : EnqueueFront(j)
    \/ NextInput

RingSpec == RingInit /\ [][RingNext]_ringVars

-------------------------------------------------------------------------------
(* Properties *)

\* The assertions of the code: indices are in the array, and there is still
\* room when the main thread adds the job it looked for room for
\* (ASSERT_LT(input_queue_length_, input_queue_capacity_)).
RingInv ==
    /\ input_queue_ \in [0..(Capacity - 1) -> Job]
    /\ input_queue_shift_ \in 0..(Capacity - 1)
    /\ input_queue_length_ \in 0..Capacity
    /\ room \in BOOLEAN
    /\ room => input_queue_length_ < Capacity
    /\ job \in Job \cup {NoJob}

\* The ring is a double-ended queue: no job is lost, overwritten or taken out
\* of turn wherever the front is and however full the array.
Contents == [i \in 1..input_queue_length_ |-> input_queue_[InputQueueIndex(i - 1)]]

Deque == INSTANCE BoundedDeque WITH Nothing <- NoJob, deque <- Contents, taken <- job

DequeSpec == Deque!DequeSpec
==============================================================================
