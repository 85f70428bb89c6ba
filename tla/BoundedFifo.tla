----------------------------- MODULE BoundedFifo ------------------------------
(***************************************************************************)
(* What src/src/circular-queue.h promises: a first-in first-out queue of   *)
(* at most Length records.                                                 *)
(***************************************************************************)
EXTENDS Naturals, Sequences

CONSTANTS
    Record,   \* what is queued
    Length    \* the most it holds

VARIABLE queue    \* the records in the queue, oldest first

Put(r) ==
    /\ Len(queue) < Length
    /\ queue' = Append(queue, r)

Take ==
    /\ queue # << >>
    /\ queue' = Tail(queue)

\* The queue is deleted, and another one made in its place.
Renew == queue' = << >>

FifoNext ==
    \/ \E r \in Record : Put(r)
    \/ Take
    \/ Renew

FifoSpec == queue = << >> /\ [][FifoNext]_queue
==============================================================================
