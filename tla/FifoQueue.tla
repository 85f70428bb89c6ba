------------------------------ MODULE FifoQueue ------------------------------
(***************************************************************************)
(* What src/src/unbound-queue.h promises its two users: an unbounded       *)
(* first-in first-out queue of records between one producer and one        *)
(* consumer.  Every operation takes effect at one instant.                 *)
(***************************************************************************)
EXTENDS Sequences

CONSTANTS
    Record,   \* the values the producer may pass
    Nothing   \* the result of a Dequeue that returned false

VARIABLES
    queue,    \* the records enqueued and not yet dequeued, oldest first
    out,      \* what the last completed Dequeue delivered, or Nothing
    open      \* FALSE once the destructor has been entered

fifoVars == <<queue, out, open>>

FifoInit ==
    /\ queue = << >>
    /\ out = Nothing
    /\ open = TRUE

Put(r) ==
    /\ open
    /\ queue' = Append(queue, r)
    /\ UNCHANGED <<out, open>>

Get ==
    /\ open
    /\ queue # << >>
    /\ out' = Head(queue)
    /\ queue' = Tail(queue)
    /\ UNCHANGED open

GetNothing ==
    /\ open
    /\ queue = << >>
    /\ out' = Nothing
    /\ UNCHANGED <<queue, open>>

Close ==
    /\ open
    /\ open' = FALSE
    /\ queue' = << >>
    /\ UNCHANGED out

FifoNext ==
    \/ \E r \in Record : Put(r)
    \/ Get
    \/ GetNothing
    \/ Close

FifoSpec == FifoInit /\ [][FifoNext]_fifoVars
==============================================================================
