----------------------------- MODULE BoundedDeque -----------------------------
(***************************************************************************)
(* What OptimizingCompilerThread takes its input queue for: a queue of     *)
(* bounded length that is filled at the back, or by urgent jobs at the     *)
(* front, and emptied at the front.                                        *)
(***************************************************************************)
EXTENDS Naturals, Sequences

CONSTANTS
    Job,        \* what is queued
    Nothing,    \* the result of a Take from an empty queue
    Capacity    \* the most it holds

VARIABLES
    deque,      \* the jobs, front first
    taken       \* the result of the last Take

DequeInit == deque = << >> /\ taken = Nothing

PutFront(j) ==
    /\ Len(deque) < Capacity
    /\ deque' = <<j>> \o deque
    /\ UNCHANGED taken

PutBack(j) ==
    /\ Len(deque) < Capacity
    /\ deque' = Append(deque, j)
    /\ UNCHANGED taken

Take ==
    /\ deque # << >>
    /\ taken' = Head(deque)
    /\ deque' = Tail(deque)

TakeNothing ==
    /\ deque = << >>
    /\ taken' = Nothing
    /\ UNCHANGED deque

DequeNext ==
    \/ \E j \in Job : PutFront(j) \/ PutBack(j)
    \/ Take
    \/ TakeNothing

DequeSpec == DequeInit /\ [][DequeNext]_<<deque, taken>>
==============================================================================
