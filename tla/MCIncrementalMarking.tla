------------------------ MODULE MCIncrementalMarking ------------------------
(***************************************************************************)
(* A small instance of IncrementalMarking for TLC.                         *)
(***************************************************************************)
EXTENDS IncrementalMarking, TLC

CONSTANTS large, cell, o1, o2, n1, n2

\* Without a new space; and with one.
NoSemispaces == <<{}, {}>>
Semispaces == <<{n1}, {n2}>>

\* Nothing depends on which old address an object is at.
OldSymmetry == Permutations(Old)
=============================================================================
