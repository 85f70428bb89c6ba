--------------------------- MODULE MCThreadManager ---------------------------
(***************************************************************************)
(* A small instance of ThreadManager for TLC.                              *)
(***************************************************************************)
EXTENDS ThreadManager

CONSTANTS a, b, a1, b1, b2

\* Thread b can find itself at two places of its stack.
Stacks == [l \in StackLimit |-> IF l = a1 THEN a ELSE b]

\* Thread a can be in a Locker within an Unlocker, b only in an Unlocker.
ThreeAndTwo == [t \in Thread |-> IF t = a THEN 3 ELSE 2]
==============================================================================
