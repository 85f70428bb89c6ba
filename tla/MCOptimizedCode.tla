---------------------------- MODULE MCOptimizedCode ----------------------------
(***************************************************************************)
(* A small instance of OptimizedCode for TLC: two closures in one native   *)
(* context and one in another.                                             *)
(***************************************************************************)
EXTENDS OptimizedCode, TLC

CONSTANTS f1, f2, f3, x1, x2

TwoContexts == (f1 :> x1) @@ (f2 :> x1) @@ (f3 :> x2)

CodeSymmetry == Permutations(Code) \cup Permutations({f1, f2})
==============================================================================
