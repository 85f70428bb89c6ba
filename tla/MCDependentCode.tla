--------------------------- MODULE MCDependentCode ---------------------------
(***************************************************************************)
(* A small instance of DependentCode for TLC.                              *)
(***************************************************************************)
EXTENDS DependentCode, TLC

\* Compilations and code are addresses.
AddressSymmetry == Permutations(Info) \cup Permutations(CodeObject)
==============================================================================
