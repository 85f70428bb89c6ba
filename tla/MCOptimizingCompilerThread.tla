---------------------- MODULE MCOptimizingCompilerThread ----------------------
(***************************************************************************)
(* Small instances of OptimizingCompilerThread for TLC.                    *)
(***************************************************************************)
EXTENDS OptimizingCompilerThread, TLC, SequencesExt

\* Every closure has code of its own (Shared = Closure).
OwnCode == [f \in Closure |-> f]

\* All closures were made from one function literal and share its code.
OneCode == [f \in Closure |-> CHOOSE s \in Shared : TRUE]

\* The loops of a function follow one another.
Siblings == [l \in Loop |-> 1]

\* One loop of a function inside the other, for MaxNesting = 2.
Nested == [l \in Loop |-> IF l = CHOOSE k \in Loop : TRUE THEN 1 ELSE 2]

\* Jobs are addresses: nothing depends on which is which.
JobSymmetry == Permutations(Job)

\* Nothing depends on which closure is which either, with OwnCode as well as
\* with OneCode, nor on which of several loops of the same depth.
OsrSymmetry == Permutations(Job) \cup Permutations(Closure) \cup Permutations(Loop)

\* Where to look for a full OSR buffer of the size the code gives it, as the
\* CONSTRAINT of a run that checks OsrSlotIsFound (InputCapacity = 1,
\* OsrCapacity = 5, six closures with code of their own and one loop, six
\* jobs): loops are queued one after the other, in a fixed order, and nothing
\* is installed or flushed on the way.
ClosureOrder == SetToSeq(Closure)
JobOrder == SetToSeq(Job)

OneLoopAfterTheOther ==
    /\ main \in {"js", "recompile", "signal", "spin"}
    /\ \A i \in Slot :
          \/ osrBuffer[i] = NULL
          \/ osrBuffer[i] = JobOrder[i + 1]
             /\ jobs[osrBuffer[i]].closure = ClosureOrder[i + 1]
    /\ \A i \in DOMAIN ClosureOrder :
          AllSlotsOf(ClosureOrder[i]) = {} =>
              \A k \in DOMAIN ClosureOrder : k > i => code[ClosureOrder[k]] = "full"
==============================================================================
