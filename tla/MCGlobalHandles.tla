--------------------------- MODULE MCGlobalHandles ---------------------------
(***************************************************************************)
(* A small instance of GlobalHandles for TLC.                              *)
(***************************************************************************)
EXTENDS GlobalHandles, TLC

\* Nothing depends on which address a block has.
BlockSymmetry == Permutations(Block)

\* What no step reads does not distinguish states: the links of a block that
\* is not in use (a pass over all handles reads next_used_ only), and where a
\* pass that will give up has come to.
Relevant ==
    LET walking == Depth > 0 /\ Current.full /\ ~Current.stale
        links == [b \in Block |->
                     IF Uses(b) > 0 THEN <<next[b], prev[b]>>
                     ELSE <<IF walking THEN next[b] ELSE NULL, NULL>>]
        frames == [i \in 1..Depth |->
                      IF passes[i].stale THEN <<passes[i].node>>
                      ELSE <<passes[i].full, passes[i].block, passes[i].index, passes[i].node>>]
    IN  <<state, dep, space, free, blocks, first,
          links, listVars, frames>>
==============================================================================
