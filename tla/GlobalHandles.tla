----------------------------- MODULE GlobalHandles -----------------------------
(***************************************************************************)
(* GlobalHandles: the nodes behind persistent handles, and the weak        *)
(* callbacks run for them after a collection.                              *)
(*                                                                         *)
(* Nodes live in blocks.  Free nodes form a stack, blocks with nodes in    *)
(* use a doubly linked list that passes over all handles walk, and nodes   *)
(* that may hold new-space objects the list new_space_nodes_ that the      *)
(* scavenger walks.  Everything runs on one thread; what makes it hard is  *)
(* that a weak callback may call any of these operations and may start     *)
(* collections, which run passes of their own over the same lists.         *)
(*                                                                         *)
(* Objects are abstracted to the space they are in.  Which of them die and *)
(* which are promoted is up to the collector.                              *)
(***************************************************************************)
EXTENDS Integers, Sequences, FiniteSets

CONSTANTS
    Block,       \* addresses of node blocks; bounds the blocks
    Size,        \* NodeBlock::kSize
    NULL,
    MaxPasses    \* bound: collections nested in one another

Node == Block \X (0..(Size - 1))

ASSUME GlobalHandlesAssumption ==
    /\ Size \in Nat \ {0}
    /\ NULL \notin Block \cup Node
    /\ MaxPasses \in Nat

VARIABLES
    state,     \* state() of each node
    dep,       \* dependent, or marked independent or partially dependent
    space,     \* the space of the node's object
    free,      \* the free list, from first_free_
    blocks,    \* the allocated blocks
    first,     \* first_used_block_
    next,      \* next_used_ of each block; stale in a block not in use
    prev,      \* prev_used_ of each block; likewise
    list,      \* new_space_nodes_
    inList,    \* is_in_new_space_list() of each node
    passes     \* the PostGarbageCollectionProcessing calls, innermost last

nodeVars == <<state, dep, space>>
usedVars == <<first, next, prev>>
listVars == <<list, inList>>
vars == <<nodeVars, free, blocks, usedVars, listVars, passes>>

\* A pass: of a scavenge or a full collection; the block (full) and the index
\* it has come to; the node whose callback is running; and whether another
\* pass has begun meanwhile (post_gc_processing_count_ has changed).
Pass == [full : BOOLEAN, block : Block \cup {NULL}, index : Nat,
         node : Node \cup {NULL}, stale : BOOLEAN]

TypeOK ==
    /\ state \in [Node -> {"FREE", "NORMAL", "WEAK", "PENDING", "NEAR_DEATH"}]
    /\ dep \in [Node -> {"dependent", "partially", "independent"}]
    /\ space \in [Node -> {"new", "old"}]
    /\ free \in Seq(Node)
    /\ blocks \subseteq Block
    /\ first \in Block \cup {NULL}
    /\ next \in [Block -> Block \cup {NULL}]
    /\ prev \in [Block -> Block \cup {NULL}]
    /\ list \in Seq(Node)
    /\ inList \in [Node -> BOOLEAN]
    /\ passes \in Seq(Pass)

Init ==
    /\ state = [n \in Node |-> "FREE"]
    /\ dep = [n \in Node |-> "dependent"]
    /\ space = [n \in Node |-> "old"]
    /\ free = << >> /\ blocks = {}
    /\ first = NULL
    /\ next = [b \in Block |-> NULL] /\ prev = [b \in Block |-> NULL]
    /\ list = << >> /\ inList = [n \in Node |-> FALSE]
    /\ passes = << >>

-------------------------------------------------------------------------------
(* Blocks *)

Retainer(n) == state[n] # "FREE"

\* used_nodes_
Uses(b) == Cardinality({i \in 0..(Size - 1) : Retainer(<<b, i>>)})

\* NodeBlock::IncreaseUses
IncreaseUses(b) ==
    IF Uses(b) = 0
    THEN /\ first' = b
         /\ next' = [next EXCEPT ![b] = first]
         /\ prev' = [c \in Block |-> IF c = b THEN NULL
                                     ELSE IF c = first THEN b ELSE prev[c]]
    ELSE UNCHANGED usedVars

\* Fault: the block before the one that is taken out still points to it.
DecreaseUsesForgetsPrevious(b) ==
    IF Uses(b) = 1
    THEN /\ first' = IF b = first THEN next[b] ELSE first
         /\ prev' = [c \in Block |-> IF c = next[b] THEN prev[b] ELSE prev[c]]
         /\ UNCHANGED next
    ELSE UNCHANGED usedVars

\* Fault: the links of the block that is taken out are cleared.
DecreaseUsesClearsLinks(b) ==
    IF Uses(b) = 1
    THEN /\ first' = IF b = first THEN next[b] ELSE first
         /\ prev' = [c \in Block |-> IF c = next[b] THEN prev[b] ELSE prev[c]]
         /\ next' = [c \in Block |-> IF c = b THEN NULL
                                     ELSE IF c = prev[b] THEN next[b] ELSE next[c]]
    ELSE UNCHANGED usedVars

\* NodeBlock::DecreaseUses: the block's own links stay as they are.
DecreaseUses(b) ==
    IF Uses(b) = 1
    THEN /\ first' = IF b = first THEN next[b] ELSE first
         /\ prev' = [c \in Block |-> IF c = next[b] THEN prev[b] ELSE prev[c]]
         /\ next' = [c \in Block |-> IF c = prev[b] THEN next[b] ELSE next[c]]
    ELSE UNCHANGED usedVars

-------------------------------------------------------------------------------
(* Passes *)

Depth == Len(passes)
Current == passes[Depth]

\* API calls are made outside collections or from a weak callback.
ApiCall == Depth > 0 => Current.node # NULL

\* The pass has come to its end.
Exhausted(p) == IF p.full THEN p.block = NULL ELSE p.index > Len(list)
NodeAt(p) == IF p.full THEN <<p.block, p.index>> ELSE list[p.index]

\* NodeIterator::Advance, with the links as they are now; or ++i.
Advanced(p) ==
    IF ~p.full \/ p.index + 1 < Size
    THEN [p EXCEPT !.index = @ + 1, !.node = NULL]
    ELSE [p EXCEPT !.block = next[p.block], !.index = 0, !.node = NULL]

\* Scavenges leave dependent handles to full collections.
Concerns(p, n) == Retainer(n) /\ (p.full \/ dep[n] # "dependent")

-------------------------------------------------------------------------------
(* Operations *)

\* Fault: a node that was left on the list is added again.
AddsAgain(n, s) ==
    IF s = "new"
    THEN list' = Append(list, n) /\ inList' = [inList EXCEPT ![n] = TRUE]
    ELSE UNCHANGED listVars

\* A node with a new-space object is put on the list, unless it is on it still
\* since it was last in use.
AddToNewSpaceNodes(n, s) ==
    IF s = "new" /\ ~inList[n]
    THEN list' = Append(list, n) /\ inList' = [inList EXCEPT ![n] = TRUE]
    ELSE UNCHANGED listVars

\* Create, CopyGlobal: a new block's nodes go on the empty free list.
Create(s) ==
    /\ ApiCall
    /\ \E b \in IF free = << >> THEN Block \ blocks ELSE {NULL} :
          LET fs == IF b = NULL THEN free ELSE [i \in 1..Size |-> <<b, i - 1>>]
              n == Head(fs)
          IN  /\ blocks' = IF b = NULL THEN blocks ELSE blocks \cup {b}
              /\ free' = Tail(fs)
              /\ state' = [state EXCEPT ![n] = "NORMAL"]
              /\ dep' = [dep EXCEPT ![n] = "dependent"]
              /\ space' = [space EXCEPT ![n] = s]
              /\ IncreaseUses(n[1])
              /\ AddToNewSpaceNodes(n, s)
    /\ UNCHANGED passes

\* Destroy: Node::Release
Destroy(n) ==
    /\ ApiCall /\ Retainer(n)
    /\ state' = [state EXCEPT ![n] = "FREE"]
    /\ dep' = [dep EXCEPT ![n] = "dependent"]
    /\ space' = [space EXCEPT ![n] = "old"]
    /\ free' = <<n>> \o free
    /\ DecreaseUses(n[1])
    /\ UNCHANGED <<blocks, listVars, passes>>

SetState(n, s) ==
    /\ ApiCall /\ Retainer(n)
    /\ state' = [state EXCEPT ![n] = s]
    /\ UNCHANGED <<dep, space, free, blocks, usedVars, listVars, passes>>

MakeWeak(n) == SetState(n, "WEAK")
ClearWeakness(n) == SetState(n, "NORMAL")

SetDependency(n, d) ==
    /\ ApiCall /\ Retainer(n)
    /\ dep[n] # "independent"
    /\ dep' = [dep EXCEPT ![n] = d]
    /\ UNCHANGED <<state, space, free, blocks, usedVars, listVars, passes>>

MarkIndependent(n) == SetDependency(n, "independent")
MarkPartiallyDependent(n) == space[n] = "new" /\ SetDependency(n, "partially")

-------------------------------------------------------------------------------
(* Collections *)

\* The weak handles a collection may find dead: IdentifyWeakHandles, or
\* IdentifyNewSpaceWeakIndependentHandles.
MayDie(full) ==
    {n \in Node : /\ state[n] = "WEAK"
                  /\ full \/ /\ \E i \in DOMAIN list : list[i] = n
                             /\ dep[n] # "dependent"
                             /\ space[n] = "new"}

\* A collection, up to the beginning of PostGarbageCollectionProcessing.
Collect(full) ==
    /\ ApiCall /\ Depth < MaxPasses
    /\ \E dead \in SUBSET MayDie(full) :
          state' = [n \in Node |-> IF n \in dead THEN "PENDING" ELSE state[n]]
    /\ \E promoted \in SUBSET {n \in Node : Retainer(n) /\ space[n] = "new"} :
          space' = [n \in Node |-> IF n \in promoted THEN "old" ELSE space[n]]
    /\ passes' = Append([i \in 1..Depth |-> [passes[i] EXCEPT !.stale = TRUE]],
                        [full |-> full,
                         block |-> IF full THEN first ELSE NULL,
                         index |-> IF full THEN 0 ELSE 1,
                         node |-> NULL, stale |-> FALSE])
    /\ UNCHANGED <<dep, free, blocks, usedVars, listVars>>

\* One turn of the loop in PostGarbageCollectionProcessing, up to the call of
\* the weak callback if there is one to call.
Visit ==
    /\ Depth > 0 /\ Current.node = NULL /\ ~Exhausted(Current)
    /\ LET n == NodeAt(Current)
           due == Concerns(Current, n) /\ state[n] = "PENDING"
       IN  /\ dep' = IF Concerns(Current, n) /\ dep[n] = "partially"
                     THEN [dep EXCEPT ![n] = "dependent"] ELSE dep
           /\ state' = IF due THEN [state EXCEPT ![n] = "NEAR_DEATH"] ELSE state
           /\ passes' = [passes EXCEPT ![Depth] =
                            IF due THEN [@ EXCEPT !.node = n] ELSE Advanced(@)]
    /\ UNCHANGED <<space, free, blocks, usedVars, listVars>>

\* The callback returns; it has revived or destroyed its handle (the contract
\* the assertion after the call states).  If another pass has begun since, this
\* one gives up.
CallbackReturn ==
    /\ Depth > 0 /\ Current.node # NULL
    /\ state[Current.node] # "NEAR_DEATH"
    /\ passes' = IF Current.stale
                 THEN SubSeq(passes, 1, Depth - 1)
                 ELSE [passes EXCEPT ![Depth] = Advanced(@)]
    /\ UNCHANGED <<nodeVars, free, blocks, usedVars, listVars>>

\* The members of s that are in keep, moved up in their order.
Kept(s, keep) ==
    LET kept[i \in 0..Len(s)] ==
            IF i = 0 THEN << >>
            ELSE IF s[i] \in keep THEN Append(kept[i - 1], s[i])
            ELSE kept[i - 1]
    IN  kept[Len(s)]

\* The list of new-space nodes is brought up to date at the end of a pass.
Finish ==
    /\ Depth > 0 /\ Current.node = NULL /\ Exhausted(Current)
    /\ LET staying == {n \in Node : Retainer(n) /\ space[n] = "new"}
       IN  /\ list' = Kept(list, staying)
           /\ inList' = [n \in Node |-> inList[n] /\ n \in staying]
    /\ passes' = SubSeq(passes, 1, Depth - 1)
    /\ UNCHANGED <<nodeVars, free, blocks, usedVars>>

Next ==
    \/ \E s \in {"new", "old"} : Create(s)
    \/ \E n \in Node :
          \/ Destroy(n)
          \/ MakeWeak(n)
          \/ ClearWeakness(n)
          \/ MarkIndependent(n)
          \/ MarkPartiallyDependent(n)
    \/ \E full \in BOOLEAN : Collect(full)
    \/ Visit
    \/ CallbackReturn
    \/ Finish

Spec == Init /\ [][Next]_vars

-------------------------------------------------------------------------------
(* Properties *)

\* next_used_ does not lead out of the blocks S.
Closed(S) == \A b \in S : next[b] # NULL => next[b] \in S

\* The blocks reachable from b through next_used_, with b.
From(b) ==
    {c \in Block : \A S \in SUBSET Block :
        Closed(S) /\ (b # NULL => b \in S) => c \in S}

\* A node is in use, or on the free list once, if its block exists; the used
\* list is the list of the blocks with nodes in use, linked both ways; and a
\* handle is near death only while its callback runs.
NodesAccounted ==
    /\ TypeOK
    /\ \A n \in Node :
          Cardinality({i \in DOMAIN free : free[i] = n}) =
              IF n[1] \in blocks /\ ~Retainer(n) THEN 1 ELSE 0
    /\ From(first) = {b \in Block : Uses(b) > 0}
    /\ first # NULL => prev[first] = NULL
    /\ \A b \in From(first) : next[b] # NULL => next[b] # b /\ prev[next[b]] = b
    /\ \A n \in Node : state[n] = "NEAR_DEATH" => \E i \in 1..Depth : passes[i].node = n

\* What the scavenger relies on (src/src/global-handles.h): the list has all
\* handles with new-space objects, and has each node once.
NewSpaceNodesComplete ==
    \A n \in Node :
        /\ Cardinality({i \in DOMAIN list : list[i] = n}) = IF inList[n] THEN 1 ELSE 0
        /\ Retainer(n) /\ space[n] = "new" => inList[n]

\* A full collection's pass, unless it gives up, runs the callback of every
\* handle found dead, also by passes that gave up before it, although callbacks
\* free, create and weaken handles and whole blocks leave and join the list it
\* walks.
NothingLeftPending ==
    [][Finish /\ Current.full => \A n \in Node : state[n] # "PENDING"]_vars
==============================================================================
