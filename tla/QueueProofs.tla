------------------------------ MODULE QueueProofs ------------------------------
(***************************************************************************)
(* Proofs about the two queues between threads: UnboundQueue for every set *)
(* of addresses and records, InputQueue for every capacity and every set   *)
(* of jobs.                                                                *)
(***************************************************************************)
EXTENDS UnboundQueue, InputQueue, SequenceTheorems, TLAPS

USE NullAssumption, RecordAssumption

\* The list that DeleteFirst leaves, stated without Tail.
LEMMA TailFacts ==
    ASSUME chain \in Seq(Node), chain # << >>
    PROVE  /\ Tail(chain) \in Seq(Node)
           /\ Len(chain) \in Nat \ {0}
           /\ Len(Tail(chain)) = Len(chain) - 1
           /\ \A i \in 1..Len(Tail(chain)) : Tail(chain)[i] = chain[i + 1]
  BY HeadTailProperties, EmptySeq

\* The list that linking a new node leaves.
LEMMA AppendFacts ==
    ASSUME chain \in Seq(Node), NEW n \in Node
    PROVE  /\ Append(chain, n) \in Seq(Node)
           /\ Len(Append(chain, n)) = Len(chain) + 1
           /\ \A i \in 1..Len(chain) : Append(chain, n)[i] = chain[i]
           /\ Append(chain, n)[Len(chain) + 1] = n
  BY AppendProperties

\* The constructor's single dummy node is a well-formed list.
LEMMA InitInv == Init => QueueInv
<1> SUFFICES ASSUME Init PROVE QueueInv
  OBVIOUS
<1>1. PICK n \in Node : chain = <<n>> /\ live = {n} /\ first_ = n /\ divider_ = n /\ last_ = n
  BY DEF Init
<1>2. /\ Len(chain) = 1 /\ chain[1] = n /\ chain \in Seq(Node)
      /\ dividerAt = 1 /\ lastAt = 1 /\ producer = "idle" /\ consumer = "idle"
      /\ next = [m \in Node |-> NULL]
      /\ value = [m \in Node |-> Nothing]
  BY <1>1 DEF Init
<1>3. TypeOK
  <2>1. /\ nextRead = NULL /\ rec = Nothing
        /\ peeked = NULL /\ sawRecord = FALSE /\ out = Nothing
    BY DEF Init
  <2>2. value \in [Node -> Record \cup {Nothing}]
    BY <1>2
  <2>3. next \in [Node -> Node \cup {NULL}]
    BY <1>2
  <2>4. first_ \in Node \cup {NULL} /\ live \subseteq Node /\ divider_ \in Node /\ last_ \in Node
    BY <1>1, <1>2
  <2>5. dividerAt \in Int /\ lastAt \in Int
    BY <1>1, <1>2
  <2>6. producer \in {"idle", "publish", "reclaim", "delete", "destroy", "gone"}
     /\ consumer \in {"idle", "read", "advance", "gone"}
    BY <1>1, <1>2
  <2>7.   nextRead \in Node \cup {NULL}
    /\ rec \in Record \cup {Nothing}
    /\ peeked \in Node \cup {NULL}
    /\ sawRecord \in BOOLEAN
    /\ out \in Record \cup {Nothing}
    BY <2>1
  <2> QED
    BY <1>1, <1>2, <2>1, <2>2, <2>3, <2>4, <2>5, <2>6, <2>7 DEF TypeOK
<1>4. ListShape
  BY <1>1, <1>2 DEF ListShape
<1>5. Pointers
  BY <1>1, <1>2 DEF Pointers, InUse
<1>6. ConsumerView /\ Remainder
  BY <1>1, <1>2 DEF Init, ConsumerView, Remainder, InUse
<1> QED
  BY <1>3, <1>4, <1>5, <1>6 DEF QueueInv

-------------------------------------------------------------------------------
(* One lemma per action that changes the list; the others follow.          *)

\* Linking a node behind last_ keeps the invariant: no other node pointed at
\* the fresh address, which may have been in use before.
LEMMA LinkInv ==
    ASSUME QueueInv, NEW r \in Record, EnqueueLink(r)
    PROVE  QueueInv'
<1> USE DEF memory, aux, consumerVars
<1>1. PICK n \in Node \ live :
          /\ live' = live \cup {n}
          /\ value' = [value EXCEPT ![n] = r]
          /\ next' = [next EXCEPT ![n] = NULL, ![last_] = n]
          /\ chain' = Append(chain, n)
  BY DEF EnqueueLink
<1>2. /\ producer = "idle" /\ producer' = "publish"
      /\ UNCHANGED <<first_, last_, divider_, consumer, nextRead, rec, peeked,
                     sawRecord, out, dividerAt, lastAt>>
  BY DEF EnqueueLink
<1>3. TypeOK
  BY DEF QueueInv
<1>4. /\ InUse
      /\ lastAt \in Nat \ {0} /\ dividerAt \in 1..lastAt
      /\ Len(chain) = lastAt
      /\ first_ = chain[1] /\ divider_ = chain[dividerAt] /\ last_ = chain[lastAt]
  BY <1>2, <1>3 DEF QueueInv, Pointers, InUse, TypeOK
<1>5. /\ chain' \in Seq(Node)
      /\ Len(chain') = lastAt + 1
      /\ \A i \in 1..lastAt : chain'[i] = chain[i]
      /\ chain'[lastAt + 1] = n
  BY <1>1, <1>3, <1>4, AppendFacts DEF TypeOK
<1>6. /\ live = {chain[i] : i \in 1..lastAt}
      /\ \A i, j \in 1..lastAt : chain[i] = chain[j] => i = j
      /\ \A i \in 1..lastAt : next[chain[i]] = IF i < lastAt THEN chain[i + 1] ELSE NULL
      /\ \A i \in 1..lastAt : chain[i] # n /\ chain[i] \in Node
  BY <1>1, <1>3, <1>4 DEF QueueInv, ListShape, TypeOK
<1>7. TypeOK'
  <2>1. value' \in [Node -> Record \cup {Nothing}]
    BY <1>1, <1>3 DEF TypeOK
  <2>2. next' \in [Node -> Node \cup {NULL}]
    BY <1>1, <1>3 DEF TypeOK
  <2> QED
    BY <1>1, <1>2, <1>3, <1>5, <2>1, <2>2 DEF TypeOK
<1>8. ListShape'
  <2>1. live' = {chain'[i] : i \in 1..(lastAt + 1)}
    BY <1>1, <1>4, <1>5, <1>6
  <2>2. ASSUME NEW i \in 1..(lastAt + 1), NEW j \in 1..(lastAt + 1), chain'[i] = chain'[j]
        PROVE  i = j
    <3>1. \A k \in 1..(lastAt + 1) : k = lastAt + 1 \/ (k \in 1..lastAt /\ chain'[k] # n)
      BY <1>4, <1>5, <1>6
    <3>2. CASE i \in 1..lastAt /\ j \in 1..lastAt
      BY <2>2, <3>2, <1>5, <1>6
    <3> QED
      BY <2>2, <3>1, <3>2, <1>5
  <2>3. \A i \in 1..(lastAt + 1) :
           next'[chain'[i]] = IF i < lastAt + 1 THEN chain'[i + 1] ELSE NULL
    <3> SUFFICES ASSUME NEW i \in 1..(lastAt + 1)
                 PROVE  next'[chain'[i]] = IF i < lastAt + 1 THEN chain'[i + 1] ELSE NULL
      OBVIOUS
    <3>1. CASE i = lastAt + 1
      BY <3>1, <1>1, <1>3, <1>4, <1>5, <1>6 DEF TypeOK
    <3>2. CASE i = lastAt
      BY <3>2, <1>1, <1>3, <1>4, <1>5, <1>6 DEF TypeOK
    <3>3. CASE i < lastAt
      BY <3>3, <1>1, <1>3, <1>4, <1>5, <1>6 DEF TypeOK
    <3> QED
      BY <3>1, <3>2, <3>3, <1>4
  <2> QED
    BY <1>5, <2>1, <2>2, <2>3 DEF ListShape
<1>9. Pointers'
  <2>1. \A i \in (dividerAt + 1)..(lastAt + 1) : value'[chain'[i]] \in Record
    BY <1>1, <1>2, <1>3, <1>4, <1>5, <1>6 DEF QueueInv, Pointers, TypeOK
  <2> QED
    BY <1>2, <1>4, <1>5, <2>1 DEF Pointers, InUse
<1>10. ConsumerView'
  <2>1. consumer = "advance" => dividerAt < lastAt /\ nextRead = chain[dividerAt + 1]
                                /\ rec = value[nextRead]
    BY DEF QueueInv, ConsumerView
  <2>2. consumer = "advance" => nextRead = chain'[dividerAt + 1] /\ rec = value'[nextRead]
    BY <2>1, <1>1, <1>3, <1>4, <1>5, <1>6 DEF TypeOK
  <2>3. peeked # NULL => dividerAt < lastAt /\ peeked = chain[dividerAt + 1]
    BY DEF QueueInv, ConsumerView
  <2>4. peeked # NULL => peeked = chain'[dividerAt + 1]
    BY <2>3, <1>4, <1>5
  <2> QED
    BY <1>2, <1>4, <2>2, <2>4 DEF QueueInv, ConsumerView, InUse
<1>11. Remainder'
  BY <1>2 DEF Remainder, InUse
<1> QED
  BY <1>7, <1>8, <1>9, <1>10, <1>11 DEF QueueInv

\* DeleteFirst keeps the shape of the list; the positions move down by one.
LEMMA DeleteFirstShape ==
    ASSUME TypeOK, ListShape, chain # << >>, first_ = chain[1], DeleteFirst
    PROVE  /\ ListShape'
           /\ chain' \in Seq(Node)
           /\ Len(chain) \in Nat \ {0} /\ Len(chain') = Len(chain) - 1
           /\ \A i \in 1..Len(chain') : chain'[i] = chain[i + 1]
           /\ first_' = IF chain' = << >> THEN NULL ELSE chain'[1]
           /\ live' \subseteq Node /\ first_' \in Node \cup {NULL}
<1>1. /\ chain' \in Seq(Node)
      /\ Len(chain) \in Nat \ {0} /\ Len(chain') = Len(chain) - 1
      /\ \A i \in 1..Len(chain') : chain'[i] = chain[i + 1]
  BY TailFacts DEF TypeOK, DeleteFirst
<1>2. /\ live = {chain[i] : i \in 1..Len(chain)}
      /\ \A i, j \in 1..Len(chain) : chain[i] = chain[j] => i = j
      /\ \A i \in 1..Len(chain) :
            next[chain[i]] = IF i < Len(chain) THEN chain[i + 1] ELSE NULL
  BY DEF ListShape
<1>3. live' = live \ {chain[1]} /\ next' = next /\ first_' = next[chain[1]]
  BY DEF DeleteFirst
<1>4. live' = {chain'[i] : i \in 1..Len(chain')}
  <2>1. ASSUME NEW m \in live' PROVE m \in {chain'[i] : i \in 1..Len(chain')}
    <3>1. PICK i \in 1..Len(chain) : m = chain[i] /\ i # 1
      BY <2>1, <1>2, <1>3
    <3>2. i - 1 \in 1..Len(chain') /\ chain'[i - 1] = m
      BY <3>1, <1>1
    <3> QED
      BY <3>2
  <2>2. ASSUME NEW i \in 1..Len(chain') PROVE chain'[i] \in live'
    BY <2>2, <1>1, <1>2, <1>3
  <2> QED
    BY <2>1, <2>2
<1>5. \A i, j \in 1..Len(chain') : chain'[i] = chain'[j] => i = j
  BY <1>1, <1>2
<1>6. \A i \in 1..Len(chain') :
         next'[chain'[i]] = IF i < Len(chain') THEN chain'[i + 1] ELSE NULL
  BY <1>1, <1>2, <1>3
<1>7. ListShape'
  BY <1>4, <1>5, <1>6 DEF ListShape
<1>8. first_' = IF chain' = << >> THEN NULL ELSE chain'[1]
  <2>1. CASE Len(chain) = 1
    BY <2>1, <1>1, <1>2, <1>3, EmptySeq
  <2>2. CASE Len(chain) > 1
    BY <2>2, <1>1, <1>2, <1>3, EmptySeq
  <2> QED
    BY <2>1, <2>2, <1>1
<1>9. first_' \in Node \cup {NULL} /\ live' \subseteq Node
  BY <1>1, <1>3, <1>2 DEF TypeOK
<1> QED
  BY <1>1, <1>7, <1>8, <1>9

\* Deleting a consumed node keeps the invariant: it lies before divider_, so
\* neither side refers to it.
LEMMA EnqueueDeleteInv ==
    ASSUME QueueInv, EnqueueDelete
    PROVE  QueueInv'
<1> USE DEF consumerVars
<1>1. /\ TypeOK /\ ListShape /\ DeleteFirst
      /\ producer = "delete" /\ producer' = "reclaim"
      /\ dividerAt' = dividerAt - 1 /\ lastAt' = lastAt - 1
      /\ UNCHANGED <<value, next, last_, divider_, consumer, nextRead, rec,
                     peeked, sawRecord, out>>
  BY DEF QueueInv, EnqueueDelete, DeleteFirst
<1>2. /\ InUse /\ InUse'
      /\ dividerAt \in 2..lastAt /\ lastAt \in Nat /\ Len(chain) = lastAt
      /\ first_ = chain[1] /\ divider_ = chain[dividerAt] /\ last_ = chain[lastAt]
      /\ \A i \in (dividerAt + 1)..lastAt : value[chain[i]] \in Record
  BY <1>1 DEF QueueInv, Pointers, InUse, TypeOK
<1>3. chain # << >>
  BY <1>1, <1>2, EmptySeq
<1>4. /\ ListShape'
      /\ chain' \in Seq(Node)
      /\ Len(chain') = lastAt - 1
      /\ \A i \in 1..(lastAt - 1) : chain'[i] = chain[i + 1]
      /\ first_' = IF chain' = << >> THEN NULL ELSE chain'[1]
      /\ live' \subseteq Node /\ first_' \in Node \cup {NULL}
  BY <1>1, <1>2, <1>3, DeleteFirstShape
<1>5. TypeOK'
  BY <1>1, <1>4 DEF TypeOK
<1>6. Pointers'
  <2>1. first_' = chain'[1]
    BY <1>2, <1>4, EmptySeq
  <2>2. divider_' = chain'[dividerAt - 1] /\ last_' = chain'[lastAt - 1]
    BY <1>1, <1>2, <1>4
  <2>3. \A i \in dividerAt..(lastAt - 1) : value[chain'[i]] \in Record
    BY <1>1, <1>2, <1>4
  <2> QED
    BY <1>1, <1>2, <1>4, <2>1, <2>2, <2>3 DEF Pointers
<1>7. ConsumerView'
  <2>1. dividerAt < lastAt => chain'[dividerAt] = chain[dividerAt + 1]
    BY <1>2, <1>4
  <2> QED
    BY <1>1, <1>2, <2>1 DEF QueueInv, ConsumerView
<1>8. Remainder'
  BY <1>2 DEF Remainder
<1> QED
  BY <1>4, <1>5, <1>6, <1>7, <1>8 DEF QueueInv

\* Deleting from the front in the destructor keeps the invariant.
LEMMA DestroyFirstInv ==
    ASSUME QueueInv, DestroyFirst
    PROVE  QueueInv'
<1> USE DEF consumerVars
<1>1. /\ TypeOK /\ ListShape /\ DeleteFirst
      /\ producer = "destroy" /\ producer' = "destroy" /\ first_ # NULL
      /\ dividerAt' = dividerAt - 1 /\ lastAt' = lastAt - 1
      /\ UNCHANGED <<value, next, last_, divider_, consumer, nextRead, rec,
                     peeked, sawRecord, out>>
  BY DEF QueueInv, DestroyFirst, DeleteFirst
<1>2. ~InUse /\ ~InUse' /\ chain # << >> /\ first_ = chain[1]
  BY <1>1 DEF QueueInv, Remainder, InUse
<1>3. /\ ListShape'
      /\ chain' \in Seq(Node)
      /\ first_' = IF chain' = << >> THEN NULL ELSE chain'[1]
      /\ live' \subseteq Node /\ first_' \in Node \cup {NULL}
  BY <1>1, <1>2, DeleteFirstShape
<1>4. TypeOK'
  BY <1>1, <1>3 DEF TypeOK
<1>5. Pointers' /\ Remainder'
  BY <1>1, <1>2, <1>3 DEF Pointers, Remainder
<1>6. ConsumerView'
  BY <1>1, <1>2 DEF QueueInv, ConsumerView
<1> QED
  BY <1>3, <1>4, <1>5, <1>6 DEF QueueInv

\* Moving last_ to the linked node keeps the invariant.
LEMMA PublishInv ==
    ASSUME QueueInv, EnqueuePublish
    PROVE  QueueInv'
<1> USE DEF consumerVars, memory
<1>1. /\ producer = "publish" /\ producer' = "reclaim"
      /\ last_' = next[last_] /\ lastAt' = lastAt + 1
      /\ UNCHANGED <<value, next, live, first_, divider_, consumer, nextRead,
                     rec, peeked, sawRecord, out, chain, dividerAt>>
  BY DEF EnqueuePublish
<1>2. /\ TypeOK /\ InUse /\ InUse'
      /\ dividerAt \in 1..lastAt /\ lastAt \in Nat /\ Len(chain) = lastAt + 1
      /\ first_ = chain[1] /\ divider_ = chain[dividerAt] /\ last_ = chain[lastAt]
  BY <1>1 DEF QueueInv, Pointers, InUse, TypeOK
<1>3. next[last_] = chain[lastAt + 1] /\ chain[lastAt + 1] \in Node
  BY <1>2 DEF QueueInv, ListShape, TypeOK
<1>4. TypeOK'
  BY <1>1, <1>2, <1>3 DEF TypeOK
<1>5. ListShape'
  BY <1>1 DEF QueueInv, ListShape
<1>6. Pointers'
  BY <1>1, <1>2, <1>3 DEF QueueInv, Pointers
<1>7. ConsumerView'
  BY <1>1, <1>2 DEF QueueInv, ConsumerView
<1>8. Remainder'
  BY <1>2 DEF Remainder
<1> QED
  BY <1>4, <1>5, <1>6, <1>7, <1>8 DEF QueueInv

\* The facts every consumer step starts from: where the divider is, and that
\* the node after it is the successor the list records.
LEMMA ConsumerFacts ==
    ASSUME QueueInv, consumer # "gone"
    PROVE  /\ TypeOK /\ InUse
           /\ dividerAt \in 1..lastAt /\ lastAt \in Nat /\ lastAt <= Len(chain)
           /\ Len(chain) \in Nat
           /\ divider_ = last_ <=> dividerAt = lastAt
           /\ dividerAt < lastAt =>
                 /\ chain[dividerAt + 1] \in Node
                 /\ next[divider_] = chain[dividerAt + 1]
                 /\ value[chain[dividerAt + 1]] \in Record
<1>1. TypeOK /\ InUse /\ Pointers /\ ListShape
  BY DEF QueueInv, ConsumerView
<1>2. /\ dividerAt \in 1..lastAt /\ lastAt \in Nat /\ lastAt <= Len(chain)
      /\ Len(chain) \in Nat
      /\ divider_ = chain[dividerAt] /\ last_ = chain[lastAt]
  BY <1>1 DEF Pointers, TypeOK
<1>3. divider_ = last_ <=> dividerAt = lastAt
  BY <1>1, <1>2 DEF ListShape
<1>4. dividerAt < lastAt => next[divider_] = chain[dividerAt + 1]
                            /\ chain[dividerAt + 1] \in Node
  BY <1>1, <1>2 DEF ListShape, TypeOK
<1>5. dividerAt < lastAt => value[chain[dividerAt + 1]] \in Record
  BY <1>1, <1>2 DEF Pointers
<1> QED
  BY <1>1, <1>2, <1>3, <1>4, <1>5

\* The steps of Dequeue keep the invariant.
LEMMA DequeueInv ==
    ASSUME QueueInv, Dequeue
    PROVE  QueueInv'
<1> USE DEF memory, aux
<1>1. CASE DequeueNothing
  <2>1. TypeOK'
    BY <1>1 DEF DequeueNothing, QueueInv, TypeOK
  <2>2. ListShape' /\ Pointers' /\ Remainder'
    BY <1>1 DEF DequeueNothing, QueueInv, ListShape, Pointers, Remainder, InUse
  <2>3. ConsumerView'
    BY <1>1 DEF DequeueNothing, QueueInv, ConsumerView, InUse
  <2> QED
    BY <2>1, <2>2, <2>3 DEF QueueInv
<1>2. CASE DequeueTest
  <2>1. TypeOK'
    BY <1>2 DEF DequeueTest, QueueInv, TypeOK
  <2>2. ListShape' /\ Pointers' /\ Remainder'
    BY <1>2 DEF DequeueTest, QueueInv, ListShape, Pointers, Remainder, InUse
  <2>3. ConsumerView'
    BY <1>2, ConsumerFacts DEF DequeueTest, QueueInv, ConsumerView, InUse
  <2> QED
    BY <2>1, <2>2, <2>3 DEF QueueInv
<1>3. CASE DequeueRead
  <2>1. /\ InUse /\ TypeOK /\ dividerAt < lastAt
        /\ nextRead' = chain[dividerAt + 1] /\ chain[dividerAt + 1] \in Node
        /\ rec' = value[nextRead'] /\ rec' \in Record
    BY <1>3, ConsumerFacts DEF DequeueRead, QueueInv, ConsumerView
  <2>2. TypeOK'
    BY <1>3, <2>1 DEF DequeueRead, TypeOK
  <2>3. ListShape' /\ Pointers' /\ Remainder'
    BY <1>3 DEF DequeueRead, QueueInv, ListShape, Pointers, Remainder, InUse
  <2>4. ConsumerView'
    BY <1>3, <2>1 DEF DequeueRead, QueueInv, ConsumerView, InUse
  <2> QED
    BY <2>2, <2>3, <2>4 DEF QueueInv
<1>4. CASE DequeueAdvance
  <2>1. /\ InUse /\ TypeOK /\ dividerAt \in 1..lastAt /\ lastAt \in Nat
        /\ dividerAt < lastAt
        /\ divider_' = chain[dividerAt + 1] /\ chain[dividerAt + 1] \in Node
    BY <1>4, ConsumerFacts DEF DequeueAdvance, QueueInv, ConsumerView
  <2>2. TypeOK'
    <3>1. /\ divider_' \in Node /\ out' \in Record \cup {Nothing}
          /\ dividerAt' \in Int
          /\ nextRead' = NULL /\ rec' = Nothing /\ peeked' = NULL
          /\ sawRecord' = FALSE /\ consumer' = "idle"
      BY <1>4, <2>1 DEF DequeueAdvance, TypeOK
    <3>2. UNCHANGED <<value, next, live, first_, last_, producer, chain, lastAt>>
      BY <1>4 DEF DequeueAdvance
    <3> QED
      BY <2>1, <3>1, <3>2 DEF TypeOK
  <2>3. ListShape' /\ Remainder'
    BY <1>4 DEF DequeueAdvance, QueueInv, ListShape, Remainder, InUse
  <2>4. Pointers'
    BY <1>4, <2>1 DEF DequeueAdvance, QueueInv, Pointers, InUse, TypeOK
  <2>5. ConsumerView'
    BY <1>4, <2>1 DEF DequeueAdvance, QueueInv, ConsumerView, InUse
  <2> QED
    BY <2>2, <2>3, <2>4, <2>5 DEF QueueInv
<1> QED
  BY <1>1, <1>2, <1>3, <1>4 DEF Dequeue

\* Every step keeps the invariant.
LEMMA StepInv ==
    ASSUME QueueInv, [Next]_vars
    PROVE  QueueInv'
<1> USE DEF memory, aux, consumerVars
<1>1. CASE \E r \in Record : EnqueueLink(r)
  BY <1>1, LinkInv
<1>2. CASE EnqueuePublish
  BY <1>2, PublishInv
<1>3. CASE EnqueueTestFirst
  <2>1. TypeOK'
    BY <1>3 DEF EnqueueTestFirst, QueueInv, TypeOK
  <2>2. ListShape' /\ Remainder'
    BY <1>3 DEF EnqueueTestFirst, QueueInv, ListShape, Remainder, InUse
  <2>3. Pointers'
    BY <1>3 DEF EnqueueTestFirst, QueueInv, Pointers, InUse, TypeOK
  <2>4. ConsumerView'
    BY <1>3 DEF EnqueueTestFirst, QueueInv, ConsumerView, InUse
  <2> QED
    BY <2>1, <2>2, <2>3, <2>4 DEF QueueInv
<1>4. CASE EnqueueDelete
  BY <1>4, EnqueueDeleteInv
<1>5. CASE Dequeue
  BY <1>5, DequeueInv
<1>6. CASE Peek
  <2>1. TypeOK /\ TypeOK'
    BY <1>6, ConsumerFacts DEF Peek, QueueInv, TypeOK
  <2>2. ListShape' /\ Pointers' /\ Remainder'
    BY <1>6 DEF Peek, QueueInv, ListShape, Pointers, Remainder, InUse
  <2>3. ConsumerView'
    BY <1>6, ConsumerFacts DEF Peek, QueueInv, ConsumerView, InUse
  <2> QED
    BY <2>1, <2>2, <2>3 DEF QueueInv
<1>7. CASE IsEmpty
  <2>1. TypeOK'
    BY <1>7 DEF IsEmpty, QueueInv, TypeOK
  <2>2. ListShape' /\ Pointers' /\ Remainder'
    BY <1>7 DEF IsEmpty, QueueInv, ListShape, Pointers, Remainder, InUse
  <2>3. ConsumerView'
    <3>1. /\ consumer = "idle" /\ InUse
          /\ sawRecord' => dividerAt < lastAt
          /\ UNCHANGED <<producer, chain, dividerAt, lastAt, divider_, consumer,
                         nextRead, rec, peeked, value>>
      <4>1. /\ consumer = "idle"
            /\ UNCHANGED <<producer, chain, dividerAt, lastAt, divider_, consumer,
                           nextRead, rec, peeked, value>>
            /\ sawRecord' => divider_ # last_
        BY <1>7, Zenon DEF IsEmpty
      <4>2. /\ InUse
            /\ divider_ # last_ => dividerAt < lastAt
        BY <4>1, ConsumerFacts
      <4> QED
        BY <4>1, <4>2
    <3> QED
      BY <3>1 DEF QueueInv, ConsumerView, InUse
  <2> QED
    BY <2>1, <2>2, <2>3 DEF QueueInv
<1>8. CASE Destroy
  <2>1. TypeOK'
    BY <1>8 DEF Destroy, QueueInv, TypeOK
  <2>2. ListShape' /\ Pointers'
    BY <1>8 DEF Destroy, QueueInv, ListShape, Pointers, InUse
  <2>3. Remainder'
    BY <1>8, ConsumerFacts, EmptySeq DEF Destroy, QueueInv, Pointers, Remainder, InUse, TypeOK
  <2>4. ConsumerView'
    BY <1>8 DEF Destroy, QueueInv, ConsumerView, InUse
  <2> QED
    BY <2>1, <2>2, <2>3, <2>4 DEF QueueInv
<1>9. CASE DestroyFirst
  BY <1>9, DestroyFirstInv
<1>10. CASE DestroyDone
  <2>1. TypeOK'
    BY <1>10 DEF DestroyDone, QueueInv, TypeOK
  <2>2. ListShape' /\ Pointers'
    BY <1>10 DEF DestroyDone, QueueInv, ListShape, Pointers, InUse
  <2>3. chain = << >>
    <3> SUFFICES ASSUME chain # << >> PROVE FALSE
      OBVIOUS
    <3>1. first_ = chain[1] /\ chain[1] \in Node
      BY <1>10, EmptySeq DEF DestroyDone, QueueInv, Remainder, InUse, TypeOK
    <3> QED
      BY <3>1, <1>10 DEF DestroyDone
  <2>4. Remainder'
    BY <1>10, <2>3 DEF DestroyDone, QueueInv, Remainder, InUse
  <2>5. ConsumerView'
    BY <1>10 DEF DestroyDone, QueueInv, ConsumerView, InUse
  <2> QED
    BY <2>1, <2>2, <2>4, <2>5 DEF QueueInv
<1>11. CASE UNCHANGED vars
  BY <1>11 DEF vars, QueueInv, TypeOK, ListShape, Pointers, ConsumerView, Remainder, InUse
<1> QED
  BY <1>1, <1>2, <1>3, <1>4, <1>5, <1>6, <1>7, <1>8, <1>9, <1>10, <1>11
  DEF Next, Enqueue

\* The list is well formed in every reachable state: what Enqueue, Dequeue,
\* Peek and the destructor rely on, for any set of addresses.
THEOREM QueueInvariant == Spec => []QueueInv
<1>1. Init => QueueInv
  BY InitInv
<1>2. QueueInv /\ [Next]_vars => QueueInv'
  BY StepInv
<1> QED
  BY <1>1, <1>2, PTL DEF Spec

\* No thread ever touches a deleted node, although the producer frees nodes
\* while the consumer reads (src/src/unbound-queue-inl.h:88-90 and 73-78).
THEOREM NoDanglingPointerTheorem == Spec => []NoDanglingPointer
<1>1. QueueInv => NoDanglingPointer
  <2> SUFFICES ASSUME QueueInv, InUse PROVE NoDanglingPointer
    BY DEF NoDanglingPointer
  <2>0. TypeOK /\ ListShape /\ Pointers /\ ConsumerView
    BY DEF QueueInv
  <2>1. /\ TypeOK /\ ListShape /\ consumer # "gone"
        /\ first_ = chain[1] /\ divider_ = chain[dividerAt] /\ last_ = chain[lastAt]
        /\ dividerAt \in 1..lastAt /\ lastAt \in 1..Len(chain) /\ Len(chain) \in Nat
    <3>1. /\ 1 <= dividerAt /\ dividerAt <= lastAt /\ dividerAt \in Int /\ lastAt \in Int
          /\ Len(chain) = IF producer = "publish" THEN lastAt + 1 ELSE lastAt
      BY <2>0 DEF Pointers, TypeOK
    <3>2. dividerAt \in 1..lastAt /\ lastAt \in 1..Len(chain) /\ Len(chain) \in Nat
      BY <3>1
    <3>3. first_ = chain[1] /\ divider_ = chain[dividerAt] /\ last_ = chain[lastAt]
      BY <2>0 DEF Pointers
    <3>4. consumer # "gone"
      BY <2>0 DEF ConsumerView
    <3> QED
      BY <2>0, <3>2, <3>3, <3>4
  <2>2. {first_, divider_, last_} \subseteq live
    <3>1. {1, dividerAt, lastAt} \subseteq 1..Len(chain)
      BY <2>1
    <3>2. \A i \in 1..Len(chain) : chain[i] \in live
      BY <2>1 DEF ListShape
    <3> QED
      BY <2>1, <3>1, <3>2
  <2>3. dividerAt < lastAt => /\ next[divider_] = chain[dividerAt + 1]
                              /\ chain[dividerAt + 1] \in live
    BY <2>1 DEF ListShape
  <2>4. consumer = "read" => next[divider_] \in live
    BY <2>3 DEF QueueInv, ConsumerView
  <2>5. consumer = "advance" => nextRead \in live
    BY <2>3 DEF QueueInv, ConsumerView
  <2>6. peeked # NULL => peeked \in live
    BY <2>3 DEF QueueInv, ConsumerView
  <2>7. ASSUME producer = "delete"
        PROVE  first_ \notin {divider_, last_, next[divider_], nextRead, peeked}
    <3>1. dividerAt > 1 /\ first_ \in Node
      BY <2>1, <2>7 DEF QueueInv, Pointers, TypeOK
    <3>2. first_ # divider_ /\ first_ # last_
      BY <2>1, <3>1 DEF ListShape
    <3>3. next[divider_] \in Node \cup {NULL} /\ first_ # next[divider_]
      BY <2>1, <3>1, <2>7 DEF ListShape, TypeOK
    <3>4. first_ # nextRead /\ first_ # peeked
      BY <2>1, <2>3, <3>1, <3>3 DEF QueueInv, ConsumerView
    <3> QED
      BY <3>2, <3>3, <3>4
  <2> QED
    BY <2>2, <2>4, <2>5, <2>6, <2>7 DEF NoDanglingPointer
<1> QED
  BY <1>1, QueueInvariant, PTL

\* The destructor leaves no node allocated, wherever the consumer stopped
\* (src/src/unbound-queue-inl.h:56-59).
THEOREM DestructorFreesAllTheorem == Spec => []DestructorFreesAll
<1>1. QueueInv => DestructorFreesAll
  <2> SUFFICES ASSUME QueueInv, producer = "gone" PROVE live = {}
    BY DEF DestructorFreesAll
  <2>1. chain = << >>
    BY DEF QueueInv, Remainder, InUse
  <2> QED
    BY <2>1 DEF QueueInv, ListShape
<1> QED
  BY <1>1, QueueInvariant, PTL

\* A record the consumer was told of is there until it dequeues it, whatever
\* the producer does meanwhile (src/src/cpu-profiler.cc:109-111).
THEOREM SeenRecordStaysTheorem == Spec => []SeenRecordStays
<1>1. QueueInv => SeenRecordStays
  <2> SUFFICES ASSUME QueueInv, InUse, dividerAt < lastAt
               PROVE  divider_ # last_ /\ next[divider_] = chain[dividerAt + 1]
    BY DEF SeenRecordStays, QueueInv, ConsumerView
  <2>1. /\ divider_ = chain[dividerAt] /\ last_ = chain[lastAt]
        /\ dividerAt \in 1..Len(chain) /\ lastAt \in 1..Len(chain) /\ dividerAt < Len(chain)
    BY DEF QueueInv, Pointers, TypeOK
  <2> QED
    BY <2>1 DEF QueueInv, ListShape
<1> QED
  BY <1>1, QueueInvariant, PTL

-------------------------------------------------------------------------------
(* Refinement of FifoQueue *)

\* Queue is a sequence of records.
QueueFacts ==
    /\ Queue \in Seq(Record)
    /\ Len(Queue) = lastAt - dividerAt
    /\ lastAt - dividerAt \in Nat
    /\ \A i \in 1..(lastAt - dividerAt) : Queue[i] = value[chain[dividerAt + i]]

\* While the queue is in use, the abstract queue is a sequence of records as
\* long as the distance between divider_ and last_.
LEMMA QueueIsSeq == QueueInv /\ InUse => QueueFacts
<1> SUFFICES ASSUME QueueInv, InUse PROVE QueueFacts
  OBVIOUS
<1>1. /\ dividerAt \in 1..lastAt /\ lastAt \in Nat /\ lastAt <= Len(chain)
      /\ \A i \in (dividerAt + 1)..Len(chain) : value[chain[i]] \in Record
  BY DEF QueueInv, TypeOK, Pointers
<1>2. \A i \in 1..(lastAt - dividerAt) : value[chain[dividerAt + i]] \in Record
  BY <1>1 DEF QueueInv, TypeOK
<1>3. lastAt - dividerAt \in Nat
  BY <1>1 DEF QueueInv, TypeOK
<1>4. Queue \in [1..(lastAt - dividerAt) -> Record]
  BY <1>2 DEF Queue
<1>5. Queue \in Seq(Record) /\ Len(Queue) = lastAt - dividerAt
  BY <1>3, <1>4
<1> QED
  BY <1>3, <1>5 DEF Queue, QueueFacts

\* The same after a step.
LEMMA QueueIsSeqNext == QueueInv' /\ InUse' => QueueFacts'
  BY QueueIsSeq, PTL

\* Two positions in which the abstract queue is the same.
LEMMA QueueSame ==
    ASSUME QueueInv, InUse,
           lastAt' - dividerAt' = lastAt - dividerAt,
           \A i \in 1..(lastAt - dividerAt) :
              value'[chain'[dividerAt' + i]] = value[chain[dividerAt + i]]
    PROVE  Queue' = Queue
  BY DEF Queue

\* Linking a node changes no record that is in the queue.
LEMMA LinkStutters ==
    ASSUME QueueInv, QueueInv', NEW r \in Record, EnqueueLink(r)
    PROVE  InUse /\ InUse' /\ Queue' = Queue /\ out' = out
<1> USE DEF memory, aux, consumerVars
<1>1. PICK n \in Node \ live :
          /\ value' = [value EXCEPT ![n] = r]
          /\ chain' = Append(chain, n)
  BY DEF EnqueueLink
<1>2. /\ InUse /\ InUse' /\ out' = out
      /\ dividerAt' = dividerAt /\ lastAt' = lastAt
      /\ dividerAt \in 1..lastAt /\ lastAt \in Nat /\ lastAt = Len(chain)
      /\ TypeOK
  BY DEF EnqueueLink, QueueInv, Pointers, InUse, TypeOK
<1>3. \A i \in 1..lastAt : /\ chain[i] \in Node /\ chain[i] # n
                           /\ chain'[i] = chain[i]
  BY <1>1, <1>2, AppendFacts DEF QueueInv, ListShape, TypeOK
<1>4. \A i \in 1..lastAt : value'[chain'[i]] = value[chain[i]]
  BY <1>1, <1>2, <1>3 DEF TypeOK
<1>5. \A i \in 1..(lastAt - dividerAt) :
         value'[chain'[dividerAt' + i]] = value[chain[dividerAt + i]]
  BY <1>2, <1>4
<1> QED
  BY <1>2, <1>5, QueueSame

\* Publishing the node appends its record.
LEMMA PublishPuts ==
    ASSUME QueueInv, QueueInv', EnqueuePublish
    PROVE  InUse /\ InUse' /\ out' = out
           /\ \E r \in Record : Queue' = Append(Queue, r)
<1> USE DEF memory, consumerVars
<1>1. /\ InUse /\ InUse' /\ out' = out
      /\ dividerAt' = dividerAt /\ lastAt' = lastAt + 1
      /\ chain' = chain /\ value' = value
      /\ dividerAt \in 1..lastAt /\ lastAt \in Nat /\ Len(chain) = lastAt + 1
  BY DEF EnqueuePublish, QueueInv, Pointers, InUse, TypeOK
<1> DEFINE r == value[chain[lastAt + 1]]
<1>2. r \in Record
  BY <1>1 DEF QueueInv, Pointers
<1>3. /\ Queue \in Seq(Record)
      /\ Len(Queue) = lastAt - dividerAt
      /\ \A i \in 1..(lastAt - dividerAt) : Queue[i] = value[chain[dividerAt + i]]
  BY <1>1, QueueIsSeq DEF QueueFacts
<1>4. /\ Queue' \in Seq(Record)
      /\ Len(Queue') = lastAt' - dividerAt'
      /\ \A i \in 1..(lastAt' - dividerAt') :
            Queue'[i] = value'[chain'[dividerAt' + i]]
  BY <1>1, QueueIsSeqNext DEF QueueFacts
<1> HIDE DEF r
<1>5. /\ Append(Queue, r) \in Seq(Record)
      /\ Len(Append(Queue, r)) = lastAt - dividerAt + 1
      /\ \A i \in 1..(lastAt - dividerAt) : Append(Queue, r)[i] = value[chain[dividerAt + i]]
      /\ Append(Queue, r)[lastAt - dividerAt + 1] = r
  BY <1>1, <1>2, <1>3, AppendProperties
<1>6. \A i \in 1..Len(Queue') : Queue'[i] = Append(Queue, r)[i]
  <2> SUFFICES ASSUME NEW i \in 1..Len(Queue') PROVE Queue'[i] = Append(Queue, r)[i]
    OBVIOUS
  <2>1. CASE i = lastAt - dividerAt + 1
    BY <2>1, <1>1, <1>4, <1>5 DEF r
  <2>2. CASE i \in 1..(lastAt - dividerAt)
    BY <2>2, <1>1, <1>4, <1>5
  <2> QED
    <3>1. lastAt' - dividerAt' = lastAt - dividerAt + 1 /\ lastAt - dividerAt \in Nat
      BY <1>1
    <3>2. Len(Queue') = lastAt - dividerAt + 1
      BY <3>1, <1>4
    <3>3. i \in 1..(lastAt - dividerAt) \/ i = lastAt - dividerAt + 1
      BY <3>1, <3>2
    <3> QED
      BY <2>1, <2>2, <3>3
<1>7. Queue' = Append(Queue, r)
  BY <1>1, <1>4, <1>5, <1>6, SeqEqual
<1> QED
  BY <1>1, <1>2, <1>7

\* Moving divider_ on takes the oldest record and delivers it.
LEMMA AdvanceGets ==
    ASSUME QueueInv, QueueInv', DequeueAdvance
    PROVE  /\ InUse /\ InUse' /\ Queue # << >>
           /\ out' = Head(Queue) /\ Queue' = Tail(Queue)
<1> USE DEF memory, aux
<1>1. /\ InUse /\ InUse'
      /\ dividerAt' = dividerAt + 1 /\ lastAt' = lastAt
      /\ chain' = chain /\ value' = value
      /\ dividerAt \in 1..lastAt /\ lastAt \in Nat /\ dividerAt < lastAt
      /\ out' = value[chain[dividerAt + 1]]
  BY ConsumerFacts DEF DequeueAdvance, QueueInv, ConsumerView, InUse
<1>2. /\ Queue \in Seq(Record)
      /\ Len(Queue) = lastAt - dividerAt
      /\ lastAt - dividerAt \in Nat \ {0}
      /\ \A i \in 1..(lastAt - dividerAt) : Queue[i] = value[chain[dividerAt + i]]
  BY <1>1, QueueIsSeq DEF QueueFacts
<1>3. /\ Queue' \in Seq(Record)
      /\ Len(Queue') = lastAt - dividerAt - 1
      /\ \A i \in 1..(lastAt - dividerAt - 1) :
            Queue'[i] = value[chain[dividerAt + 1 + i]]
  <2>1. /\ Queue' \in Seq(Record)
        /\ Len(Queue') = lastAt' - dividerAt'
        /\ \A i \in 1..(lastAt' - dividerAt') :
              Queue'[i] = value'[chain'[dividerAt' + i]]
    BY <1>1, QueueIsSeqNext DEF QueueFacts
  <2>2. lastAt' - dividerAt' = lastAt - dividerAt - 1
    BY <1>1
  <2> QED
    BY <2>1, <2>2, <1>1
<1>4. Queue # << >>
  BY <1>2, EmptySeq
<1>5. /\ Tail(Queue) \in Seq(Record)
      /\ Len(Tail(Queue)) = lastAt - dividerAt - 1
      /\ \A i \in 1..(lastAt - dividerAt - 1) : Tail(Queue)[i] = Queue[i + 1]
  BY <1>2, <1>4, HeadTailProperties
<1>6. \A i \in 1..(lastAt - dividerAt - 1) : Tail(Queue)[i] = value[chain[dividerAt + 1 + i]]
  <2> SUFFICES ASSUME NEW i \in 1..(lastAt - dividerAt - 1)
               PROVE  Tail(Queue)[i] = value[chain[dividerAt + 1 + i]]
    OBVIOUS
  <2>1. i + 1 \in 1..(lastAt - dividerAt) /\ dividerAt + (i + 1) = dividerAt + 1 + i
    BY <1>1
  <2> QED
    BY <2>1, <1>2, <1>5
<1>7. Queue' = Tail(Queue)
  BY <1>3, <1>5, <1>6, SeqEqual
<1>8. Head(Queue) = value[chain[dividerAt + 1]]
  BY <1>1, <1>2, <1>4
<1> QED
  BY <1>1, <1>4, <1>7, <1>8

\* Deleting a consumed node leaves the records where they are.
LEMMA DeleteStutters ==
    ASSUME QueueInv, QueueInv', EnqueueDelete
    PROVE  InUse /\ InUse' /\ Queue' = Queue /\ out' = out
<1> USE DEF consumerVars
<1>1. /\ InUse /\ InUse' /\ out' = out /\ value' = value /\ DeleteFirst
      /\ dividerAt' = dividerAt - 1 /\ lastAt' = lastAt - 1
      /\ dividerAt \in 2..lastAt /\ lastAt \in Nat /\ Len(chain) = lastAt
      /\ TypeOK /\ ListShape /\ first_ = chain[1]
  BY DEF EnqueueDelete, DeleteFirst, QueueInv, Pointers, InUse, TypeOK
<1>2. chain # << >>
  BY <1>1, EmptySeq
<1>3. /\ Len(chain') = lastAt - 1
      /\ \A i \in 1..(lastAt - 1) : chain'[i] = chain[i + 1]
  BY <1>1, <1>2, DeleteFirstShape
<1>4. \A i \in 1..(lastAt - dividerAt) :
         value'[chain'[dividerAt' + i]] = value[chain[dividerAt + i]]
  <2> SUFFICES ASSUME NEW i \in 1..(lastAt - dividerAt)
               PROVE  value'[chain'[dividerAt' + i]] = value[chain[dividerAt + i]]
    OBVIOUS
  <2>1. dividerAt' + i \in 1..(lastAt - 1) /\ dividerAt' + i + 1 = dividerAt + i
    BY <1>1
  <2> QED
    BY <1>1, <1>3, <2>1
<1>5. lastAt' - dividerAt' = lastAt - dividerAt
  BY <1>1
<1>6. Queue' = Queue
  BY <1>1, <1>4, <1>5, QueueSame
<1> QED
  BY <1>1, <1>6

\* A step that leaves the list and the pointers alone leaves the queue alone.
LEMMA OtherStutters ==
    ASSUME QueueInv, UNCHANGED <<value, chain, dividerAt, lastAt>>
    PROVE  Queue' = Queue
  BY DEF Queue

\* The linked list is a first-in first-out queue, whatever the addresses and
\* however the two threads interleave.
THEOREM ImplementsFifo == Spec => FifoSpec
<1> USE DEF Fifo!fifoVars
<1>1. Init => Fifo!FifoInit
  <2> SUFFICES ASSUME Init PROVE Fifo!FifoInit
    OBVIOUS
  <2>1. InUse /\ out = Nothing /\ lastAt = 1 /\ dividerAt = 1
    BY DEF Init, InUse
  <2>2. Queue = << >>
    BY <2>1 DEF Queue
  <2> QED
    BY <2>1, <2>2 DEF Fifo!FifoInit
<1>2. QueueInv /\ QueueInv' /\ [Next]_vars => [Fifo!FifoNext]_(Fifo!fifoVars)
  <2> SUFFICES ASSUME QueueInv, QueueInv', [Next]_vars
               PROVE  [Fifo!FifoNext]_(Fifo!fifoVars)
    OBVIOUS
  <2> USE DEF memory, aux, consumerVars
  <2>1. CASE \E r \in Record : EnqueueLink(r)
    <3>1. PICK r \in Record : EnqueueLink(r)
      BY <2>1
    <3>2. InUse /\ InUse' /\ Queue' = Queue /\ out' = out
      BY <3>1, LinkStutters
    <3> QED
      BY <3>2
  <2>2. CASE EnqueuePublish
    BY <2>2, PublishPuts DEF Fifo!FifoNext, Fifo!Put
  <2>3. CASE EnqueueTestFirst
    BY <2>3, OtherStutters DEF EnqueueTestFirst, InUse
  <2>4. CASE EnqueueDelete
    BY <2>4, DeleteStutters
  <2>5. CASE DequeueNothing
    <3>1. InUse /\ InUse' /\ out' = Nothing /\ Queue' = Queue
      BY <2>5, OtherStutters, ConsumerFacts DEF DequeueNothing, InUse
    <3>2. lastAt = dividerAt /\ dividerAt \in Nat
      BY <2>5, ConsumerFacts DEF DequeueNothing
    <3>3. Queue = << >>
      BY <3>2 DEF Queue
    <3> QED
      BY <3>1, <3>3 DEF Fifo!FifoNext, Fifo!GetNothing
  <2>6. CASE DequeueTest
    BY <2>6, OtherStutters DEF DequeueTest, InUse
  <2>7. CASE DequeueRead
    BY <2>7, OtherStutters DEF DequeueRead, InUse
  <2>8. CASE DequeueAdvance
    BY <2>8, AdvanceGets DEF Fifo!FifoNext, Fifo!Get
  <2>9. CASE Peek
    BY <2>9, OtherStutters DEF Peek, InUse
  <2>10. CASE IsEmpty
    BY <2>10, OtherStutters DEF IsEmpty, InUse
  <2>11. CASE Destroy
    BY <2>11 DEF Destroy, InUse, Fifo!FifoNext, Fifo!Close
  <2>12. CASE DestroyFirst
    BY <2>12 DEF DestroyFirst, InUse
  <2>13. CASE DestroyDone
    BY <2>13 DEF DestroyDone, InUse
  <2>14. CASE UNCHANGED vars
    BY <2>14, OtherStutters DEF vars, InUse
  <2> QED
    BY <2>1, <2>2, <2>3, <2>4, <2>5, <2>6, <2>7, <2>8, <2>9, <2>10, <2>11, <2>12,
       <2>13, <2>14 DEF Next, Enqueue, Dequeue
<1> QED
  BY <1>1, <1>2, QueueInvariant, PTL DEF Spec, FifoSpec, Fifo!FifoSpec

-------------------------------------------------------------------------------
(* The ring                                                                *)

\* Adding two indices of the array wraps around at most once.
LEMMA WrapOnce ==
    ASSUME NEW a \in 0..(Capacity - 1), NEW b \in 0..(Capacity - 1)
    PROVE  (a + b) % Capacity = IF a + b < Capacity THEN a + b ELSE a + b - Capacity
<1>1. /\ Capacity \in Nat \ {0} /\ a \in Int /\ b \in Int
      /\ 0 <= a + b /\ a + b < 2 * Capacity
  BY CapacityAssumption
<1>2. (a + b) % Capacity \in 0..(Capacity - 1)
  BY <1>1
<1>3. a + b = (Capacity * ((a + b) \div Capacity)) + ((a + b) % Capacity)
  BY <1>1
<1> QED
  BY <1>1, <1>2, <1>3

\* An index of the array is not wrapped around again.
LEMMA NoWrap ==
    ASSUME NEW a \in 0..(Capacity - 1)
    PROVE  a % Capacity = a
<1>1. 0 \in 0..(Capacity - 1) /\ a + 0 = a /\ a < Capacity
  BY CapacityAssumption
<1>2. (a + 0) % Capacity = IF a + 0 < Capacity THEN a + 0 ELSE a + 0 - Capacity
  BY <1>1, WrapOnce
<1> QED
  BY <1>1, <1>2

\* The assertions of the ring hold: in particular the room that
\* IsQueueAvailable saw is still there at the enqueue, because the compiler
\* thread only takes jobs.
THEOREM RingInvariant == RingSpec => []RingInv
<1>1. RingInit => RingInv
  <2>1. 0 \in 0..(Capacity - 1) /\ 0 \in 0..Capacity
    BY CapacityAssumption
  <2> QED
    BY <2>1 DEF RingInit, RingInv
<1>2. RingInv /\ [RingNext]_ringVars => RingInv'
  <2> SUFFICES ASSUME RingInv, [RingNext]_ringVars PROVE RingInv'
    OBVIOUS
  <2> USE CapacityAssumption, JobAssumption DEF RingInv
  <2>1. CASE IsQueueAvailable
    BY <2>1 DEF IsQueueAvailable
  <2>2. CASE \E j \in Job : EnqueueBack(j)
    <3>1. PICK j \in Job : EnqueueBack(j)
      BY <2>2
    <3>2. /\ InputQueueIndex(input_queue_length_) \in 0..(Capacity - 1)
          /\ input_queue_length_ + 1 \in 0..Capacity
      BY <3>1 DEF InputQueueIndex, EnqueueBack
    <3>3. input_queue_' \in [0..(Capacity - 1) -> Job]
      BY <3>1, <3>2 DEF EnqueueBack
    <3> QED
      BY <3>1, <3>2, <3>3 DEF EnqueueBack
  <2>3. CASE \E j \in Job : EnqueueFront(j)
    <3>1. PICK j \in Job : EnqueueFront(j)
      BY <2>3
    <3>2. /\ InputQueueIndex(Capacity - 1) \in 0..(Capacity - 1)
          /\ input_queue_length_ + 1 \in 0..Capacity
      BY <3>1 DEF InputQueueIndex, EnqueueFront
    <3>3. input_queue_' \in [0..(Capacity - 1) -> Job]
      <4>1. input_queue_shift_' % Capacity \in 0..(Capacity - 1)
        BY <3>1, <3>2 DEF EnqueueFront
      <4> QED
        BY <3>1, <4>1 DEF EnqueueFront
    <3> QED
      BY <3>1, <3>2, <3>3 DEF EnqueueFront
  <2>4. CASE NextInput
    <3>1. InputQueueIndex(0) \in 0..(Capacity - 1) /\ InputQueueIndex(1) \in 0..(Capacity - 1)
      BY DEF InputQueueIndex
    <3> QED
      BY <2>4, <3>1 DEF NextInput
  <2>5. CASE UNCHANGED ringVars
    BY <2>5 DEF ringVars
  <2> QED
    BY <2>1, <2>2, <2>3, <2>4, <2>5 DEF RingNext
<1> QED
  BY <1>1, <1>2, PTL DEF RingSpec

-------------------------------------------------------------------------------
(* The refinement *)

\* The contents are a sequence as long as the ring says, whose elements are
\* found from the front on, around the end of the array.
ContentsFacts ==
    /\ Contents \in Seq(Job)
    /\ Len(Contents) = input_queue_length_
    /\ \A i \in 1..input_queue_length_ :
          Contents[i] = input_queue_[InputQueueIndex(i - 1)]
    /\ \A i \in 0..(Capacity - 1) :
          InputQueueIndex(i) = IF i + input_queue_shift_ < Capacity
                               THEN i + input_queue_shift_
                               ELSE i + input_queue_shift_ - Capacity

\* In a well-formed ring the contents are such a sequence.
LEMMA ContentsAreSeq == RingInv => ContentsFacts
<1> SUFFICES ASSUME RingInv PROVE ContentsFacts
  OBVIOUS
<1>1. \A i \in 0..(Capacity - 1) :
         InputQueueIndex(i) = IF i + input_queue_shift_ < Capacity
                              THEN i + input_queue_shift_
                              ELSE i + input_queue_shift_ - Capacity
  BY WrapOnce DEF InputQueueIndex, RingInv
<1>2. \A i \in 1..input_queue_length_ :
         /\ i - 1 \in 0..(Capacity - 1)
         /\ InputQueueIndex(i - 1) \in 0..(Capacity - 1)
  BY <1>1, CapacityAssumption DEF RingInv
<1>3. \A i \in 1..input_queue_length_ : input_queue_[InputQueueIndex(i - 1)] \in Job
  BY <1>2 DEF RingInv
<1>4. input_queue_length_ \in Nat
  BY CapacityAssumption DEF RingInv
<1>5. Contents \in [1..input_queue_length_ -> Job]
  BY <1>3 DEF Contents
<1>6. Contents \in Seq(Job) /\ Len(Contents) = input_queue_length_
  BY <1>4, <1>5
<1> QED
  BY <1>1, <1>6 DEF Contents, ContentsFacts

\* The same after a step.
LEMMA ContentsAreSeqNext == RingInv' => ContentsFacts'
  BY ContentsAreSeq, PTL

\* Adding at the back appends, without overwriting.
LEMMA BackAppends ==
    ASSUME RingInv, RingInv', NEW j \in Job, EnqueueBack(j)
    PROVE  Contents' = Append(Contents, j) /\ Len(Contents) < Capacity
<1> USE CapacityAssumption
<1>1. ContentsFacts /\ ContentsFacts'
  BY ContentsAreSeq, ContentsAreSeqNext
<1>2. /\ Append(Contents, j) \in Seq(Job)
      /\ Len(Append(Contents, j)) = input_queue_length_ + 1
      /\ \A i \in 1..input_queue_length_ : Append(Contents, j)[i] = Contents[i]
      /\ Append(Contents, j)[input_queue_length_ + 1] = j
  BY <1>1, AppendProperties DEF ContentsFacts
<1>3. /\ input_queue_shift_' = input_queue_shift_
      /\ input_queue_length_' = input_queue_length_ + 1
      /\ input_queue_length_ < Capacity
  BY DEF EnqueueBack, RingInv
<1>4. Contents'[input_queue_length_ + 1] = j
  BY <1>1, <1>3 DEF ContentsFacts, EnqueueBack, RingInv
<1>5. \A i \in 1..input_queue_length_ : Contents'[i] = Contents[i]
  BY <1>1, <1>3 DEF ContentsFacts, EnqueueBack, RingInv
<1> QED
  BY <1>1, <1>2, <1>3, <1>4, <1>5, SeqEqual DEF ContentsFacts, RingInv
\* Adding at the front moves the others one place back, without overwriting.
LEMMA FrontPrepends ==
    ASSUME RingInv, RingInv', NEW j \in Job, EnqueueFront(j)
    PROVE  Contents' = <<j>> \o Contents /\ Len(Contents) < Capacity
<1> USE CapacityAssumption
<1>1. ContentsFacts /\ ContentsFacts'
  BY ContentsAreSeq, ContentsAreSeqNext
<1>2. /\ <<j>> \in Seq(Job) /\ Len(<<j>>) = 1 /\ <<j>>[1] = j
  OBVIOUS
<1>3. /\ <<j>> \o Contents \in Seq(Job)
      /\ Len(<<j>> \o Contents) = input_queue_length_ + 1
      /\ (<<j>> \o Contents)[1] = j
      /\ \A i \in 1..input_queue_length_ : (<<j>> \o Contents)[i + 1] = Contents[i]
  BY <1>1, <1>2, ConcatProperties DEF ContentsFacts, RingInv
<1>4. /\ input_queue_shift_' = IF input_queue_shift_ = 0 THEN Capacity - 1
                                ELSE input_queue_shift_ - 1
      /\ input_queue_length_' = input_queue_length_ + 1
      /\ input_queue_length_ < Capacity
  <2>1. Capacity - 1 \in 0..(Capacity - 1)
    OBVIOUS
  <2>2. input_queue_shift_' = IF Capacity - 1 + input_queue_shift_ < Capacity
                              THEN Capacity - 1 + input_queue_shift_
                              ELSE Capacity - 1 + input_queue_shift_ - Capacity
    BY <1>1, <2>1 DEF ContentsFacts, EnqueueFront
  <2> QED
    BY <2>2 DEF EnqueueFront, RingInv
<1>5. input_queue_' = [input_queue_ EXCEPT ![input_queue_shift_'] = j]
  BY NoWrap DEF EnqueueFront, RingInv
<1>6. InputQueueIndex(0)' = input_queue_shift_'
  BY <1>1, <1>4 DEF ContentsFacts, RingInv
<1>7. \A i \in 1..input_queue_length_ :
         /\ InputQueueIndex(i)' = InputQueueIndex(i - 1)
         /\ InputQueueIndex(i)' # input_queue_shift_'
         /\ InputQueueIndex(i)' \in 0..(Capacity - 1)
  <2> SUFFICES ASSUME NEW i \in 1..input_queue_length_
               PROVE  /\ InputQueueIndex(i)' = InputQueueIndex(i - 1)
                      /\ InputQueueIndex(i)' # input_queue_shift_'
                      /\ InputQueueIndex(i)' \in 0..(Capacity - 1)
    OBVIOUS
  <2>1. i \in 0..(Capacity - 1) /\ i - 1 \in 0..(Capacity - 1)
    BY <1>4 DEF RingInv
  <2>2. InputQueueIndex(i)' = IF i + input_queue_shift_' < Capacity
                              THEN i + input_queue_shift_'
                              ELSE i + input_queue_shift_' - Capacity
    BY <1>1, <2>1 DEF ContentsFacts
  <2>3. InputQueueIndex(i - 1) = IF i - 1 + input_queue_shift_ < Capacity
                                 THEN i - 1 + input_queue_shift_
                                 ELSE i - 1 + input_queue_shift_ - Capacity
    BY <1>1, <2>1 DEF ContentsFacts
  <2> QED
    BY <1>4, <2>1, <2>2, <2>3 DEF RingInv
<1>8. Contents'[1] = j
  <2>1. 1 \in 1..input_queue_length_' /\ 1 - 1 = 0
    BY <1>4 DEF RingInv
  <2>2. Contents'[1] = input_queue_'[InputQueueIndex(1 - 1)']
    BY <1>1, <2>1 DEF ContentsFacts
  <2> QED
    BY <1>5, <1>6, <2>1, <2>2 DEF RingInv
<1>9. \A i \in 1..input_queue_length_ : Contents'[i + 1] = Contents[i]
  <2> SUFFICES ASSUME NEW i \in 1..input_queue_length_
               PROVE  Contents'[i + 1] = Contents[i]
    OBVIOUS
  <2>1. i + 1 \in 1..input_queue_length_' /\ (i + 1) - 1 = i
    BY <1>4 DEF RingInv
  <2>2. Contents'[i + 1] = input_queue_'[InputQueueIndex((i + 1) - 1)']
    BY <1>1, <2>1 DEF ContentsFacts
  <2>3. Contents[i] = input_queue_[InputQueueIndex(i - 1)]
    BY <1>1 DEF ContentsFacts
  <2> QED
    BY <1>5, <1>7, <2>1, <2>2, <2>3 DEF RingInv
<1> QED
  BY <1>1, <1>3, <1>4, <1>8, <1>9, SeqEqual DEF ContentsFacts, RingInv

\* NextInput takes the front job and leaves the others in order.
LEMMA NextInputTakes ==
    ASSUME RingInv, RingInv', NextInput, input_queue_length_ # 0
    PROVE  Contents # << >> /\ job' = Head(Contents) /\ Contents' = Tail(Contents)
<1> USE CapacityAssumption
<1>1. ContentsFacts /\ ContentsFacts'
  BY ContentsAreSeq, ContentsAreSeqNext
<1>2. Contents # << >>
  BY <1>1 DEF ContentsFacts, RingInv
<1>3. /\ Head(Contents) = Contents[1]
      /\ Tail(Contents) \in Seq(Job)
      /\ Len(Tail(Contents)) = input_queue_length_ - 1
      /\ \A i \in 1..(input_queue_length_ - 1) : Tail(Contents)[i] = Contents[i + 1]
  BY <1>1, <1>2, HeadTailProperties DEF ContentsFacts
<1>4. /\ job' = input_queue_[InputQueueIndex(0)]
      /\ input_queue_' = input_queue_
      /\ input_queue_shift_' = InputQueueIndex(1)
      /\ input_queue_length_' = input_queue_length_ - 1
  BY DEF NextInput
<1>5. job' = Contents[1]
  BY <1>1, <1>4 DEF ContentsFacts, RingInv
<1>6. input_queue_shift_' = IF input_queue_shift_ + 1 < Capacity
                            THEN input_queue_shift_ + 1 ELSE 0
  BY <1>1, <1>4 DEF ContentsFacts, RingInv, InputQueueIndex
<1>7. \A i \in 1..(input_queue_length_ - 1) :
         InputQueueIndex(i - 1)' = InputQueueIndex(i)
  BY <1>1, <1>6 DEF ContentsFacts, RingInv
<1>8. \A i \in 1..(input_queue_length_ - 1) : Contents'[i] = Contents[i + 1]
  <2> SUFFICES ASSUME NEW i \in 1..(input_queue_length_ - 1)
               PROVE  Contents'[i] = Contents[i + 1]
    OBVIOUS
  <2>1. i + 1 \in 1..input_queue_length_ /\ (i + 1) - 1 = i /\ i \in 1..input_queue_length_'
    BY <1>4 DEF RingInv
  <2>2. Contents'[i] = input_queue_'[InputQueueIndex(i - 1)']
    BY <1>1, <2>1 DEF ContentsFacts
  <2>3. Contents[i + 1] = input_queue_[InputQueueIndex((i + 1) - 1)]
    BY <1>1, <2>1 DEF ContentsFacts
  <2> QED
    BY <1>4, <1>7, <2>1, <2>2, <2>3
<1> QED
  <2>1. Contents' \in Seq(Job) /\ Len(Contents') = input_queue_length_ - 1
    BY <1>1, <1>4 DEF ContentsFacts
  <2>2. \A i \in 1..Len(Contents') : Contents'[i] = Tail(Contents)[i]
    BY <1>3, <1>8, <2>1
  <2>3. Contents' = Tail(Contents)
    BY <1>3, <2>1, <2>2, SeqEqual
  <2> QED
    BY <1>2, <1>3, <1>5, <2>3

\* The ring implements the bounded double-ended queue, for every capacity.
THEOREM ImplementsDeque == RingSpec => DequeSpec
<1>1. RingInit => Deque!DequeInit
  BY DEF RingInit, Deque!DequeInit, Contents
<1>2. RingInv /\ RingInv' /\ [RingNext]_ringVars => [Deque!DequeNext]_<<Contents, job>>
  <2> SUFFICES ASSUME RingInv, RingInv', [RingNext]_ringVars
               PROVE  [Deque!DequeNext]_<<Contents, job>>
    OBVIOUS
  <2>1. CASE IsQueueAvailable
    BY <2>1 DEF IsQueueAvailable, Contents, InputQueueIndex
  <2>2. ASSUME NEW j \in Job, EnqueueBack(j) PROVE Deque!DequeNext
    BY <2>2, BackAppends DEF EnqueueBack, Deque!DequeNext, Deque!PutBack
  <2>3. ASSUME NEW j \in Job, EnqueueFront(j) PROVE Deque!DequeNext
    BY <2>3, FrontPrepends DEF EnqueueFront, Deque!DequeNext, Deque!PutFront
  <2>4. CASE NextInput /\ input_queue_length_ # 0
    BY <2>4, NextInputTakes DEF Deque!DequeNext, Deque!Take
  <2>5. CASE NextInput /\ input_queue_length_ = 0
    <3>1. Contents = << >> /\ Contents' = Contents /\ job' = NoJob
      BY <2>5 DEF NextInput, Contents, InputQueueIndex
    <3> QED
      BY <3>1 DEF Deque!DequeNext, Deque!TakeNothing
  <2>6. CASE UNCHANGED ringVars
    BY <2>6 DEF ringVars, Contents, InputQueueIndex
  <2> QED
    BY <2>1, <2>2, <2>3, <2>4, <2>5, <2>6 DEF RingNext
<1> QED
  BY <1>1, <1>2, RingInvariant, PTL DEF RingSpec, DequeSpec, Deque!DequeSpec
==============================================================================
