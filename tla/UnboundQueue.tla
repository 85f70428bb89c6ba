----------------------------- MODULE UnboundQueue -----------------------------
(***************************************************************************)
(* The lock-free queue of src/src/unbound-queue-inl.h, node by node.       *)
(*                                                                         *)
(* The queue is a singly linked list.  first_ is read and written by the   *)
(* producer only; divider_ is written by the consumer and last_ by the     *)
(* producer, each with a release store, and each is read by the other      *)
(* side with an acquire load.  Nodes before divider_ have been consumed    *)
(* and are deleted by the producer in its next Enqueue; the node at        *)
(* divider_ is a dummy; the nodes after it up to last_ hold records.       *)
(*                                                                         *)
(* One step is one access to the memory the two sides share.  An acquire   *)
(* load that reads a release store sees everything written before it, so   *)
(* interleaving the steps is what the build can produce.  Node is the set  *)
(* of addresses operator new may return: a deleted address may be handed   *)
(* out again at once.                                                      *)
(***************************************************************************)
EXTENDS Integers, Sequences

CONSTANTS
    Node,     \* the addresses of list nodes; bounds the nodes alive at once
    NULL,     \* the null pointer
    Record,   \* the records the producer may enqueue
    Nothing   \* the value of *rec after a Dequeue that returned false

ASSUME NullAssumption == NULL \notin Node
ASSUME RecordAssumption == Nothing \notin Record

VARIABLES
    value, next,             \* the fields of each node
    live,                    \* addresses allocated and not deleted
    first_, divider_, last_, \* the fields of the queue
    producer,                \* where the producing thread is
    consumer,                \* where the consuming thread is
    nextRead, rec,           \* the locals `next` and `*rec` of Dequeue
    peeked,                  \* the node whose record Peek last returned
    sawRecord,               \* IsEmpty returned false since the last Dequeue
    out,                     \* the result of the last Dequeue
    chain,                   \* auxiliary: the nodes from first_ on, in order
    dividerAt, lastAt        \* auxiliary: positions of divider_, last_ in it

memory == <<value, next, live>>
aux == <<chain, dividerAt, lastAt>>
consumerVars == <<divider_, consumer, nextRead, rec, peeked, sawRecord, out>>
vars == <<memory, first_, last_, producer, consumerVars, aux>>

TypeOK ==
    /\ value \in [Node -> Record \cup {Nothing}]
    /\ next \in [Node -> Node \cup {NULL}]
    /\ live \subseteq Node
    /\ first_ \in Node \cup {NULL}
    /\ divider_ \in Node
    /\ last_ \in Node
    /\ producer \in {"idle", "publish", "reclaim", "delete", "destroy", "gone"}
    /\ consumer \in {"idle", "read", "advance", "gone"}
    /\ nextRead \in Node \cup {NULL}
    /\ rec \in Record \cup {Nothing}
    /\ peeked \in Node \cup {NULL}
    /\ sawRecord \in BOOLEAN
    /\ out \in Record \cup {Nothing}
    /\ chain \in Seq(Node)
    /\ dividerAt \in Int
    /\ lastAt \in Int

\* The constructor: one dummy node, to which all three pointers point.
Init ==
    \E n \in Node :
        /\ value = [m \in Node |-> Nothing]
        /\ next = [m \in Node |-> NULL]
        /\ live = {n}
        /\ first_ = n /\ divider_ = n /\ last_ = n
        /\ producer = "idle" /\ consumer = "idle"
        /\ nextRead = NULL /\ rec = Nothing
        /\ peeked = NULL /\ sawRecord = FALSE /\ out = Nothing
        /\ chain = <<n>> /\ dividerAt = 1 /\ lastAt = 1

-------------------------------------------------------------------------------
(* The producer *)

\* DeleteFirst: first_ moves to its successor and its node is freed.
DeleteFirst ==
    /\ first_' = next[first_]
    /\ live' = live \ {first_}
    /\ chain' = Tail(chain)
    /\ dividerAt' = dividerAt - 1
    /\ lastAt' = lastAt - 1
    /\ UNCHANGED <<value, next>>

\* last_->next = new Node(rec): the node is linked but not yet published.
EnqueueLink(r) ==
    /\ producer = "idle"
    /\ \E n \in Node \ live :
          /\ live' = live \cup {n}
          /\ value' = [value EXCEPT ![n] = r]
          /\ next' = [next EXCEPT ![n] = NULL, ![last_] = n]
          /\ chain' = Append(chain, n)
    /\ producer' = "publish"
    /\ UNCHANGED <<first_, last_, consumerVars, dividerAt, lastAt>>

\* Release_Store(&last_, next)
EnqueuePublish ==
    /\ producer = "publish"
    /\ last_' = next[last_]
    /\ lastAt' = lastAt + 1
    /\ producer' = "reclaim"
    /\ UNCHANGED <<memory, first_, consumerVars, chain, dividerAt>>

\* Fault: the loop deletes up to last_ instead of divider_.
EnqueueTestFirstAgainstLast ==
    /\ producer = "reclaim"
    /\ producer' = IF first_ # last_ THEN "delete" ELSE "idle"
    /\ UNCHANGED <<memory, first_, last_, consumerVars, aux>>

\* Fault: Enqueue waits until the consumer has caught up.
EnqueueTestFirstWaits ==
    /\ producer = "reclaim"
    /\ divider_ = last_
    /\ producer' = IF first_ # divider_ THEN "delete" ELSE "idle"
    /\ UNCHANGED <<memory, first_, last_, consumerVars, aux>>

\* The test of the loop that deletes consumed nodes; Enqueue returns when
\* it fails.
EnqueueTestFirst ==
    /\ producer = "reclaim"
    /\ producer' = IF first_ # divider_ THEN "delete" ELSE "idle"
    /\ UNCHANGED <<memory, first_, last_, consumerVars, aux>>

EnqueueDelete ==
    /\ producer = "delete"
    /\ DeleteFirst
    /\ producer' = "reclaim"
    /\ UNCHANGED <<last_, consumerVars>>

-------------------------------------------------------------------------------
(* The consumer *)

\* Dequeue finds divider_ == last_ and returns false.
DequeueNothing ==
    /\ consumer = "idle"
    /\ divider_ = last_
    /\ out' = Nothing
    /\ sawRecord' = FALSE
    /\ UNCHANGED <<memory, first_, last_, producer, aux,
                   divider_, consumer, nextRead, rec, peeked>>

\* Dequeue finds divider_ # last_.
DequeueTest ==
    /\ consumer = "idle"
    /\ divider_ # last_
    /\ consumer' = "read"
    /\ UNCHANGED <<memory, first_, last_, producer, aux,
                   divider_, nextRead, rec, peeked, sawRecord, out>>

\* Fault: the record is taken from the dummy.
DequeueReadFromDivider ==
    /\ consumer = "read"
    /\ nextRead' = next[divider_]
    /\ rec' = value[divider_]
    /\ consumer' = "advance"
    /\ UNCHANGED <<memory, first_, last_, producer, aux,
                   divider_, peeked, sawRecord, out>>

\* next = divider_->next; *rec = next->value.  The caller looks at *rec only
\* when the call has returned: out changes with the store that follows.
DequeueRead ==
    /\ consumer = "read"
    /\ nextRead' = next[divider_]
    /\ rec' = value[next[divider_]]
    /\ consumer' = "advance"
    /\ UNCHANGED <<memory, first_, last_, producer, aux,
                   divider_, peeked, sawRecord, out>>

\* Release_Store(&divider_, next) and return true.  The record Peek pointed
\* at belongs to what is now the dummy, which the producer may delete.
DequeueAdvance ==
    /\ consumer = "advance"
    /\ divider_' = nextRead
    /\ dividerAt' = dividerAt + 1
    /\ out' = rec
    /\ nextRead' = NULL
    /\ rec' = Nothing
    /\ peeked' = NULL
    /\ sawRecord' = FALSE
    /\ consumer' = "idle"
    /\ UNCHANGED <<memory, first_, last_, producer, chain, lastAt>>

\* Peek, by the consuming thread (src/src/cpu-profiler.cc:110).
Peek ==
    /\ consumer = "idle"
    /\ peeked' = IF divider_ = last_ THEN NULL ELSE next[divider_]
    /\ UNCHANGED <<memory, first_, last_, producer, aux,
                   divider_, consumer, nextRead, rec, sawRecord, out>>

\* IsEmpty, by the consuming thread (src/src/cpu-profiler.cc:109, 120).
IsEmpty ==
    /\ consumer = "idle"
    /\ sawRecord' = (divider_ # last_)
    /\ UNCHANGED <<memory, first_, last_, producer, aux,
                   divider_, consumer, nextRead, rec, peeked, out>>

-------------------------------------------------------------------------------
(* The destructor, called by the owner when both threads are done with the *)
(* queue                                                                   *)

Destroy ==
    /\ producer = "idle" /\ consumer = "idle"
    /\ producer' = "destroy" /\ consumer' = "gone"
    /\ peeked' = NULL
    /\ sawRecord' = FALSE
    /\ UNCHANGED <<memory, first_, last_, divider_, nextRead, rec, out, aux>>

DestroyFirst ==
    /\ producer = "destroy"
    /\ first_ # NULL
    /\ DeleteFirst
    /\ UNCHANGED <<last_, producer, consumerVars>>

DestroyDone ==
    /\ producer = "destroy"
    /\ first_ = NULL
    /\ producer' = "gone"
    /\ UNCHANGED <<memory, first_, last_, consumerVars, aux>>

-------------------------------------------------------------------------------
Enqueue ==
    \/ \E r \in Record : EnqueueLink(r)
    \/ EnqueuePublish
    \/ EnqueueTestFirst
    \/ EnqueueDelete

Dequeue ==
    \/ DequeueNothing
    \/ DequeueTest
    \/ DequeueRead
    \/ DequeueAdvance

Next ==
    \/ Enqueue
    \/ Dequeue
    \/ Peek
    \/ IsEmpty
    \/ Destroy
    \/ DestroyFirst
    \/ DestroyDone

Spec == Init /\ [][Next]_vars

\* Once called, Enqueue runs on: it takes no lock and waits for nobody.
FairSpec ==
    /\ Spec
    /\ WF_vars(EnqueuePublish)
    /\ WF_vars(EnqueueTestFirst)
    /\ WF_vars(EnqueueDelete)

-------------------------------------------------------------------------------
(* Properties *)

InUse == producer \notin {"destroy", "gone"}

\* Memory safety of the hand-over of nodes: while the queue is in use, every
\* node that either side is about to touch is allocated, although the
\* producer deletes nodes while the consumer is in the middle of a Dequeue
\* or holds a record it peeked at,
\* and a node Enqueue is about to delete is none of those.
NoDanglingPointer ==
    InUse =>
        /\ {first_, divider_, last_} \subseteq live
        /\ consumer = "read" => next[divider_] \in live
        /\ consumer = "advance" => nextRead \in live
        /\ peeked # NULL => peeked \in live
        /\ producer = "delete" =>
              first_ \notin {divider_, last_, next[divider_], nextRead, peeked}

\* Nothing leaks: the destructor, which starts at first_ and follows next,
\* finds every node that is still allocated, with or without records in it.
DestructorFreesAll == producer = "gone" => live = {}

\* What the consumer was told stays true until it dequeues: a record seen by
\* IsEmpty or Peek is there for the Peek or Dequeue that follows
\* (ProcessOneSample dereferences Peek() after IsEmpty() returned false).
SeenRecordStays ==
    /\ sawRecord => divider_ # last_
    /\ peeked # NULL => divider_ # last_ /\ peeked = next[divider_]

\* The queue implements the first-in first-out queue: EnqueuePublish is the
\* instant of an Enqueue, DequeueAdvance that of a Dequeue.
Queue == [i \in 1..(lastAt - dividerAt) |-> value[chain[dividerAt + i]]]

Fifo == INSTANCE FifoQueue WITH
            queue <- IF InUse THEN Queue ELSE << >>,
            open <- InUse

FifoSpec == Fifo!FifoSpec

\* The producer never waits for the consumer: however the consumer moves
\* divider_ on, the loop that deletes consumed nodes ends.
EnqueueReturns == (producer = "publish") ~> (producer = "idle")

-------------------------------------------------------------------------------
(* The inductive invariant behind these properties *)

\* The nodes of the list are the allocated ones, each once, in link order.
ListShape ==
    /\ live = {chain[i] : i \in 1..Len(chain)}
    /\ \A i, j \in 1..Len(chain) : chain[i] = chain[j] => i = j
    /\ \A i \in 1..Len(chain) :
          next[chain[i]] = IF i < Len(chain) THEN chain[i + 1] ELSE NULL

\* Where the three pointers of the queue point, and which nodes hold records.
Pointers ==
    InUse =>
        /\ 1 <= dividerAt /\ dividerAt <= lastAt
        /\ Len(chain) = IF producer = "publish" THEN lastAt + 1 ELSE lastAt
        /\ first_ = chain[1]
        /\ divider_ = chain[dividerAt]
        /\ last_ = chain[lastAt]
        /\ producer = "delete" => dividerAt > 1
        /\ \A i \in (dividerAt + 1)..Len(chain) : value[chain[i]] \in Record

\* What the consumer knows in the middle of its operations.
ConsumerView ==
    /\ consumer = "gone" <=> ~InUse
    /\ consumer \in {"read", "advance"} => dividerAt < lastAt
    /\ consumer = "advance" => /\ nextRead = chain[dividerAt + 1]
                               /\ rec = value[nextRead]
    /\ consumer # "advance" => nextRead = NULL
    /\ peeked # NULL => /\ InUse
                        /\ dividerAt < lastAt
                        /\ peeked = chain[dividerAt + 1]
    /\ sawRecord => InUse /\ dividerAt < lastAt

\* The destructor has the rest of the list at first_.
Remainder ==
    ~InUse => /\ first_ = IF chain = << >> THEN NULL ELSE chain[1]
              /\ producer = "gone" => chain = << >>

QueueInv == TypeOK /\ ListShape /\ Pointers /\ ConsumerView /\ Remainder
==============================================================================
