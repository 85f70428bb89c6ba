-------------------------- MODULE CpuProfilerProofs ---------------------------
(***************************************************************************)
(* Proofs about SamplingCircularQueue and CpuProfiler, for every length of *)
(* the ring and every bound on events and ticks.                           *)
(***************************************************************************)
EXTENDS CpuProfiler, SequenceTheorems, TLAPS

-------------------------------------------------------------------------------
(* The ring *)

\* Positions and counts are numbers in range, and offsets tell positions
\* apart.
LEMMA RingArithmetic ==
    ASSUME RingInv
    PROVE  /\ Length \in Nat \ {0}
           /\ \A i \in Position : Offset(i) \in 0..(Length - 1)
           /\ \A i, k \in Position : Offset(i) = Offset(k) => i = k
           /\ Count \in 0..Length
           /\ \A i \in Position : marker[i] = "kEmpty" <=> ~(Offset(i) < Count)
           /\ NextEntry(enqueue_pos_) \in Position
           /\ NextEntry(dequeue_pos_) \in Position
<1> USE LengthAssumption DEF RingInv, Position
<1>1. \A i \in Position : Offset(i) \in 0..(Length - 1)
  BY DEF Offset
<1>2. \A i, k \in Position : Offset(i) = Offset(k) => i = k
  BY DEF Offset
<1>3. Count \in 0..Length
  BY <1>1 DEF Count
<1>4. \A i \in Position : marker[i] \in {"kEmpty", "kFull"}
  OBVIOUS
<1>5. NextEntry(enqueue_pos_) \in Position /\ NextEntry(dequeue_pos_) \in Position
  BY DEF NextEntry
<1> QED
  BY <1>1, <1>2, <1>3, <1>4, <1>5

\* Starting to write an entry changes neither markers nor positions.
LEMMA StartKeepsRing ==
    ASSUME RingInv, NEW r, StartEnqueue(r)
    PROVE  RingInv' /\ Count' = Count
<1>1. /\ marker' = marker /\ enqueue_pos_' = enqueue_pos_ /\ dequeue_pos_' = dequeue_pos_
      /\ reading' = reading /\ writing' = TRUE /\ ~IsFull
      /\ DOMAIN record' = DOMAIN record
  BY DEF StartEnqueue
<1>2. Count' = Count /\ \A i \in Position : Offset(i)' = Offset(i)
  BY <1>1 DEF Count, Offset
<1> QED
  BY <1>1, <1>2 DEF RingInv, IsFull, IsEmpty, Offset

\* So does giving out the record at the front.
LEMMA PeekKeepsRing ==
    ASSUME RingInv, Peek
    PROVE  RingInv' /\ Count' = Count
<1>1. Count' = Count /\ \A i \in Position : Offset(i)' = Offset(i)
  BY DEF Peek, Count, Offset
<1> QED
  BY <1>1 DEF Peek, RingInv, IsFull, IsEmpty, Offset

\* A new ring is empty.
LEMMA NewRing == RingInit => RingInv /\ Count = 0
<1> SUFFICES ASSUME RingInit PROVE RingInv /\ Count = 0
  OBVIOUS
<1>1. 0 \in Position
  BY LengthAssumption DEF Position
<1>2. marker[0] = "kEmpty" /\ Count = 0
  BY <1>1 DEF RingInit, EmptyMarkers, Count
<1>3. \A i \in Position : marker[i] = "kEmpty" /\ Offset(i) >= 0
  BY LengthAssumption DEF RingInit, EmptyMarkers, Offset, Position
<1>4. /\ (DOMAIN record = Position)
      /\ enqueue_pos_ = 0 /\ dequeue_pos_ = 0
      /\ writing = FALSE /\ reading = FALSE
      /\ marker \in [Position -> {"kEmpty", "kFull"}]
  BY DEF RingInit, EmptyMarkers, NoRecords, Position
<1>5. Offset(enqueue_pos_) = 0
  BY <1>4 DEF Offset
<1>6. \A i \in Position : ~(marker[i] = "kFull") /\ ~(Offset(i) < 0)
  <2> TAKE i \in Position
  <2>1. marker[i] = "kEmpty" /\ i >= 0 /\ i \in Int
    BY <1>3, LengthAssumption DEF Position
  <2> QED
    BY <2>1, <1>4 DEF Offset
<1> QED
  BY <1>1, <1>2, <1>4, <1>5, <1>6, LengthAssumption DEF RingInv

\* So is a ring made in a step.
LEMMA RenewedRing == RingRenew => RingInv' /\ Count' = 0
<1> SUFFICES ASSUME RingRenew PROVE RingInv' /\ Count' = 0
  OBVIOUS
<1>1. 0 \in Position
  BY LengthAssumption DEF Position
<1>2. marker'[0] = "kEmpty" /\ Count' = 0
  BY <1>1 DEF RingRenew, EmptyMarkers, Count
<1>3. \A i \in Position : marker'[i] = "kEmpty" /\ Offset(i)' >= 0
  BY LengthAssumption DEF RingRenew, EmptyMarkers, Offset, Position
<1>4. /\ (DOMAIN record = Position)'
      /\ enqueue_pos_' = 0 /\ dequeue_pos_' = 0
      /\ writing' = FALSE /\ reading' = FALSE
      /\ marker' \in [Position -> {"kEmpty", "kFull"}]
  BY DEF RingRenew, EmptyMarkers, NoRecords, Position
<1>5. Offset(enqueue_pos_)' = 0
  BY <1>4 DEF Offset
<1>6. \A i \in Position : ~(marker'[i] = "kFull") /\ ~(Offset(i) < 0)'
  <2> TAKE i \in Position
  <2>1. marker'[i] = "kEmpty" /\ i >= 0 /\ i \in Int
    BY <1>3, LengthAssumption DEF Position
  <2> QED
    BY <2>1, <1>4 DEF Offset
<1> QED
  BY <1>1, <1>2, <1>4, <1>5, <1>6, LengthAssumption DEF RingInv

\* The entry that is handed over is the one behind the last in use.
LEMMA FinishKeepsRing ==
    ASSUME RingInv, writing, NEW r, FinishEnqueue(r)
    PROVE  /\ RingInv' /\ Count' = Count + 1
           /\ Count < Length /\ Offset(enqueue_pos_) = Count
<1> USE LengthAssumption DEF Position
<1>1. /\ marker[enqueue_pos_] = "kEmpty" /\ enqueue_pos_ \in Position
      /\ dequeue_pos_ \in Position
      /\ Count < Length /\ Offset(enqueue_pos_) = Count
  <2>1. /\ marker[enqueue_pos_] = "kEmpty" /\ enqueue_pos_ \in Position
        /\ dequeue_pos_ \in Position
        /\ Offset(enqueue_pos_) = IF Count = Length THEN 0 ELSE Count
    BY DEF RingInv, IsFull
  <2>2. /\ ~(Offset(enqueue_pos_) < Count)
        /\ Offset(enqueue_pos_) \in 0..(Length - 1) /\ Count \in 0..Length
    BY <2>1, RingArithmetic
  <2> QED
    BY <2>1, <2>2
<1>2. /\ marker' = [marker EXCEPT ![enqueue_pos_] = "kFull"]
      /\ enqueue_pos_' = NextEntry(enqueue_pos_)
      /\ dequeue_pos_' = dequeue_pos_
      /\ marker \in [Position -> {"kEmpty", "kFull"}]
  BY DEF FinishEnqueue, RingInv
<1>3. \A i \in Position : Offset(i)' = Offset(i)
  BY <1>2 DEF Offset
<1>4. marker'[dequeue_pos_] = "kFull"
  BY <1>1, <1>2, RingArithmetic DEF RingInv, Offset
<1>5. Offset(enqueue_pos_') = IF Count + 1 = Length THEN 0 ELSE Count + 1
  BY <1>1, <1>2 DEF NextEntry, Offset
<1>6. enqueue_pos_' = dequeue_pos_' <=> Count + 1 = Length
  BY <1>1, <1>2, <1>5, RingArithmetic DEF Offset
<1>7. Count' = Count + 1
  BY <1>2, <1>4, <1>5, <1>6, RingArithmetic, <1>1 DEF Count, Offset
<1>8. \A i \in Position : marker'[i] = "kFull" <=> Offset(i) < Count + 1
  <2> TAKE i \in Position
  <2>1. Offset(i) \in 0..(Length - 1) /\ (Offset(i) = Count => i = enqueue_pos_)
    BY <1>1, RingArithmetic
  <2>2. marker[i] = "kFull" <=> Offset(i) < Count
    BY DEF RingInv
  <2>3. Count \in 0..Length
    BY RingArithmetic
  <2>4. marker'[i] = IF i = enqueue_pos_ THEN "kFull" ELSE marker[i]
    BY <1>2
  <2>5. CASE i = enqueue_pos_
    BY <2>3, <2>4, <2>5, <1>1
  <2>6. CASE i # enqueue_pos_
    BY <2>1, <2>2, <2>3, <2>4, <2>6
  <2> QED
    BY <2>5, <2>6
<1>9. /\ marker' \in [Position -> {"kEmpty", "kFull"}]
      /\ DOMAIN record' = Position
      /\ enqueue_pos_' \in Position /\ writing' = FALSE /\ reading' = reading
  BY <1>2, RingArithmetic DEF FinishEnqueue, RingInv
<1>10. (reading => ~IsEmpty)'
  BY <1>2, <1>4 DEF IsEmpty
<1>11. (Offset(enqueue_pos_) = IF Count = Length THEN 0 ELSE Count)'
  BY <1>2, <1>5, <1>7 DEF Offset
<1> QED
  BY <1>1, <1>2, <1>3, <1>7, <1>8, <1>9, <1>10, <1>11 DEF RingInv, Offset

\* The entry that is given back is the first in use.
LEMMA RemoveKeepsRing ==
    ASSUME RingInv, reading, Remove
    PROVE  RingInv' /\ Count' = Count - 1 /\ Count > 0
<1> USE LengthAssumption DEF Position
<1>1. /\ marker[dequeue_pos_] = "kFull" /\ dequeue_pos_ \in Position
      /\ enqueue_pos_ \in Position
      /\ Offset(dequeue_pos_) = 0 /\ Count > 0
  BY RingArithmetic DEF RingInv, IsEmpty, Offset
<1>2. /\ marker' = [marker EXCEPT ![dequeue_pos_] = "kEmpty"]
      /\ dequeue_pos_' = NextEntry(dequeue_pos_)
      /\ enqueue_pos_' = enqueue_pos_ /\ record' = record
      /\ writing' = writing /\ reading' = FALSE
      /\ marker \in [Position -> {"kEmpty", "kFull"}]
  BY DEF Remove, RingInv
<1>3. \A i \in Position : Offset(i)' = IF Offset(i) = 0 THEN Length - 1 ELSE Offset(i) - 1
  BY <1>1, <1>2 DEF Offset, NextEntry
<1>4. \A i \in Position : marker'[i] = "kFull" <=> (i # dequeue_pos_ /\ marker[i] = "kFull")
  BY <1>1, <1>2
<1>5. \A i \in Position : Offset(i) = 0 <=> i = dequeue_pos_
  BY <1>1, RingArithmetic
<1>6. \A i \in Position : marker'[i] = "kFull" <=> Offset(i)' < Count - 1
  <2> TAKE i \in Position
  <2>1. /\ Offset(i) \in 0..(Length - 1) /\ Count \in 0..Length
        /\ Offset(i)' = IF Offset(i) = 0 THEN Length - 1 ELSE Offset(i) - 1
    BY <1>3, RingArithmetic
  <2>2. marker[i] = "kFull" <=> Offset(i) < Count
    BY DEF RingInv
  <2>3. CASE i = dequeue_pos_
    BY <2>1, <2>3, <1>1, <1>4, <1>5
  <2>4. CASE i # dequeue_pos_
    BY <2>1, <2>2, <2>4, <1>4, <1>5
  <2> QED
    BY <2>3, <2>4
<1>7. /\ enqueue_pos_' \in Position /\ dequeue_pos_' \in Position
      /\ marker' \in [Position -> {"kEmpty", "kFull"}]
  BY <1>1, <1>2, RingArithmetic
<1>8. Offset(enqueue_pos_)' = IF Count - 1 = Length THEN 0 ELSE Count - 1
  <2>1. /\ Offset(enqueue_pos_) = IF Count = Length THEN 0 ELSE Count
        /\ Count \in 0..Length
    BY RingArithmetic DEF RingInv
  <2>2. Offset(enqueue_pos_)' = IF Offset(enqueue_pos_) = 0 THEN Length - 1
                                ELSE Offset(enqueue_pos_) - 1
    BY <1>1, <1>2, <1>3 DEF Offset
  <2> QED
    BY <2>1, <2>2, <1>1
<1>9. Count' = Count - 1
  <2>1. PICK p \in Position : dequeue_pos_' = p
    BY <1>7
  <2>2. \A q \in Int : dequeue_pos_' = q => Offset(q)' = 0
    BY DEF Offset
  <2>3. Offset(p)' = 0
    BY <2>1, <2>2
  <2>4. marker'[dequeue_pos_'] = "kFull" <=> 0 < Count - 1
    BY <2>1, <2>3, <1>6
  <2>5. marker'[dequeue_pos_'] \in {"kEmpty", "kFull"}
    BY <1>7
  <2>6. PICK q \in Position : enqueue_pos_' = q
    BY <1>7
  <2>7. Offset(q)' = IF q >= p THEN q - p ELSE q - p + Length
    BY <2>1 DEF Offset
  <2>8. Offset(q)' = Offset(enqueue_pos_)'
    BY <2>6 DEF Offset
  <2>9. q = p <=> Offset(enqueue_pos_)' = 0
    BY <2>7, <2>8
  <2>10. Count \in 1..Length
    BY <1>1, RingArithmetic
  <2>11. Count' = IF marker'[dequeue_pos_'] = "kEmpty" THEN 0
                  ELSE IF q = p THEN Length ELSE Offset(enqueue_pos_)'
    BY <2>1, <2>6 DEF Count
  <2> QED
    BY <2>4, <2>5, <2>9, <2>10, <2>11, <1>8
<1>10. (writing => ~IsFull)'
  BY <1>1, <1>2 DEF RingInv, IsFull
<1> QED
  BY <1>1, <1>2, <1>6, <1>7, <1>8, <1>9, <1>10, RingArithmetic DEF RingInv, Offset

\* A step that leaves the ring alone.
LEMMA RingUnchanged ==
    ASSUME RingInv, UNCHANGED ringVars
    PROVE  RingInv' /\ Count' = Count /\ Contents' = Contents
BY DEF ringVars, RingInv, Count, Contents, Offset, Position, IsFull, IsEmpty

-------------------------------------------------------------------------------
(* The merge of ticks and code events *)

\* In the initial state there is no processor.
LEMMA ProfilerInit == Init => ProfilerInv
<1> SUFFICES ASSUME Init PROVE ProfilerInv
  OBVIOUS
<1>1. RingInv
  BY NewRing DEF Init
<1>2. TypeOK
  <2>1. record \in [Position -> Tick \cup {Uninitialized}]
    BY DEF Init, RingInit, NoRecords
  <2>2. << >> \in Seq(1..MaxEvents) /\ << >> \in Seq(0..MaxEvents)
    OBVIOUS
  <2>3. 0 \in 0..MaxEvents /\ 0 \in Nat
    BY BoundAssumption
  <2> QED
    BY <2>1, <2>2, <2>3, Zenon DEF Init, TypeOK
<1>3. \A i \in Position : marker[i] = "kEmpty"
  BY DEF Init, RingInit, EmptyMarkers
<1>4. MergeInv
  BY <1>3 DEF Init, RingInit, MergeInv
<1> QED
  BY <1>1, <1>2, <1>4 DEF ProfilerInv

\* The steps of the VM thread outside the signal handler.
LEMMA VMThreadStep ==
    ASSUME ProfilerInv, VMThread
    PROVE  ProfilerInv'
<1> USE BoundAssumption DEF ProfilerInv
<1>1. CASE StartProfiling
  <2>1. RingInv'
    BY <1>1, RenewedRing DEF StartProfiling
  <2>2. TypeOK'
    <3>1. record' \in [Position -> Tick \cup {Uninitialized}]
      BY <1>1 DEF StartProfiling, RingRenew, NoRecords
    <3>2. << >> \in Seq(1..MaxEvents) /\ << >> \in Seq(0..MaxEvents)
      OBVIOUS
    <3>3. 0 \in 0..MaxEvents /\ 0 \in Nat
      BY BoundAssumption
    <3> QED
      BY <1>1, <3>1, <3>2, <3>3, Zenon DEF StartProfiling, TypeOK
  <2>3. \A i \in Position : marker'[i] = "kEmpty"
    BY <1>1 DEF StartProfiling, RingRenew, EmptyMarkers
  <2>4. MergeInv'
    BY <1>1, <2>3 DEF StartProfiling, RingRenew, MergeInv
  <2> QED
    BY <2>1, <2>2, <2>4
<1>2. CASE StartProcessor
  <2>1. RingInv'
    BY <1>2, RingUnchanged DEF StartProcessor
  <2>2. TypeOK'
    BY <1>2 DEF StartProcessor, TypeOK, ringVars, queueVars
  <2>3. MergeInv'
    BY <1>2 DEF StartProcessor, MergeInv, Front, ringVars, queueVars
  <2> QED
    BY <2>1, <2>2, <2>3
<1>3. CASE AddCurrentStack
  <2>1. RingInv'
    BY <1>3, RingUnchanged DEF AddCurrentStack
  <2>2. TypeOK'
    BY <1>3 DEF AddCurrentStack, TypeOK, ringVars, processorVars
  <2>3. MergeInv'
    BY <1>3 DEF AddCurrentStack, MergeInv, Front, ringVars, processorVars
  <2> QED
    BY <2>1, <2>2, <2>3
<1>4. CASE NumberEvent
  <2>1. RingInv'
    BY <1>4, RingUnchanged DEF NumberEvent
  <2>2. TypeOK'
    BY <1>4 DEF NumberEvent, TypeOK, ringVars, queueVars, processorVars
  <2>3. MergeInv'
    BY <1>4 DEF NumberEvent, MergeInv, TypeOK, Front, ringVars, queueVars, processorVars
  <2> QED
    BY <2>1, <2>2, <2>3
<1>5. CASE EnqueueEvent
  <2>1. RingInv'
    BY <1>5, RingUnchanged DEF EnqueueEvent
  <2>2. /\ last_code_event_id_ = last_processed_code_event_id_ + Len(events_buffer_) + 1
        /\ last_code_event_id_ \in 1..MaxEvents
        /\ events_buffer_ \in Seq(1..MaxEvents)
        /\ last_processed_code_event_id_ \in 0..MaxEvents
    BY <1>5 DEF EnqueueEvent, MergeInv, TypeOK
  <2>3. /\ events_buffer_' \in Seq(1..MaxEvents)
        /\ Len(events_buffer_') = Len(events_buffer_) + 1
        /\ \A i \in DOMAIN events_buffer_' :
              events_buffer_'[i] = last_processed_code_event_id_ + i
    <3> DEFINE e == last_code_event_id_
    <3>1. /\ e = last_processed_code_event_id_ + (Len(events_buffer_) + 1)
          /\ e \in 1..MaxEvents
          /\ events_buffer_' = Append(events_buffer_, e)
      BY <1>5, <2>2 DEF EnqueueEvent
    <3>2. \A i \in 1..Len(events_buffer_) :
             events_buffer_[i] = last_processed_code_event_id_ + i
      BY <2>2 DEF MergeInv
    <3> HIDE DEF e
    <3>3. /\ Append(events_buffer_, e) \in Seq(1..MaxEvents)
          /\ Len(Append(events_buffer_, e)) = Len(events_buffer_) + 1
          /\ \A i \in 1..Len(events_buffer_) : Append(events_buffer_, e)[i] = events_buffer_[i]
          /\ Append(events_buffer_, e)[Len(events_buffer_) + 1] = e
      BY <2>2, <3>1, AppendProperties
    <3>4. \A i \in 1..(Len(events_buffer_) + 1) :
             Append(events_buffer_, e)[i] = last_processed_code_event_id_ + i
      <4> SUFFICES ASSUME NEW i \in 1..(Len(events_buffer_) + 1)
                   PROVE  Append(events_buffer_, e)[i] = last_processed_code_event_id_ + i
        OBVIOUS
      <4>1. CASE i = Len(events_buffer_) + 1
        BY <4>1, <3>1, <3>3
      <4>2. CASE i # Len(events_buffer_) + 1
        <5>1. i \in 1..Len(events_buffer_)
          BY <4>2, <2>2
        <5> QED
          BY <5>1, <3>2, <3>3
      <4> QED
        BY <4>1, <4>2
    <3>5. DOMAIN Append(events_buffer_, e) = 1..(Len(events_buffer_) + 1)
      BY <3>3
    <3> QED
      BY <3>1, <3>3, <3>4, <3>5
  <2>4. TypeOK'
    BY <1>5, <2>3 DEF EnqueueEvent, TypeOK, ringVars, processorVars
  <2>5. MergeInv'
    BY <1>5, <2>2, <2>3 DEF EnqueueEvent, MergeInv, Front, ringVars, processorVars
  <2> QED
    BY <2>1, <2>4, <2>5
<1>6. CASE StopProfiling
  <2>1. RingInv'
    BY <1>6, RingUnchanged DEF StopProfiling
  <2>2. TypeOK'
    BY <1>6 DEF StopProfiling, TypeOK, ringVars, queueVars, processorVars
  <2>3. MergeInv'
    BY <1>6 DEF StopProfiling, MergeInv, Front, ringVars, queueVars, processorVars
  <2> QED
    BY <2>1, <2>2, <2>3
<1>7. CASE StopSynchronously
  <2>1. RingInv'
    BY <1>7, RingUnchanged DEF StopSynchronously
  <2>2. TypeOK'
    BY <1>7 DEF StopSynchronously, TypeOK, ringVars, queueVars, processorVars
  <2>3. MergeInv'
    BY <1>7 DEF StopSynchronously, MergeInv, Front, ringVars, queueVars, processorVars
  <2> QED
    BY <2>1, <2>2, <2>3
<1>8. CASE Join
  <2>1. RingInv'
    BY <1>8, RingUnchanged DEF Join
  <2>2. TypeOK'
    BY <1>8 DEF Join, TypeOK, ringVars, queueVars
  <2>3. MergeInv'
    BY <1>8 DEF Join, MergeInv, Front, ringVars, queueVars
  <2> QED
    BY <2>1, <2>2, <2>3
<1> QED
  BY <1>1, <1>2, <1>3, <1>4, <1>5, <1>6, <1>7, <1>8 DEF VMThread

\* The signal handler writes into an entry that is not full, so not into the
\* one the processor reads.
LEMMA SignalHandlerStep ==
    ASSUME ProfilerInv, SignalHandler
    PROVE  ProfilerInv'
<1> USE BoundAssumption DEF ProfilerInv
<1>1. CASE HandleSignalDrop
  <2>1. RingInv'
    BY <1>1, RingUnchanged DEF HandleSignalDrop
  <2>2. TypeOK'
    BY <1>1 DEF HandleSignalDrop, TypeOK, ringVars, vmVars, queueVars, processorVars
  <2>3. MergeInv'
    BY <1>1 DEF HandleSignalDrop, MergeInv, Front, ringVars, vmVars, queueVars, processorVars
  <2> QED
    BY <2>1, <2>2, <2>3
<1>2. CASE HandleSignalStart
  <2> DEFINE t == [order |-> last_code_event_id_, whole |-> FALSE]
  <2>1. StartEnqueue(t) /\ UNCHANGED <<vmVars, queueVars, running_, processorVars>>
        /\ signal' = FALSE
    BY <1>2 DEF HandleSignalStart
  <2>2. RingInv'
    BY <2>1, StartKeepsRing
  <2>3. t \in Tick
    BY DEF Tick, TypeOK
  <2> HIDE DEF t
  <2>4. /\ record' = [record EXCEPT ![enqueue_pos_] = t]
        /\ marker' = marker /\ enqueue_pos_' = enqueue_pos_
        /\ dequeue_pos_' = dequeue_pos_ /\ reading' = reading
        /\ marker[enqueue_pos_] = "kEmpty" /\ enqueue_pos_ \in Position
    BY <2>1 DEF StartEnqueue, IsFull, RingInv
  <2>5. TypeOK'
    BY <2>1, <2>3, <2>4 DEF TypeOK, vmVars, queueVars, processorVars
  <2>6. /\ record'[enqueue_pos_] = t
        /\ \A i \in Position : marker[i] = "kFull" => record'[i] = record[i]
    BY <2>4 DEF TypeOK
  <2>7. processor = "record" => Front' = Front
    BY <2>4, <2>6 DEF MergeInv, RingInv, IsEmpty, Front
  <2>8. MergeInv'
    BY <2>1, <2>3, <2>4, <2>6, <2>7 DEF MergeInv, vmVars, queueVars, processorVars
  <2> QED
    BY <2>2, <2>5, <2>8
<1>3. CASE HandleSignalFinish
  <2> DEFINE t == [record[enqueue_pos_] EXCEPT !.whole = TRUE]
  <2>1. /\ writing /\ FinishEnqueue(t)
        /\ UNCHANGED <<vmVars, signal, queueVars, running_, processorVars>>
    BY <1>3 DEF HandleSignalFinish
  <2>2. RingInv'
    BY <2>1, FinishKeepsRing
  <2>3. t \in Tick /\ t.whole
    BY <2>1 DEF Tick, MergeInv
  <2> HIDE DEF t
  <2>4. /\ record' = [record EXCEPT ![enqueue_pos_] = t]
        /\ marker' = [marker EXCEPT ![enqueue_pos_] = "kFull"]
        /\ dequeue_pos_' = dequeue_pos_ /\ reading' = reading /\ writing' = FALSE
        /\ marker[enqueue_pos_] = "kEmpty" /\ enqueue_pos_ \in Position
        /\ marker \in [Position -> {"kEmpty", "kFull"}]
    BY <2>1 DEF FinishEnqueue, IsFull, RingInv
  <2>5. TypeOK'
    BY <2>1, <2>3, <2>4 DEF TypeOK, vmVars, queueVars, processorVars
  <2>6. \A i \in Position : /\ i = enqueue_pos_ => record'[i] = t
                            /\ i # enqueue_pos_ => /\ record'[i] = record[i]
                                                   /\ marker'[i] = marker[i]
    BY <2>4 DEF TypeOK
  <2>7. processor = "record" => Front' = Front
    BY <2>4, <2>6 DEF MergeInv, RingInv, IsEmpty, Front
  <2>8. MergeInv'
    BY <2>1, <2>3, <2>4, <2>6, <2>7 DEF MergeInv, vmVars, queueVars, processorVars
  <2> QED
    BY <2>2, <2>5, <2>8
<1> QED
  BY <1>1, <1>2, <1>3 DEF SignalHandler

\* The steps of the processor that change neither the ring nor a queue.
LEMMA ProcessorMoves ==
    ASSUME ProfilerInv,
           \/ CheckRunning \/ NoVmTickIsDue \/ RecordVmTick \/ PeekNothing
           \/ CheckVmTicks \/ ProcessNoCodeEvent \/ TimerRuns \/ TimerHasExpired
    PROVE  ProfilerInv'
<1>1. /\ UNCHANGED <<ringVars, vmVars, queueVars, running_>>
      /\ last_processed_code_event_id_' = last_processed_code_event_id_
      /\ tick' = tick /\ codeMap' = codeMap
      /\ processor \notin {"record", "none"}
      /\ processor' \in {"running", "vmTick", "ring", "vmEmpty", "event", "timer", "exited"}
      /\ draining' \in BOOLEAN /\ signal' \in BOOLEAN
  BY DEF ProfilerInv, TypeOK, CheckRunning, NoVmTickIsDue, RecordVmTick, PeekNothing,
         CheckVmTicks, ProcessNoCodeEvent, TimerRuns, TimerHasExpired, OneSampleProcessed,
         NoSamplesInQueue, FoundSampleForNextCodeEvent
<1>2. RingInv'
  BY <1>1, RingUnchanged DEF ProfilerInv
<1>3. TypeOK'
  BY <1>1 DEF ProfilerInv, TypeOK, ringVars, vmVars, queueVars
<1>4. MergeInv'
  BY <1>1 DEF ProfilerInv, MergeInv, Front, ringVars, vmVars, queueVars
<1> QED
  BY <1>2, <1>3, <1>4 DEF ProfilerInv

\* The steps of the processor that take something from the ring or a queue.
LEMMA ProcessorTakes ==
    ASSUME ProfilerInv,
           DequeueVmTick \/ PeekTick \/ RecordTick \/ ProcessCodeEvent
    PROVE  ProfilerInv'
<1> USE BoundAssumption DEF ProfilerInv
<1>1. CASE DequeueVmTick
  <2>1. RingInv'
    BY <1>1, RingUnchanged DEF DequeueVmTick
  <2>2. /\ tick' = last_processed_code_event_id_
        /\ ticks_from_vm_buffer_' \in Seq(0..MaxEvents)
    BY <1>1 DEF DequeueVmTick, VmTickIsDue, TypeOK
  <2>3. TypeOK'
    BY <1>1, <2>2 DEF DequeueVmTick, TypeOK, ringVars, vmVars
  <2>4. MergeInv'
    BY <1>1, <2>2 DEF DequeueVmTick, MergeInv, Front, ringVars, vmVars
  <2> QED
    BY <2>1, <2>3, <2>4
<1>2. CASE PeekTick
  <2>1. /\ UNCHANGED <<vmVars, signal, queueVars, running_, draining,
                       last_processed_code_event_id_, tick, codeMap>>
        /\ UNCHANGED <<marker, record, enqueue_pos_, dequeue_pos_, writing>>
        /\ processor = "ring" /\ reading' \in BOOLEAN
        /\ \/ processor' = "event" /\ reading' = reading
           \/ /\ processor' = "record" /\ reading' = TRUE
              /\ Front.order = last_processed_code_event_id_
    BY <1>2 DEF PeekTick, Peek, FoundSampleForNextCodeEvent, ringVars, RingInv
  <2>2. RingInv'
    BY <1>2, RingUnchanged, PeekKeepsRing DEF PeekTick
  <2>3. TypeOK'
    BY <2>1 DEF TypeOK, vmVars, queueVars
  <2>4. MergeInv'
    BY <2>1 DEF MergeInv, Front, vmVars, queueVars
  <2> QED
    BY <2>2, <2>3, <2>4
<1>3. CASE RecordTick
  <2>1. /\ UNCHANGED <<vmVars, signal, queueVars, running_, draining,
                       last_processed_code_event_id_, tick, codeMap>>
        /\ Remove /\ reading
        /\ processor = "record" /\ processor' \in {"vmTick", "timer"}
    BY <1>3 DEF RecordTick, OneSampleProcessed, MergeInv
  <2>2. RingInv'
    BY <2>1, RemoveKeepsRing
  <2>3. /\ record' = record /\ enqueue_pos_' = enqueue_pos_ /\ writing' = writing
        /\ reading' = FALSE
        /\ \A i \in Position : marker'[i] = "kFull" => marker[i] = "kFull"
    BY <2>1 DEF Remove, RingInv
  <2>4. TypeOK'
    BY <2>1, <2>3 DEF TypeOK, vmVars, queueVars
  <2>5. MergeInv'
    BY <2>1, <2>3 DEF MergeInv, vmVars, queueVars
  <2> QED
    BY <2>2, <2>4, <2>5
<1>4. CASE ProcessCodeEvent
  <2>1. RingInv'
    BY <1>4, RingUnchanged DEF ProcessCodeEvent
  <2>2. /\ events_buffer_ \in Seq(1..MaxEvents) /\ events_buffer_ # << >>
        /\ last_processed_code_event_id_ \in 0..MaxEvents
        /\ events_buffer_' = Tail(events_buffer_)
        /\ last_processed_code_event_id_' = Head(events_buffer_)
        /\ codeMap' = codeMap + 1 /\ codeMap = last_processed_code_event_id_
        /\ \A i \in 1..Len(events_buffer_) :
              events_buffer_[i] = last_processed_code_event_id_ + i
    BY <1>4 DEF ProcessCodeEvent, TypeOK, MergeInv
  <2>3. /\ Head(events_buffer_) \in 1..MaxEvents
        /\ Head(events_buffer_) = last_processed_code_event_id_ + 1
        /\ Tail(events_buffer_) \in Seq(1..MaxEvents)
        /\ Len(Tail(events_buffer_)) = Len(events_buffer_) - 1
        /\ \A i \in 1..Len(Tail(events_buffer_)) :
              Tail(events_buffer_)[i] = events_buffer_[i + 1]
    BY <2>2, HeadTailProperties
  <2>4. \A i \in DOMAIN events_buffer_' :
           events_buffer_'[i] = last_processed_code_event_id_' + i
    <3> SUFFICES ASSUME NEW i \in 1..Len(Tail(events_buffer_))
                 PROVE  Tail(events_buffer_)[i] = Head(events_buffer_) + i
      BY <2>2, <2>3
    <3>1. i + 1 \in 1..Len(events_buffer_) /\ i \in Nat
      BY <2>2, <2>3
    <3>2. events_buffer_[i + 1] = last_processed_code_event_id_ + (i + 1)
      BY <2>2, <3>1
    <3> QED
      BY <2>2, <2>3, <3>1, <3>2
  <2>5. TypeOK'
    BY <1>4, <2>2, <2>3 DEF ProcessCodeEvent, TypeOK, ringVars, vmVars
  <2>6. last_processed_code_event_id_' + Len(events_buffer_')
           = last_processed_code_event_id_ + Len(events_buffer_)
    BY <2>2, <2>3
  <2>7. MergeInv'
    BY <1>4, <2>2, <2>3, <2>4, <2>6 DEF ProcessCodeEvent, MergeInv, Front, ringVars, vmVars
  <2> QED
    BY <2>1, <2>5, <2>7
<1> QED
  BY <1>1, <1>2, <1>3, <1>4

\* The inductive invariant of the profiler: the ring is in shape, and the
\* numbers of queued events and of ticks in hand agree with what is processed.
THEOREM ProfilerInvariant == Spec => []ProfilerInv
<1>1. ProfilerInv /\ [Next]_vars => ProfilerInv'
  <2> SUFFICES ASSUME ProfilerInv, [Next]_vars PROVE ProfilerInv'
    OBVIOUS
  <2>1. CASE VMThread
    BY <2>1, VMThreadStep
  <2>2. CASE SignalHandler
    BY <2>2, SignalHandlerStep
  <2>3. CASE EventsProcessor
    BY <2>3, ProcessorMoves, ProcessorTakes DEF EventsProcessor
  <2>4. CASE UNCHANGED vars
    <3>1. RingInv'
      BY <2>4, RingUnchanged DEF ProfilerInv, vars
    <3>2. TypeOK'
      BY <2>4 DEF ProfilerInv, TypeOK, vars, ringVars, vmVars, queueVars, processorVars
    <3>3. MergeInv'
      BY <2>4 DEF ProfilerInv, MergeInv, Front, vars, ringVars, vmVars, queueVars,
                  processorVars
    <3> QED
      BY <3>1, <3>2, <3>3 DEF ProfilerInv
  <2> QED
    BY <2>1, <2>2, <2>3, <2>4 DEF Next
<1> QED
  BY <1>1, ProfilerInit, PTL DEF Spec

\* Type correctness of the profiler and its ring.
THEOREM TypeCorrect == Spec => []TypeOK
BY ProfilerInvariant, PTL DEF ProfilerInv

\* The ring stays in shape under the handler and the processor thread.
THEOREM RingInvariant == Spec => []RingInv
BY ProfilerInvariant, PTL DEF ProfilerInv

\* The invariant of the merge.
THEOREM MergeInvariant == Spec => []MergeInv
BY ProfilerInvariant, PTL DEF ProfilerInv

\* Ticks are symbolized with the code map of the moment they were taken.
THEOREM SymbolizedInOrderTheorem == Spec => []SymbolizedInOrder
<1>1. ProfilerInv => SymbolizedInOrder
  BY DEF ProfilerInv, MergeInv, SymbolizedInOrder
<1> QED
  BY <1>1, ProfilerInvariant, PTL

\* Ticks are handed over whole, and never written while they are read.
THEOREM TicksAreWholeTheorem == Spec => []TicksAreWhole
<1>1. ProfilerInv => TicksAreWhole
  BY DEF ProfilerInv, MergeInv, RingInv, IsFull, IsEmpty, TicksAreWhole
<1> QED
  BY <1>1, ProfilerInvariant, PTL

-------------------------------------------------------------------------------
(* What is left when the processor thread ends *)

\* While the processor drains the queues the VM thread waits for it, and no
\* tick is being taken.
StoppingInv ==
    /\ is_profiling_ => running_ /\ ~ draining
    /\ ~ is_profiling_ => ~ writing
    /\ vm \in {"stopping", "join"} => ~ is_profiling_
    /\ processor # "none" /\ ~ running_ => vm = "join"
    /\ processor # "none" /\ draining => ~ running_
    /\ processor = "exited" => draining /\ events_buffer_ = << >>

\* No tick has the number of an event that has not been numbered.
NumberedInv ==
    /\ \A i \in Position : marker[i] = "kFull" => record[i].order <= last_code_event_id_
    /\ writing => record[enqueue_pos_].order <= last_code_event_id_
    /\ \A i \in DOMAIN ticks_from_vm_buffer_ : ticks_from_vm_buffer_[i] <= last_code_event_id_

\* When the draining processor turns to the events it has left no tick that is
\* due.
TurnedInv ==
    processor # "none" /\ draining =>
        /\ processor \in {"ring", "vmEmpty", "event", "exited"} => ~ VmTickIsDue
        /\ processor = "vmEmpty" => IsEmpty
        /\ processor \in {"event", "exited"} =>
              IsEmpty \/ Front.order # last_processed_code_event_id_

DrainInv == StoppingInv /\ NumberedInv /\ TurnedInv

\* The VM thread waits from the stop order to the processor's end.
LEMMA StoppingStep ==
    ASSUME ProfilerInv, StoppingInv, [Next]_vars
    PROVE  StoppingInv'
<1> USE DEF StoppingInv, ringVars, vmVars, queueVars, processorVars
<1>1. CASE VMThread
  <2>1. vm = "js" /\ ~ is_profiling_ => processor = "none"
    BY DEF ProfilerInv, MergeInv
  <2>2. vm \in {"logging", "enqueue", "addStack"} => is_profiling_
    BY DEF ProfilerInv, MergeInv
  <2>3. CASE StartProfiling
    BY <1>1, <2>1, <2>3 DEF VMThread, StartProfiling, RingRenew
  <2>4. CASE StartProcessor
    BY <2>2, <2>4 DEF StartProcessor
  <2>5. CASE AddCurrentStack
    BY <2>2, <2>5 DEF AddCurrentStack
  <2>6. CASE NumberEvent
    BY <2>2, <2>6 DEF NumberEvent
  <2>7. CASE EnqueueEvent
    BY <2>2, <2>7 DEF EnqueueEvent
  <2>8. CASE StopProfiling
    BY <1>1, <2>8 DEF VMThread, StopProfiling
  <2>9. CASE StopSynchronously
    BY <2>9 DEF StopSynchronously
  <2>10. CASE Join
    BY <2>10 DEF Join
  <2> QED
    BY <1>1, <2>3, <2>4, <2>5, <2>6, <2>7, <2>8, <2>9, <2>10 DEF VMThread
<1>2. CASE SignalHandler
  BY <1>2 DEF SignalHandler, HandleSignalDrop, HandleSignalStart, HandleSignalFinish, StartEnqueue, FinishEnqueue
<1>3. CASE EventsProcessor
  <2>1. UNCHANGED <<vm, is_profiling_, running_, writing>> /\ processor # "none"
    BY <1>3 DEF EventsProcessor, CheckRunning, DequeueVmTick, NoVmTickIsDue, RecordVmTick,
       PeekNothing, PeekTick, Peek, RecordTick, Remove, CheckVmTicks, ProcessCodeEvent,
       ProcessNoCodeEvent, TimerRuns, TimerHasExpired
  <2>2. CASE ProcessNoCodeEvent
    BY <2>1, <2>2 DEF ProcessNoCodeEvent
  <2>3. CASE CheckRunning
    <3>1. running_ \in BOOLEAN /\ processor' = "vmTick"
      BY <2>3 DEF CheckRunning, ProfilerInv, TypeOK
    <3>2. draining' = ~ running_
      BY <2>3, Zenon DEF CheckRunning
    <3>3. CASE running_ = TRUE
      <4>1. draining' = FALSE
        BY <3>2, <3>3, Zenon
      <4> QED
        BY <2>1, <3>1, <3>3, <4>1
    <3>4. CASE running_ = FALSE
      <4>1. ~ is_profiling_
        BY <3>4
      <4> QED
        BY <2>1, <3>1, <3>4, <4>1
    <3> QED
      BY <3>1, <3>3, <3>4
  <2>4. CASE ~ (ProcessNoCodeEvent \/ CheckRunning)
    <3>1. draining' = draining /\ processor' # "exited"
      BY <1>3, <2>4 DEF EventsProcessor, DequeueVmTick, NoVmTickIsDue, RecordVmTick,
         PeekNothing, PeekTick, RecordTick, CheckVmTicks, ProcessCodeEvent, TimerRuns,
         TimerHasExpired, OneSampleProcessed, NoSamplesInQueue, FoundSampleForNextCodeEvent
    <3> QED
      BY <2>1, <3>1
  <2> QED
    BY <2>2, <2>3, <2>4
<1>4. CASE UNCHANGED vars
  BY <1>4 DEF vars
<1> QED
  BY <1>1, <1>2, <1>3, <1>4 DEF Next

\* Ticks are numbered with numbers that events have been given.
LEMMA NumberedStep ==
    ASSUME ProfilerInv, NumberedInv, [Next]_vars
    PROVE  NumberedInv'
<1>1. /\ last_code_event_id_ \in 0..MaxEvents /\ ticks_from_vm_buffer_ \in Seq(0..MaxEvents)
      /\ record \in [Position -> Tick \cup {Uninitialized}]
      /\ marker \in [Position -> {"kEmpty", "kFull"}] /\ enqueue_pos_ \in Position
      /\ writing => record[enqueue_pos_] \in Tick
  BY DEF ProfilerInv, TypeOK, RingInv, MergeInv
\* Most steps leave ticks alone or take one away.
<1>2. ASSUME /\ UNCHANGED <<record, enqueue_pos_, writing, last_code_event_id_>>
             /\ \A i \in Position : marker'[i] = "kFull" => marker[i] = "kFull",
             ticks_from_vm_buffer_' = ticks_from_vm_buffer_
      PROVE  NumberedInv'
  BY <1>2 DEF NumberedInv
<1>3. CASE StartProfiling
  <2>1. \A i \in Position : marker'[i] = "kEmpty"
    BY <1>3 DEF StartProfiling, RingRenew, EmptyMarkers
  <2> QED
    BY <1>3, <2>1 DEF StartProfiling, RingRenew, NumberedInv
<1>4. CASE AddCurrentStack
  <2> DEFINE s == ticks_from_vm_buffer_
             e == last_code_event_id_
  <2>1. /\ s \in Seq(0..MaxEvents) /\ e \in 0..MaxEvents /\ s' = Append(s, e)
        /\ \A i \in 1..Len(s) : s[i] <= e
        /\ UNCHANGED <<marker, record, enqueue_pos_, writing, last_code_event_id_>>
    BY <1>1, <1>4 DEF AddCurrentStack, NumberedInv, ringVars
  <2> HIDE DEF s, e
  <2>2. /\ Len(Append(s, e)) = Len(s) + 1
        /\ \A i \in 1..Len(s) : Append(s, e)[i] = s[i]
        /\ Append(s, e)[Len(s) + 1] = e
        /\ DOMAIN Append(s, e) = 1..(Len(s) + 1)
    BY <2>1, AppendProperties
  <2>3. ASSUME NEW i \in 1..(Len(s) + 1) PROVE Append(s, e)[i] <= e
    <3>1. CASE i = Len(s) + 1
      BY <2>1, <2>2, <3>1
    <3>2. CASE i # Len(s) + 1
      <4>1. i \in 1..Len(s)
        BY <2>1, <3>2
      <4> QED
        BY <2>1, <2>2, <4>1
    <3> QED
      BY <3>1, <3>2
  <2>4. \A i \in DOMAIN s' : s'[i] <= e
    BY <2>1, <2>2, <2>3
  <2> USE DEF s, e
  <2> QED
    BY <2>1, <2>4 DEF NumberedInv
<1>5. CASE NumberEvent
  <2> DEFINE e == last_code_event_id_
  <2>1. /\ e \in 0..MaxEvents /\ last_code_event_id_' = e + 1
        /\ UNCHANGED <<marker, record, enqueue_pos_, writing, ticks_from_vm_buffer_>>
    BY <1>1, <1>5 DEF NumberEvent, ringVars, queueVars
  <2>2. ASSUME NEW i \in Position, marker[i] = "kFull" PROVE record[i].order <= e + 1
    <3>1. record[i] \in Tick /\ record[i].order <= e
      BY <2>2 DEF ProfilerInv, MergeInv, NumberedInv
    <3>2. record[i].order \in 0..MaxEvents
      BY <3>1 DEF Tick
    <3> QED
      BY <2>1, <3>1, <3>2
  <2>3. ASSUME writing PROVE record[enqueue_pos_].order <= e + 1
    <3>1. record[enqueue_pos_].order \in 0..MaxEvents
      BY <1>1, <2>3 DEF Tick
    <3> QED
      BY <2>1, <2>3, <3>1 DEF NumberedInv
  <2>4. ASSUME NEW i \in DOMAIN ticks_from_vm_buffer_ PROVE ticks_from_vm_buffer_[i] <= e + 1
    <3>1. ticks_from_vm_buffer_ \in Seq(0..MaxEvents) /\ i \in 1..Len(ticks_from_vm_buffer_)
      BY <1>1
    <3>2. ticks_from_vm_buffer_[i] \in 0..MaxEvents
      BY <3>1, ElementOfSeq
    <3>3. ticks_from_vm_buffer_[i] <= e
      BY DEF NumberedInv
    <3> QED
      BY <2>1, <3>2, <3>3
  <2> QED
    BY <2>1, <2>2, <2>3, <2>4 DEF NumberedInv
<1>6. CASE \/ StartProcessor \/ EnqueueEvent \/ StopProfiling \/ StopSynchronously \/ Join
           \/ HandleSignalDrop \/ UNCHANGED vars
  BY <1>2, <1>6 DEF StartProcessor, EnqueueEvent, StopProfiling, StopSynchronously, Join,
     HandleSignalDrop, vars, ringVars, vmVars, queueVars
<1>7. CASE HandleSignalStart
  <2> DEFINE t == [order |-> last_code_event_id_, whole |-> FALSE]
  <2>1. /\ record' = [record EXCEPT ![enqueue_pos_] = t] /\ marker[enqueue_pos_] = "kEmpty"
        /\ UNCHANGED <<marker, enqueue_pos_, last_code_event_id_, ticks_from_vm_buffer_>>
    BY <1>7 DEF HandleSignalStart, StartEnqueue, IsFull, vmVars, queueVars
  <2>2. t.order <= last_code_event_id_
    BY <1>1
  <2> HIDE DEF t
  <2>3. /\ record'[enqueue_pos_] = t
        /\ \A i \in Position : marker[i] = "kFull" => record'[i] = record[i]
    BY <1>1, <2>1
  <2> QED
    BY <2>1, <2>2, <2>3 DEF NumberedInv
<1>8. CASE HandleSignalFinish
  <2> DEFINE t == [record[enqueue_pos_] EXCEPT !.whole = TRUE]
  <2>1. /\ writing /\ writing' = FALSE
        /\ record' = [record EXCEPT ![enqueue_pos_] = t]
        /\ marker' = [marker EXCEPT ![enqueue_pos_] = "kFull"]
        /\ UNCHANGED <<last_code_event_id_, ticks_from_vm_buffer_>>
    BY <1>8 DEF HandleSignalFinish, FinishEnqueue, vmVars, queueVars
  <2>2. t.order <= last_code_event_id_
    <3>1. record[enqueue_pos_] \in Tick /\ record[enqueue_pos_].order <= last_code_event_id_
      BY <1>1, <2>1 DEF NumberedInv
    <3>2. t.order = record[enqueue_pos_].order
      BY <3>1 DEF Tick
    <3> QED
      BY <3>1, <3>2
  <2> HIDE DEF t
  <2>3. \A i \in Position : /\ i = enqueue_pos_ => record'[i] = t
                            /\ i # enqueue_pos_ => /\ record'[i] = record[i]
                                                   /\ marker'[i] = marker[i]
    BY <1>1, <2>1
  <2> QED
    BY <2>1, <2>2, <2>3 DEF NumberedInv
<1>9. CASE DequeueVmTick
  <2> DEFINE s == ticks_from_vm_buffer_
  <2>1. /\ s \in Seq(0..MaxEvents) /\ s # << >> /\ s' = Tail(s)
        /\ \A i \in 1..Len(s) : s[i] <= last_code_event_id_
        /\ UNCHANGED <<marker, record, enqueue_pos_, writing, last_code_event_id_>>
    BY <1>1, <1>9 DEF DequeueVmTick, VmTickIsDue, NumberedInv, ringVars, vmVars
  <2> HIDE DEF s
  <2>2. /\ Len(Tail(s)) = Len(s) - 1 /\ Len(s) \in Nat
        /\ DOMAIN Tail(s) = 1..(Len(s) - 1)
        /\ \A i \in 1..(Len(s) - 1) : Tail(s)[i] = s[i + 1]
    BY <2>1, HeadTailProperties
  <2>3. \A i \in 1..(Len(s) - 1) : i + 1 \in 1..Len(s)
    BY <2>2
  <2>4. \A i \in DOMAIN s' : s'[i] <= last_code_event_id_
    BY <2>1, <2>2, <2>3
  <2> USE DEF s
  <2> QED
    BY <2>1, <2>4 DEF NumberedInv
<1>10. CASE RecordTick
  <2>1. \A i \in Position : marker'[i] = "kFull" => marker[i] = "kFull"
    BY <1>1, <1>10 DEF RecordTick, Remove
  <2> QED
    BY <1>2, <1>10, <2>1 DEF RecordTick, Remove, vmVars, queueVars
<1>11. CASE PeekTick
  BY <1>2, <1>11 DEF PeekTick, Peek, ringVars, vmVars, queueVars
<1>12. CASE \/ CheckRunning \/ NoVmTickIsDue \/ RecordVmTick \/ PeekNothing \/ CheckVmTicks
            \/ ProcessCodeEvent \/ ProcessNoCodeEvent \/ TimerRuns \/ TimerHasExpired
  BY <1>2, <1>12 DEF CheckRunning, NoVmTickIsDue, RecordVmTick, PeekNothing, CheckVmTicks,
     ProcessCodeEvent, ProcessNoCodeEvent, TimerRuns, TimerHasExpired, ringVars, vmVars, queueVars
<1> QED
  BY <1>3, <1>4, <1>5, <1>6, <1>7, <1>8, <1>9, <1>10, <1>11, <1>12
     DEF Next, VMThread, SignalHandler, EventsProcessor

\* The processor turns to the next event when the ticks due before it are done.
LEMMA TurnedStep ==
    ASSUME ProfilerInv, StoppingInv, TurnedInv, [Next]_vars
    PROVE  TurnedInv'
<1> USE DEF TurnedInv
<1>1. CASE VMThread
  <2>1. CASE processor' = "none" \/ ~ draining'
    BY <2>1
  <2>2. CASE processor' # "none" /\ draining'
    <3>1. CASE vm = "join"
      BY <1>1, <2>2, <3>1 DEF VMThread, StartProfiling, StartProcessor, AddCurrentStack,
         NumberEvent, EnqueueEvent, StopProfiling, StopSynchronously, Join
    <3>2. CASE vm # "join"
      <4>1. processor = "none" \/ ~ draining
        BY <3>2 DEF StoppingInv
      <4>2. CASE StartProcessor
        BY <4>1, <4>2 DEF StartProcessor, StoppingInv, ProfilerInv, MergeInv
      <4>3. CASE ~ StartProcessor
        <5>1. processor' = processor /\ (draining' = draining \/ draining' = FALSE)
          BY <1>1, <3>2, <4>3 DEF VMThread, StartProfiling, AddCurrentStack, NumberEvent,
             EnqueueEvent, StopProfiling, StopSynchronously, Join, processorVars
        <5> QED
          BY <2>2, <4>1, <5>1
      <4> QED
        BY <4>2, <4>3
    <3> QED
      BY <3>1, <3>2
  <2> QED
    BY <2>1, <2>2
<1>2. CASE SignalHandler
  <2>1. UNCHANGED <<processor, draining, last_processed_code_event_id_, ticks_from_vm_buffer_>>
    BY <1>2 DEF SignalHandler, HandleSignalDrop, HandleSignalStart, HandleSignalFinish,
       queueVars, processorVars
  <2>2. CASE processor # "none" /\ draining
    <3>1. ~ is_profiling_ /\ ~ writing
      BY <2>2 DEF StoppingInv
    <3>2. UNCHANGED ringVars
      BY <1>2, <3>1 DEF SignalHandler, HandleSignalDrop, HandleSignalStart, HandleSignalFinish
    <3> QED
      BY <2>1, <3>2 DEF VmTickIsDue, IsEmpty, Front, ringVars
  <2> QED
    BY <2>1, <2>2
<1>3. CASE EventsProcessor
  <2>1. processor # "none"
    BY <1>3 DEF EventsProcessor, CheckRunning, DequeueVmTick, NoVmTickIsDue, RecordVmTick,
       PeekNothing, PeekTick, RecordTick, CheckVmTicks, ProcessCodeEvent,
       ProcessNoCodeEvent, TimerRuns, TimerHasExpired
  <2>2. CASE CheckRunning
    BY <2>2 DEF CheckRunning
  <2>3. CASE DequeueVmTick
    BY <2>3 DEF DequeueVmTick
  <2>4. CASE NoVmTickIsDue
    BY <2>4 DEF NoVmTickIsDue, VmTickIsDue, queueVars
  <2>5. CASE RecordVmTick \/ RecordTick
    BY <2>5 DEF RecordVmTick, RecordTick, OneSampleProcessed
  <2>6. CASE PeekNothing
    BY <2>1, <2>6 DEF PeekNothing, VmTickIsDue, IsEmpty, ringVars, queueVars
  <2>7. CASE PeekTick
    BY <2>1, <2>7 DEF PeekTick, FoundSampleForNextCodeEvent, VmTickIsDue, IsEmpty, Front, ringVars, queueVars
  <2>8. CASE CheckVmTicks
    BY <2>1, <2>8 DEF CheckVmTicks, NoSamplesInQueue, FoundSampleForNextCodeEvent, VmTickIsDue, IsEmpty, Front, ringVars, queueVars
  <2>9. CASE ProcessCodeEvent
    BY <2>9 DEF ProcessCodeEvent
  <2>10. CASE ProcessNoCodeEvent
    BY <2>1, <2>10 DEF ProcessNoCodeEvent, VmTickIsDue, IsEmpty, Front, ringVars, queueVars
  <2>11. CASE TimerRuns \/ TimerHasExpired
    BY <2>11 DEF TimerRuns, TimerHasExpired
  <2> QED
    BY <1>3, <2>2, <2>3, <2>4, <2>5, <2>6, <2>7, <2>8, <2>9, <2>10, <2>11 DEF EventsProcessor
<1>4. CASE UNCHANGED vars
  BY <1>4 DEF vars, VmTickIsDue, IsEmpty, Front, ringVars, queueVars, processorVars
<1> QED
  BY <1>1, <1>2, <1>3, <1>4 DEF Next

\* Both together leave nothing that could have been symbolized.
LEMMA DrainedWhenExited == ProfilerInv /\ DrainInv => DrainedAtExit
<1> SUFFICES ASSUME ProfilerInv, DrainInv, processor = "exited"
             PROVE  /\ events_buffer_ = << >>
                    /\ IsEmpty \/ Front.order < last_processed_code_event_id_
                    /\ \/ ticks_from_vm_buffer_ = << >>
                       \/ Head(ticks_from_vm_buffer_) < last_processed_code_event_id_
  BY DEF DrainedAtExit
<1>1. draining /\ events_buffer_ = << >> /\ vm = "join"
  BY DEF DrainInv, StoppingInv
<1>2. last_code_event_id_ = last_processed_code_event_id_
  <2>1. last_code_event_id_ = last_processed_code_event_id_ + Len(events_buffer_) + 0
    BY <1>1 DEF ProfilerInv, MergeInv
  <2>2. Len(events_buffer_) = 0 /\ last_processed_code_event_id_ \in 0..MaxEvents
    BY <1>1 DEF ProfilerInv, TypeOK
  <2> QED
    BY <2>1, <2>2, BoundAssumption
<1>3. last_code_event_id_ \in 0..MaxEvents
  BY DEF ProfilerInv, TypeOK
<1>4. ASSUME ~ IsEmpty PROVE Front.order < last_processed_code_event_id_
  <2>1. dequeue_pos_ \in Position /\ marker[dequeue_pos_] = "kFull"
    BY <1>4 DEF ProfilerInv, RingInv, IsEmpty
  <2>2. Front \in Tick /\ Front.order <= last_code_event_id_
    BY <2>1 DEF ProfilerInv, MergeInv, DrainInv, NumberedInv, Front
  <2>3. Front.order \in 0..MaxEvents
    BY <2>2 DEF Tick
  <2>4. Front.order # last_processed_code_event_id_
    BY <1>1, <1>4 DEF DrainInv, TurnedInv
  <2> QED
    BY <1>2, <1>3, <2>2, <2>3, <2>4, BoundAssumption
<1>5. ASSUME ticks_from_vm_buffer_ # << >>
      PROVE  Head(ticks_from_vm_buffer_) < last_processed_code_event_id_
  <2> DEFINE h == Head(ticks_from_vm_buffer_)
  <2>1. ticks_from_vm_buffer_ \in Seq(0..MaxEvents)
    BY DEF ProfilerInv, TypeOK
  <2>2. h = ticks_from_vm_buffer_[1] /\ 1 \in DOMAIN ticks_from_vm_buffer_ /\ h \in 0..MaxEvents
    <3>1. Len(ticks_from_vm_buffer_) \in Nat \ {0}
      BY <1>5, <2>1
    <3>2. 1 \in 1..Len(ticks_from_vm_buffer_) /\ 1 \in DOMAIN ticks_from_vm_buffer_
      BY <2>1, <3>1
    <3>3. h = ticks_from_vm_buffer_[1]
      BY <2>1
    <3>4. ticks_from_vm_buffer_[1] \in 0..MaxEvents
      BY <2>1, <3>2, ElementOfSeq
    <3> QED
      BY <3>2, <3>3, <3>4
  <2>3. h <= last_code_event_id_
    BY <2>2 DEF DrainInv, NumberedInv
  <2>4. h # last_processed_code_event_id_
    BY <1>1, <1>5 DEF DrainInv, TurnedInv, VmTickIsDue
  <2> HIDE DEF h
  <2>5. h < last_processed_code_event_id_
    BY <1>2, <1>3, <2>2, <2>3, <2>4, BoundAssumption
  <2> QED
    BY <2>5 DEF h
<1> QED
  BY <1>1, <1>4, <1>5

\* "Process remaining tick events": however the last ticks and events came
\* in, when the processor thread ends (Run, cpu-profiler.cc) all events have
\* been processed, and every tick that was not is behind one out of date.
THEOREM DrainedAtExitTheorem == Spec => []DrainedAtExit
<1>1. Init => DrainInv
  <2> SUFFICES ASSUME Init PROVE DrainInv
    OBVIOUS
  <2>1. \A i \in Position : marker[i] = "kEmpty"
    BY DEF Init, RingInit, EmptyMarkers
  <2> QED
    BY <2>1 DEF Init, RingInit, DrainInv, StoppingInv, NumberedInv, TurnedInv
<1>2. ProfilerInv /\ DrainInv /\ [Next]_vars => DrainInv'
  BY StoppingStep, NumberedStep, TurnedStep DEF DrainInv
<1>3. ProfilerInv /\ DrainInv => DrainedAtExit
  BY DrainedWhenExited
<1> QED
  BY <1>1, <1>2, <1>3, ProfilerInvariant, PTL DEF Spec

-------------------------------------------------------------------------------
(* The ring is a bounded first-in first-out queue *)

\* The entry of the i-th record in the ring.
EntryAt(i) == IF dequeue_pos_ + i - 1 < Length THEN dequeue_pos_ + i - 1
              ELSE dequeue_pos_ + i - 1 - Length

ContentsFacts ==
    /\ Count \in 0..Length
    /\ Contents \in Seq(Tick)
    /\ Len(Contents) = Count
    /\ \A i \in 1..Count : /\ Contents[i] = record[EntryAt(i)]
                           /\ EntryAt(i) \in Position
                           /\ Offset(EntryAt(i)) = i - 1

\* The contents are a sequence of ticks, found in the entries in use.
LEMMA ContentsAreSeq == ProfilerInv => ContentsFacts
<1> SUFFICES ASSUME ProfilerInv PROVE ContentsFacts
  OBVIOUS
<1> USE DEF ProfilerInv
<1>1. Count \in 0..Length /\ Length \in Nat \ {0} /\ dequeue_pos_ \in 0..(Length - 1)
  BY RingArithmetic DEF RingInv, Position
<1>2. \A i \in 1..Count : EntryAt(i) \in Position /\ Offset(EntryAt(i)) = i - 1
  BY <1>1 DEF EntryAt, Offset, Position
<1>3. \A i \in 1..Count : record[EntryAt(i)] \in Tick
  <2> SUFFICES ASSUME NEW i \in 1..Count PROVE record[EntryAt(i)] \in Tick
    OBVIOUS
  <2>1. EntryAt(i) \in Position /\ Offset(EntryAt(i)) < Count
    BY <1>1, <1>2
  <2>2. marker[EntryAt(i)] = "kFull"
    BY <2>1 DEF RingInv
  <2> QED
    BY <2>1, <2>2 DEF MergeInv
<1>4. Contents = [i \in 1..Count |-> record[EntryAt(i)]]
  BY DEF Contents, EntryAt
<1>5. Contents \in [1..Count -> Tick]
  BY <1>3, <1>4
<1>6. Contents \in Seq(Tick) /\ Len(Contents) = Count
  BY <1>1, <1>5
<1> QED
  BY <1>1, <1>2, <1>4, <1>6 DEF ContentsFacts

\* The same after a step.
LEMMA ContentsAreSeqNext == ProfilerInv' => ContentsFacts'
  BY ContentsAreSeq, PTL

\* Writing the entry behind the last changes none in use.
LEMMA StartKeepsContents ==
    ASSUME ProfilerInv, ProfilerInv', NEW r, StartEnqueue(r)
    PROVE  Contents' = Contents
<1>1. ContentsFacts /\ ContentsFacts' /\ Count' = Count
  BY ContentsAreSeq, ContentsAreSeqNext, StartKeepsRing DEF ProfilerInv
<1>2. \A i \in 1..Count : Contents'[i] = Contents[i]
  <2> SUFFICES ASSUME NEW i \in 1..Count PROVE Contents'[i] = Contents[i]
    OBVIOUS
  <2>1. EntryAt(i) \in Position /\ Offset(EntryAt(i)) < Count
    BY <1>1 DEF ContentsFacts
  <2>2. EntryAt(i) # enqueue_pos_
    BY <2>1 DEF ProfilerInv, RingInv, StartEnqueue, IsFull
  <2>3. EntryAt(i)' = EntryAt(i)
    BY DEF StartEnqueue, EntryAt
  <2>4. record'[EntryAt(i)] = record[EntryAt(i)]
    BY <2>2 DEF StartEnqueue
  <2>5. Contents'[i] = record'[EntryAt(i)']
    BY <1>1 DEF ContentsFacts
  <2>6. Contents[i] = record[EntryAt(i)]
    BY <1>1 DEF ContentsFacts
  <2> QED
    BY <2>3, <2>4, <2>5, <2>6
<1> QED
  BY <1>1, <1>2, SeqEqual DEF ContentsFacts

\* The finished tick is appended, and there was room for it.
LEMMA FinishAppends ==
    ASSUME ProfilerInv, ProfilerInv', writing, NEW t \in Tick, FinishEnqueue(t)
    PROVE  Contents' = Append(Contents, t) /\ Len(Contents) < Length
<1>1. /\ ContentsFacts /\ ContentsFacts'
      /\ Count' = Count + 1 /\ Count < Length
      /\ Offset(enqueue_pos_) = Count
      /\ enqueue_pos_ \in Position /\ dequeue_pos_ \in Position
  BY ContentsAreSeq, ContentsAreSeqNext, FinishKeepsRing DEF ProfilerInv, RingInv
<1>2. /\ Append(Contents, t) \in Seq(Tick)
      /\ Len(Append(Contents, t)) = Count + 1
      /\ \A i \in 1..Count : Append(Contents, t)[i] = Contents[i]
      /\ Append(Contents, t)[Count + 1] = t
  BY <1>1, AppendProperties DEF ContentsFacts
<1>3. \A i \in 1..(Count + 1) : Contents'[i] = record'[EntryAt(i)]
  <2> SUFFICES ASSUME NEW i \in 1..(Count + 1) PROVE Contents'[i] = record'[EntryAt(i)]
    OBVIOUS
  <2>1. EntryAt(i)' = EntryAt(i)
    BY DEF FinishEnqueue, EntryAt
  <2>2. Contents'[i] = record'[EntryAt(i)']
    BY <1>1 DEF ContentsFacts
  <2> QED
    BY <2>1, <2>2
<1>4. EntryAt(Count + 1) = enqueue_pos_
  BY <1>1, LengthAssumption DEF ContentsFacts, EntryAt, Offset, Position
<1>5. \A i \in 1..Count : EntryAt(i) # enqueue_pos_ /\ EntryAt(i) \in Position
  <2> SUFFICES ASSUME NEW i \in 1..Count
               PROVE  EntryAt(i) # enqueue_pos_ /\ EntryAt(i) \in Position
    OBVIOUS
  <2>1. Offset(EntryAt(i)) = i - 1 /\ EntryAt(i) \in Position
    BY <1>1 DEF ContentsFacts
  <2>2. i - 1 # Count
    BY <1>1 DEF ContentsFacts
  <2> QED
    BY <2>1, <2>2, <1>1
<1>6. record' = [record EXCEPT ![enqueue_pos_] = t] /\ DOMAIN record = Position
  BY DEF FinishEnqueue, ProfilerInv, RingInv
<1>7. Count \in Nat
  BY <1>1 DEF ContentsFacts
<1>8. Contents'[Count + 1] = t
  <2>1. Contents'[Count + 1] = record'[EntryAt(Count + 1)]
    BY <1>3, <1>7
  <2>2. record'[enqueue_pos_] = t
    BY <1>1, <1>6
  <2> QED
    BY <2>1, <2>2, <1>4
<1>9. \A i \in 1..Count : Contents'[i] = Contents[i]
  <2> SUFFICES ASSUME NEW i \in 1..Count PROVE Contents'[i] = Contents[i]
    OBVIOUS
  <2>1. Contents[i] = record[EntryAt(i)] /\ Contents'[i] = record'[EntryAt(i)]
    BY <1>1, <1>3, <1>7 DEF ContentsFacts
  <2>2. record'[EntryAt(i)] = record[EntryAt(i)]
    BY <1>5, <1>6
  <2> QED
    BY <2>1, <2>2
<1>10. \A i \in 1..(Count + 1) : Contents'[i] = Append(Contents, t)[i]
  <2> SUFFICES ASSUME NEW i \in 1..(Count + 1)
               PROVE  Contents'[i] = Append(Contents, t)[i]
    OBVIOUS
  <2>1. CASE i = Count + 1
    BY <2>1, <1>2, <1>8
  <2>2. CASE i # Count + 1
    <3>1. i \in 1..Count
      BY <2>2, <1>7
    <3> QED
      BY <3>1, <1>2, <1>9
  <2> QED
    BY <2>1, <2>2
<1>11. Contents' \in Seq(Tick) /\ Len(Contents') = Count + 1 /\ Len(Contents) = Count
  BY <1>1 DEF ContentsFacts
<1>12. Contents' = Append(Contents, t)
  BY <1>2, <1>10, <1>11, SeqEqual
<1> QED
  BY <1>1, <1>11, <1>12

\* The tick that is given back was the oldest.
LEMMA RemoveTakes ==
    ASSUME ProfilerInv, ProfilerInv', reading, Remove
    PROVE  Contents # << >> /\ Contents' = Tail(Contents)
<1>1. /\ ContentsFacts /\ ContentsFacts'
      /\ Count' = Count - 1 /\ Count > 0 /\ Count \in 0..Length
      /\ dequeue_pos_ \in Position
  BY ContentsAreSeq, ContentsAreSeqNext, RemoveKeepsRing DEF ProfilerInv, RingInv, ContentsFacts
<1>2. Contents # << >>
  BY <1>1 DEF ContentsFacts
<1>3. /\ Tail(Contents) \in Seq(Tick)
      /\ Len(Tail(Contents)) = Count - 1
      /\ \A i \in 1..(Count - 1) : Tail(Contents)[i] = Contents[i + 1]
  BY <1>1, <1>2, HeadTailProperties DEF ContentsFacts
<1>4. \A i \in 1..(Count - 1) : EntryAt(i)' = EntryAt(i + 1)
  BY <1>1, LengthAssumption DEF Remove, EntryAt, NextEntry, Position
<1>5. \A i \in 1..(Count - 1) : Contents'[i] = Contents[i + 1]
  <2> SUFFICES ASSUME NEW i \in 1..(Count - 1) PROVE Contents'[i] = Contents[i + 1]
    OBVIOUS
  <2>1. i + 1 \in 1..Count
    BY <1>1
  <2>2. Contents'[i] = record'[EntryAt(i)']
    BY <1>1 DEF ContentsFacts
  <2>3. Contents[i + 1] = record[EntryAt(i + 1)]
    BY <1>1, <2>1 DEF ContentsFacts
  <2> QED
    BY <2>2, <2>3, <1>4 DEF Remove
<1>6. Contents' \in Seq(Tick) /\ Len(Contents') = Count - 1
  BY <1>1 DEF ContentsFacts
<1>7. \A i \in 1..(Count - 1) : Contents'[i] = Tail(Contents)[i]
  BY <1>3, <1>5
<1> QED
  BY <1>2, <1>3, <1>6, <1>7, SeqEqual

\* An empty ring has no contents.
LEMMA EmptyContents ==
    /\ RingInit => Contents = << >>
    /\ RingRenew => Contents' = << >>
<1>1. RingInit => Count = 0
  BY NewRing
<1>2. RingRenew => Count' = 0
  BY RenewedRing
<1> QED
  BY <1>1, <1>2 DEF Contents

\* The ring implements the bounded first-in first-out queue: no tick is lost,
\* doubled or taken out of turn once it has been finished.
THEOREM ImplementsBoundedFifo == Spec => RingSpec
<1>1. Init => Contents = << >>
  BY EmptyContents DEF Init
<1>2. ProfilerInv /\ ProfilerInv' /\ [Next]_vars => [Ring!FifoNext]_Contents
  <2> SUFFICES ASSUME ProfilerInv, ProfilerInv', [Next]_vars
               PROVE  [Ring!FifoNext]_Contents
    OBVIOUS
  <2>1. CASE UNCHANGED ringVars
    BY <2>1, RingUnchanged DEF ProfilerInv
  <2>2. CASE StartProfiling
    BY <2>2, EmptyContents DEF StartProfiling, Ring!FifoNext, Ring!Renew
  <2>3. CASE HandleSignalStart
    BY <2>3, StartKeepsContents DEF HandleSignalStart
  <2>4. CASE HandleSignalFinish
    <3> DEFINE t == [record[enqueue_pos_] EXCEPT !.whole = TRUE]
    <3>1. writing /\ FinishEnqueue(t)
      BY <2>4 DEF HandleSignalFinish
    <3>2. t \in Tick /\ t \in [order : 0..MaxEvents, whole : {TRUE}]
      BY <3>1 DEF Tick, ProfilerInv, MergeInv
    <3> HIDE DEF t
    <3>3. Contents' = Append(Contents, t) /\ Len(Contents) < Length
      BY <3>1, <3>2, FinishAppends
    <3> QED
      BY <3>2, <3>3 DEF Ring!FifoNext, Ring!Put
  <2>5. CASE PeekTick
    <3>1. CASE Peek
      <4>1. Count' = Count
        BY <3>1, PeekKeepsRing DEF ProfilerInv
      <4> QED
        BY <3>1, <4>1 DEF Peek, Contents
    <3>2. CASE UNCHANGED ringVars
      BY <3>2, <2>1
    <3> QED
      BY <2>5, <3>1, <3>2 DEF PeekTick
  <2>6. CASE RecordTick
    <3>1. reading /\ Remove
      BY <2>6 DEF RecordTick, ProfilerInv, MergeInv
    <3> QED
      BY <3>1, RemoveTakes DEF Ring!FifoNext, Ring!Take
  <2>7. CASE VMThread /\ ~StartProfiling
    <3>1. UNCHANGED ringVars
      BY <2>7 DEF VMThread, StartProcessor, AddCurrentStack, NumberEvent, EnqueueEvent,
                  StopProfiling, StopSynchronously, Join
    <3> QED
      BY <3>1, <2>1
  <2>8. CASE EventsProcessor /\ ~PeekTick /\ ~RecordTick
    <3>1. UNCHANGED ringVars
      BY <2>8 DEF EventsProcessor, CheckRunning, DequeueVmTick, NoVmTickIsDue, RecordVmTick,
                  PeekNothing, CheckVmTicks, ProcessCodeEvent, ProcessNoCodeEvent, TimerRuns,
                  TimerHasExpired
    <3> QED
      BY <3>1, <2>1
  <2>9. CASE HandleSignalDrop
    BY <2>9, <2>1 DEF HandleSignalDrop
  <2>10. CASE UNCHANGED vars
    BY <2>10, <2>1 DEF vars
  <2> QED
    BY <2>2, <2>3, <2>4, <2>5, <2>6, <2>7, <2>8, <2>9, <2>10 DEF Next, SignalHandler
<1> QED
  BY <1>1, <1>2, ProfilerInvariant, PTL DEF Spec, RingSpec, Ring!FifoSpec
==============================================================================
