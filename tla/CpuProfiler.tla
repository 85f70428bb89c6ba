------------------------------ MODULE CpuProfiler -----------------------------
(***************************************************************************)
(* The CPU profiler: how ticks meet the code events that preceded them,    *)
(* src/src/cpu-profiler.cc.                                                *)
(*                                                                         *)
(* The VM thread numbers its code events and queues them.  A signal        *)
(* handler, which interrupts the VM thread anywhere, puts a tick with the  *)
(* number of the last event in a ring.  The events processor thread merges *)
(* the two: it symbolizes the ticks whose number is that of the last event *)
(* it has processed, and turns to the next event when it believes there    *)
(* are no more.  The VM thread adds ticks as well, through a queue of      *)
(* their own, when a profile is started.  Stopping drains the queues.      *)
(*                                                                         *)
(* The two unbounded queues are those of UnboundQueue, each as the         *)
(* sequence it implements; a step of a thread is one access to a queue,    *)
(* a marker of the ring, or running_.                                      *)
(***************************************************************************)
EXTENDS SamplingCircularQueue

CONSTANTS
    MaxEvents,     \* bound: code events in one session
    MaxVmTicks     \* bound: ticks of the VM thread queued at once

ASSUME BoundAssumption == MaxEvents \in Nat /\ MaxVmTicks \in Nat

VARIABLES
    vm,                 \* where the VM thread is, unless in the signal handler
    is_profiling_,
    signal,             \* a SIGPROF is on its way to the VM thread
    last_code_event_id_,
    events_buffer_,     \* the order of each code event in the queue
    ticks_from_vm_buffer_,   \* the order of each tick in the queue
    running_,
    processor,          \* where the events processor thread is
    draining,           \* it has left the loop on running_
    last_processed_code_event_id_,
    tick,               \* the order of the VM thread's tick it has dequeued
    codeMap             \* how many events the code map reflects

vmVars == <<vm, is_profiling_, last_code_event_id_>>
queueVars == <<events_buffer_, ticks_from_vm_buffer_>>
processorVars == <<processor, draining, last_processed_code_event_id_, tick, codeMap>>
vars == <<ringVars, vmVars, signal, queueVars, running_, processorVars>>

\* A tick in the ring is whole when its sample has been filled in.
Tick == [order : 0..MaxEvents, whole : BOOLEAN]

TypeOK ==
    /\ vm \in {"js", "logging", "enqueue", "addStack", "stopping", "join"}
    /\ is_profiling_ \in BOOLEAN /\ signal \in BOOLEAN
    /\ running_ \in BOOLEAN /\ draining \in BOOLEAN
    /\ record \in [Position -> Tick \cup {Uninitialized}]
    /\ last_code_event_id_ \in 0..MaxEvents
    /\ events_buffer_ \in Seq(1..MaxEvents)
    /\ ticks_from_vm_buffer_ \in Seq(0..MaxEvents)
    /\ processor \in {"none", "running", "vmTick", "recordVm", "ring", "record",
                      "vmEmpty", "event", "timer", "exited"}
    /\ last_processed_code_event_id_ \in 0..MaxEvents
    /\ tick \in 0..MaxEvents
    /\ codeMap \in Nat

Init ==
    /\ RingInit
    /\ vm = "js" /\ is_profiling_ = FALSE /\ signal = FALSE
    /\ last_code_event_id_ = 0
    /\ events_buffer_ = << >> /\ ticks_from_vm_buffer_ = << >>
    /\ running_ = FALSE
    /\ processor = "none" /\ draining = FALSE
    /\ last_processed_code_event_id_ = 0 /\ tick = 0 /\ codeMap = 0

-------------------------------------------------------------------------------
(* The VM thread, when it is not in the signal handler *)

\* StartProcessorIfNotStarted makes a processor and a generator.
StartProfiling ==
    /\ vm = "js" /\ ~is_profiling_
    /\ vm' = "logging" /\ is_profiling_' = TRUE
    /\ RingRenew
    /\ last_code_event_id_' = 0
    /\ events_buffer_' = << >> /\ ticks_from_vm_buffer_' = << >>
    /\ running_' = TRUE
    /\ draining' = FALSE
    /\ last_processed_code_event_id_' = 0 /\ tick' = 0 /\ codeMap' = 0
    /\ UNCHANGED <<signal, processor>>

\* The code there is has been logged: the thread starts.
StartProcessor ==
    /\ vm = "logging"
    /\ vm' = "addStack" /\ processor' = "running"
    /\ UNCHANGED <<ringVars, is_profiling_, last_code_event_id_, signal, queueVars, running_,
                   draining, last_processed_code_event_id_, tick, codeMap>>

\* Another profile can be started while one is running.
AddCurrentStack ==
    /\ vm = "addStack" \/ (vm = "js" /\ is_profiling_)
    /\ Len(ticks_from_vm_buffer_) < MaxVmTicks
    /\ vm' = "js"
    /\ ticks_from_vm_buffer_' = Append(ticks_from_vm_buffer_, last_code_event_id_)
    /\ UNCHANGED <<ringVars, is_profiling_, last_code_event_id_, signal, events_buffer_,
                   running_, processorVars>>

\* Enqueue, as far as the number: a tick can be taken before the event is
\* in the queue.
NumberEvent ==
    /\ vm = "logging" \/ (vm = "js" /\ is_profiling_)
    /\ last_code_event_id_ < MaxEvents
    /\ vm' = "enqueue"
    /\ last_code_event_id_' = last_code_event_id_ + 1
    /\ UNCHANGED <<ringVars, is_profiling_, signal, queueVars, running_, processorVars>>

EnqueueEvent ==
    /\ vm = "enqueue"
    /\ vm' = IF processor = "none" THEN "logging" ELSE "js"
    /\ events_buffer_' = Append(events_buffer_, last_code_event_id_)
    /\ UNCHANGED <<ringVars, is_profiling_, last_code_event_id_, signal,
                   ticks_from_vm_buffer_, running_, processorVars>>

\* The last profile is stopped.
StopProfiling ==
    /\ vm = "js" /\ is_profiling_
    /\ vm' = "stopping" /\ is_profiling_' = FALSE
    /\ UNCHANGED <<ringVars, last_code_event_id_, signal, queueVars, running_, processorVars>>

StopSynchronously ==
    /\ vm = "stopping"
    /\ vm' = "join" /\ running_' = FALSE
    /\ UNCHANGED <<ringVars, is_profiling_, last_code_event_id_, signal, queueVars,
                   processorVars>>

\* Join returns; the processor is deleted.
Join ==
    /\ vm = "join" /\ processor = "exited"
    /\ vm' = "js" /\ processor' = "none"
    /\ UNCHANGED <<ringVars, is_profiling_, last_code_event_id_, signal, queueVars, running_,
                   draining, last_processed_code_event_id_, tick, codeMap>>

VMThread ==
    /\ ~writing
    /\ \/ StartProfiling \/ StartProcessor \/ AddCurrentStack
       \/ NumberEvent \/ EnqueueEvent
       \/ StopProfiling \/ StopSynchronously \/ Join

-------------------------------------------------------------------------------
(* The signal handler, on the VM thread *)

\* SampleStack drops the sample if no profile is running or the ring is full.
HandleSignalDrop ==
    /\ signal /\ ~writing
    /\ ~is_profiling_ \/ IsFull
    /\ signal' = FALSE
    /\ UNCHANGED <<ringVars, vmVars, queueVars, running_, processorVars>>

\* StartTickSample: the tick gets the number of the last event.
HandleSignalStart ==
    /\ signal /\ ~writing
    /\ is_profiling_
    /\ signal' = FALSE
    /\ StartEnqueue([order |-> last_code_event_id_, whole |-> FALSE])
    /\ UNCHANGED <<vmVars, queueVars, running_, processorVars>>

\* The sample is filled in; FinishTickSample.
HandleSignalFinish ==
    /\ writing
    /\ FinishEnqueue([record[enqueue_pos_] EXCEPT !.whole = TRUE])
    /\ UNCHANGED <<vmVars, signal, queueVars, running_, processorVars>>

SignalHandler == HandleSignalDrop \/ HandleSignalStart \/ HandleSignalFinish

-------------------------------------------------------------------------------
(* The events processor thread *)

\* ProcessOneSample is over: where its three results lead in the two loops
\* of Run.
OneSampleProcessed == processor' = IF draining THEN "vmTick" ELSE "timer"
FoundSampleForNextCodeEvent == processor' = "event"
NoSamplesInQueue == processor' = IF draining THEN "event" ELSE "timer"

\* Fault: what is left is not looked at.
CheckRunningSkipsDrain ==
    /\ processor = "running"
    /\ processor' = IF running_ THEN "vmTick" ELSE "exited"
    /\ UNCHANGED <<ringVars, vmVars, signal, queueVars, running_, draining,
                   last_processed_code_event_id_, tick, codeMap>>

\* while (running_)
CheckRunning ==
    /\ processor = "running"
    /\ processor' = "vmTick"
    /\ draining' = ~running_
    /\ UNCHANGED <<ringVars, vmVars, signal, queueVars, running_,
                   last_processed_code_event_id_, tick, codeMap>>

VmTickIsDue ==
    /\ ticks_from_vm_buffer_ # << >>
    /\ Head(ticks_from_vm_buffer_) = last_processed_code_event_id_

DequeueVmTick ==
    /\ processor = "vmTick"
    /\ VmTickIsDue
    /\ processor' = "recordVm"
    /\ tick' = Head(ticks_from_vm_buffer_)
    /\ ticks_from_vm_buffer_' = Tail(ticks_from_vm_buffer_)
    /\ UNCHANGED <<ringVars, vmVars, signal, events_buffer_, running_, draining,
                   last_processed_code_event_id_, codeMap>>

NoVmTickIsDue ==
    /\ processor = "vmTick"
    /\ ~VmTickIsDue
    /\ processor' = "ring"
    /\ UNCHANGED <<ringVars, vmVars, signal, queueVars, running_, draining,
                   last_processed_code_event_id_, tick, codeMap>>

RecordVmTick ==
    /\ processor = "recordVm"
    /\ OneSampleProcessed
    /\ UNCHANGED <<ringVars, vmVars, signal, queueVars, running_, draining,
                   last_processed_code_event_id_, tick, codeMap>>

PeekNothing ==
    /\ processor = "ring"
    /\ IsEmpty
    /\ processor' = "vmEmpty"
    /\ UNCHANGED <<ringVars, vmVars, signal, queueVars, running_, draining,
                   last_processed_code_event_id_, tick, codeMap>>

\* Fault: the number of the tick is not compared.
PeekTickOfAnyEvent ==
    /\ processor = "ring"
    /\ Peek
    /\ processor' = "record"
    /\ UNCHANGED <<vmVars, signal, queueVars, running_, draining,
                   last_processed_code_event_id_, tick, codeMap>>

PeekTick ==
    /\ processor = "ring"
    /\ ~IsEmpty
    /\ IF Front.order # last_processed_code_event_id_
       THEN FoundSampleForNextCodeEvent /\ UNCHANGED ringVars
       ELSE Peek /\ processor' = "record"
    /\ UNCHANGED <<vmVars, signal, queueVars, running_, draining,
                   last_processed_code_event_id_, tick, codeMap>>

\* RecordTickSample has read the entry in place; now it is given back.
RecordTick ==
    /\ processor = "record"
    /\ Remove
    /\ OneSampleProcessed
    /\ UNCHANGED <<vmVars, signal, queueVars, running_, draining,
                   last_processed_code_event_id_, tick, codeMap>>

CheckVmTicks ==
    /\ processor = "vmEmpty"
    /\ IF ticks_from_vm_buffer_ = << >> THEN NoSamplesInQueue
       ELSE FoundSampleForNextCodeEvent
    /\ UNCHANGED <<ringVars, vmVars, signal, queueVars, running_, draining,
                   last_processed_code_event_id_, tick, codeMap>>

ProcessCodeEvent ==
    /\ processor = "event"
    /\ events_buffer_ # << >>
    /\ codeMap' = codeMap + 1
    /\ last_processed_code_event_id_' = Head(events_buffer_)
    /\ events_buffer_' = Tail(events_buffer_)
    /\ processor' = IF draining THEN "vmTick" ELSE "timer"
    /\ UNCHANGED <<ringVars, vmVars, signal, ticks_from_vm_buffer_, running_, draining, tick>>

\* Fault: the drain goes on as long as there are ticks.
ProcessNoCodeEventRetries ==
    /\ processor = "event"
    /\ events_buffer_ = << >>
    /\ processor' = IF ~draining THEN "timer"
                    ELSE IF IsEmpty /\ ticks_from_vm_buffer_ = << >> THEN "exited"
                    ELSE "vmTick"
    /\ UNCHANGED <<ringVars, vmVars, signal, queueVars, running_, draining,
                   last_processed_code_event_id_, tick, codeMap>>

ProcessNoCodeEvent ==
    /\ processor = "event"
    /\ events_buffer_ = << >>
    /\ processor' = IF draining THEN "exited" ELSE "timer"
    /\ UNCHANGED <<ringVars, vmVars, signal, queueVars, running_, draining,
                   last_processed_code_event_id_, tick, codeMap>>

TimerRuns ==
    /\ processor = "timer"
    /\ processor' = "vmTick"
    /\ UNCHANGED <<ringVars, vmVars, signal, queueVars, running_, draining,
                   last_processed_code_event_id_, tick, codeMap>>

\* The period is over: DoSample sends the VM thread a signal.  One that has
\* not been delivered yet absorbs it.
TimerHasExpired ==
    /\ processor = "timer"
    /\ signal' = TRUE
    /\ processor' = "running"
    /\ UNCHANGED <<ringVars, vmVars, queueVars, running_, draining,
                   last_processed_code_event_id_, tick, codeMap>>

EventsProcessor ==
    \/ CheckRunning
    \/ DequeueVmTick \/ NoVmTickIsDue \/ RecordVmTick
    \/ PeekNothing \/ PeekTick \/ RecordTick
    \/ CheckVmTicks
    \/ ProcessCodeEvent \/ ProcessNoCodeEvent
    \/ TimerRuns \/ TimerHasExpired

-------------------------------------------------------------------------------
Next == VMThread \/ SignalHandler \/ EventsProcessor

Spec == Init /\ [][Next]_vars

\* Both threads run, the handler returns, and time passes: a period that is
\* not over will be.
FairSpec ==
    /\ Spec
    /\ WF_vars(EventsProcessor) /\ SF_vars(TimerHasExpired)
    /\ WF_vars(SignalHandler)
    /\ WF_vars(~writing /\ Join)

-------------------------------------------------------------------------------
(* Properties *)

\* The ring is a bounded first-in first-out queue of ticks.
Ring == INSTANCE BoundedFifo WITH
            Record <- [order : 0..MaxEvents, whole : {TRUE}], queue <- Contents

RingSpec == Ring!FifoSpec

\* A tick in the ring is whole, and the handler does not write into the one
\* the processor thread reads (the record is handed over by its marker).
TicksAreWhole ==
    /\ \A i \in Position : marker[i] = "kFull" => record[i].whole
    /\ processor = "record" => ~IsEmpty /\ ~(writing /\ enqueue_pos_ = dequeue_pos_)

\* A tick is symbolized with the code map of the moment it was taken: after
\* the events numbered up to its own, before any later one.
SymbolizedInOrder ==
    /\ processor = "recordVm" => tick = codeMap
    /\ processor = "record" => Front.order = codeMap

\* Why SymbolizedInOrder holds: the events in the queue are numbered without a
\* gap from the last processed one to the last numbered one; a whole tick is
\* behind every full marker; and a thread that has a tick in hand has compared
\* its number.  The last part says in which states there is a processor.
MergeInv ==
    /\ codeMap = last_processed_code_event_id_
    /\ \A i \in DOMAIN events_buffer_ :
          events_buffer_[i] = last_processed_code_event_id_ + i
    /\ last_code_event_id_ = last_processed_code_event_id_ + Len(events_buffer_)
                              + (IF vm = "enqueue" THEN 1 ELSE 0)
    /\ \A i \in Position : marker[i] = "kFull" => record[i] \in Tick /\ record[i].whole
    /\ writing => record[enqueue_pos_] \in Tick
    /\ reading <=> processor = "record"
    /\ processor = "record" => Front.order = last_processed_code_event_id_
    /\ processor = "recordVm" => tick = last_processed_code_event_id_
    /\ vm \in {"logging", "enqueue", "addStack"} => is_profiling_
    /\ vm = "logging" => processor = "none"
    /\ vm = "js" /\ ~is_profiling_ => processor = "none"

\* The inductive invariant: what the VM thread, the handler and the processor
\* thread may assume of each other between two steps (cpu-profiler.cc:109,
\* circular-queue-inl.h:68).
ProfilerInv == TypeOK /\ RingInv /\ MergeInv

\* "Process remaining tick events": when the thread ends all events have been
\* processed, and all ticks except those behind one that is out of date.
DrainedAtExit ==
    processor = "exited" =>
        /\ events_buffer_ = << >>
        /\ IsEmpty \/ Front.order < last_processed_code_event_id_
        /\ \/ ticks_from_vm_buffer_ = << >>
           \/ Head(ticks_from_vm_buffer_) < last_processed_code_event_id_

\* Stopping the last profile comes back, whatever is in the queues.
StopReturns == (vm = "join") ~> (vm = "js")

\* What the comment in Run says: the next code event is not processed while a
\* tick of the current one is left.
NoTickLeftBehind ==
    /\ \A i \in Position : marker[i] = "kFull" =>
          record[i].order >= last_processed_code_event_id_
    /\ \A i \in DOMAIN ticks_from_vm_buffer_ :
          ticks_from_vm_buffer_[i] >= last_processed_code_event_id_
==============================================================================
