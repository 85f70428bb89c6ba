------------------------------ MODULE StackGuard ------------------------------
(***************************************************************************)
(* StackGuard: the stack limit of the thread that runs in the isolate, and *)
(* the interrupt requests hidden in it.  A request sets its flag and       *)
(* replaces the limit by kInterruptLimit, so that the next stack check of  *)
(* JavaScript code fails and the runtime looks at the flags.               *)
(*                                                                         *)
(* thread_local is thread_local_ and roots the two stack limits in the     *)
(* heap's root list, which generated code compares the stack pointer with. *)
(* The limit for C++ and the one for JavaScript differ only on a simulator *)
(* and are always assigned together: one field stands for both.            *)
(*                                                                         *)
(* Every operation holds ExecutionAccess from beginning to end and is one  *)
(* step; the exceptions are the two ends of a PostponeInterruptsScope.     *)
(***************************************************************************)
EXTENDS Integers

CONSTANTS
    Thread,       \* threads that use the isolate
    StackLimit,   \* the addresses a thread's limit may be computed as
    StackOf,      \* StackOf[l]: the thread on whose stack l is
    Flag,         \* InterruptFlag
    Interrupt,    \* kInterruptLimit
    Illegal       \* kIllegalLimit

ASSUME StackGuardAssumption ==
    /\ StackOf \in [StackLimit -> Thread]
    /\ Interrupt \notin StackLimit /\ Illegal \notin StackLimit
    /\ Interrupt # Illegal

VARIABLES
    thread_local,   \* limit, real, nesting and flags of the current thread
    roots           \* kStackLimitRootIndex and kRealStackLimitRootIndex

ThreadLocal ==
    [limit : StackLimit \cup {Interrupt, Illegal}, real : StackLimit \cup {Illegal},
     nesting : Nat, flags : SUBSET Flag]

Blank == [limit |-> Illegal, real |-> Illegal, nesting |-> 0, flags |-> {}]
Fresh(l) == [limit |-> l, real |-> l, nesting |-> 0, flags |-> {}]

-------------------------------------------------------------------------------
\* Heap::SetStackLimits, with thread_local_ as it is in g.
LimitsOf(g) == [limit |-> g.limit, real |-> g.real]
Install(g) == thread_local' = g /\ roots' = LimitsOf(g)

WithInterrupt(g) == [g EXCEPT !.limit = Interrupt]
WithRealLimit(g) == [g EXCEPT !.limit = g.real]

\* SetStackLimit(l), which leaves the roots alone: a limit that shows a
\* request stays.
WithStackLimit(g, l) ==
    [g EXCEPT !.limit = IF g.limit = g.real THEN l ELSE @, !.real = l]

\* ThreadLocal::Initialize: the limits are computed from the position on the
\* stack, but only if there are none.
Initialized(g, l) ==
    IF g.real = Illegal THEN Fresh(l) ELSE [g EXCEPT !.nesting = 0, !.flags = {}]

\* InitThread: Initialize, and the limit the thread had when it left V8.
InitThread(g, l, stored) ==
    LET h == Initialized(g, l)
    IN  IF stored = Illegal THEN h ELSE WithStackLimit(h, stored)

SetStackLimit(l) ==
    /\ thread_local' = WithStackLimit(thread_local, l)
    /\ UNCHANGED roots

\* Interrupt, Preempt, TerminateExecution, RequestGC, RequestInstallCode,
\* FullDeopt, DebugBreak, DebugCommand
Request(f) ==
    LET g == [thread_local EXCEPT !.flags = @ \cup {f}]
    IN  IF g.nesting = 0
        THEN Install(WithInterrupt(g))
        ELSE thread_local' = g /\ UNCHANGED roots

\* Fault: the limit is reset although other requests are pending.
ContinueAndForget(f) ==
    LET g == [thread_local EXCEPT !.flags = @ \ {f}]
    IN  IF g.nesting = 0
        THEN Install(WithRealLimit(g))
        ELSE thread_local' = g /\ UNCHANGED roots

Continue(f) ==
    LET g == [thread_local EXCEPT !.flags = @ \ {f}]
    IN  IF g.nesting = 0 /\ g.flags = {}
        THEN Install(WithRealLimit(g))
        ELSE thread_local' = g /\ UNCHANGED roots

\* The two steps of PostponeInterruptsScope's constructor ...
Postpone ==
    /\ thread_local' = [thread_local EXCEPT !.nesting = @ + 1]
    /\ UNCHANGED roots

DisableInterrupts == Install(WithRealLimit(thread_local))

\* ... and of its destructor.
EndPostpone ==
    /\ thread_local' = [thread_local EXCEPT !.nesting = @ - 1]
    /\ UNCHANGED roots

EnableInterrupts ==
    IF thread_local.flags # {}
    THEN Install(WithInterrupt(thread_local))
    ELSE UNCHANGED <<thread_local, roots>>
==============================================================================
