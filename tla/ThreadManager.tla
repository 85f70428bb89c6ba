----------------------------- MODULE ThreadManager -----------------------------
(***************************************************************************)
(* Threads that take turns in one isolate: v8::Locker and v8::Unlocker,    *)
(* the ThreadManager that archives and restores the state of a thread, and *)
(* the way an interrupt request takes from the StackGuard of the running   *)
(* thread to Execution::HandleStackGuardInterrupt.                         *)
(*                                                                         *)
(* A thread that gives up the lock is archived lazily: its state stays     *)
(* where it is until another thread takes the lock.  Requests (from other  *)
(* threads too: the compiler thread, the ContextSwitcher, an embedder that *)
(* terminates a script) can come between any two steps; they go to         *)
(* whatever thread_local_ holds.                                           *)
(***************************************************************************)
EXTENDS StackGuard, Sequences, FiniteSets

CONSTANTS
    NoThread,    \* ThreadId::Invalid()
    MaxScopes    \* bound: MaxScopes[t] scopes thread t has open at once

ASSUME ThreadManagerAssumption ==
    /\ NoThread \notin Thread
    /\ MaxScopes \in [Thread -> Nat]
    /\ {"PREEMPT", "TERMINATE"} \subseteq Flag

VARIABLES
    owner,     \* mutex_owner_
    lazy,      \* lazily_archived_thread_
    archive,   \* the StackGuard data in the thread's ThreadState on the
               \* in-use list; Blank for a thread that has none
    stored,    \* stack_limit_ of the thread's PerIsolateThreadData
    scopes,    \* the scopes each thread has open, innermost last
    loc        \* where each thread is

guardVars == <<thread_local, roots>>
managerVars == <<owner, lazy, archive, stored>>
vars == <<guardVars, managerVars, scopes, loc>>

\* What HandleStackGuardInterrupt looks at, in its order; DEBUG is for both
\* DEBUGBREAK and DEBUGCOMMAND.
Handler == <<"GC_REQUEST", "DEBUG", "PREEMPT", "TERMINATE", "INTERRUPT",
             "FULL_DEOPT", "INSTALL_CODE">>

Kind == {"locker", "unlocker", "preempt", "postpone"}
InHandler == {Handler[i] : i \in DOMAIN Handler}
Entering == {"restore", "init"}       \* a Locker's constructor
Returning == "return"                 \* an Unlocker's destructor
Locked ==
    {"js", "postponing", "enabling", "debugging", Returning} \cup Entering \cup InHandler

\* A thread that is inside V8 and has its state in thread_local_.
Running(t) == owner = t /\ loc[t] \notin Entering \cup {Returning}

SomeRunning == \E t \in Thread : Running(t)

Top(t) == IF scopes[t] = << >> THEN "none" ELSE scopes[t][Len(scopes[t])]
Push(t, k) ==
    /\ Len(scopes[t]) < MaxScopes[t]
    /\ scopes' = [scopes EXCEPT ![t] = Append(@, k)]
Pop(t) == scopes' = [scopes EXCEPT ![t] = SubSeq(@, 1, Len(@) - 1)]
Postponed(t) == {i \in DOMAIN scopes[t] : scopes[t][i] = "postpone"}
Goto(t, l) == loc' = [loc EXCEPT ![t] = l]

TypeOK ==
    /\ thread_local \in ThreadLocal
    /\ roots \in [limit : StackLimit \cup {Interrupt, Illegal},
                  real : StackLimit \cup {Illegal}]
    /\ owner \in Thread \cup {NoThread}
    /\ lazy \in Thread \cup {NoThread}
    /\ archive \in [Thread -> ThreadLocal]
    /\ stored \in [Thread -> StackLimit \cup {Illegal}]
    /\ scopes \in [Thread -> Seq(Kind)]
    /\ loc \in [Thread -> Locked \cup {"out"}]

\* Isolate::Init has run InitThread on the thread that initialised V8.
Init ==
    /\ \E l \in StackLimit : thread_local = Fresh(l)
    /\ roots = LimitsOf(thread_local)
    /\ owner = NoThread /\ lazy = NoThread
    /\ archive = [t \in Thread |-> Blank]
    /\ stored = [t \in Thread |-> Illegal]
    /\ scopes = [t \in Thread |-> << >>]
    /\ loc = [t \in Thread |-> "out"]

-------------------------------------------------------------------------------
(* ThreadManager *)

\* ArchiveThread: only noted, nothing is copied.
ArchiveThread(t) == lazy' = t /\ UNCHANGED <<archive, guardVars>>

\* Fault: the requests of the lazily archived thread are not copied.
ArchivedWithoutFlags ==
    IF lazy = NoThread THEN archive
    ELSE [archive EXCEPT ![lazy] = [thread_local EXCEPT !.flags = {}]]

\* EagerlyArchiveThread for the lazily archived thread, if there is one.
Archived ==
    IF lazy = NoThread THEN archive ELSE [archive EXCEPT ![lazy] = thread_local]

\* RestoreThread on the thread that was archived lazily.
TakeBack(t) ==
    /\ lazy = t
    /\ lazy' = NoThread
    /\ UNCHANGED <<archive, guardVars>>

\* RestoreThread on a thread that was archived for good.
Restore(t) ==
    /\ lazy # t
    /\ archive[t] # Blank
    /\ Install(archive[t])
    /\ archive' = [Archived EXCEPT ![t] = Blank]
    /\ lazy' = NoThread

\* RestoreThread on a new thread.  The previous one's limits stay if it has
\* left V8 and so was not archived.
RestoreNothing(t, l) ==
    /\ lazy # t
    /\ archive[t] = Blank
    /\ LET g == IF lazy = NoThread THEN thread_local ELSE Blank
       IN  /\ thread_local' = InitThread(g, l, stored[t])
           /\ roots' = IF g.real = Illegal THEN LimitsOf(Fresh(l)) ELSE roots
    /\ archive' = Archived
    /\ lazy' = NoThread

-------------------------------------------------------------------------------
(* v8::Locker and v8::Unlocker *)

\* Locker on a thread that is outside V8 or in an Unlocker: Lock().
LockerLock(t) ==
    /\ owner = NoThread
    /\ loc[t] = "out" /\ Top(t) \in {"none", "unlocker"}
    /\ Len(scopes[t]) < MaxScopes[t]
    /\ owner' = t
    /\ Goto(t, "restore")
    /\ UNCHANGED <<guardVars, lazy, archive, stored, scopes>>

\* A Locker within an Unlocker gets the thread's state back.
LockerRestore(t) ==
    /\ loc[t] = "restore"
    /\ TakeBack(t) \/ Restore(t)
    /\ Push(t, "locker")
    /\ Goto(t, "js")
    /\ UNCHANGED <<owner, stored>>

LockerRestoreNothing(t) ==
    /\ loc[t] = "restore"
    /\ \E l \in StackLimit : StackOf[l] = t /\ RestoreNothing(t, l)
    /\ Goto(t, "init")
    /\ UNCHANGED <<owner, stored, scopes>>

\* Fault: the limits the last thread left behind are not cleared.
LockerInitWithoutClear(t) ==
    /\ loc[t] = "init"
    /\ \E l \in StackLimit :
          /\ StackOf[l] = t
          /\ thread_local' = InitThread(thread_local, l, stored[t])
          /\ roots' = IF thread_local.real = Illegal THEN LimitsOf(Fresh(l)) ELSE roots
    /\ Push(t, "locker")
    /\ Goto(t, "js")
    /\ UNCHANGED managerVars

\* ClearThread, then InitThread: the roots get the computed limit, the guard
\* the stored one.
LockerInit(t) ==
    /\ loc[t] = "init"
    /\ \E l \in StackLimit :
          /\ StackOf[l] = t
          /\ thread_local' = InitThread(Blank, l, stored[t])
          /\ roots' = LimitsOf(Fresh(l))
    /\ Push(t, "locker")
    /\ Goto(t, "js")
    /\ UNCHANGED managerVars

\* ~Locker of the outermost Locker: FreeThreadResources and Unlock().
LockerLeave(t) ==
    /\ loc[t] = "js" /\ scopes[t] = <<"locker">>
    /\ stored' = [stored EXCEPT ![t] = thread_local.real]
    /\ owner' = NoThread
    /\ Pop(t)
    /\ Goto(t, "out")
    /\ UNCHANGED <<guardVars, lazy, archive>>

\* ~Locker of a Locker within an Unlocker: ArchiveThread and Unlock().
LockerArchive(t) ==
    /\ loc[t] = "js" /\ Top(t) = "locker" /\ Len(scopes[t]) > 1
    /\ ArchiveThread(t)
    /\ owner' = NoThread
    /\ Pop(t)
    /\ Goto(t, "out")
    /\ UNCHANGED stored

\* Unlocker::Initialize
Unlocker(t) ==
    /\ loc[t] = "js"
    /\ ArchiveThread(t)
    /\ owner' = NoThread
    /\ Push(t, "unlocker")
    /\ Goto(t, "out")
    /\ UNCHANGED stored

\* ~Unlocker: Lock() ...
UnlockerLock(t) ==
    /\ owner = NoThread
    /\ loc[t] = "out" /\ Top(t) \in {"unlocker", "preempt"}
    /\ owner' = t
    /\ Goto(t, Returning)
    /\ UNCHANGED <<guardVars, lazy, archive, stored, scopes>>

\* ... and RestoreThread(); a preempted thread goes on in the handler.
UnlockerRestore(t) ==
    /\ loc[t] = Returning
    /\ TakeBack(t) \/ Restore(t)
    /\ Pop(t)
    /\ Goto(t, IF Top(t) = "preempt" THEN "TERMINATE" ELSE "js")
    /\ UNCHANGED <<owner, stored>>

-------------------------------------------------------------------------------
(* Interrupts *)

\* A garbage collection and FullDeopt (from within one) are requested by the
\* running thread, everything else by any.
Requested(f) ==
    /\ f \in {"GC_REQUEST", "FULL_DEOPT"} => \E t \in Thread : owner = t /\ loc[t] = "js"
    /\ Request(f)
    /\ UNCHANGED <<managerVars, scopes, loc>>

\* CancelTerminateExecution and Debug::CancelDebugBreak
Cancelled(f) ==
    /\ f \in {"TERMINATE", "DEBUGBREAK"}
    /\ Continue(f)
    /\ UNCHANGED <<managerVars, scopes, loc>>

LimitSet(t) ==
    /\ loc[t] = "js"
    /\ \E l \in StackLimit : StackOf[l] = t /\ SetStackLimit(l)
    /\ UNCHANGED <<managerVars, scopes, loc>>

\* PostponeInterruptsScope; nesting_ is changed without ExecutionAccess.
PostponeEnter(t) ==
    /\ loc[t] = "js"
    /\ Postpone
    /\ Push(t, "postpone")
    /\ Goto(t, "postponing")
    /\ UNCHANGED managerVars

PostponeDisable(t) ==
    /\ loc[t] = "postponing"
    /\ DisableInterrupts
    /\ Goto(t, "js")
    /\ UNCHANGED <<managerVars, scopes>>

PostponeLeave(t) ==
    /\ loc[t] = "js" /\ Top(t) = "postpone"
    /\ EndPostpone
    /\ Pop(t)
    /\ Goto(t, IF thread_local.nesting = 1 THEN "enabling" ELSE "js")
    /\ UNCHANGED managerVars

\* Fault: requests made while they were postponed are not shown.
PostponeLeavesLimit(t) ==
    /\ loc[t] = "enabling"
    /\ Goto(t, "js")
    /\ UNCHANGED <<guardVars, managerVars, scopes>>

PostponeEnable(t) ==
    /\ loc[t] = "enabling"
    /\ EnableInterrupts
    /\ Goto(t, "js")
    /\ UNCHANGED <<managerVars, scopes>>

\* A stack check fails, in generated code or in the runtime, and
\* HandleStackGuardInterrupt finds that interrupts are not postponed.
StackCheck(t) ==
    /\ loc[t] = "js"
    /\ Interrupt \in {roots.limit, thread_local.limit}
    /\ thread_local.nesting = 0
    /\ Goto(t, Handler[1])
    /\ UNCHANGED <<guardVars, managerVars, scopes>>

NextStage(f) ==
    LET i == CHOOSE i \in DOMAIN Handler : Handler[i] = f
    IN  IF i = Len(Handler) THEN "js" ELSE Handler[i + 1]

Debug == {"DEBUGBREAK", "DEBUGCOMMAND"}
Asked(f) == (IF f = "DEBUG" THEN Debug ELSE {f}) \cap thread_local.flags # {}

\* Nothing is asked for; or a debug break is ignored (DebugBreakHelper).
HandleNothing(t, f) ==
    /\ loc[t] = f
    /\ ~Asked(f) \/ f = "DEBUG"
    /\ Goto(t, NextStage(f))
    /\ UNCHANGED <<guardVars, managerVars, scopes>>

\* Only this thread and Cancelled clear a flag, so that testing it and
\* clearing it may be one step.
HandleRequest(t, f) ==
    /\ loc[t] = f /\ Asked(f)
    /\ f \in {"GC_REQUEST", "FULL_DEOPT", "INSTALL_CODE"}
    /\ Continue(f)
    /\ Goto(t, NextStage(f))
    /\ UNCHANGED <<managerVars, scopes>>

\* DebugBreakHelper clears DEBUGBREAK, ProcessDebugMessages DEBUGCOMMAND.
HandleDebugBreak(t) ==
    /\ loc[t] = "DEBUG" /\ Asked("DEBUG")
    /\ Continue("DEBUGBREAK")
    /\ Goto(t, "debugging")
    /\ UNCHANGED <<managerVars, scopes>>

HandleDebugCommand(t) ==
    /\ loc[t] = "debugging"
    /\ Continue("DEBUGCOMMAND")
    /\ Goto(t, NextStage("DEBUG"))
    /\ UNCHANGED <<managerVars, scopes>>

\* TERMINATE and INTERRUPT leave the handler: the rest is left for later.
HandleThrow(t, f) ==
    /\ loc[t] = f /\ Asked(f)
    /\ f \in {"TERMINATE", "INTERRUPT"}
    /\ Continue(f)
    /\ Goto(t, "js")
    /\ UNCHANGED <<managerVars, scopes>>

\* RuntimePreempt: Continue(PREEMPT), then an Unlocker and YieldCPU ...
HandlePreempt(t) ==
    /\ loc[t] = "PREEMPT" /\ Asked("PREEMPT")
    /\ Continue("PREEMPT")
    /\ lazy' = t
    /\ owner' = NoThread
    /\ Push(t, "preempt")
    /\ Goto(t, "out")
    /\ UNCHANGED <<archive, stored>>

\* ... or, in the debugger, a note that it was asked for.
HandlePreemptInDebugger(t) ==
    /\ loc[t] = "PREEMPT" /\ Asked("PREEMPT")
    /\ Continue("PREEMPT")
    /\ Goto(t, NextStage("PREEMPT"))
    /\ UNCHANGED <<managerVars, scopes>>

-------------------------------------------------------------------------------
Enter(t) ==
    \/ LockerLock(t)
    \/ UnlockerLock(t)

Resume(t) ==
    \/ LockerRestore(t)
    \/ LockerRestoreNothing(t)
    \/ LockerInit(t)
    \/ UnlockerRestore(t)

Leave(t) ==
    \/ LockerLeave(t)
    \/ LockerArchive(t)
    \/ Unlocker(t)

Handle(t) ==
    \/ \E f \in InHandler :
          \/ HandleNothing(t, f)
          \/ HandleRequest(t, f)
          \/ HandleThrow(t, f)
    \/ HandleDebugBreak(t)
    \/ HandleDebugCommand(t)
    \/ HandlePreempt(t)
    \/ HandlePreemptInDebugger(t)

Postponing(t) ==
    \/ PostponeDisable(t)
    \/ PostponeEnable(t)

Next ==
    \/ \E t \in Thread :
          \/ Enter(t)
          \/ Resume(t)
          \/ Leave(t)
          \/ LimitSet(t)
          \/ PostponeEnter(t)
          \/ PostponeLeave(t)
          \/ Postponing(t)
          \/ StackCheck(t)
          \/ Handle(t)
    \/ \E f \in Flag : Requested(f) \/ Cancelled(f)

Spec == Init /\ [][Next]_vars

\* A thread goes on with what it has begun, and JavaScript code reaches a
\* stack check again and again (every function entry and loop has one).
Going(t) == Resume(t) \/ Postponing(t) \/ StackCheck(t) \/ Handle(t)

FairSpec == Spec /\ \A t \in Thread : WF_vars(Going(t))

-------------------------------------------------------------------------------
(* Properties *)

\* The lock and what belongs to it: one thread is in a place where it holds
\* the lock; a thread in an Unlocker has its state in thread_local_ (lazily)
\* or in a ThreadState, a thread outside V8 and the running one in neither;
\* and a lazily archived thread's state is replaced only after it was copied.
LockInv ==
    /\ \A t \in Thread : loc[t] \in Locked <=> owner = t
    /\ lazy # NoThread => /\ loc[lazy] \in {"out", "restore", Returning}
                          /\ scopes[lazy] # << >>
                          /\ archive[lazy] = Blank
                          /\ \A t \in Thread : ~Running(t) /\ loc[t] # "init"
    /\ \A t \in Thread :
          /\ archive[t] # Blank => scopes[t] # << >> /\ ~Running(t) /\ loc[t] # "init"
          /\ scopes[t] # << >> => Running(t) \/ lazy = t \/ archive[t] # Blank
          /\ Running(t) => scopes[t] # << >>
          /\ loc[t] = Returning => Top(t) \in {"unlocker", "preempt"}
          /\ loc[t] \in InHandler \cup {"debugging"} => Postponed(t) = {}

\* The StackGuard of a thread inside V8, wherever it is.
GuardOf(t) == IF archive[t] # Blank THEN archive[t] ELSE thread_local

\* While a thread enters or leaves a PostponeInterruptsScope its limit may not
\* yet say what the flags do.
Shows(t, limit, g) ==
    loc[t] \notin {"postponing", "enabling"} =>
        (limit = Interrupt <=> g.nesting = 0 /\ g.flags # {})

\* That StackGuard is the thread's own: its limit is on the thread's stack, as
\* many postponements are counted as the thread has scopes open, and the limit
\* is kInterruptLimit exactly if there is a request to show.
OwnGuard(t, g) ==
    /\ g.real \in StackLimit /\ StackOf[g.real] = t
    /\ g.limit \in {g.real, Interrupt}
    /\ g.nesting = Cardinality(Postponed(t))
    /\ Shows(t, g.limit, g)

GuardInv ==
    /\ TypeOK
    /\ LockInv
    /\ \A t \in Thread : scopes[t] # << >> => OwnGuard(t, GuardOf(t))
    /\ \A t \in Thread : stored[t] # Illegal => StackOf[stored[t]] = t

\* What generated code compares the stack pointer with: the limit in the root
\* list is on the running thread's own stack or, exactly if there is a request
\* to handle and interrupts are not postponed, kInterruptLimit.
LimitShowsRequest ==
    \A t \in Thread : Running(t) =>
        /\ roots.limit \in {roots.real, Interrupt}
        /\ roots.real \in StackLimit /\ StackOf[roots.real] = t
        /\ Shows(t, roots.limit, thread_local)

\* Requests belong to threads: StackGuard and ThreadManager implement
\* PendingRequests.
Holder ==
    IF lazy # NoThread THEN lazy
    ELSE IF SomeRunning THEN owner ELSE NoThread

Requests ==
    INSTANCE PendingRequests WITH
        inside <- {t \in Thread : scopes[t] # << >>},
        current <- Holder,
        pending <- [t \in Thread |-> IF scopes[t] # << >> THEN GuardOf(t).flags ELSE {}]

PendingSpec == Requests!Spec

\* A request for the running thread is handled or cancelled, unless the thread
\* gives up the lock or postpones interrupts; what the handler looks at after
\* TERMINATE and INTERRUPT may have to wait for one of these, and a debug break
\* may be ignored.
RequestHandled ==
    \A f \in Flag \ Debug :
        (SomeRunning /\ f \in thread_local.flags) ~>
            \/ ~SomeRunning
            \/ thread_local.nesting > 0
            \/ f \notin thread_local.flags
            \/ /\ f \notin {"GC_REQUEST", "PREEMPT", "TERMINATE"}
               /\ {"TERMINATE", "INTERRUPT"} \cap thread_local.flags # {}
==============================================================================
