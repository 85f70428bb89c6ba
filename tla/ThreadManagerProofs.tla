-------------------------- MODULE ThreadManagerProofs --------------------------
(***************************************************************************)
(* Proofs about ThreadManager: every thread inside V8 has a stack guard of *)
(* its own, whether in thread_local_ or in a ThreadState; what generated   *)
(* code compares the stack pointer with shows exactly the requests to be   *)
(* handled; and requests never get lost or change threads when threads     *)
(* take turns.                                                             *)
(***************************************************************************)
EXTENDS ThreadManager, SequenceTheorems, FiniteSetTheorems, TLAPS

\* The state of thread t is in thread_local_.
Holds(t) == scopes[t] # << >> /\ archive[t] = Blank

\* The outermost scope is a Locker's, and a preempted thread opens no scope
\* until it is back in the handler, where interrupts are not postponed.
Nested(s) ==
    /\ s # << >> => s[1] = "locker"
    /\ \A i \in DOMAIN s : s[i] = "preempt" => i = Len(s)

NestAt(t) ==
    /\ Top(t) = "preempt" => loc[t] \in {"out", Returning} /\ Postponed(t) = {}
    /\ loc[t] = "postponing" => Top(t) = "postpone"
    /\ loc[t] = "enabling" => Postponed(t) = {}

ScopesNest == \A t \in Thread : Nested(scopes[t]) /\ NestAt(t)

\* While a thread is about to show what was requested while it had interrupts
\* postponed, a request may already show; a limit never shows nothing.
ShownForCause(t, limit, g) ==
    loc[t] = "enabling" /\ limit = Interrupt => g.flags # {}

Guarded(t, g) == OwnGuard(t, g) /\ ShownForCause(t, g.limit, g)

\* The roots belong to the thread whose state is in thread_local_.
Rooted(t) ==
    /\ roots.limit \in {roots.real, Interrupt}
    /\ roots.real \in StackLimit /\ StackOf[roots.real] = t
    /\ Shows(t, roots.limit, thread_local)
    /\ ShownForCause(t, roots.limit, thread_local)

GuardsInv ==
    \A t \in Thread : /\ scopes[t] # << >> => Guarded(t, GuardOf(t))
                      /\ Holds(t) => Rooted(t)

StoredInv == \A t \in Thread : stored[t] # Illegal => StackOf[stored[t]] = t

\* The inductive invariant.
IInv == TypeOK /\ LockInv /\ ScopesNest /\ GuardsInv /\ StoredInv

-------------------------------------------------------------------------------
(* StackGuard *)

\* Setting a thread's limit, and the two limits in the roots, keeps the types.
LEMMA LimitTypes ==
    ASSUME NEW g \in ThreadLocal
    PROVE  /\ WithInterrupt(g) \in ThreadLocal
           /\ WithInterrupt(g).limit = Interrupt
           /\ WithInterrupt(g).real = g.real
           /\ WithInterrupt(g).nesting = g.nesting
           /\ WithInterrupt(g).flags = g.flags
           /\ WithRealLimit(g) \in ThreadLocal
           /\ WithRealLimit(g).limit = g.real
           /\ WithRealLimit(g).real = g.real
           /\ WithRealLimit(g).nesting = g.nesting
           /\ WithRealLimit(g).flags = g.flags
BY DEF WithInterrupt, WithRealLimit, ThreadLocal

Roots == [limit : StackLimit \cup {Interrupt, Illegal}, real : StackLimit \cup {Illegal}]

\* The limits of a thread, as roots.
LEMMA LimitsOfType ==
    ASSUME NEW g \in ThreadLocal
    PROVE  /\ LimitsOf(g) \in Roots
           /\ LimitsOf(g).limit = g.limit
           /\ LimitsOf(g).real = g.real
BY DEF LimitsOf, ThreadLocal, Roots

\* A guard with other flags.
LEMMA FlagTypes ==
    ASSUME NEW g \in ThreadLocal, NEW F \in SUBSET Flag
    PROVE  /\ [g EXCEPT !.flags = F] \in ThreadLocal
           /\ [g EXCEPT !.flags = F].limit = g.limit
           /\ [g EXCEPT !.flags = F].real = g.real
           /\ [g EXCEPT !.flags = F].nesting = g.nesting
           /\ [g EXCEPT !.flags = F].flags = F
BY DEF ThreadLocal

\* A guard with another nesting.
LEMMA NestingTypes ==
    ASSUME NEW g \in ThreadLocal, NEW n \in Nat
    PROVE  /\ [g EXCEPT !.nesting = n] \in ThreadLocal
           /\ [g EXCEPT !.nesting = n].limit = g.limit
           /\ [g EXCEPT !.nesting = n].real = g.real
           /\ [g EXCEPT !.nesting = n].nesting = n
           /\ [g EXCEPT !.nesting = n].flags = g.flags
BY DEF ThreadLocal

\* Guards of threads that come in for the first time.
LEMMA FreshTypes ==
    /\ Blank \in ThreadLocal
    /\ Blank.real = Illegal
    /\ \A l \in StackLimit :
          /\ Fresh(l) \in ThreadLocal
          /\ Fresh(l).limit = l /\ Fresh(l).real = l
          /\ Fresh(l).nesting = 0 /\ Fresh(l).flags = {}
BY DEF Blank, Fresh, ThreadLocal

\* A request shows at once unless interrupts are postponed.
LEMMA RequestEffect ==
    ASSUME thread_local \in ThreadLocal, roots \in Roots, NEW f \in Flag, Request(f)
    PROVE  /\ thread_local' \in ThreadLocal /\ roots' \in Roots
           /\ thread_local'.real = thread_local.real
           /\ thread_local'.nesting = thread_local.nesting
           /\ thread_local'.flags = thread_local.flags \cup {f}
           /\ thread_local.nesting = 0 =>
                 /\ thread_local'.limit = Interrupt
                 /\ roots'.limit = Interrupt /\ roots'.real = thread_local.real
           /\ thread_local.nesting # 0 =>
                 thread_local'.limit = thread_local.limit /\ roots' = roots
<1> DEFINE g == [thread_local EXCEPT !.flags = thread_local.flags \cup {f}]
<1>1. thread_local.flags \cup {f} \in SUBSET Flag
  BY DEF ThreadLocal
<1>2. /\ g \in ThreadLocal
      /\ g.limit = thread_local.limit /\ g.real = thread_local.real
      /\ g.nesting = thread_local.nesting /\ g.flags = thread_local.flags \cup {f}
  BY <1>1, FlagTypes
<1>3. IF g.nesting = 0 THEN Install(WithInterrupt(g))
      ELSE thread_local' = g /\ UNCHANGED roots
  BY DEF Request
<1>4. CASE g.nesting = 0
  <2> HIDE DEF g
  <2>1. thread_local' = WithInterrupt(g) /\ roots' = LimitsOf(WithInterrupt(g))
    BY <1>3, <1>4 DEF Install
  <2> QED
    BY <1>2, <1>4, <2>1, LimitTypes, LimitsOfType
<1>5. CASE g.nesting # 0
  <2> HIDE DEF g
  <2> QED
    BY <1>2, <1>3, <1>5
<1> QED
  BY <1>4, <1>5

\* A request that is dealt with stops to show when no other is left.
LEMMA ContinueEffect ==
    ASSUME thread_local \in ThreadLocal, roots \in Roots, NEW f, Continue(f)
    PROVE  /\ thread_local' \in ThreadLocal /\ roots' \in Roots
           /\ thread_local'.real = thread_local.real
           /\ thread_local'.nesting = thread_local.nesting
           /\ thread_local'.flags = thread_local.flags \ {f}
           /\ thread_local.nesting = 0 /\ thread_local'.flags = {} =>
                 /\ thread_local'.limit = thread_local.real
                 /\ roots'.limit = thread_local.real /\ roots'.real = thread_local.real
           /\ thread_local.nesting # 0 \/ thread_local'.flags # {} =>
                 thread_local'.limit = thread_local.limit /\ roots' = roots
<1> DEFINE g == [thread_local EXCEPT !.flags = thread_local.flags \ {f}]
<1>1. thread_local.flags \ {f} \in SUBSET Flag
  BY DEF ThreadLocal
<1>2. /\ g \in ThreadLocal
      /\ g.limit = thread_local.limit /\ g.real = thread_local.real
      /\ g.nesting = thread_local.nesting /\ g.flags = thread_local.flags \ {f}
  BY <1>1, FlagTypes
<1>3. IF g.nesting = 0 /\ g.flags = {} THEN Install(WithRealLimit(g))
      ELSE thread_local' = g /\ UNCHANGED roots
  BY DEF Continue
<1>4. CASE g.nesting = 0 /\ g.flags = {}
  <2> HIDE DEF g
  <2>1. thread_local' = WithRealLimit(g) /\ roots' = LimitsOf(WithRealLimit(g))
    BY <1>3, <1>4 DEF Install
  <2> QED
    BY <1>2, <1>4, <2>1, LimitTypes, LimitsOfType
<1>5. CASE ~(g.nesting = 0 /\ g.flags = {})
  <2> HIDE DEF g
  <2> QED
    BY <1>2, <1>3, <1>5
<1> QED
  BY <1>4, <1>5

\* The ends of a PostponeInterruptsScope.
LEMMA PostponeEffect ==
    ASSUME thread_local \in ThreadLocal, Postpone
    PROVE  /\ thread_local' \in ThreadLocal /\ roots' = roots
           /\ thread_local'.limit = thread_local.limit
           /\ thread_local'.real = thread_local.real
           /\ thread_local'.nesting = thread_local.nesting + 1
           /\ thread_local'.flags = thread_local.flags
<1>1. thread_local.nesting + 1 \in Nat
  BY DEF ThreadLocal
<1> QED
  BY <1>1, NestingTypes DEF Postpone

\* A scope that postpones interrupts is left.
LEMMA EndPostponeEffect ==
    ASSUME thread_local \in ThreadLocal, thread_local.nesting # 0, EndPostpone
    PROVE  /\ thread_local' \in ThreadLocal /\ roots' = roots
           /\ thread_local'.limit = thread_local.limit
           /\ thread_local'.real = thread_local.real
           /\ thread_local'.nesting = thread_local.nesting - 1
           /\ thread_local'.flags = thread_local.flags
<1>1. thread_local.nesting - 1 \in Nat
  BY DEF ThreadLocal
<1> QED
  BY <1>1, NestingTypes DEF EndPostpone

\* The limits are the real ones.
LEMMA DisableEffect ==
    ASSUME thread_local \in ThreadLocal, DisableInterrupts
    PROVE  /\ thread_local' \in ThreadLocal /\ roots' \in Roots
           /\ thread_local'.limit = thread_local.real
           /\ thread_local'.real = thread_local.real
           /\ thread_local'.nesting = thread_local.nesting
           /\ thread_local'.flags = thread_local.flags
           /\ roots'.limit = thread_local.real /\ roots'.real = thread_local.real
BY LimitTypes, LimitsOfType DEF DisableInterrupts, Install

\* The limit shows a pending request again.
LEMMA EnableEffect ==
    ASSUME thread_local \in ThreadLocal, roots \in Roots, EnableInterrupts
    PROVE  /\ thread_local' \in ThreadLocal /\ roots' \in Roots
           /\ thread_local'.real = thread_local.real
           /\ thread_local'.nesting = thread_local.nesting
           /\ thread_local'.flags = thread_local.flags
           /\ thread_local.flags # {} =>
                 /\ thread_local'.limit = Interrupt
                 /\ roots'.limit = Interrupt /\ roots'.real = thread_local.real
           /\ thread_local.flags = {} =>
                 thread_local'.limit = thread_local.limit /\ roots' = roots
BY LimitTypes, LimitsOfType DEF EnableInterrupts, Install

\* A new limit replaces the old one, but not a request that shows.
LEMMA LimitEffect ==
    ASSUME NEW g \in ThreadLocal, NEW l \in StackLimit
    PROVE  /\ WithStackLimit(g, l) \in ThreadLocal
           /\ WithStackLimit(g, l).limit = IF g.limit = g.real THEN l ELSE g.limit
           /\ WithStackLimit(g, l).real = l
           /\ WithStackLimit(g, l).nesting = g.nesting
           /\ WithStackLimit(g, l).flags = g.flags
BY DEF WithStackLimit, ThreadLocal

\* A thread that is new to the isolate starts with no requests, with a limit
\* computed now or the one it had when it left.
LEMMA InitThreadEffect ==
    ASSUME NEW l \in StackLimit, NEW s \in StackLimit \cup {Illegal}
    PROVE  /\ InitThread(Blank, l, s) \in ThreadLocal
           /\ InitThread(Blank, l, s).limit = IF s = Illegal THEN l ELSE s
           /\ InitThread(Blank, l, s).real = IF s = Illegal THEN l ELSE s
           /\ InitThread(Blank, l, s).nesting = 0
           /\ InitThread(Blank, l, s).flags = {}
<1>1. Initialized(Blank, l) = Fresh(l)
  BY FreshTypes DEF Initialized
<1> QED
  BY <1>1, FreshTypes, LimitEffect DEF InitThread

\* InitThread gives a guard.
LEMMA InitThreadType ==
    ASSUME NEW g \in ThreadLocal, NEW l \in StackLimit, NEW s \in StackLimit \cup {Illegal}
    PROVE  InitThread(g, l, s) \in ThreadLocal
<1>1. Initialized(g, l) \in ThreadLocal
  BY FreshTypes DEF Initialized, ThreadLocal
<1> QED
  BY <1>1, LimitEffect DEF InitThread

-------------------------------------------------------------------------------
(* Scopes *)

\* Postponements are finitely many.
LEMMA DepthFacts ==
    ASSUME TypeOK, NEW t \in Thread
    PROVE  /\ IsFiniteSet(Postponed(t))
           /\ Cardinality(Postponed(t)) \in Nat
           /\ Cardinality(Postponed(t)) = 0 <=> Postponed(t) = {}
<1>1. scopes[t] \in Seq(Kind)
  BY DEF TypeOK
<1>2. IsFiniteSet(DOMAIN scopes[t])
  BY <1>1, LenProperties, FS_Interval
<1>3. IsFiniteSet(Postponed(t))
  BY <1>2, FS_Subset DEF Postponed
<1> QED
  BY <1>3, FS_CardinalityType, FS_EmptySet

\* What opening a scope changes.
LEMMA PushFacts ==
    ASSUME TypeOK, NEW t \in Thread, NEW k \in Kind, Push(t, k)
    PROVE  /\ scopes' \in [Thread -> Seq(Kind)]
           /\ \A u \in Thread \ {t} : scopes'[u] = scopes[u]
           /\ scopes'[t] # << >>
           /\ Len(scopes'[t]) = Len(scopes[t]) + 1
           /\ DOMAIN scopes'[t] = 1..(Len(scopes[t]) + 1)
           /\ scopes'[t][Len(scopes[t]) + 1] = k
           /\ \A i \in 1..Len(scopes[t]) : scopes'[t][i] = scopes[t][i]
           /\ Top(t)' = k
<1>1. scopes[t] \in Seq(Kind) /\ scopes' = [scopes EXCEPT ![t] = Append(scopes[t], k)]
  BY DEF TypeOK, Push
<1>2. /\ Append(scopes[t], k) \in Seq(Kind)
      /\ Append(scopes[t], k) # << >>
      /\ Len(Append(scopes[t], k)) = Len(scopes[t]) + 1
      /\ \A i \in 1..Len(scopes[t]) : Append(scopes[t], k)[i] = scopes[t][i]
      /\ Append(scopes[t], k)[Len(scopes[t]) + 1] = k
  BY <1>1, AppendProperties
<1>3. scopes'[t] = Append(scopes[t], k)
  BY <1>1 DEF TypeOK
<1>4. /\ scopes' \in [Thread -> Seq(Kind)]
      /\ \A u \in Thread \ {t} : scopes'[u] = scopes[u]
  BY <1>1, <1>2 DEF TypeOK
<1>5. DOMAIN scopes'[t] = 1..(Len(scopes[t]) + 1)
  BY <1>2, <1>3, LenProperties
<1> HIDE DEF Kind
<1> QED
  BY <1>2, <1>3, <1>4, <1>5 DEF Top

\* A scope opens; only postponing ones count for the nesting.
LEMMA PushDepth ==
    ASSUME TypeOK, NEW t \in Thread, NEW k \in Kind, Push(t, k)
    PROVE  /\ k # "postpone" => Postponed(t)' = Postponed(t)
           /\ k = "postpone" =>
                 /\ Cardinality(Postponed(t)') = Cardinality(Postponed(t)) + 1
                 /\ Postponed(t)' # {}
<1>1. scopes[t] \in Seq(Kind) /\ DOMAIN scopes[t] = 1..Len(scopes[t]) /\ Len(scopes[t]) \in Nat
  BY LenProperties DEF TypeOK
<1> DEFINE n == Len(scopes[t])
<1>2. /\ DOMAIN scopes'[t] = 1..(n + 1)
      /\ scopes'[t][n + 1] = k
      /\ \A i \in 1..n : scopes'[t][i] = scopes[t][i]
  BY PushFacts
<1>3. CASE k # "postpone"
  BY <1>1, <1>2, <1>3 DEF Postponed
<1>4. CASE k = "postpone"
  <2>1. Postponed(t)' = Postponed(t) \cup {n + 1} /\ n + 1 \notin Postponed(t)
    BY <1>1, <1>2, <1>4 DEF Postponed
  <2> QED
    BY <1>4, <2>1, DepthFacts, FS_AddElement
<1> QED
  BY <1>3, <1>4

\* What closing a scope changes.
LEMMA PopFacts ==
    ASSUME TypeOK, NEW t \in Thread, scopes[t] # << >>, Pop(t)
    PROVE  /\ scopes' \in [Thread -> Seq(Kind)]
           /\ \A u \in Thread \ {t} : scopes'[u] = scopes[u]
           /\ Len(scopes'[t]) = Len(scopes[t]) - 1
           /\ DOMAIN scopes'[t] = 1..(Len(scopes[t]) - 1)
           /\ scopes'[t] = << >> <=> Len(scopes[t]) = 1
           /\ \A i \in 1..(Len(scopes[t]) - 1) : scopes'[t][i] = scopes[t][i]
<1>1. /\ scopes[t] \in Seq(Kind) /\ Len(scopes[t]) \in Nat \ {0}
      /\ scopes' = [scopes EXCEPT ![t] = SubSeq(scopes[t], 1, Len(scopes[t]) - 1)]
  BY LenProperties, EmptySeq DEF TypeOK, Pop
<1> DEFINE n == Len(scopes[t])
           s == SubSeq(scopes[t], 1, n - 1)
<1>2. /\ s \in Seq(Kind) /\ Len(s) = n - 1
      /\ \A i \in 1..(n - 1) : s[i] = scopes[t][i]
  <2>1. \A i \in 1..(n - 1) : scopes[t][i] \in Kind
    BY <1>1, ElementOfSeq
  <2> QED
    BY <1>1, <2>1, SubSeqProperties
<1>3. scopes'[t] = s
  BY <1>1 DEF TypeOK
<1>4. /\ scopes' \in [Thread -> Seq(Kind)]
      /\ \A u \in Thread \ {t} : scopes'[u] = scopes[u]
  BY <1>1, <1>2 DEF TypeOK
<1>5. DOMAIN s = 1..(n - 1)
  BY <1>2, LenProperties
<1> HIDE DEF s
<1>6. s = << >> <=> n = 1
  <2>1. s = << >> => Len(s) = 0
    BY EmptySeq
  <2>2. s # << >> => Len(s) \in Nat \ {0}
    BY <1>2, EmptySeq
  <2> QED
    BY <1>1, <1>2, <2>1, <2>2
<1> QED
  BY <1>2, <1>3, <1>4, <1>5, <1>6

\* The innermost scope closes.
LEMMA PopDepth ==
    ASSUME TypeOK, NEW t \in Thread, scopes[t] # << >>, Pop(t)
    PROVE  /\ Top(t) # "postpone" => Postponed(t)' = Postponed(t)
           /\ Top(t) = "postpone" =>
                 /\ Postponed(t) # {} /\ Postponed(t)' \subseteq Postponed(t)
                 /\ Cardinality(Postponed(t)') = Cardinality(Postponed(t)) - 1
<1>1. /\ scopes[t] \in Seq(Kind) /\ DOMAIN scopes[t] = 1..Len(scopes[t])
      /\ Len(scopes[t]) \in Nat \ {0}
  BY LenProperties, EmptySeq DEF TypeOK
<1> DEFINE n == Len(scopes[t])
<1>2. /\ DOMAIN scopes'[t] = 1..(n - 1)
      /\ \A i \in 1..(n - 1) : scopes'[t][i] = scopes[t][i]
      /\ Top(t) = scopes[t][n]
  BY PopFacts DEF Top
<1>3. CASE Top(t) # "postpone"
  BY <1>1, <1>2, <1>3 DEF Postponed
<1>4. CASE Top(t) = "postpone"
  <2>1. n \in Postponed(t)
    <3>1. n \in DOMAIN scopes[t]
      BY <1>1
    <3>2. scopes[t][n] = "postpone"
      BY <1>2, <1>4
    <3> QED
      BY <3>1, <3>2 DEF Postponed
  <2>2. 1..(n - 1) = (1..n) \ {n}
    BY <1>1
  <2>3. Postponed(t)' = {i \in 1..(n - 1) : scopes'[t][i] = "postpone"}
    BY <1>2 DEF Postponed
  <2>4. Postponed(t) \ {n} = {i \in 1..(n - 1) : scopes[t][i] = "postpone"}
    <3>1. Postponed(t) = {i \in 1..n : scopes[t][i] = "postpone"}
      BY <1>1 DEF Postponed
    <3> QED
      BY <2>2, <3>1
  <2>5. Postponed(t)' = Postponed(t) \ {n}
    <3>1. \A i \in 1..(n - 1) : scopes'[t][i] = "postpone" <=> scopes[t][i] = "postpone"
      BY <1>2
    <3> HIDE DEF n
    <3> QED
      BY <2>3, <2>4, <3>1
  <2> QED
    BY <1>4, <2>1, <2>5, DepthFacts, FS_RemoveElement
<1> QED
  BY <1>3, <1>4

\* A thread whose innermost scope postpones has its interrupts postponed.
LEMMA TopPostponed ==
    ASSUME TypeOK, NEW t \in Thread, Top(t) = "postpone"
    PROVE  Postponed(t) # {}
<1>1. scopes[t] \in Seq(Kind) /\ scopes[t] # << >> /\ Top(t) = scopes[t][Len(scopes[t])]
  BY DEF TypeOK, Top
<1>2. Len(scopes[t]) \in DOMAIN scopes[t]
  BY <1>1, LenProperties, EmptySeq
<1> QED
  BY <1>1, <1>2 DEF Postponed

\* A thread in an Unlocker, preempted or postponing interrupts has the
\* Locker's scope below.
LEMMA LockerBelow ==
    ASSUME TypeOK, ScopesNest, NEW t \in Thread, Top(t) \in {"unlocker", "preempt", "postpone"}
    PROVE  scopes[t] # << >> /\ Len(scopes[t]) > 1
<1>1. scopes[t] \in Seq(Kind) /\ scopes[t] # << >> /\ Top(t) = scopes[t][Len(scopes[t])]
  BY DEF TypeOK, Top
<1>2. scopes[t][1] = "locker" /\ Len(scopes[t]) \in Nat \ {0}
  BY <1>1, LenProperties, EmptySeq DEF ScopesNest, Nested
<1> QED
  BY <1>1, <1>2

\* A scope opened within another, and the scopes left when one is closed, are
\* nested properly.
LEMMA PushNested ==
    ASSUME TypeOK, ScopesNest, NEW t \in Thread, NEW k \in Kind, Push(t, k),
           scopes[t] = << >> => k = "locker",
           Top(t) # "preempt"
    PROVE  Nested(scopes'[t])
<1>1. scopes[t] \in Seq(Kind) /\ Len(scopes[t]) \in Nat /\ DOMAIN scopes[t] = 1..Len(scopes[t])
  BY LenProperties DEF TypeOK
<1> DEFINE n == Len(scopes[t])
<1>2. /\ DOMAIN scopes'[t] = 1..(n + 1) /\ Len(scopes'[t]) = n + 1
      /\ scopes'[t][n + 1] = k
      /\ \A i \in 1..n : scopes'[t][i] = scopes[t][i]
  BY PushFacts
<1>3. \A i \in 1..n : scopes[t][i] # "preempt"
  <2> SUFFICES ASSUME NEW i \in 1..n, scopes[t][i] = "preempt" PROVE FALSE
    OBVIOUS
  <2>1. i = n
    BY <1>1 DEF ScopesNest, Nested
  <2>2. scopes[t] # << >>
    BY <1>1, EmptySeq
  <2> QED
    BY <2>1, <2>2 DEF Top
<1>4. scopes'[t][1] = "locker"
  <2>1. CASE scopes[t] = << >>
    BY <1>2, <2>1, EmptySeq
  <2>2. CASE scopes[t] # << >>
    <3>1. n \in Nat \ {0} /\ scopes[t][1] = "locker"
      BY <1>1, <2>2, EmptySeq DEF ScopesNest, Nested
    <3> QED
      BY <1>2, <3>1
  <2> QED
    BY <2>1, <2>2
<1>5. n \in Nat
  BY <1>1
<1> HIDE DEF n
<1>6. \A i \in DOMAIN scopes'[t] : i = n + 1 \/ i \in 1..n
  BY <1>2, <1>5
<1> QED
  BY <1>2, <1>3, <1>4, <1>6 DEF Nested

\* Scopes stay nested when one closes, and no preemption comes to the top.
LEMMA PopNested ==
    ASSUME TypeOK, ScopesNest, NEW t \in Thread, scopes[t] # << >>, Pop(t)
    PROVE  Nested(scopes'[t]) /\ Top(t)' # "preempt"
<1>1. /\ scopes[t] \in Seq(Kind) /\ Len(scopes[t]) \in Nat \ {0}
      /\ DOMAIN scopes[t] = 1..Len(scopes[t])
  BY LenProperties, EmptySeq DEF TypeOK
<1> DEFINE n == Len(scopes[t])
<1>2. /\ scopes'[t] \in Seq(Kind)
      /\ DOMAIN scopes'[t] = 1..(n - 1) /\ Len(scopes'[t]) = n - 1
      /\ scopes'[t] = << >> <=> n = 1
      /\ \A i \in 1..(n - 1) : scopes'[t][i] = scopes[t][i]
  BY PopFacts
<1>3. n \in Nat \ {0}
  BY <1>1
<1>4. Nested(scopes[t]) /\ DOMAIN scopes[t] = 1..n /\ Len(scopes[t]) = n
  BY <1>1 DEF ScopesNest
<1>5. scopes'[t] # << >> => Top(t)' = scopes'[t][n - 1]
  BY <1>2 DEF Top
<1> HIDE DEF n
<1>6. n # 1 => 1 \in 1..(n - 1) /\ n - 1 \in 1..(n - 1)
  BY <1>3
<1>7. \A i \in 1..(n - 1) : scopes'[t][i] # "preempt"
  BY <1>2, <1>3, <1>4 DEF Nested
<1>8. scopes'[t] # << >> => scopes'[t][1] = "locker"
  BY <1>2, <1>4, <1>6 DEF Nested
<1>9. Nested(scopes'[t])
  BY <1>2, <1>7, <1>8 DEF Nested
<1>10. Top(t)' # "preempt"
  BY <1>2, <1>5, <1>6, <1>7 DEF Top
<1> QED
  BY <1>9, <1>10

\* The handler goes from one kind of request to the next and back to
\* JavaScript code.
LEMMA NextStageType ==
    ASSUME NEW f \in InHandler
    PROVE  NextStage(f) \in InHandler \cup {"js"}
<1>1. DOMAIN Handler = 1..7 /\ Len(Handler) = 7
  BY DEF Handler
<1> DEFINE i == CHOOSE i \in DOMAIN Handler : Handler[i] = f
<1>2. i \in DOMAIN Handler
  BY DEF InHandler
<1>3. NextStage(f) = IF i = Len(Handler) THEN "js" ELSE Handler[i + 1]
  BY DEF NextStage
<1> HIDE DEF i
<1> QED
  BY <1>1, <1>2, <1>3 DEF InHandler

\* The stages of the interrupt handler.
LEMMA Places ==
    /\ InHandler = {"GC_REQUEST", "DEBUG", "PREEMPT", "TERMINATE", "INTERRUPT",
                    "FULL_DEOPT", "INSTALL_CODE"}
    /\ Handler[1] = "GC_REQUEST"
BY DEF Handler, InHandler

-------------------------------------------------------------------------------
(* Places and types *)

\* One thread goes on to another place.
LEMMA GotoFacts ==
    ASSUME TypeOK, NEW t \in Thread, NEW l \in Locked \cup {"out"}, Goto(t, l)
    PROVE  /\ loc' \in [Thread -> Locked \cup {"out"}]
           /\ loc'[t] = l
           /\ \A u \in Thread \ {t} : loc'[u] = loc[u]
BY DEF Goto, TypeOK

\* A thread whose state is in thread_local_ is the running one or was archived
\* lazily; there is at most one.
LEMMA HolderFacts ==
    ASSUME IInv, NEW t \in Thread
    PROVE  /\ Holds(t) => Running(t) \/ lazy = t
           /\ Running(t) => Holds(t) /\ lazy = NoThread
           /\ lazy = t => Holds(t) /\ ~Running(t)
           /\ \A u \in Thread : Holds(t) /\ Holds(u) => t = u
<1>1. LockInv /\ lazy \in Thread \cup {NoThread}
  BY DEF IInv, TypeOK
<1>2. \A u \in Thread : Holds(u) => Running(u) \/ lazy = u
  BY <1>1 DEF LockInv, Holds
<1>3. \A u \in Thread : lazy = u => Holds(u) /\ \A v \in Thread : ~Running(v)
  BY <1>1, ThreadManagerAssumption DEF LockInv, Holds
<1>4. \A u, v \in Thread : Running(u) /\ Running(v) => u = v
  BY DEF Running
<1>5. \A u \in Thread : Running(u) => lazy = NoThread
  BY <1>1, <1>3
<1>6. \A u \in Thread : Running(u) => Holds(u)
  BY <1>1 DEF LockInv, Holds
<1> QED
  BY <1>2, <1>3, <1>4, <1>5, <1>6

\* The thread whose state is in thread_local_ has its own limit there, and
\* has as many postponements counted as it has scopes open.
LEMMA HolderGuard ==
    ASSUME IInv, NEW t \in Thread, Holds(t)
    PROVE  /\ Guarded(t, thread_local) /\ Rooted(t)
           /\ thread_local.real \in StackLimit /\ thread_local # Blank
           /\ thread_local.nesting = Cardinality(Postponed(t))
           /\ Postponed(t) = {} <=> thread_local.nesting = 0
<1>1. Guarded(t, thread_local) /\ Rooted(t)
  BY DEF IInv, GuardsInv, Holds, GuardOf
<1>2. thread_local.real \in StackLimit /\ thread_local.nesting = Cardinality(Postponed(t))
  BY <1>1 DEF Guarded, OwnGuard
<1>3. thread_local # Blank
  BY <1>2, FreshTypes, StackGuardAssumption
<1> QED
  BY <1>1, <1>2, <1>3, DepthFacts DEF IInv

\* At these places a thread runs.
LEMMA RunningAt ==
    ASSUME IInv, NEW t \in Thread,
           loc[t] \in {"js", "postponing", "enabling", "debugging"} \cup InHandler
    PROVE  Running(t) /\ owner = t
<1>1. loc[t] \in Locked /\ loc[t] \notin Entering \cup {Returning}
  BY Places DEF Locked, Entering, Returning
<1> QED
  BY <1>1 DEF IInv, LockInv, Running

GuardTyped == thread_local \in ThreadLocal /\ roots \in Roots
PlaceTyped == scopes \in [Thread -> Seq(Kind)] /\ loc \in [Thread -> Locked \cup {"out"}]
ManagerTyped ==
    /\ owner \in Thread \cup {NoThread}
    /\ lazy \in Thread \cup {NoThread}
    /\ archive \in [Thread -> ThreadLocal]
    /\ stored \in [Thread -> StackLimit \cup {Illegal}]

\* TypeOK in parts.
LEMMA TypeParts == TypeOK <=> GuardTyped /\ PlaceTyped /\ ManagerTyped
BY DEF TypeOK, GuardTyped, PlaceTyped, ManagerTyped, Roots

\* TypeOK of the next state in parts.
LEMMA TypePartsNext == TypeOK' <=> GuardTyped' /\ PlaceTyped' /\ ManagerTyped'
BY DEF TypeOK, GuardTyped, PlaceTyped, ManagerTyped, Roots

\* The guard that is left in place lazily counts as archived.
LEMMA ArchivedType ==
    ASSUME TypeOK
    PROVE  /\ Archived \in [Thread -> ThreadLocal]
           /\ lazy # NoThread => Archived[lazy] = thread_local
           /\ \A u \in Thread : u # lazy => Archived[u] = archive[u]
BY DEF TypeOK, Archived

\* Guards stay guards.
LEMMA GuardTypePreserved ==
    ASSUME IInv, [Next]_vars
    PROVE  GuardTyped'
<1>1. TypeOK /\ GuardTyped
  BY TypeParts DEF IInv
<1>2. CASE UNCHANGED guardVars
  BY <1>1, <1>2 DEF guardVars, GuardTyped
<1>3. ASSUME NEW f \in Flag, Requested(f) PROVE GuardTyped'
  BY <1>1, <1>3, RequestEffect DEF Requested, GuardTyped
<1>4. ASSUME NEW f, Continue(f) PROVE GuardTyped'
  BY <1>1, <1>4, ContinueEffect DEF GuardTyped
<1>5. ASSUME NEW t \in Thread, Restore(t) PROVE GuardTyped'
  <2>1. archive[t] \in ThreadLocal
    BY <1>1 DEF TypeOK
  <2> QED
    BY <1>5, <2>1, LimitsOfType DEF Restore, Install, GuardTyped
<1>6. ASSUME NEW t \in Thread, TakeBack(t) PROVE UNCHANGED guardVars
  BY <1>6 DEF TakeBack
<1>7. ASSUME NEW t \in Thread, NEW l \in StackLimit, RestoreNothing(t, l)
      PROVE  GuardTyped'
  <2>1. /\ (IF lazy = NoThread THEN thread_local ELSE Blank) \in ThreadLocal
        /\ stored[t] \in StackLimit \cup {Illegal}
    BY <1>1, FreshTypes DEF TypeOK
  <2>2. LimitsOf(Fresh(l)) \in Roots
    BY FreshTypes, LimitsOfType
  <2> QED
    BY <1>1, <1>7, <2>1, <2>2, InitThreadType DEF RestoreNothing, GuardTyped
<1>8. ASSUME NEW t \in Thread, LockerInit(t) PROVE GuardTyped'
  <2>1. PICK l \in StackLimit : /\ thread_local' = InitThread(Blank, l, stored[t])
                                /\ roots' = LimitsOf(Fresh(l))
    BY <1>8 DEF LockerInit
  <2>2. stored[t] \in StackLimit \cup {Illegal}
    BY <1>1 DEF TypeOK
  <2> QED
    BY <2>1, <2>2, FreshTypes, InitThreadType, LimitsOfType DEF GuardTyped
<1>9. ASSUME NEW t \in Thread, LimitSet(t) PROVE GuardTyped'
  BY <1>1, <1>9, LimitEffect DEF LimitSet, SetStackLimit, GuardTyped
<1>10. ASSUME NEW t \in Thread, PostponeEnter(t) PROVE GuardTyped'
  BY <1>1, <1>10, PostponeEffect DEF PostponeEnter, GuardTyped
<1>11. ASSUME NEW t \in Thread, PostponeLeave(t) PROVE GuardTyped'
  <2>1. Running(t) /\ Top(t) = "postpone" /\ scopes[t] # << >> /\ Pop(t) /\ EndPostpone
    BY <1>11, RunningAt DEF PostponeLeave, Top
  <2>2. thread_local.nesting # 0
    BY <1>1, <2>1, HolderFacts, HolderGuard, PopDepth
  <2> QED
    BY <1>1, <2>1, <2>2, EndPostponeEffect DEF GuardTyped
<1>12. ASSUME NEW t \in Thread, PostponeDisable(t) PROVE GuardTyped'
  BY <1>1, <1>12, DisableEffect DEF PostponeDisable, GuardTyped
<1>13. ASSUME NEW t \in Thread, PostponeEnable(t) PROVE GuardTyped'
  BY <1>1, <1>13, EnableEffect DEF PostponeEnable, GuardTyped
<1> QED
  <2>1. CASE UNCHANGED vars
    BY <1>2, <2>1 DEF vars
  <2>2. CASE \E f \in Flag : Requested(f) \/ Cancelled(f)
    BY <1>3, <1>4, <2>2 DEF Cancelled
  <2> SUFFICES ASSUME NEW t \in Thread,
                      \/ Enter(t) \/ Resume(t) \/ Leave(t) \/ LimitSet(t)
                      \/ PostponeEnter(t) \/ PostponeLeave(t) \/ Postponing(t)
                      \/ StackCheck(t) \/ Handle(t)
               PROVE  GuardTyped'
    BY <2>1, <2>2 DEF Next
  <2>3. CASE Enter(t)
    BY <1>2, <2>3 DEF Enter, LockerLock, UnlockerLock
  <2>4. CASE Resume(t)
    BY <1>2, <1>5, <1>6, <1>7, <1>8, <2>4
       DEF Resume, LockerRestore, LockerRestoreNothing, UnlockerRestore
  <2>5. CASE Leave(t)
    BY <1>2, <2>5 DEF Leave, LockerLeave, LockerArchive, Unlocker, ArchiveThread
  <2>6. CASE Postponing(t)
    BY <1>12, <1>13, <2>6 DEF Postponing
  <2>7. CASE StackCheck(t)
    BY <1>2, <2>7 DEF StackCheck
  <2>8. CASE Handle(t)
    BY <1>2, <1>4, <2>8
       DEF Handle, HandleNothing, HandleRequest, HandleThrow, HandleDebugBreak,
           HandleDebugCommand, HandlePreempt, HandlePreemptInDebugger
  <2> QED
    BY <1>9, <1>10, <1>11, <2>3, <2>4, <2>5, <2>6, <2>7, <2>8

(* The lock and the scopes *)

StructInv == PlaceTyped /\ ManagerTyped /\ LockInv /\ ScopesNest

\* What LockInv says of one thread.
LockAt(t) ==
    /\ archive[t] # Blank => scopes[t] # << >> /\ ~Running(t) /\ loc[t] # "init"
    /\ scopes[t] # << >> => Running(t) \/ lazy = t \/ archive[t] # Blank
    /\ Running(t) => scopes[t] # << >>
    /\ loc[t] = Returning => Top(t) \in {"unlocker", "preempt"}
    /\ loc[t] \in InHandler \cup {"debugging"} => Postponed(t) = {}

\* The places are apart.
LEMMA PlacesApart ==
    /\ "out" \notin Locked
    /\ {"restore", "init", Returning} \subseteq Locked
    /\ {"js", "postponing", "enabling", "debugging"} \cup InHandler \subseteq Locked
    /\ \A l \in {"js", "postponing", "enabling", "debugging"} \cup InHandler :
          l \notin {"out", "restore", "init", Returning}
    /\ Entering = {"restore", "init"}
    /\ \A l \in {"out", "js", "debugging", "restore", "init", Returning} \cup InHandler :
          l \notin {"postponing", "enabling"}
    /\ \A l \in {"out", "js", "restore", "init", Returning, "postponing", "enabling"} :
          l \notin InHandler \cup {"debugging"}
    /\ \A l \in {"out", "js", "restore", "init"} : l # Returning
BY Places DEF Locked, Entering, Returning

\* A step of thread t, which has the lock before or after it, keeps what is
\* said of the others if it archives them properly.
LEMMA ThreadStep ==
    ASSUME IInv, NEW t \in Thread,
           NEW l \in Locked \cup {"out"}, Goto(t, l),
           owner \in {t, NoThread},
           owner' = IF l \in Locked THEN t ELSE NoThread,
           scopes' \in [Thread -> Seq(Kind)],
           \A u \in Thread \ {t} : scopes'[u] = scopes[u],
           ManagerTyped',
           \A u \in Thread \ {t} :
              /\ archive'[u] # Blank => scopes[u] # << >>
              /\ scopes[u] # << >> => lazy' = u \/ archive'[u] # Blank,
           lazy' # NoThread =>
              /\ loc'[lazy'] \in {"out", "restore", Returning}
              /\ scopes'[lazy'] # << >>
              /\ archive'[lazy'] = Blank
              /\ l \in {"out", "restore", Returning},
           Nested(scopes'[t]), NestAt(t)', LockAt(t)'
    PROVE  StructInv'
<1>1. TypeOK /\ LockInv /\ ScopesNest /\ PlaceTyped /\ ManagerTyped
  BY TypeParts DEF IInv
<1>2. /\ loc' \in [Thread -> Locked \cup {"out"}]
      /\ loc'[t] = l
      /\ \A u \in Thread \ {t} : loc'[u] = loc[u]
  BY <1>1, GotoFacts
<1>3. \A u \in Thread \ {t} : Top(u)' = Top(u) /\ Postponed(u)' = Postponed(u)
  BY DEF Top, Postponed
<1>4. PlaceTyped'
  BY <1>2 DEF PlaceTyped
<1>5. \A u \in Thread : loc[u] \in Locked <=> owner = u
  BY <1>1 DEF LockInv
<1>6. \A u \in Thread \ {t} : owner # u /\ owner' # u /\ loc[u] \notin Locked
  BY <1>5, ThreadManagerAssumption
<1>7. \A u \in Thread : loc'[u] \in Locked <=> owner' = u
  BY <1>2, <1>6, ThreadManagerAssumption
<1>8. \A u \in Thread \ {t} : LockAt(u)'
  <2> SUFFICES ASSUME NEW u \in Thread \ {t} PROVE LockAt(u)'
    OBVIOUS
  <2>1. ~Running(u)'
    BY <1>6 DEF Running
  <2>2. loc'[u] \notin {"init", Returning, "debugging"} \cup InHandler
    BY <1>2, <1>6, PlacesApart
  <2> QED
    BY <2>1, <2>2 DEF LockAt
<1>9. lazy' # NoThread =>
         /\ loc'[lazy'] \in {"out", "restore", Returning}
         /\ scopes'[lazy'] # << >>
         /\ archive'[lazy'] = Blank
         /\ \A u \in Thread : ~Running(u)' /\ loc'[u] # "init"
  <2> SUFFICES ASSUME lazy' # NoThread, NEW u \in Thread
               PROVE  ~Running(u)' /\ loc'[u] # "init"
    OBVIOUS
  <2>1. CASE u = t
    BY <1>2, <1>7, <2>1, PlacesApart DEF Running, Entering
  <2>2. CASE u # t
    BY <1>2, <1>6, <2>2, PlacesApart DEF Running
  <2> QED
    BY <2>1, <2>2
<1>10. LockInv'
  BY <1>7, <1>8, <1>9 DEF LockInv, LockAt
<1>11. ScopesNest'
  BY <1>1, <1>2, <1>3 DEF ScopesNest, NestAt
<1> QED
  BY <1>4, <1>10, <1>11 DEF StructInv

\* What is needed of the others when nobody is archived or taken back.
LEMMA OthersArchived ==
    ASSUME IInv, NEW t \in Thread, owner \in {t, NoThread}
    PROVE  \A u \in Thread \ {t} :
              /\ archive[u] # Blank => scopes[u] # << >>
              /\ scopes[u] # << >> => lazy = u \/ archive[u] # Blank
BY DEF IInv, LockInv, Running

\* A running thread goes from one place to another without opening or closing
\* a scope.
LEMMA MovePreserves ==
    ASSUME IInv, NEW t \in Thread, Running(t),
           NEW l \in {"js", "debugging"} \cup InHandler,
           l # "js" => Postponed(t) = {},
           Goto(t, l), UNCHANGED <<managerVars, scopes>>
    PROVE  StructInv'
<1>1. TypeOK /\ LockInv /\ ScopesNest /\ PlaceTyped /\ ManagerTyped
  BY TypeParts DEF IInv
<1>2. /\ owner' = owner /\ lazy' = lazy /\ archive' = archive /\ stored' = stored
      /\ scopes' = scopes
  BY DEF managerVars
<1>3. Top(t)' = Top(t) /\ Postponed(t)' = Postponed(t)
  BY <1>2 DEF Top, Postponed
<1>4. owner = t /\ lazy = NoThread /\ Holds(t)
  BY HolderFacts DEF Running
<1>5. l \in Locked /\ loc'[t] = l
  BY <1>1, PlacesApart, GotoFacts
<1>6. ManagerTyped' /\ scopes' \in [Thread -> Seq(Kind)]
  BY <1>1, <1>2 DEF ManagerTyped, PlaceTyped
<1>7. LockAt(t)'
  BY <1>2, <1>3, <1>4, <1>5, PlacesApart DEF LockAt, Holds, Running
<1>8. NestAt(t)'
  <2>1. Top(t) # "preempt"
    BY <1>1, <1>4, PlacesApart DEF ScopesNest, NestAt, Running, LockInv
  <2> QED
    BY <1>3, <1>5, <2>1, PlacesApart DEF NestAt
<1>9. Nested(scopes'[t])
  BY <1>1, <1>2 DEF ScopesNest
<1> QED
  BY <1>2, <1>4, <1>5, <1>6, <1>7, <1>8, <1>9, OthersArchived, ThreadStep

\* The nesting is counted up when the scope opens.
LEMMA PostponeEnterPreserves ==
    ASSUME IInv, NEW t \in Thread, PostponeEnter(t)
    PROVE  StructInv'
<1>1. TypeOK /\ LockInv /\ ScopesNest /\ PlaceTyped /\ ManagerTyped
  BY TypeParts DEF IInv
<1>2. /\ loc[t] = "js" /\ Push(t, "postpone") /\ Goto(t, "postponing")
      /\ owner' = owner /\ lazy' = lazy /\ archive' = archive /\ stored' = stored
  BY DEF PostponeEnter, managerVars
<1>3. owner = t /\ lazy = NoThread /\ Holds(t)
  BY <1>2, RunningAt, HolderFacts
<1>4. "postponing" \in Locked /\ loc'[t] = "postponing"
  BY <1>1, <1>2, PlacesApart, GotoFacts
<1>5. /\ scopes' \in [Thread -> Seq(Kind)] /\ scopes'[t] # << >>
      /\ \A u \in Thread \ {t} : scopes'[u] = scopes[u]
      /\ Top(t)' = "postpone"
  BY <1>1, <1>2, PushFacts DEF Kind
<1>6. ManagerTyped'
  BY <1>1, <1>2 DEF ManagerTyped
<1>7. LockAt(t)'
  BY <1>2, <1>3, <1>4, <1>5, PlacesApart DEF LockAt, Holds, Running
<1>8. NestAt(t)'
  BY <1>4, <1>5 DEF NestAt
<1>9. Nested(scopes'[t])
  <2>1. Top(t) # "preempt"
    BY <1>1, <1>2 DEF ScopesNest, NestAt, Returning
  <2> QED
    BY <1>1, <1>2, <1>3, <2>1, PushNested DEF Holds, Kind
<1> QED
  BY <1>2, <1>3, <1>4, <1>5, <1>6, <1>7, <1>8, <1>9, OthersArchived, ThreadStep

\* The nesting is counted down when the scope closes.
LEMMA PostponeLeavePreserves ==
    ASSUME IInv, NEW t \in Thread, PostponeLeave(t)
    PROVE  StructInv'
<1>1. TypeOK /\ LockInv /\ ScopesNest /\ PlaceTyped /\ ManagerTyped
  BY TypeParts DEF IInv
<1> DEFINE l == IF thread_local.nesting = 1 THEN "enabling" ELSE "js"
<1>2. /\ loc[t] = "js" /\ Pop(t) /\ Top(t) = "postpone" /\ Goto(t, l)
      /\ owner' = owner /\ lazy' = lazy /\ archive' = archive /\ stored' = stored
  BY DEF PostponeLeave, managerVars
<1>3. owner = t /\ lazy = NoThread /\ Holds(t)
  BY <1>2, RunningAt, HolderFacts
<1>4. l \in Locked /\ loc'[t] = l
  BY <1>1, <1>2, PlacesApart, GotoFacts
<1>5. /\ scopes' \in [Thread -> Seq(Kind)]
      /\ \A u \in Thread \ {t} : scopes'[u] = scopes[u]
      /\ scopes'[t] # << >>
  <2>1. Len(scopes[t]) > 1
    BY <1>1, <1>2, LockerBelow
  <2> QED
    BY <1>1, <1>2, <1>3, <2>1, PopFacts DEF Holds
<1>6. ManagerTyped'
  BY <1>1, <1>2 DEF ManagerTyped
<1>7. LockAt(t)'
  BY <1>2, <1>3, <1>4, <1>5, PlacesApart DEF LockAt, Holds, Running
<1>8. Nested(scopes'[t]) /\ Top(t)' # "preempt"
  BY <1>1, <1>2, <1>3, PopNested DEF Holds
<1>9. NestAt(t)'
  <2>1. l = "enabling" => Postponed(t)' = {}
    <3> SUFFICES ASSUME thread_local.nesting = 1 PROVE Postponed(t)' = {}
      OBVIOUS
    <3>1. Cardinality(Postponed(t)) = 1 /\ IsFiniteSet(Postponed(t))
      BY <1>1, <1>3, HolderGuard, DepthFacts
    <3>2. Cardinality(Postponed(t)') = 0 /\ Postponed(t)' \subseteq Postponed(t)
      BY <1>1, <1>2, <1>3, <3>1, PopDepth DEF Holds
    <3> QED
      BY <3>1, <3>2, FS_Subset, FS_EmptySet
  <2> QED
    BY <1>4, <1>8, <2>1, PlacesApart DEF NestAt
<1> QED
  BY <1>2, <1>3, <1>4, <1>5, <1>6, <1>7, <1>8, <1>9, OthersArchived, ThreadStep

\* A Locker or Unlocker takes the lock.
LEMMA LockPreserves ==
    ASSUME IInv, NEW t \in Thread, LockerLock(t) \/ UnlockerLock(t)
    PROVE  StructInv'
<1>1. TypeOK /\ LockInv /\ ScopesNest /\ PlaceTyped /\ ManagerTyped
  BY TypeParts DEF IInv
<1> DEFINE l == IF LockerLock(t) THEN "restore" ELSE Returning
<1>2. /\ owner = NoThread /\ loc[t] = "out" /\ owner' = t
      /\ Goto(t, l)
      /\ lazy' = lazy /\ archive' = archive /\ stored' = stored /\ scopes' = scopes
      /\ l = Returning => Top(t) \in {"unlocker", "preempt"}
      /\ l = "restore" => Top(t) \in {"none", "unlocker"}
  BY PlacesApart DEF LockerLock, UnlockerLock
<1>3. l \in {"restore", Returning}
  OBVIOUS
<1> HIDE DEF l
<1>4. l \in Locked /\ loc'[t] = l
  BY <1>1, <1>2, <1>3, PlacesApart, GotoFacts
<1>5. Top(t)' = Top(t) /\ Postponed(t)' = Postponed(t)
  BY <1>2 DEF Top, Postponed
<1>6. ManagerTyped' /\ scopes' \in [Thread -> Seq(Kind)]
  BY <1>1, <1>2 DEF ManagerTyped, PlaceTyped
<1>7. ~Running(t)' /\ ~Running(t)
  BY <1>2, <1>3, <1>4, PlacesApart, ThreadManagerAssumption DEF Running
<1>8. LockAt(t)'
  BY <1>1, <1>2, <1>3, <1>4, <1>5, <1>7, PlacesApart DEF LockAt, LockInv
<1>9. NestAt(t)'
  BY <1>1, <1>2, <1>3, <1>4, <1>5, PlacesApart DEF ScopesNest, NestAt
<1>10. Nested(scopes'[t])
  BY <1>1, <1>2 DEF ScopesNest
<1>11. lazy' # NoThread => /\ loc'[lazy'] \in {"out", "restore", Returning}
                           /\ scopes'[lazy'] # << >> /\ archive'[lazy'] = Blank
  BY <1>1, <1>2, <1>3, <1>4, GotoFacts DEF LockInv, TypeOK
<1> QED
  BY <1>2, <1>3, <1>4, <1>6, <1>8, <1>9, <1>10, <1>11, OthersArchived, ThreadStep

\* Nobody runs when a thread is about to restore its state: the state of every
\* thread inside V8 is archived, lazily or for good.
LEMMA EnteringFacts ==
    ASSUME IInv, NEW t \in Thread, loc[t] \in {"restore", "init", Returning}
    PROVE  /\ owner = t
           /\ \A u \in Thread : ~Running(u)
           /\ \A u \in Thread : scopes[u] # << >> => lazy = u \/ archive[u] # Blank
           /\ \A u \in Thread : archive[u] # Blank => scopes[u] # << >>
           /\ lazy \in Thread => archive[lazy] = Blank /\ scopes[lazy] # << >>
           /\ lazy \in Thread => thread_local # Blank
           /\ loc[t] = "init" => lazy = NoThread /\ scopes[t] = << >>
<1>1. TypeOK /\ LockInv
  BY DEF IInv
<1>2. owner = t
  BY <1>1, PlacesApart DEF LockInv
<1>3. \A u \in Thread : ~Running(u)
  BY <1>2, PlacesApart DEF Running
<1>4. lazy \in Thread => archive[lazy] = Blank /\ scopes[lazy] # << >> /\ loc[t] # "init"
  BY <1>1, ThreadManagerAssumption DEF LockInv
<1>5. lazy \in Thread => thread_local # Blank
  BY <1>4, HolderGuard DEF Holds
<1>6. /\ \A u \in Thread : scopes[u] # << >> => lazy = u \/ archive[u] # Blank
      /\ \A u \in Thread : archive[u] # Blank => scopes[u] # << >> /\ loc[u] # "init"
  BY <1>1, <1>3 DEF LockInv
<1>7. lazy \in Thread \cup {NoThread}
  BY <1>1 DEF TypeOK
<1>8. loc[t] = "init" => lazy = NoThread
  BY <1>4, <1>7
<1>9. loc[t] = "init" => scopes[t] = << >>
  BY <1>4, <1>6
<1> QED
  BY <1>2, <1>3, <1>4, <1>5, <1>6, <1>8, <1>9

\* RestoreThread gives the thread its own state back, and the others keep
\* theirs: the one archived lazily has it in its ThreadState now.
LEMMA RestoreFacts ==
    ASSUME IInv, NEW t \in Thread, loc[t] \in {"restore", Returning},
           TakeBack(t) \/ Restore(t)
    PROVE  /\ scopes[t] # << >>
           /\ lazy' = NoThread
           /\ archive' \in [Thread -> ThreadLocal]
           /\ archive'[t] = Blank
           /\ \A u \in Thread \ {t} :
                 /\ archive'[u] # Blank => scopes[u] # << >>
                 /\ scopes[u] # << >> => archive'[u] # Blank /\ archive'[u] = GuardOf(u)
           /\ thread_local' = GuardOf(t)
           /\ TakeBack(t) => Holds(t) /\ UNCHANGED guardVars
           /\ Restore(t) => roots' = LimitsOf(GuardOf(t)) /\ archive[t] # Blank
<1>1. TypeOK
  BY DEF IInv
<1>2. /\ \A u \in Thread : scopes[u] # << >> => lazy = u \/ archive[u] # Blank
      /\ \A u \in Thread : archive[u] # Blank => scopes[u] # << >>
      /\ lazy \in Thread => archive[lazy] = Blank /\ scopes[lazy] # << >>
      /\ lazy \in Thread => thread_local # Blank
  BY EnteringFacts
<1>3. CASE TakeBack(t)
  <2>1. /\ lazy = t /\ lazy' = NoThread /\ archive' = archive
        /\ thread_local' = thread_local /\ roots' = roots
    BY <1>3 DEF TakeBack, guardVars
  <2>2. ~Restore(t)
    BY <2>1 DEF Restore
  <2> QED
    BY <1>1, <1>2, <2>1, <2>2 DEF TypeOK, GuardOf, Holds, guardVars
<1>4. CASE Restore(t)
  <2>1. /\ lazy # t /\ archive[t] # Blank /\ lazy' = NoThread
        /\ thread_local' = archive[t] /\ roots' = LimitsOf(archive[t])
        /\ archive' = [Archived EXCEPT ![t] = Blank]
    BY <1>4 DEF Restore, Install
  <2>2. /\ Archived \in [Thread -> ThreadLocal]
        /\ lazy \in Thread => Archived[lazy] = thread_local
        /\ \A u \in Thread : u # lazy => Archived[u] = archive[u]
    BY <1>1, ArchivedType, ThreadManagerAssumption
  <2>3. /\ archive' \in [Thread -> ThreadLocal] /\ archive'[t] = Blank
        /\ \A u \in Thread \ {t} : archive'[u] = Archived[u]
    BY <2>1, <2>2, FreshTypes
  <2>4. ~TakeBack(t)
    BY <2>1 DEF TakeBack
  <2>5. \A u \in Thread \ {t} :
           /\ archive'[u] # Blank => scopes[u] # << >>
           /\ scopes[u] # << >> => archive'[u] # Blank /\ archive'[u] = GuardOf(u)
    <3> SUFFICES ASSUME NEW u \in Thread \ {t}
                 PROVE  /\ archive'[u] # Blank => scopes[u] # << >>
                        /\ scopes[u] # << >> =>
                              archive'[u] # Blank /\ archive'[u] = GuardOf(u)
      OBVIOUS
    <3>1. CASE u = lazy
      BY <1>2, <2>2, <2>3, <3>1 DEF GuardOf
    <3>2. CASE u # lazy
      BY <1>2, <2>2, <2>3, <3>2 DEF GuardOf
    <3> QED
      BY <3>1, <3>2
  <2> QED
    BY <1>2, <2>1, <2>3, <2>4, <2>5 DEF GuardOf
<1> QED
  BY <1>3, <1>4

\* A thread that finds nothing to restore is outside V8.
LEMMA RestoreNothingFacts ==
    ASSUME IInv, NEW t \in Thread, loc[t] = "restore",
           NEW l \in StackLimit, RestoreNothing(t, l)
    PROVE  /\ scopes[t] = << >>
           /\ lazy' = NoThread
           /\ archive' \in [Thread -> ThreadLocal]
           /\ archive'[t] = Blank
           /\ \A u \in Thread \ {t} :
                 /\ archive'[u] # Blank => scopes[u] # << >>
                 /\ scopes[u] # << >> => archive'[u] # Blank /\ archive'[u] = GuardOf(u)
<1>1. TypeOK
  BY DEF IInv
<1>2. /\ \A u \in Thread : scopes[u] # << >> => lazy = u \/ archive[u] # Blank
      /\ \A u \in Thread : archive[u] # Blank => scopes[u] # << >>
      /\ lazy \in Thread => archive[lazy] = Blank /\ scopes[lazy] # << >>
      /\ lazy \in Thread => thread_local # Blank
  BY EnteringFacts
<1>3. lazy # t /\ archive[t] = Blank /\ lazy' = NoThread /\ archive' = Archived
  BY DEF RestoreNothing
<1>4. /\ Archived \in [Thread -> ThreadLocal]
      /\ lazy \in Thread => Archived[lazy] = thread_local
      /\ \A u \in Thread : u # lazy => Archived[u] = archive[u]
  BY <1>1, ArchivedType, ThreadManagerAssumption
<1>5. ASSUME NEW u \in Thread \ {t}
      PROVE  /\ archive'[u] # Blank => scopes[u] # << >>
             /\ scopes[u] # << >> => archive'[u] # Blank /\ archive'[u] = GuardOf(u)
  <2>1. CASE u = lazy
    BY <1>2, <1>3, <1>4, <2>1 DEF GuardOf
  <2>2. CASE u # lazy
    BY <1>2, <1>3, <1>4, <2>2 DEF GuardOf
  <2> QED
    BY <2>1, <2>2
<1> QED
  BY <1>2, <1>3, <1>4, <1>5

\* A Locker restores the state the thread left, or lazily keeps it.
LEMMA LockerRestorePreserves ==
    ASSUME IInv, NEW t \in Thread, LockerRestore(t)
    PROVE  StructInv'
<1>1. TypeOK /\ LockInv /\ ScopesNest /\ PlaceTyped /\ ManagerTyped
  BY TypeParts DEF IInv
<1>2. /\ loc[t] = "restore" /\ Push(t, "locker") /\ Goto(t, "js")
      /\ owner' = owner /\ stored' = stored
  BY DEF LockerRestore
<1>3. /\ scopes[t] # << >> /\ lazy' = NoThread /\ archive'[t] = Blank
      /\ archive' \in [Thread -> ThreadLocal]
      /\ \A u \in Thread \ {t} : /\ archive'[u] # Blank => scopes[u] # << >>
                                 /\ scopes[u] # << >> => archive'[u] # Blank
  BY <1>2, RestoreFacts DEF LockerRestore
<1>4. owner = t /\ "js" \in Locked /\ loc'[t] = "js"
  BY <1>1, <1>2, EnteringFacts, PlacesApart, GotoFacts
<1>5. /\ scopes' \in [Thread -> Seq(Kind)] /\ scopes'[t] # << >>
      /\ \A u \in Thread \ {t} : scopes'[u] = scopes[u]
      /\ Top(t)' = "locker"
  BY <1>1, <1>2, PushFacts DEF Kind
<1>6. ManagerTyped'
  BY <1>1, <1>2, <1>3 DEF ManagerTyped
<1>7. LockAt(t)'
  BY <1>2, <1>3, <1>4, <1>5, PlacesApart DEF LockAt, Running
<1>8. NestAt(t)'
  BY <1>4, <1>5, PlacesApart DEF NestAt
<1>9. Nested(scopes'[t])
  <2>1. Top(t) # "preempt"
    BY <1>1, <1>2, PlacesApart DEF ScopesNest, NestAt
  <2> QED
    BY <1>1, <1>2, <1>3, <2>1, PushNested DEF Kind
<1> QED
  BY <1>2, <1>3, <1>4, <1>5, <1>6, <1>7, <1>8, <1>9, ThreadStep

\* So does the end of an Unlocker.
LEMMA UnlockerRestorePreserves ==
    ASSUME IInv, NEW t \in Thread, UnlockerRestore(t)
    PROVE  StructInv'
<1>1. TypeOK /\ LockInv /\ ScopesNest /\ PlaceTyped /\ ManagerTyped
  BY TypeParts DEF IInv
<1> DEFINE l == IF Top(t) = "preempt" THEN "TERMINATE" ELSE "js"
<1>2. /\ loc[t] = Returning /\ Pop(t) /\ Goto(t, l)
      /\ owner' = owner /\ stored' = stored
  BY DEF UnlockerRestore
<1>3. /\ scopes[t] # << >> /\ lazy' = NoThread /\ archive'[t] = Blank
      /\ archive' \in [Thread -> ThreadLocal]
      /\ \A u \in Thread \ {t} : /\ archive'[u] # Blank => scopes[u] # << >>
                                 /\ scopes[u] # << >> => archive'[u] # Blank
  BY <1>2, RestoreFacts DEF UnlockerRestore
<1>4. owner = t /\ l \in Locked /\ loc'[t] = l
  BY <1>1, <1>2, EnteringFacts, PlacesApart, Places, GotoFacts
<1>5. Top(t) \in {"unlocker", "preempt"}
  BY <1>1, <1>2 DEF LockInv
<1>6. /\ scopes' \in [Thread -> Seq(Kind)]
      /\ \A u \in Thread \ {t} : scopes'[u] = scopes[u]
      /\ scopes'[t] # << >>
  <2>1. Len(scopes[t]) > 1
    BY <1>1, <1>5, LockerBelow
  <2> QED
    BY <1>1, <1>2, <1>3, <2>1, PopFacts
<1>7. Nested(scopes'[t]) /\ Top(t)' # "preempt"
  BY <1>1, <1>2, <1>3, PopNested
<1>8. Postponed(t)' = Postponed(t)
  BY <1>1, <1>2, <1>3, <1>5, PopDepth
<1>9. Top(t) = "preempt" => Postponed(t) = {}
  BY <1>1 DEF ScopesNest, NestAt
<1>10. ManagerTyped'
  BY <1>1, <1>2, <1>3 DEF ManagerTyped
<1>11. LockAt(t)'
  BY <1>2, <1>3, <1>4, <1>6, <1>8, <1>9, PlacesApart, Places DEF LockAt, Running
<1>12. NestAt(t)'
  BY <1>4, <1>7, PlacesApart, Places DEF NestAt
<1> QED
  BY <1>2, <1>3, <1>4, <1>6, <1>7, <1>10, <1>11, <1>12, ThreadStep

\* A thread that comes for the first time has nothing to restore.
LEMMA RestoreNothingPreserves ==
    ASSUME IInv, NEW t \in Thread, LockerRestoreNothing(t)
    PROVE  StructInv'
<1>1. TypeOK /\ LockInv /\ ScopesNest /\ PlaceTyped /\ ManagerTyped
  BY TypeParts DEF IInv
<1>2. /\ loc[t] = "restore" /\ Goto(t, "init")
      /\ owner' = owner /\ stored' = stored /\ scopes' = scopes
  BY DEF LockerRestoreNothing
<1>3. /\ scopes[t] = << >> /\ lazy' = NoThread /\ archive'[t] = Blank
      /\ archive' \in [Thread -> ThreadLocal]
      /\ \A u \in Thread \ {t} : /\ archive'[u] # Blank => scopes[u] # << >>
                                 /\ scopes[u] # << >> => archive'[u] # Blank
  BY <1>2, RestoreNothingFacts DEF LockerRestoreNothing
<1>4. owner = t /\ "init" \in Locked /\ loc'[t] = "init"
  BY <1>1, <1>2, EnteringFacts, PlacesApart, GotoFacts
<1>5. Top(t)' = "none"
  BY <1>2, <1>3 DEF Top
<1>6. ManagerTyped' /\ scopes' \in [Thread -> Seq(Kind)]
  BY <1>1, <1>2, <1>3 DEF ManagerTyped, PlaceTyped
<1>7. LockAt(t)'
  BY <1>2, <1>3, <1>4, PlacesApart DEF LockAt, Running
<1>8. NestAt(t)'
  BY <1>4, <1>5, PlacesApart DEF NestAt
<1>9. Nested(scopes'[t])
  BY <1>1, <1>2 DEF ScopesNest
<1> QED
  BY <1>2, <1>3, <1>4, <1>6, <1>7, <1>8, <1>9, ThreadStep

\* InitThread gives it limits of its own stack.
LEMMA LockerInitPreserves ==
    ASSUME IInv, NEW t \in Thread, LockerInit(t)
    PROVE  StructInv'
<1>1. TypeOK /\ LockInv /\ ScopesNest /\ PlaceTyped /\ ManagerTyped
  BY TypeParts DEF IInv
<1>2. /\ loc[t] = "init" /\ Push(t, "locker") /\ Goto(t, "js")
      /\ owner' = owner /\ lazy' = lazy /\ archive' = archive /\ stored' = stored
  BY DEF LockerInit, managerVars
<1>3. lazy = NoThread /\ scopes[t] = << >> /\ owner = t /\ archive[t] = Blank
  BY <1>2, EnteringFacts
<1>4. "js" \in Locked /\ loc'[t] = "js"
  BY <1>1, <1>2, PlacesApart, GotoFacts
<1>5. /\ scopes' \in [Thread -> Seq(Kind)] /\ scopes'[t] # << >>
      /\ \A u \in Thread \ {t} : scopes'[u] = scopes[u]
      /\ Top(t)' = "locker"
  BY <1>1, <1>2, PushFacts DEF Kind
<1>6. ManagerTyped'
  BY <1>1, <1>2 DEF ManagerTyped
<1>7. LockAt(t)'
  BY <1>2, <1>3, <1>4, <1>5, PlacesApart DEF LockAt, Running
<1>8. NestAt(t)'
  BY <1>4, <1>5, PlacesApart DEF NestAt
<1>9. Nested(scopes'[t])
  <2>1. Top(t) # "preempt"
    BY <1>3 DEF Top
  <2> QED
    BY <1>1, <1>2, <1>3, <2>1, PushNested DEF Kind
<1> QED
  BY <1>2, <1>3, <1>4, <1>5, <1>6, <1>7, <1>8, <1>9, OthersArchived, ThreadStep

\* What the steps that give up the lock have in common.
LEMMA UnlockPreserves ==
    ASSUME IInv, NEW t \in Thread, Running(t),
           Goto(t, "out"), owner' = NoThread, archive' = archive,
           stored' \in [Thread -> StackLimit \cup {Illegal}],
           scopes' \in [Thread -> Seq(Kind)],
           \A u \in Thread \ {t} : scopes'[u] = scopes[u],
           Nested(scopes'[t]),
           Top(t)' = "preempt" => Postponed(t)' = {},
           scopes'[t] = << >> => lazy' = NoThread,
           scopes'[t] # << >> => lazy' = t
    PROVE  StructInv'
<1>1. TypeOK /\ ManagerTyped
  BY TypeParts DEF IInv
<1>2. owner = t /\ lazy = NoThread /\ archive[t] = Blank
  BY HolderFacts DEF Running, Holds
<1>3. "out" \notin Locked /\ loc'[t] = "out"
  BY <1>1, PlacesApart, GotoFacts
<1>4. ManagerTyped'
  BY <1>1 DEF ManagerTyped
<1>5. ~Running(t)'
  BY ThreadManagerAssumption DEF Running
<1>6. LockAt(t)'
  BY <1>2, <1>3, <1>5, PlacesApart DEF LockAt
<1>7. NestAt(t)'
  BY <1>3, PlacesApart DEF NestAt
<1>8. \A u \in Thread \ {t} :
         /\ archive'[u] # Blank => scopes[u] # << >>
         /\ scopes[u] # << >> => lazy' = u \/ archive'[u] # Blank
  BY <1>2, OthersArchived, ThreadManagerAssumption
<1> QED
  BY <1>2, <1>3, <1>4, <1>6, <1>7, <1>8, ThreadStep

\* The outermost Locker of a thread frees its state.
LEMMA LockerLeavePreserves ==
    ASSUME IInv, NEW t \in Thread, LockerLeave(t)
    PROVE  StructInv'
<1>1. TypeOK /\ LockInv /\ ScopesNest
  BY DEF IInv
<1>2. /\ loc[t] = "js" /\ scopes[t] = <<"locker">> /\ Pop(t) /\ Goto(t, "out")
      /\ owner' = NoThread /\ lazy' = lazy /\ archive' = archive
      /\ stored' = [stored EXCEPT ![t] = thread_local.real]
  BY DEF LockerLeave
<1>3. Running(t) /\ lazy = NoThread /\ Holds(t)
  BY <1>2, RunningAt, HolderFacts
<1>4. stored' \in [Thread -> StackLimit \cup {Illegal}]
  BY <1>1, <1>2, <1>3, HolderGuard DEF TypeOK
<1>5. scopes[t] # << >> /\ Len(scopes[t]) = 1
  BY <1>2
<1>6. /\ scopes' \in [Thread -> Seq(Kind)]
      /\ \A u \in Thread \ {t} : scopes'[u] = scopes[u]
      /\ scopes'[t] = << >>
  BY <1>1, <1>2, <1>5, PopFacts
<1>7. Nested(scopes'[t]) /\ Top(t)' # "preempt"
  BY <1>1, <1>2, <1>5, PopNested
<1> QED
  BY <1>2, <1>3, <1>4, <1>6, <1>7, UnlockPreserves

\* A Locker within an Unlocker archives.
LEMMA LockerArchivePreserves ==
    ASSUME IInv, NEW t \in Thread, LockerArchive(t)
    PROVE  StructInv'
<1>1. TypeOK /\ LockInv /\ ScopesNest
  BY DEF IInv
<1>2. /\ loc[t] = "js" /\ Len(scopes[t]) > 1 /\ Pop(t) /\ Goto(t, "out")
      /\ owner' = NoThread /\ lazy' = t /\ archive' = archive /\ stored' = stored
  BY DEF LockerArchive, ArchiveThread
<1>3. Running(t) /\ scopes[t] # << >>
  BY <1>2, RunningAt, HolderFacts DEF Holds
<1>4. stored' \in [Thread -> StackLimit \cup {Illegal}]
  BY <1>1, <1>2 DEF TypeOK
<1>5. /\ scopes' \in [Thread -> Seq(Kind)]
      /\ \A u \in Thread \ {t} : scopes'[u] = scopes[u]
      /\ scopes'[t] # << >>
  BY <1>1, <1>2, <1>3, PopFacts
<1>6. Nested(scopes'[t]) /\ Top(t)' # "preempt"
  BY <1>1, <1>2, <1>3, PopNested
<1> QED
  BY <1>2, <1>3, <1>4, <1>5, <1>6, UnlockPreserves

\* An Unlocker archives lazily.
LEMMA UnlockerPreserves ==
    ASSUME IInv, NEW t \in Thread, Unlocker(t)
    PROVE  StructInv'
<1>1. TypeOK /\ LockInv /\ ScopesNest
  BY DEF IInv
<1>2. /\ loc[t] = "js" /\ Push(t, "unlocker") /\ Goto(t, "out")
      /\ owner' = NoThread /\ lazy' = t /\ archive' = archive /\ stored' = stored
  BY DEF Unlocker, ArchiveThread
<1>3. Running(t) /\ scopes[t] # << >>
  BY <1>2, RunningAt, HolderFacts DEF Holds
<1>4. stored' \in [Thread -> StackLimit \cup {Illegal}]
  BY <1>1, <1>2 DEF TypeOK
<1>5. /\ scopes' \in [Thread -> Seq(Kind)]
      /\ \A u \in Thread \ {t} : scopes'[u] = scopes[u]
      /\ scopes'[t] # << >> /\ Top(t)' = "unlocker"
  BY <1>1, <1>2, PushFacts DEF Kind
<1>6. Nested(scopes'[t])
  <2>1. Top(t) # "preempt"
    BY <1>1, <1>2 DEF ScopesNest, NestAt, Returning
  <2> QED
    BY <1>1, <1>2, <1>3, <2>1, PushNested DEF Kind
<1> QED
  BY <1>2, <1>3, <1>4, <1>5, <1>6, UnlockPreserves

\* A preemption opens an Unlocker.
LEMMA HandlePreemptPreserves ==
    ASSUME IInv, NEW t \in Thread, HandlePreempt(t)
    PROVE  StructInv'
<1>1. TypeOK /\ LockInv /\ ScopesNest
  BY DEF IInv
<1>2. /\ loc[t] = "PREEMPT" /\ Push(t, "preempt") /\ Goto(t, "out")
      /\ owner' = NoThread /\ lazy' = t /\ archive' = archive /\ stored' = stored
  BY DEF HandlePreempt
<1>3. Running(t) /\ scopes[t] # << >>
  BY <1>2, RunningAt, HolderFacts, Places DEF Holds
<1>4. stored' \in [Thread -> StackLimit \cup {Illegal}]
  BY <1>1, <1>2 DEF TypeOK
<1>5. /\ scopes' \in [Thread -> Seq(Kind)]
      /\ \A u \in Thread \ {t} : scopes'[u] = scopes[u]
      /\ scopes'[t] # << >> /\ Top(t)' = "preempt"
  BY <1>1, <1>2, PushFacts DEF Kind
<1>6. Nested(scopes'[t])
  <2>1. Top(t) # "preempt"
    BY <1>1, <1>2 DEF ScopesNest, NestAt, Returning
  <2> QED
    BY <1>1, <1>2, <1>3, <2>1, PushNested DEF Kind
<1>7. Postponed(t)' = {}
  BY <1>1, <1>2, PushDepth, Places DEF Kind, LockInv
<1> QED
  BY <1>2, <1>3, <1>4, <1>5, <1>6, <1>7, UnlockPreserves

\* The lock, the scopes and the archive fit together after every step.
LEMMA StructPreserved ==
    ASSUME IInv, [Next]_vars
    PROVE  StructInv'
<1>1. TypeOK /\ LockInv /\ ScopesNest /\ PlaceTyped /\ ManagerTyped
  BY TypeParts DEF IInv
<1>2. CASE UNCHANGED <<managerVars, scopes, loc>>
  BY <1>1, <1>2
     DEF managerVars, StructInv, PlaceTyped, ManagerTyped, LockInv, ScopesNest,
         NestAt, Running, Top, Postponed
<1>3. ASSUME NEW t \in Thread, Resume(t) PROVE StructInv'
  BY <1>3, LockerRestorePreserves, RestoreNothingPreserves, LockerInitPreserves,
     UnlockerRestorePreserves DEF Resume
<1>4. ASSUME NEW t \in Thread, Leave(t) PROVE StructInv'
  BY <1>4, LockerLeavePreserves, LockerArchivePreserves, UnlockerPreserves DEF Leave
<1>5. ASSUME NEW t \in Thread, Postponing(t) PROVE StructInv'
  <2>1. Running(t) /\ Goto(t, "js") /\ UNCHANGED <<managerVars, scopes>>
    BY <1>5, RunningAt DEF Postponing, PostponeDisable, PostponeEnable
  <2> QED
    BY <2>1, MovePreserves
<1>6. ASSUME NEW t \in Thread, StackCheck(t) PROVE StructInv'
  <2>1. /\ Running(t) /\ Goto(t, "GC_REQUEST") /\ UNCHANGED <<managerVars, scopes>>
        /\ thread_local.nesting = 0
    BY <1>6, RunningAt, Places DEF StackCheck
  <2>2. Postponed(t) = {}
    BY <2>1, HolderFacts, HolderGuard
  <2> QED
    BY <2>1, <2>2, MovePreserves, Places
<1>7. ASSUME NEW t \in Thread, Handle(t) PROVE StructInv'
  <2>1. ASSUME loc[t] \in InHandler \cup {"debugging"}
        PROVE  Running(t) /\ Postponed(t) = {}
    BY <1>1, <2>1, RunningAt DEF LockInv
  <2>2. \A f \in InHandler : NextStage(f) \in {"js", "debugging"} \cup InHandler
    BY NextStageType
  <2>3. ASSUME NEW f \in InHandler,
               HandleNothing(t, f) \/ HandleRequest(t, f) \/ HandleThrow(t, f)
        PROVE  StructInv'
    <3>1. loc[t] = f /\ UNCHANGED <<managerVars, scopes>>
          /\ (Goto(t, NextStage(f)) \/ Goto(t, "js"))
      BY <2>3 DEF HandleNothing, HandleRequest, HandleThrow
    <3> QED
      BY <2>1, <2>2, <3>1, MovePreserves
  <2>4. CASE HandleDebugBreak(t)
    <3>1. loc[t] \in InHandler /\ UNCHANGED <<managerVars, scopes>> /\ Goto(t, "debugging")
      BY <2>4, Places DEF HandleDebugBreak
    <3> QED
      BY <2>1, <3>1, MovePreserves
  <2>5. CASE HandleDebugCommand(t)
    <3>1. /\ loc[t] = "debugging" /\ UNCHANGED <<managerVars, scopes>>
          /\ Goto(t, NextStage("DEBUG"))
      BY <2>5 DEF HandleDebugCommand
    <3> QED
      BY <2>1, <2>2, <3>1, MovePreserves, Places
  <2>6. CASE HandlePreemptInDebugger(t)
    <3>1. /\ loc[t] \in InHandler /\ UNCHANGED <<managerVars, scopes>>
          /\ Goto(t, NextStage("PREEMPT"))
      BY <2>6, Places DEF HandlePreemptInDebugger
    <3> QED
      BY <2>1, <2>2, <3>1, MovePreserves, Places
  <2> QED
    BY <1>7, <2>3, <2>4, <2>5, <2>6, HandlePreemptPreserves DEF Handle
<1>8. CASE UNCHANGED vars
  BY <1>2, <1>8 DEF vars
<1>9. CASE \E f \in Flag : Requested(f) \/ Cancelled(f)
  BY <1>2, <1>9 DEF Requested, Cancelled
<1>10. ASSUME NEW t \in Thread, LimitSet(t) PROVE StructInv'
  BY <1>2, <1>10 DEF LimitSet
<1> QED
  BY <1>3, <1>4, <1>5, <1>6, <1>7, <1>8, <1>9, <1>10, LockPreserves,
     PostponeEnterPreserves, PostponeLeavePreserves DEF Next, Enter

-------------------------------------------------------------------------------
(* The stack guards *)

\* A step of thread t that leaves the others where they are, with their guards
\* where they are or archived, needs to be looked at for t only.
LEMMA GuardsStep ==
    ASSUME IInv, NEW t \in Thread,
           \A u \in Thread \ {t} : scopes'[u] = scopes[u] /\ loc'[u] = loc[u],
           \A u \in Thread \ {t} : scopes[u] # << >> =>
              /\ GuardOf(u)' = GuardOf(u)
              /\ Holds(u)' => Holds(u) /\ UNCHANGED guardVars,
           scopes'[t] # << >> => Guarded(t, GuardOf(t))',
           Holds(t)' => Rooted(t)'
    PROVE  GuardsInv'
<1> SUFFICES ASSUME NEW u \in Thread \ {t}
             PROVE  /\ scopes'[u] # << >> => Guarded(u, GuardOf(u))'
                    /\ Holds(u)' => Rooted(u)'
  BY DEF GuardsInv
<1>1. /\ scopes[u] # << >> => Guarded(u, GuardOf(u))
      /\ Holds(u) => Rooted(u)
  BY DEF IInv, GuardsInv
<1>2. scopes'[u] = scopes[u] /\ loc'[u] = loc[u] /\ Postponed(u)' = Postponed(u)
  BY DEF Postponed
<1>3. CASE scopes[u] = << >>
  BY <1>2, <1>3 DEF Holds
<1>4. CASE scopes[u] # << >>
  <2>1. Guarded(u, GuardOf(u))'
    BY <1>1, <1>2, <1>4 DEF Guarded, OwnGuard, Shows, ShownForCause
  <2>2. Holds(u)' => Rooted(u)'
    <3> SUFFICES ASSUME Holds(u)' PROVE Rooted(u)'
      OBVIOUS
    <3>1. Rooted(u) /\ thread_local' = thread_local /\ roots' = roots
      BY <1>1, <1>4 DEF guardVars
    <3> QED
      BY <1>2, <3>1 DEF Rooted, Shows, ShownForCause
  <2> QED
    BY <2>1, <2>2
<1> QED
  BY <1>3, <1>4

\* Only the guard of the thread that holds thread_local_ changes unless threads
\* are switched.
LEMMA HolderStep ==
    ASSUME IInv, NEW t \in Thread, Holds(t),
           \A u \in Thread \ {t} : scopes'[u] = scopes[u] /\ loc'[u] = loc[u],
           archive' = archive,
           Guarded(t, thread_local)', Rooted(t)'
    PROVE  GuardsInv'
<1>1. \A u \in Thread \ {t} : ~Holds(u)
  BY HolderFacts
<1>2. ASSUME NEW u \in Thread \ {t}, scopes[u] # << >>
      PROVE  /\ GuardOf(u)' = GuardOf(u)
             /\ ~Holds(u)'
  BY <1>1, <1>2 DEF Holds, GuardOf
<1>3. GuardOf(t)' = thread_local'
  BY DEF Holds, GuardOf
<1>4. Guarded(t, GuardOf(t))'
  BY <1>3 DEF Guarded, OwnGuard, Shows, ShownForCause
<1> QED
  BY <1>2, <1>4, GuardsStep

\* What the guards have to do with a thread's place is whether it is about to
\* postpone interrupts or to enable them.
Settled(t) == loc[t] \notin {"postponing", "enabling"}

\* The holder goes on without a change of its guard.
LEMMA HolderMoves ==
    ASSUME IInv, NEW t \in Thread, Holds(t), Settled(t), Settled(t)',
           Postponed(t)' = Postponed(t), UNCHANGED guardVars
    PROVE  Guarded(t, thread_local)' /\ Rooted(t)'
<1>1. thread_local' = thread_local /\ roots' = roots
  BY DEF guardVars
<1>2. Guarded(t, thread_local) /\ Rooted(t)
  BY HolderGuard
<1>3. Guarded(t, thread_local)'
  BY <1>1, <1>2 DEF Guarded, OwnGuard, Shows, ShownForCause, Settled
<1>4. Rooted(t)'
  BY <1>1, <1>2 DEF Rooted, Shows, ShownForCause, Settled
<1> QED
  BY <1>3, <1>4

\* A request to the thread that holds thread_local_ shows.
LEMMA RequestShown ==
    ASSUME IInv, NEW t \in Thread, Holds(t), NEW f \in Flag, Request(f),
           loc'[t] = loc[t], Postponed(t)' = Postponed(t)
    PROVE  Guarded(t, thread_local)' /\ Rooted(t)'
<1>1. thread_local \in ThreadLocal /\ roots \in Roots
  BY DEF IInv, TypeOK, Roots
<1>2. Guarded(t, thread_local) /\ Rooted(t)
  BY HolderGuard
<1>3. /\ thread_local'.real = thread_local.real
      /\ thread_local'.nesting = thread_local.nesting
      /\ thread_local'.flags = thread_local.flags \cup {f}
      /\ thread_local.nesting = 0 =>
            /\ thread_local'.limit = Interrupt
            /\ roots'.limit = Interrupt /\ roots'.real = thread_local.real
      /\ thread_local.nesting # 0 =>
            thread_local'.limit = thread_local.limit /\ roots' = roots
  BY <1>1, RequestEffect
<1>4. Guarded(t, thread_local)'
  BY <1>2, <1>3 DEF Guarded, OwnGuard, Shows, ShownForCause
<1>5. Rooted(t)'
  BY <1>2, <1>3 DEF Guarded, OwnGuard, Rooted, Shows, ShownForCause
<1> QED
  BY <1>4, <1>5

\* A request of that thread that is dealt with or cancelled no longer shows,
\* the others still do.
LEMMA ContinueShown ==
    ASSUME IInv, NEW t \in Thread, Holds(t), NEW f, Continue(f),
           Settled(t)' => Settled(t), loc'[t] = "enabling" => loc[t] = "enabling",
           Postponed(t)' = Postponed(t)
    PROVE  Guarded(t, thread_local)' /\ Rooted(t)'
<1>1. thread_local \in ThreadLocal /\ roots \in Roots
  BY DEF IInv, TypeOK, Roots
<1>2. Guarded(t, thread_local) /\ Rooted(t)
  BY HolderGuard
<1>3. /\ thread_local'.real = thread_local.real
      /\ thread_local'.nesting = thread_local.nesting
      /\ thread_local'.flags = thread_local.flags \ {f}
      /\ thread_local.nesting = 0 /\ thread_local'.flags = {} =>
            /\ thread_local'.limit = thread_local.real
            /\ roots'.limit = thread_local.real /\ roots'.real = thread_local.real
      /\ thread_local.nesting # 0 \/ thread_local'.flags # {} =>
            thread_local'.limit = thread_local.limit /\ roots' = roots
  BY <1>1, ContinueEffect
<1>4. thread_local'.flags # {} => thread_local.flags # {}
  BY <1>3
<1>5. thread_local.real # Interrupt
  BY <1>2, StackGuardAssumption DEF Guarded, OwnGuard
<1>6. Settled(t)' => Shows(t, thread_local.limit, thread_local)
  BY <1>2 DEF Guarded, OwnGuard, Shows, Settled
<1>7. Settled(t)' => Shows(t, roots.limit, thread_local)
  BY <1>2 DEF Rooted, Shows, Settled
<1>8. loc'[t] = "enabling" =>
         /\ ShownForCause(t, thread_local.limit, thread_local)
         /\ ShownForCause(t, roots.limit, thread_local)
         /\ thread_local.nesting = 0
  <2>1. loc[t] = "enabling" => thread_local.nesting = 0
    BY HolderGuard DEF IInv, ScopesNest, NestAt
  <2> QED
    BY <1>2, <2>1 DEF Guarded, Rooted
<1>9. CASE thread_local.nesting = 0 /\ thread_local'.flags = {}
  <2>1. /\ thread_local'.limit = thread_local.real
        /\ roots'.limit = thread_local.real /\ roots'.real = thread_local.real
    BY <1>3, <1>9
  <2>2. Guarded(t, thread_local)'
    BY <1>2, <1>3, <1>5, <1>9, <2>1 DEF Guarded, OwnGuard, Shows, ShownForCause
  <2>3. Rooted(t)'
    BY <1>2, <1>5, <1>9, <2>1 DEF Guarded, OwnGuard, Rooted, Shows, ShownForCause
  <2> QED
    BY <2>2, <2>3
<1>10. CASE thread_local.nesting # 0 \/ thread_local'.flags # {}
  <2>1. thread_local'.limit = thread_local.limit /\ roots' = roots
    BY <1>3, <1>10
  <2>2. thread_local.nesting = 0 /\ thread_local.flags # {} <=>
           thread_local'.nesting = 0 /\ thread_local'.flags # {}
    BY <1>3, <1>4, <1>10
  <2>3. /\ Settled(t)' => Shows(t, thread_local.limit, thread_local)'
        /\ Settled(t)' => Shows(t, roots.limit, thread_local)'
    BY <1>6, <1>7, <2>1, <2>2 DEF Shows, Settled
  <2>4. /\ ShownForCause(t, thread_local.limit, thread_local)'
        /\ ShownForCause(t, roots.limit, thread_local)'
    BY <1>3, <1>8, <1>10, <2>1 DEF ShownForCause
  <2>5. Guarded(t, thread_local)'
    BY <1>2, <1>3, <2>1, <2>3, <2>4 DEF Guarded, OwnGuard, Shows, Settled
  <2>6. Rooted(t)'
    BY <1>2, <2>1, <2>3, <2>4 DEF Rooted, Shows, Settled
  <2> QED
    BY <2>5, <2>6
<1> QED
  BY <1>9, <1>10

\* SetStackLimit moves the limits within the thread's own stack.
LEMMA LimitSetGuards ==
    ASSUME IInv, NEW t \in Thread, LimitSet(t)
    PROVE  GuardsInv'
<1>1. thread_local \in ThreadLocal
  BY DEF IInv, TypeOK
<1>2. /\ loc[t] = "js" /\ roots' = roots
      /\ scopes' = scopes /\ loc' = loc /\ archive' = archive
  BY DEF LimitSet, SetStackLimit, managerVars
<1>3. PICK l \in StackLimit :
         StackOf[l] = t /\ thread_local' = WithStackLimit(thread_local, l)
  BY DEF LimitSet, SetStackLimit
<1>4. Holds(t)
  BY <1>2, RunningAt, HolderFacts
<1>5. Guarded(t, thread_local) /\ Rooted(t)
  BY <1>4, HolderGuard
<1>6. /\ thread_local'.limit = IF thread_local.limit = thread_local.real
                               THEN l ELSE thread_local.limit
      /\ thread_local'.real = l
      /\ thread_local'.nesting = thread_local.nesting
      /\ thread_local'.flags = thread_local.flags
  BY <1>1, <1>3, LimitEffect
<1>7. l # Interrupt /\ thread_local.real # Interrupt
  BY <1>5, StackGuardAssumption DEF Guarded, OwnGuard
<1>8. Postponed(t)' = Postponed(t)
  BY <1>2 DEF Postponed
<1>9. Guarded(t, thread_local)'
  BY <1>2, <1>3, <1>5, <1>6, <1>7, <1>8 DEF Guarded, OwnGuard, Shows, ShownForCause
<1>10. Rooted(t)'
  BY <1>2, <1>5, <1>6 DEF Rooted, Shows, ShownForCause
<1> QED
  BY <1>2, <1>4, <1>9, <1>10, HolderStep

\* Counting the nesting up leaves the limits to PostponeDisable.
LEMMA PostponeEnterGuards ==
    ASSUME IInv, NEW t \in Thread, PostponeEnter(t)
    PROVE  GuardsInv'
<1>1. thread_local \in ThreadLocal /\ TypeOK
  BY DEF IInv, TypeOK
<1>2. /\ loc[t] = "js" /\ Postpone /\ Push(t, "postpone") /\ Goto(t, "postponing")
      /\ archive' = archive
  BY DEF PostponeEnter, managerVars
<1>3. Holds(t)
  BY <1>2, RunningAt, HolderFacts
<1>4. Guarded(t, thread_local) /\ Rooted(t)
  BY <1>3, HolderGuard
<1>5. /\ thread_local'.limit = thread_local.limit
      /\ thread_local'.real = thread_local.real
      /\ thread_local'.nesting = thread_local.nesting + 1
      /\ roots' = roots
  BY <1>1, <1>2, PostponeEffect
<1>6. /\ Cardinality(Postponed(t)') = Cardinality(Postponed(t)) + 1
      /\ \A u \in Thread \ {t} : scopes'[u] = scopes[u] /\ loc'[u] = loc[u]
      /\ loc'[t] = "postponing"
  BY <1>1, <1>2, PushFacts, PushDepth, GotoFacts, PlacesApart DEF Kind
<1>7. Guarded(t, thread_local)'
  BY <1>4, <1>5, <1>6 DEF Guarded, OwnGuard, Shows, ShownForCause
<1>8. Rooted(t)'
  BY <1>4, <1>5, <1>6 DEF Rooted, Shows, ShownForCause
<1> QED
  BY <1>2, <1>3, <1>6, <1>7, <1>8, HolderStep

\* Counting it down leaves them to PostponeEnable.
LEMMA PostponeLeaveGuards ==
    ASSUME IInv, NEW t \in Thread, PostponeLeave(t)
    PROVE  GuardsInv'
<1>1. thread_local \in ThreadLocal /\ TypeOK
  BY DEF IInv, TypeOK
<1> DEFINE l == IF thread_local.nesting = 1 THEN "enabling" ELSE "js"
<1>2. /\ loc[t] = "js" /\ Top(t) = "postpone" /\ EndPostpone /\ Pop(t) /\ Goto(t, l)
      /\ archive' = archive
  BY DEF PostponeLeave, managerVars
<1>3. Holds(t)
  BY <1>2, RunningAt, HolderFacts
<1>4. Guarded(t, thread_local) /\ Rooted(t)
  BY <1>3, HolderGuard
<1>5. /\ Cardinality(Postponed(t)') = Cardinality(Postponed(t)) - 1
      /\ Postponed(t) # {}
      /\ \A u \in Thread \ {t} : scopes'[u] = scopes[u] /\ loc'[u] = loc[u]
      /\ loc'[t] = l
  BY <1>1, <1>2, <1>3, PopFacts, PopDepth, GotoFacts, PlacesApart DEF Holds
<1>6. thread_local.nesting \in Nat \ {0}
  BY <1>1, <1>3, <1>5, HolderGuard, DepthFacts
<1>7. /\ thread_local'.limit = thread_local.limit
      /\ thread_local'.real = thread_local.real
      /\ thread_local'.nesting = thread_local.nesting - 1
      /\ thread_local'.flags = thread_local.flags
      /\ roots' = roots
  BY <1>1, <1>2, <1>6, EndPostponeEffect
<1>8. thread_local.limit # Interrupt /\ roots.limit # Interrupt
  BY <1>2, <1>4, <1>6 DEF Guarded, OwnGuard, Rooted, Shows
<1>9. l = "js" => thread_local'.nesting # 0
  BY <1>6, <1>7
<1> HIDE DEF l
<1>10. Guarded(t, thread_local)'
  BY <1>4, <1>5, <1>7, <1>8, <1>9, PlacesApart DEF Guarded, OwnGuard, Shows, ShownForCause, l
<1>11. Rooted(t)'
  BY <1>4, <1>5, <1>7, <1>8, <1>9 DEF Rooted, Shows, ShownForCause, l
<1> QED
  BY <1>2, <1>3, <1>5, <1>10, <1>11, HolderStep

\* Then the limits follow.
LEMMA PostponingGuards ==
    ASSUME IInv, NEW t \in Thread, Postponing(t)
    PROVE  GuardsInv'
<1>1. thread_local \in ThreadLocal /\ roots \in Roots /\ TypeOK /\ ScopesNest
  BY DEF IInv, TypeOK, Roots
<1>2. /\ Goto(t, "js") /\ scopes' = scopes /\ archive' = archive
      /\ loc[t] \in {"postponing", "enabling"}
  BY DEF Postponing, PostponeDisable, PostponeEnable, managerVars
<1>3. Holds(t)
  BY <1>2, RunningAt, HolderFacts
<1>4. /\ Guarded(t, thread_local) /\ Rooted(t)
      /\ thread_local.real # Interrupt
      /\ Postponed(t) = {} <=> thread_local.nesting = 0
  BY <1>3, HolderGuard, StackGuardAssumption DEF Guarded, OwnGuard
<1>5. /\ loc'[t] = "js" /\ Postponed(t)' = Postponed(t)
      /\ \A u \in Thread \ {t} : scopes'[u] = scopes[u] /\ loc'[u] = loc[u]
  BY <1>1, <1>2, GotoFacts, PlacesApart DEF Postponed
<1>6. CASE PostponeDisable(t)
  <2>1. /\ thread_local'.limit = thread_local.real
        /\ thread_local'.real = thread_local.real
        /\ thread_local'.nesting = thread_local.nesting
        /\ thread_local'.flags = thread_local.flags
        /\ roots'.limit = thread_local.real /\ roots'.real = thread_local.real
    BY <1>1, <1>6, DisableEffect DEF PostponeDisable
  <2>2. thread_local.nesting # 0
    <3>1. Top(t) = "postpone" /\ scopes[t] \in Seq(Kind)
      BY <1>1, <1>6 DEF PostponeDisable, ScopesNest, NestAt, TypeOK
    <3>2. Postponed(t) # {}
      BY <1>1, <3>1, TopPostponed
    <3> QED
      BY <1>4, <3>2
  <2>3. Guarded(t, thread_local)'
    BY <1>4, <1>5, <2>1, <2>2 DEF Guarded, OwnGuard, Shows, ShownForCause
  <2>4. Rooted(t)'
    BY <1>4, <1>5, <2>1, <2>2 DEF Guarded, OwnGuard, Rooted, Shows, ShownForCause
  <2> QED
    BY <1>2, <1>3, <1>5, <2>3, <2>4, HolderStep
<1>7. CASE PostponeEnable(t)
  <2>1. /\ thread_local'.real = thread_local.real
        /\ thread_local'.nesting = thread_local.nesting
        /\ thread_local'.flags = thread_local.flags
        /\ thread_local.flags # {} =>
              /\ thread_local'.limit = Interrupt
              /\ roots'.limit = Interrupt /\ roots'.real = thread_local.real
        /\ thread_local.flags = {} =>
              thread_local'.limit = thread_local.limit /\ roots' = roots
    BY <1>1, <1>7, EnableEffect DEF PostponeEnable
  <2>2. loc[t] = "enabling" /\ thread_local.nesting = 0
    BY <1>1, <1>4, <1>7 DEF PostponeEnable, ScopesNest, NestAt
  <2>3. Guarded(t, thread_local)'
    BY <1>4, <1>5, <2>1, <2>2 DEF Guarded, OwnGuard, Shows, ShownForCause
  <2>4. Rooted(t)'
    BY <1>4, <1>5, <2>1, <2>2 DEF Guarded, OwnGuard, Rooted, Shows, ShownForCause
  <2> QED
    BY <1>2, <1>3, <1>5, <2>3, <2>4, HolderStep
<1> QED
  BY <1>6, <1>7 DEF Postponing

\* Requests that nobody's guard is there for are of no consequence.
LEMMA RequestedGuards ==
    ASSUME IInv, NEW f \in Flag, Requested(f) \/ Cancelled(f)
    PROVE  GuardsInv'
<1>1. /\ Request(f) \/ Continue(f)
      /\ scopes' = scopes /\ loc' = loc /\ archive' = archive
  BY DEF Requested, Cancelled, managerVars
<1> SUFFICES ASSUME NEW t \in Thread
             PROVE  /\ scopes'[t] # << >> => Guarded(t, GuardOf(t))'
                    /\ Holds(t)' => Rooted(t)'
  BY DEF GuardsInv
<1>2. loc'[t] = loc[t] /\ Postponed(t)' = Postponed(t)
  BY <1>1 DEF Postponed
<1>3. CASE Holds(t)
  <2>1. Guarded(t, thread_local)' /\ Rooted(t)'
    <3>1. CASE Request(f)
      BY <1>2, <1>3, <3>1, RequestShown
    <3>2. CASE Continue(f)
      <4>1. Settled(t)' = Settled(t)
        BY <1>2 DEF Settled
      <4> QED
        BY <1>2, <1>3, <3>2, <4>1, ContinueShown
    <3> QED
      BY <1>1, <3>1, <3>2
  <2>2. GuardOf(t)' = thread_local'
    BY <1>1, <1>3 DEF Holds, GuardOf
  <2> QED
    BY <2>1, <2>2 DEF Guarded, OwnGuard, Shows, ShownForCause
<1>4. CASE ~Holds(t) /\ scopes[t] # << >>
  <2>1. GuardOf(t)' = GuardOf(t) /\ ~Holds(t)'
    BY <1>1, <1>4 DEF Holds, GuardOf
  <2>2. Guarded(t, GuardOf(t))
    BY <1>4 DEF IInv, GuardsInv
  <2> QED
    BY <1>2, <2>1, <2>2 DEF Guarded, OwnGuard, Shows, ShownForCause
<1>5. CASE scopes[t] = << >>
  BY <1>1, <1>5 DEF Holds
<1> QED
  BY <1>3, <1>4, <1>5

\* The stack check and the handler.
LEMMA HandlerGuards ==
    ASSUME IInv, NEW t \in Thread, StackCheck(t) \/ Handle(t)
    PROVE  GuardsInv'
<1>1. TypeOK
  BY DEF IInv
<1> DEFINE H == {"js", "debugging"} \cup InHandler
<1>2. /\ loc[t] \in H /\ archive' = archive
      /\ \E l \in H \cup {"out"} : Goto(t, l)
      /\ UNCHANGED guardVars \/ \E f : Continue(f)
      /\ scopes' = scopes \/ Push(t, "preempt")
  <2>1. CASE StackCheck(t)
    BY <2>1, Places DEF StackCheck, managerVars
  <2>2. CASE HandleDebugBreak(t)
    BY <2>2, Places DEF HandleDebugBreak, managerVars
  <2>3. CASE HandleDebugCommand(t)
    BY <2>3, NextStageType, Places DEF HandleDebugCommand, managerVars
  <2>4. CASE HandlePreempt(t)
    BY <2>4, Places DEF HandlePreempt
  <2>5. CASE HandlePreemptInDebugger(t)
    BY <2>5, NextStageType, Places DEF HandlePreemptInDebugger, managerVars
  <2>6. ASSUME NEW f \in InHandler, HandleNothing(t, f) PROVE <1>2
    BY <2>6, NextStageType DEF HandleNothing, managerVars
  <2>7. ASSUME NEW f \in InHandler, HandleRequest(t, f) PROVE <1>2
    BY <2>7, NextStageType DEF HandleRequest, managerVars
  <2>8. ASSUME NEW f \in InHandler, HandleThrow(t, f) PROVE <1>2
    BY <2>8 DEF HandleThrow, managerVars
  <2> HIDE DEF H
  <2> QED
    BY <2>1, <2>2, <2>3, <2>4, <2>5, <2>6, <2>7, <2>8 DEF Handle
<1>3. Holds(t)
  BY <1>2, RunningAt, HolderFacts
<1>4. \A u \in Thread \ {t} : scopes'[u] = scopes[u] /\ loc'[u] = loc[u]
  BY <1>1, <1>2, PushFacts, GotoFacts, PlacesApart DEF Kind
<1>5. Postponed(t)' = Postponed(t)
  <2>1. CASE scopes' = scopes
    BY <2>1 DEF Postponed
  <2>2. CASE Push(t, "preempt")
    BY <1>1, <2>2, PushDepth DEF Kind
  <2> QED
    BY <1>2, <2>1, <2>2
<1>6. Settled(t) /\ Settled(t)'
  BY <1>1, <1>2, GotoFacts, PlacesApart DEF Settled
<1>7. Guarded(t, thread_local)' /\ Rooted(t)'
  <2>1. loc'[t] # "enabling"
    BY <1>6 DEF Settled
  <2>2. CASE UNCHANGED guardVars
    BY <1>3, <1>5, <1>6, <2>2, HolderMoves
  <2>3. ASSUME NEW f, Continue(f) PROVE Guarded(t, thread_local)' /\ Rooted(t)'
    BY <1>3, <1>5, <1>6, <2>1, <2>3, ContinueShown
  <2> QED
    BY <1>2, <2>2, <2>3
<1> QED
  BY <1>2, <1>3, <1>4, <1>7, HolderStep

\* Taking the lock changes nobody's guard.
LEMMA EnterGuards ==
    ASSUME IInv, NEW t \in Thread, Enter(t)
    PROVE  GuardsInv'
<1>1. TypeOK
  BY DEF IInv
<1>2. /\ loc[t] = "out"
      /\ Goto(t, "restore") \/ Goto(t, Returning)
      /\ UNCHANGED guardVars /\ archive' = archive /\ scopes' = scopes
  BY DEF Enter, LockerLock, UnlockerLock, guardVars
<1>3. \A u \in Thread \ {t} : loc'[u] = loc[u]
  BY <1>1, <1>2, GotoFacts, PlacesApart
<1>4. Settled(t) /\ Settled(t)'
  BY <1>1, <1>2, GotoFacts, PlacesApart DEF Settled
<1>5. Postponed(t)' = Postponed(t) /\ Holds(t)' = Holds(t)
  BY <1>2 DEF Postponed, Holds
<1>6. \A u \in Thread : GuardOf(u)' = GuardOf(u) /\ (Holds(u)' <=> Holds(u))
  BY <1>2 DEF GuardOf, Holds, guardVars
<1>7. scopes'[t] # << >> => Guarded(t, GuardOf(t))'
  <2>1. scopes[t] # << >> => Guarded(t, GuardOf(t))
    BY DEF IInv, GuardsInv
  <2> QED
    BY <1>2, <1>4, <1>5, <1>6, <2>1
       DEF Guarded, OwnGuard, Shows, ShownForCause, Settled
<1>8. Holds(t)' => Rooted(t)'
  <2>1. Holds(t) => Rooted(t)
    BY DEF IInv, GuardsInv
  <2> QED
    BY <1>2, <1>4, <1>5, <2>1 DEF Rooted, Shows, ShownForCause, Settled, guardVars
<1> QED
  BY <1>2, <1>3, <1>6, <1>7, <1>8, GuardsStep

\* A thread that gives up the lock leaves its guard where it is.
LEMMA LeaveGuards ==
    ASSUME IInv, NEW t \in Thread, Leave(t)
    PROVE  GuardsInv'
<1>1. TypeOK
  BY DEF IInv
<1>2. /\ loc[t] = "js" /\ Goto(t, "out") /\ archive' = archive /\ UNCHANGED guardVars
      /\ \/ Push(t, "unlocker")
         \/ Pop(t) /\ (scopes[t] = <<"locker">> \/ Top(t) = "locker")
  BY DEF Leave, LockerLeave, LockerArchive, Unlocker, ArchiveThread
<1>3. Holds(t)
  BY <1>2, RunningAt, HolderFacts
<1>4. /\ \A u \in Thread \ {t} : scopes'[u] = scopes[u] /\ loc'[u] = loc[u]
      /\ Settled(t) /\ Settled(t)'
  BY <1>1, <1>2, <1>3, PushFacts, PopFacts, GotoFacts, PlacesApart
     DEF Kind, Holds, Settled
<1>5. Postponed(t)' = Postponed(t)
  <2>1. CASE Push(t, "unlocker")
    BY <1>1, <2>1, PushDepth DEF Kind
  <2>2. CASE Pop(t) /\ (scopes[t] = <<"locker">> \/ Top(t) = "locker")
    <3>1. Top(t) = "locker"
      BY <2>2 DEF Top
    <3> QED
      BY <1>1, <1>3, <2>2, <3>1, PopDepth DEF Holds
  <2> QED
    BY <1>2, <2>1, <2>2
<1>6. Guarded(t, thread_local)' /\ Rooted(t)'
  BY <1>2, <1>3, <1>4, <1>5, HolderMoves
<1> QED
  BY <1>2, <1>3, <1>4, <1>6, HolderStep

\* A thread that goes on gets its own guard and roots.
LEMMA RestoreGuards ==
    ASSUME IInv, NEW t \in Thread, LockerRestore(t) \/ UnlockerRestore(t)
    PROVE  GuardsInv'
<1>1. TypeOK /\ LockInv
  BY DEF IInv
<1>2. /\ loc[t] \in {"restore", Returning}
      /\ TakeBack(t) \/ Restore(t)
      /\ \E l \in {"js", "TERMINATE"} : Goto(t, l)
      /\ \/ Push(t, "locker")
         \/ Pop(t) /\ loc[t] = Returning
  BY DEF LockerRestore, UnlockerRestore
<1>3. /\ scopes[t] # << >> /\ archive'[t] = Blank
      /\ \A u \in Thread \ {t} :
            scopes[u] # << >> => archive'[u] # Blank /\ archive'[u] = GuardOf(u)
      /\ thread_local' = GuardOf(t)
      /\ TakeBack(t) => Holds(t) /\ UNCHANGED guardVars
      /\ Restore(t) => roots' = LimitsOf(GuardOf(t)) /\ archive[t] # Blank
  BY <1>2, RestoreFacts
<1>4. /\ \A u \in Thread \ {t} : scopes'[u] = scopes[u] /\ loc'[u] = loc[u]
      /\ Settled(t) /\ Settled(t)'
  BY <1>1, <1>2, <1>3, PushFacts, PopFacts, GotoFacts, PlacesApart, Places
     DEF Kind, Settled
<1>5. Postponed(t)' = Postponed(t)
  <2>1. CASE Push(t, "locker")
    BY <1>1, <2>1, PushDepth DEF Kind
  <2>2. CASE Pop(t) /\ loc[t] = Returning
    <3>1. Top(t) # "postpone"
      BY <1>1, <2>2 DEF LockInv
    <3> QED
      BY <1>1, <1>3, <2>2, <3>1, PopDepth
  <2> QED
    BY <1>2, <2>1, <2>2
<1>6. Guarded(t, GuardOf(t))
  BY <1>3 DEF IInv, GuardsInv
<1>7. GuardOf(t)' = thread_local'
  BY <1>3 DEF GuardOf
<1>8. Guarded(t, GuardOf(t))'
  BY <1>3, <1>4, <1>5, <1>6, <1>7 DEF Guarded, OwnGuard, Shows, ShownForCause, Settled
<1>9. Rooted(t)'
  <2>1. CASE TakeBack(t)
    BY <1>3, <1>4, <1>5, <2>1, HolderMoves
  <2>2. CASE Restore(t)
    <3>1. GuardOf(t) \in ThreadLocal
      BY <1>1 DEF TypeOK, GuardOf
    <3>2. roots'.limit = GuardOf(t).limit /\ roots'.real = GuardOf(t).real
      BY <1>3, <2>2, <3>1, LimitsOfType
    <3> QED
      BY <1>3, <1>4, <1>6, <3>2
         DEF Rooted, Guarded, OwnGuard, Shows, ShownForCause, Settled
  <2> QED
    BY <1>2, <2>1, <2>2
<1>10. \A u \in Thread \ {t} : scopes[u] # << >> =>
          GuardOf(u)' = GuardOf(u) /\ ~Holds(u)'
  BY <1>3 DEF GuardOf, Holds
<1> QED
  BY <1>4, <1>8, <1>9, <1>10, GuardsStep

\* No guard is in place until InitThread.
LEMMA RestoreNothingGuards ==
    ASSUME IInv, NEW t \in Thread, LockerRestoreNothing(t)
    PROVE  GuardsInv'
<1>1. TypeOK
  BY DEF IInv
<1>2. loc[t] = "restore" /\ Goto(t, "init") /\ scopes' = scopes
  BY DEF LockerRestoreNothing
<1>3. /\ scopes[t] = << >>
      /\ \A u \in Thread \ {t} :
            scopes[u] # << >> => archive'[u] # Blank /\ archive'[u] = GuardOf(u)
  BY <1>2, RestoreNothingFacts DEF LockerRestoreNothing
<1>4. \A u \in Thread \ {t} : scopes'[u] = scopes[u] /\ loc'[u] = loc[u]
  BY <1>1, <1>2, GotoFacts, PlacesApart
<1>5. \A u \in Thread \ {t} : scopes[u] # << >> =>
         GuardOf(u)' = GuardOf(u) /\ ~Holds(u)'
  BY <1>3 DEF GuardOf, Holds
<1>6. scopes'[t] = << >> /\ ~Holds(t)'
  BY <1>2, <1>3 DEF Holds
<1> QED
  BY <1>4, <1>5, <1>6, GuardsStep

\* InitThread puts one in place.
LEMMA LockerInitGuards ==
    ASSUME IInv, NEW t \in Thread, LockerInit(t)
    PROVE  GuardsInv'
<1>1. TypeOK /\ StoredInv
  BY DEF IInv
<1>2. /\ loc[t] = "init" /\ Push(t, "locker") /\ Goto(t, "js") /\ archive' = archive
  BY DEF LockerInit, managerVars
<1>3. PICK l \in StackLimit :
         /\ StackOf[l] = t
         /\ thread_local' = InitThread(Blank, l, stored[t])
         /\ roots' = LimitsOf(Fresh(l))
  BY DEF LockerInit
<1>4. /\ lazy = NoThread /\ scopes[t] = << >> /\ archive[t] = Blank
      /\ \A u \in Thread : scopes[u] # << >> => archive[u] # Blank
  BY <1>2, EnteringFacts, ThreadManagerAssumption
<1>5. /\ \A u \in Thread \ {t} : scopes'[u] = scopes[u] /\ loc'[u] = loc[u]
      /\ loc'[t] = "js" /\ Postponed(t)' = Postponed(t)
  BY <1>1, <1>2, PushFacts, PushDepth, GotoFacts, PlacesApart DEF Kind
<1>6. \A u \in Thread \ {t} : scopes[u] # << >> =>
         GuardOf(u)' = GuardOf(u) /\ ~Holds(u)'
  BY <1>2, <1>4 DEF GuardOf, Holds
<1>7. Postponed(t) = {}
  BY <1>4 DEF Postponed
<1>8. Cardinality(Postponed(t)') = 0
  BY <1>1, <1>5, <1>7, DepthFacts
<1>9. stored[t] \in StackLimit \cup {Illegal}
  BY <1>1 DEF TypeOK
<1>10. /\ thread_local'.limit = IF stored[t] = Illegal THEN l ELSE stored[t]
       /\ thread_local'.real = thread_local'.limit
       /\ thread_local'.nesting = 0 /\ thread_local'.flags = {}
       /\ roots'.limit = l /\ roots'.real = l
  BY <1>3, <1>9, InitThreadEffect, FreshTypes, LimitsOfType
<1>11. /\ thread_local'.limit \in StackLimit /\ StackOf[thread_local'.limit] = t
       /\ thread_local'.limit # Interrupt /\ l # Interrupt
  BY <1>1, <1>3, <1>9, <1>10, StackGuardAssumption DEF StoredInv
<1>12. GuardOf(t)' = thread_local'
  BY <1>2, <1>4 DEF GuardOf
<1>13. Guarded(t, GuardOf(t))'
  BY <1>5, <1>8, <1>10, <1>11, <1>12 DEF Guarded, OwnGuard, Shows, ShownForCause
<1>14. Rooted(t)'
  BY <1>3, <1>5, <1>10, <1>11 DEF Rooted, Shows, ShownForCause
<1> QED
  BY <1>5, <1>6, <1>13, <1>14, GuardsStep

\* Every step preserves the guards of all threads.
LEMMA GuardsPreserved ==
    ASSUME IInv, [Next]_vars
    PROVE  GuardsInv'
<1>1. CASE UNCHANGED vars
  <2> SUFFICES ASSUME NEW t \in Thread
               PROVE  /\ scopes'[t] # << >> => Guarded(t, GuardOf(t))'
                      /\ Holds(t)' => Rooted(t)'
    BY DEF GuardsInv
  <2>1. /\ thread_local' = thread_local /\ roots' = roots
        /\ scopes' = scopes /\ loc' = loc /\ archive' = archive
    BY <1>1 DEF vars, guardVars, managerVars
  <2>2. GuardOf(t)' = GuardOf(t) /\ Holds(t)' = Holds(t) /\ Postponed(t)' = Postponed(t)
    BY <2>1 DEF GuardOf, Holds, Postponed
  <2>3. /\ scopes[t] # << >> => Guarded(t, GuardOf(t))
        /\ Holds(t) => Rooted(t)
    BY DEF IInv, GuardsInv
  <2>4. scopes'[t] # << >> => Guarded(t, GuardOf(t))'
    BY <2>1, <2>2, <2>3 DEF Guarded, OwnGuard, Shows, ShownForCause
  <2>5. Holds(t)' => Rooted(t)'
    BY <2>1, <2>2, <2>3 DEF Rooted, Shows, ShownForCause
  <2> QED
    BY <2>4, <2>5
<1> QED
  BY <1>1, RequestedGuards, HandlerGuards, EnterGuards, LeaveGuards, RestoreGuards,
     RestoreNothingGuards, LockerInitGuards, LimitSetGuards, PostponeEnterGuards,
     PostponeLeaveGuards, PostponingGuards DEF Next, Resume

\* A thread that leaves V8 leaves its own limit behind.
LEMMA StoredPreserved ==
    ASSUME IInv, [Next]_vars
    PROVE  StoredInv'
<1>1. StoredInv /\ TypeOK
  BY DEF IInv
<1>2. CASE stored' = stored
  BY <1>1, <1>2 DEF StoredInv
<1>3. ASSUME NEW t \in Thread, LockerLeave(t) PROVE StoredInv'
  <2>1. loc[t] = "js" /\ stored' = [stored EXCEPT ![t] = thread_local.real]
    BY <1>3 DEF LockerLeave
  <2>2. Guarded(t, thread_local)
    BY <2>1, RunningAt, HolderFacts, HolderGuard
  <2>3. StackOf[thread_local.real] = t
    BY <2>2 DEF Guarded, OwnGuard
  <2> QED
    BY <1>1, <2>1, <2>3 DEF StoredInv, TypeOK
<1> QED
  BY <1>2, <1>3
     DEF Next, vars, managerVars, Enter, LockerLock, UnlockerLock, Resume, LockerRestore,
         LockerRestoreNothing, LockerInit, UnlockerRestore, Leave, LockerArchive,
         Unlocker, LimitSet, PostponeEnter, PostponeLeave, Postponing,
         PostponeDisable, PostponeEnable, StackCheck, Handle, HandleNothing,
         HandleRequest, HandleThrow, HandleDebugBreak, HandleDebugCommand,
         HandlePreempt, HandlePreemptInDebugger, Requested, Cancelled

-------------------------------------------------------------------------------
(* The theorems *)

\* The inductive invariant is one.
LEMMA Invariant == Spec => []IInv
<1>1. Init => IInv
  <2> SUFFICES ASSUME Init PROVE IInv
    OBVIOUS
  <2>1. PICK l \in StackLimit : thread_local = Fresh(l)
    BY DEF Init
  <2>2. /\ roots = LimitsOf(thread_local) /\ owner = NoThread /\ lazy = NoThread
        /\ archive = [t \in Thread |-> Blank] /\ stored = [t \in Thread |-> Illegal]
        /\ scopes = [t \in Thread |-> << >>] /\ loc = [t \in Thread |-> "out"]
    BY DEF Init
  <2>3. GuardTyped
    BY <2>1, <2>2, FreshTypes, LimitsOfType DEF GuardTyped
  <2>4. PlaceTyped /\ ManagerTyped
    BY <2>2, FreshTypes, EmptySeq DEF PlaceTyped, ManagerTyped
  <2>5. \A t \in Thread : ~Running(t) /\ Top(t) = "none" /\ Postponed(t) = {}
    <3> SUFFICES ASSUME NEW t \in Thread
                 PROVE  ~Running(t) /\ Top(t) = "none" /\ Postponed(t) = {}
      OBVIOUS
    <3>1. owner # t
      BY <2>2, ThreadManagerAssumption
    <3>2. scopes[t] = << >>
      BY <2>2
    <3> QED
      BY <3>1, <3>2 DEF Running, Top, Postponed
  <2>6. LockInv
    <3>1. \A t \in Thread : /\ owner # t /\ loc[t] = "out"
                            /\ archive[t] = Blank /\ scopes[t] = << >>
      BY <2>2, ThreadManagerAssumption
    <3> QED
      BY <2>2, <2>5, <3>1, PlacesApart DEF LockInv
  <2>7. ScopesNest
    <3> SUFFICES ASSUME NEW t \in Thread PROVE Nested(scopes[t]) /\ NestAt(t)
      BY DEF ScopesNest
    <3>1. scopes[t] = << >> /\ DOMAIN scopes[t] = {} /\ loc[t] = "out"
      BY <2>2
    <3> QED
      BY <2>5, <3>1 DEF Nested, NestAt
  <2>8. GuardsInv /\ StoredInv
    BY <2>2 DEF GuardsInv, Holds, StoredInv
  <2> QED
    BY <2>3, <2>4, <2>6, <2>7, <2>8, TypeParts DEF IInv
<1>2. IInv /\ [Next]_vars => IInv'
  <2> SUFFICES ASSUME IInv, [Next]_vars PROVE IInv'
    OBVIOUS
  <2>1. StructInv' /\ GuardTyped' /\ GuardsInv' /\ StoredInv'
    BY StructPreserved, GuardTypePreserved, GuardsPreserved, StoredPreserved
  <2> QED
    BY <2>1, TypePartsNext DEF IInv, StructInv
<1> QED
  BY <1>1, <1>2, PTL DEF Spec

\* Every thread inside V8 has its own stack guard, in thread_local_ or in its
\* ThreadState, with its limit, its postponements and its requests.
THEOREM OwnGuards == Spec => []GuardInv
<1>1. IInv => GuardInv
  BY DEF IInv, GuardInv, GuardsInv, Guarded, StoredInv
<1> QED
  BY <1>1, Invariant, PTL

\* The limit that generated code compares the stack pointer with is the running
\* thread's own or shows that there is a request to handle.
THEOREM LimitShows == Spec => []LimitShowsRequest
<1>1. IInv => LimitShowsRequest
  <2> SUFFICES ASSUME IInv, NEW t \in Thread, Running(t)
               PROVE  /\ roots.limit \in {roots.real, Interrupt}
                      /\ roots.real \in StackLimit /\ StackOf[roots.real] = t
                      /\ Shows(t, roots.limit, thread_local)
    BY DEF LimitShowsRequest
  <2> QED
    BY HolderFacts, HolderGuard DEF Rooted
<1> QED
  BY <1>1, Invariant, PTL

-------------------------------------------------------------------------------
(* PendingRequests *)

Inside == {t \in Thread : scopes[t] # << >>}
Pending == [t \in Thread |-> IF scopes[t] # << >> THEN GuardOf(t).flags ELSE {}]

\* Requests go to the thread whose state is in thread_local_.
HolderIs ==
    /\ \A t \in Thread : Holds(t) => Holder = t
    /\ (\A t \in Thread : ~Holds(t)) => Holder = NoThread

\* The holder is the thread whose guard is in place.
LEMMA HolderIsHolds == IInv => HolderIs
<1> SUFFICES ASSUME IInv PROVE HolderIs
  OBVIOUS
<1>1. ASSUME NEW t \in Thread, Holds(t) PROVE Holder = t
  <2>1. CASE Running(t)
    BY <2>1, HolderFacts DEF Holder, SomeRunning, Running
  <2>2. CASE lazy = t
    BY <2>2, ThreadManagerAssumption DEF Holder
  <2> QED
    BY <1>1, <2>1, <2>2, HolderFacts
<1>2. ASSUME \A t \in Thread : ~Holds(t) PROVE Holder = NoThread
  <2>1. lazy = NoThread /\ ~SomeRunning
    BY <1>2, HolderFacts DEF IInv, TypeOK, SomeRunning
  <2> QED
    BY <2>1 DEF Holder
<1> QED
  BY <1>1, <1>2 DEF HolderIs

\* It is so in the next state.
LEMMA HolderIsHoldsNext == IInv' => HolderIs'
BY HolderIsHolds, PTL

\* The abstract state.
LEMMA MappedVars == Requests!vars = <<Inside, Holder, Pending>>
BY DEF Requests!vars, Inside, Pending

\* The next abstract state.
LEMMA MappedVarsNext == Requests!vars' = <<Inside', Holder', Pending'>>
BY DEF Requests!vars, Inside, Pending

\* Nobody enters or leaves V8 and no state is archived or restored.
SamePlaces ==
    /\ archive' = archive
    /\ \A t \in Thread : scopes'[t] = << >> <=> scopes[t] = << >>

\* Steps in which no thread comes or goes touch the holder's requests only.
LEMMA SamePlacesKeep ==
    ASSUME IInv, IInv', SamePlaces
    PROVE  /\ Inside' = Inside /\ Holder' = Holder
           /\ \A t \in Thread : Holds(t)' <=> Holds(t)
           /\ \A t \in Thread : ~Holds(t) => Pending'[t] = Pending[t]
           /\ \A t \in Thread : Holds(t) => /\ Holder = t /\ t \in Inside
                                            /\ Pending[t] = thread_local.flags
                                            /\ Pending'[t] = thread_local'.flags
<1>1. \A t \in Thread : Holds(t)' <=> Holds(t)
  BY DEF SamePlaces, Holds
<1>2. Inside' = Inside
  BY DEF SamePlaces, Inside
<1>3. HolderIs /\ HolderIs'
  BY HolderIsHolds, HolderIsHoldsNext
<1>4. Holder' = Holder
  BY <1>1, <1>3 DEF HolderIs
<1>5. ASSUME NEW t \in Thread, ~Holds(t) PROVE Pending'[t] = Pending[t]
  BY <1>5 DEF SamePlaces, Pending, Holds, GuardOf
<1>6. ASSUME NEW t \in Thread, Holds(t)
      PROVE  /\ Pending[t] = thread_local.flags /\ Pending'[t] = thread_local'.flags
             /\ t \in Inside
  BY <1>6 DEF SamePlaces, Pending, Holds, GuardOf, Inside
<1> QED
  BY <1>1, <1>2, <1>3, <1>4, <1>5, <1>6 DEF HolderIs

\* No thread's requests change.
LEMMA PendingEqual ==
    ASSUME \A t \in Thread : Pending'[t] = Pending[t]
    PROVE  Pending' = Pending
BY DEF Pending

\* One thread's requests change.
LEMMA PendingChange ==
    ASSUME NEW t \in Thread, NEW v, Pending'[t] = v,
           \A u \in Thread \ {t} : Pending'[u] = Pending[u]
    PROVE  Pending' = [Pending EXCEPT ![t] = v]
<1>1. Pending = [u \in Thread |-> Pending[u]] /\ Pending' = [u \in Thread |-> Pending'[u]]
  BY DEF Pending
<1> QED
  BY <1>1

\* Steps that leave the requests alone.
LEMMA StutterMaps ==
    ASSUME IInv, IInv', SamePlaces, thread_local'.flags = thread_local.flags
    PROVE  UNCHANGED Requests!vars
<1>1. /\ Inside' = Inside /\ Holder' = Holder
      /\ \A t \in Thread : Pending'[t] = Pending[t]
  BY SamePlacesKeep
<1> QED
  BY <1>1, PendingEqual, MappedVars, MappedVarsNext

\* A request, or taking one out, changes the requests of the thread whose state
\* is in thread_local_ and of no other.
LEMMA FlagsMap ==
    ASSUME IInv, IInv', SamePlaces, NEW f \in Flag,
           \/ thread_local'.flags = thread_local.flags \cup {f}
           \/ thread_local'.flags = thread_local.flags \ {f}
    PROVE  [Requests!Next]_(Requests!vars)
<1>1. CASE \A t \in Thread : ~Holds(t)
  <2>1. Inside' = Inside /\ Holder' = Holder /\ Pending' = Pending
    BY <1>1, SamePlacesKeep, PendingEqual
  <2> QED
    BY <2>1, MappedVars, MappedVarsNext
<1>2. ASSUME NEW t \in Thread, Holds(t) PROVE [Requests!Next]_(Requests!vars)
  <2>1. /\ Inside' = Inside /\ Holder' = Holder /\ Holder = t /\ t \in Inside
        /\ Pending[t] = thread_local.flags /\ Pending'[t] = thread_local'.flags
        /\ \A u \in Thread \ {t} : Pending'[u] = Pending[u]
    BY <1>2, SamePlacesKeep, HolderFacts
  <2>2. \/ Pending' = [Pending EXCEPT ![t] = Pending[t] \cup {f}]
        \/ Pending' = [Pending EXCEPT ![t] = Pending[t] \ {f}]
    BY <2>1, PendingChange
  <2>3. Requests!Request(f) \/ Requests!Take(f)
    BY <2>1, <2>2 DEF Requests!Request, Requests!Take, Inside, Pending
  <2> QED
    BY <2>3 DEF Requests!Next
<1> QED
  BY <1>1, <1>2

\* Continue is the handling of a request.
LEMMA ContinueMaps ==
    ASSUME IInv, IInv', SamePlaces, NEW f, Continue(f)
    PROVE  [Requests!Next]_(Requests!vars)
<1>1. /\ thread_local'.flags = thread_local.flags \ {f}
      /\ thread_local.flags \subseteq Flag
  BY ContinueEffect DEF IInv, TypeOK, Roots, ThreadLocal
<1>2. CASE f \in Flag
  BY <1>1, <1>2, FlagsMap
<1>3. CASE f \notin Flag
  <2>1. thread_local'.flags = thread_local.flags
    BY <1>1, <1>3
  <2> QED
    BY <2>1, StutterMaps
<1> QED
  BY <1>2, <1>3

\* A thread that restores its state becomes the one that requests go to, and
\* every thread has the requests it had.
LEMMA RestoreMaps ==
    ASSUME IInv, IInv', NEW t \in Thread, LockerRestore(t) \/ UnlockerRestore(t)
    PROVE  Requests!Switch(t)
<1>1. TypeOK /\ LockInv' /\ ScopesNest /\ LockInv /\ TypeOK'
  BY DEF IInv
<1>2. /\ loc[t] \in {"restore", Returning}
      /\ TakeBack(t) \/ Restore(t)
      /\ \/ Push(t, "locker")
         \/ Pop(t) /\ loc[t] = Returning
  BY DEF LockerRestore, UnlockerRestore
<1>3. /\ scopes[t] # << >> /\ archive'[t] = Blank
      /\ \A u \in Thread \ {t} :
            scopes[u] # << >> => archive'[u] # Blank /\ archive'[u] = GuardOf(u)
      /\ thread_local' = GuardOf(t)
  BY <1>2, RestoreFacts
<1>4. scopes'[t] # << >> /\ \A u \in Thread \ {t} : scopes'[u] = scopes[u]
  <2>1. CASE Push(t, "locker")
    BY <1>1, <2>1, PushFacts DEF Kind
  <2>2. CASE Pop(t) /\ loc[t] = Returning
    <3>1. Len(scopes[t]) > 1
      BY <1>1, <2>2, LockerBelow DEF LockInv
    <3> QED
      BY <1>1, <1>3, <2>2, <3>1, PopFacts
  <2> QED
    BY <1>2, <2>1, <2>2
<1>5. Holder' = t
  <2>1. Holds(t)'
    BY <1>3, <1>4 DEF Holds
  <2> QED
    BY <2>1, HolderIsHoldsNext DEF HolderIs
<1>6. Inside' = Inside /\ t \in Inside
  BY <1>3, <1>4 DEF Inside
<1>7. Pending' = Pending
  <2>1. \A u \in Thread : scopes[u] # << >> => GuardOf(u)' = GuardOf(u)
    BY <1>3 DEF GuardOf
  <2>2. \A u \in Thread : Pending'[u] = Pending[u]
    BY <1>3, <1>4, <2>1 DEF Pending
  <2> QED
    BY <2>2, PendingEqual
<1> QED
  BY <1>5, <1>6, <1>7 DEF Requests!Switch, Inside, Pending

\* A thread about to enter V8: the one whose state was in thread_local_ has been
\* archived with its requests.
LEMMA RestoreNothingMaps ==
    ASSUME IInv, IInv', NEW t \in Thread, LockerRestoreNothing(t)
    PROVE  Requests!Suspend
<1>1. TypeOK
  BY DEF IInv
<1>2. loc[t] = "restore" /\ scopes' = scopes
  BY DEF LockerRestoreNothing
<1>3. /\ scopes[t] = << >>
      /\ \A u \in Thread \ {t} :
            scopes[u] # << >> => archive'[u] # Blank /\ archive'[u] = GuardOf(u)
  BY <1>2, RestoreNothingFacts DEF LockerRestoreNothing
<1>4. Holder' = NoThread
  <2>1. \A u \in Thread : ~Holds(u)'
    BY <1>2, <1>3 DEF Holds
  <2> QED
    BY <2>1, HolderIsHoldsNext DEF HolderIs
<1>5. Inside' = Inside
  BY <1>2 DEF Inside
<1>6. Pending' = Pending
  <2>1. \A u \in Thread : scopes[u] # << >> => GuardOf(u)' = GuardOf(u)
    BY <1>3 DEF GuardOf
  <2>2. \A u \in Thread : Pending'[u] = Pending[u]
    BY <1>2, <2>1 DEF Pending
  <2> QED
    BY <2>2, PendingEqual
<1> QED
  BY <1>4, <1>5, <1>6 DEF Requests!Suspend, Inside, Pending

\* InitThread is the abstract entry.
LEMMA LockerInitMaps ==
    ASSUME IInv, IInv', NEW t \in Thread, LockerInit(t)
    PROVE  Requests!Enter(t)
<1>1. TypeOK
  BY DEF IInv
<1>2. loc[t] = "init" /\ Push(t, "locker") /\ archive' = archive
  BY DEF LockerInit, managerVars
<1>3. /\ scopes[t] = << >> /\ archive[t] = Blank
      /\ \A u \in Thread : scopes[u] # << >> => archive[u] # Blank
  BY <1>2, EnteringFacts, ThreadManagerAssumption
<1>4. scopes'[t] # << >> /\ \A u \in Thread \ {t} : scopes'[u] = scopes[u]
  BY <1>1, <1>2, PushFacts DEF Kind
<1>5. thread_local'.flags = {}
  <2>1. PICK l \in StackLimit : thread_local' = InitThread(Blank, l, stored[t])
    BY DEF LockerInit
  <2>2. stored[t] \in StackLimit \cup {Illegal}
    BY <1>1 DEF TypeOK
  <2> QED
    BY <2>1, <2>2, InitThreadEffect
<1>6. Holder' = t
  <2>1. Holds(t)'
    BY <1>2, <1>3, <1>4 DEF Holds
  <2> QED
    BY <2>1, HolderIsHoldsNext DEF HolderIs
<1>7. t \notin Inside /\ Inside' = Inside \cup {t}
  BY <1>3, <1>4 DEF Inside
<1>8. Pending' = Pending
  <2>1. \A u \in Thread \ {t} : Pending'[u] = Pending[u]
    BY <1>2, <1>3, <1>4 DEF Pending, GuardOf
  <2>2. Pending[t] = {} /\ Pending'[t] = {}
    BY <1>2, <1>3, <1>4, <1>5 DEF Pending, GuardOf
  <2> QED
    BY <2>1, <2>2, PendingEqual
<1> QED
  BY <1>6, <1>7, <1>8 DEF Requests!Enter, Inside, Pending

\* The end of the outermost Locker is the abstract exit.
LEMMA LockerLeaveMaps ==
    ASSUME IInv, IInv', NEW t \in Thread, LockerLeave(t)
    PROVE  Requests!Leave
<1>1. TypeOK
  BY DEF IInv
<1>2. /\ loc[t] = "js" /\ scopes[t] = <<"locker">> /\ Pop(t)
      /\ archive' = archive /\ thread_local' = thread_local
  BY DEF LockerLeave, guardVars
<1>3. Holds(t) /\ Holder = t /\ \A u \in Thread \ {t} : ~Holds(u)
  BY <1>2, RunningAt, HolderFacts, HolderIsHolds DEF HolderIs
<1>4. scopes'[t] = << >> /\ \A u \in Thread \ {t} : scopes'[u] = scopes[u]
  BY <1>1, <1>2, PopFacts
<1>5. Holder' = NoThread
  <2>1. \A u \in Thread : ~Holds(u)'
    BY <1>2, <1>3, <1>4 DEF Holds
  <2> QED
    BY <2>1, HolderIsHoldsNext DEF HolderIs
<1>6. t \in Inside /\ Inside' = Inside \ {t}
  BY <1>2, <1>4 DEF Inside
<1>7. Pending' = [Pending EXCEPT ![t] = {}]
  BY <1>2, <1>4 DEF Pending, GuardOf
<1> QED
  BY <1>3, <1>5, <1>6, <1>7 DEF Requests!Leave, Inside, Pending

\* Which steps touch the requests only, or nothing.
LEMMA OtherStepsMap ==
    ASSUME IInv, IInv', NEW t \in Thread,
           \/ Enter(t) \/ LockerArchive(t) \/ Unlocker(t) \/ LimitSet(t)
           \/ PostponeEnter(t) \/ PostponeLeave(t) \/ Postponing(t)
           \/ StackCheck(t) \/ Handle(t)
    PROVE  [Requests!Next]_(Requests!vars)
<1>1. TypeOK /\ ScopesNest /\ thread_local \in ThreadLocal /\ roots \in Roots
  BY DEF IInv, TypeOK, Roots
<1>2. ASSUME NEW k \in Kind, Push(t, k), archive' = archive, scopes[t] # << >>
      PROVE  SamePlaces
  BY <1>1, <1>2, PushFacts DEF SamePlaces
<1>3. ASSUME Pop(t), archive' = archive, Len(scopes[t]) > 1, scopes[t] # << >>
      PROVE  SamePlaces
  BY <1>1, <1>3, PopFacts DEF SamePlaces
<1>4. ASSUME scopes' = scopes, archive' = archive PROVE SamePlaces
  BY <1>4 DEF SamePlaces
<1>5. ASSUME loc[t] \in {"js", "debugging"} \cup InHandler PROVE scopes[t] # << >>
  BY <1>5, RunningAt, HolderFacts DEF Holds
<1>6. CASE Enter(t)
  <2>1. SamePlaces /\ thread_local' = thread_local
    BY <1>4, <1>6 DEF Enter, LockerLock, UnlockerLock, guardVars
  <2> QED
    BY <2>1, StutterMaps
<1>7. CASE LockerArchive(t)
  <2>1. /\ loc[t] = "js" /\ Len(scopes[t]) > 1 /\ Pop(t) /\ archive' = archive
        /\ thread_local' = thread_local
    BY <1>7 DEF LockerArchive, ArchiveThread, guardVars
  <2> QED
    BY <1>3, <1>5, <2>1, StutterMaps
<1>8. CASE Unlocker(t)
  <2>1. /\ loc[t] = "js" /\ Push(t, "unlocker") /\ archive' = archive
        /\ thread_local' = thread_local
    BY <1>8 DEF Unlocker, ArchiveThread, guardVars
  <2> QED
    BY <1>2, <1>5, <2>1, StutterMaps DEF Kind
<1>9. CASE LimitSet(t)
  <2>1. SamePlaces /\ thread_local'.flags = thread_local.flags
    BY <1>1, <1>4, <1>9, LimitEffect DEF LimitSet, SetStackLimit, managerVars
  <2> QED
    BY <2>1, StutterMaps
<1>10. CASE PostponeEnter(t)
  <2>1. loc[t] = "js" /\ Push(t, "postpone") /\ archive' = archive
    BY <1>10 DEF PostponeEnter, managerVars
  <2>2. thread_local'.flags = thread_local.flags
    BY <1>1, <1>10, PostponeEffect DEF PostponeEnter
  <2> QED
    BY <1>2, <1>5, <2>1, <2>2, StutterMaps DEF Kind
<1>11. CASE PostponeLeave(t)
  <2>1. /\ loc[t] = "js" /\ Top(t) = "postpone" /\ Pop(t) /\ archive' = archive
        /\ EndPostpone
    BY <1>11 DEF PostponeLeave, managerVars
  <2>2. Len(scopes[t]) > 1 /\ scopes[t] # << >>
    BY <1>1, <2>1, LockerBelow
  <2>3. thread_local.nesting # 0
    <3>1. Holds(t) /\ Postponed(t) # {}
      BY <1>1, <2>1, RunningAt, HolderFacts, TopPostponed
    <3> QED
      BY <3>1, HolderGuard
  <2>4. thread_local'.flags = thread_local.flags
    BY <1>1, <2>1, <2>3, EndPostponeEffect
  <2> QED
    BY <1>3, <2>1, <2>2, <2>4, StutterMaps
<1>12. CASE Postponing(t)
  <2>1. SamePlaces
    BY <1>4, <1>12 DEF Postponing, PostponeDisable, PostponeEnable, managerVars
  <2>2. thread_local'.flags = thread_local.flags
    BY <1>1, <1>12, DisableEffect, EnableEffect
       DEF Postponing, PostponeDisable, PostponeEnable
  <2> QED
    BY <2>1, <2>2, StutterMaps
<1>13. CASE StackCheck(t)
  <2>1. SamePlaces /\ thread_local' = thread_local
    BY <1>4, <1>13 DEF StackCheck, guardVars, managerVars
  <2> QED
    BY <2>1, StutterMaps
<1>14. CASE Handle(t)
  <2>1. ASSUME NEW f \in InHandler, HandleNothing(t, f)
        PROVE  SamePlaces /\ thread_local' = thread_local
    BY <1>4, <2>1 DEF HandleNothing, guardVars, managerVars
  <2>2. ASSUME NEW f, Continue(f), scopes' = scopes, archive' = archive
        PROVE  [Requests!Next]_(Requests!vars)
    BY <1>4, <2>2, ContinueMaps
  <2>3. CASE HandlePreempt(t)
    <3>1. /\ loc[t] \in InHandler /\ Push(t, "preempt") /\ archive' = archive
          /\ Continue("PREEMPT")
      BY <2>3, Places DEF HandlePreempt
    <3> QED
      BY <1>2, <1>5, <3>1, ContinueMaps DEF Kind
  <2>4. ASSUME NEW f \in InHandler, HandleRequest(t, f) \/ HandleThrow(t, f)
        PROVE  [Requests!Next]_(Requests!vars)
    BY <2>2, <2>4 DEF HandleRequest, HandleThrow, managerVars
  <2>5. CASE HandleDebugBreak(t) \/ HandleDebugCommand(t) \/ HandlePreemptInDebugger(t)
    BY <2>2, <2>5
       DEF HandleDebugBreak, HandleDebugCommand, HandlePreemptInDebugger, managerVars
  <2> QED
    BY <1>14, <2>1, <2>3, <2>4, <2>5, StutterMaps DEF Handle
<1> QED
  BY <1>6, <1>7, <1>8, <1>9, <1>10, <1>11, <1>12, <1>13, <1>14

\* Threads that take turns keep their requests: StackGuard and ThreadManager
\* implement PendingRequests.
THEOREM ImplementsPendingRequests == Spec => PendingSpec
<1>1. Init => Requests!Init
  <2> SUFFICES ASSUME Init PROVE Requests!Init
    OBVIOUS
  <2>1. /\ \A t \in Thread : scopes[t] = << >> /\ owner # t
        /\ lazy = NoThread
    BY ThreadManagerAssumption DEF Init
  <2>2. Holder = NoThread
    BY <2>1 DEF Holder, SomeRunning, Running
  <2> QED
    BY <2>1, <2>2 DEF Requests!Init
<1>2. IInv /\ IInv' /\ [Next]_vars => [Requests!Next]_(Requests!vars)
  <2> SUFFICES ASSUME IInv, IInv', [Next]_vars
               PROVE  [Requests!Next]_(Requests!vars)
    OBVIOUS
  <2>1. CASE UNCHANGED vars
    <3>1. SamePlaces /\ thread_local' = thread_local
      BY <2>1 DEF vars, guardVars, managerVars, SamePlaces
    <3> QED
      BY <3>1, StutterMaps
  <2>2. ASSUME NEW f \in Flag, Requested(f) \/ Cancelled(f)
        PROVE  [Requests!Next]_(Requests!vars)
    <3>1. SamePlaces /\ (Request(f) \/ Continue(f))
      BY <2>2 DEF Requested, Cancelled, SamePlaces, managerVars
    <3>2. CASE Request(f)
      <4>1. thread_local'.flags = thread_local.flags \cup {f}
        BY <3>2, RequestEffect DEF IInv, TypeOK, Roots
      <4> QED
        BY <3>1, <4>1, FlagsMap
    <3> QED
      BY <3>1, <3>2, ContinueMaps
  <2>3. ASSUME NEW t \in Thread, Resume(t) PROVE Requests!Next
    BY <2>3, RestoreMaps, RestoreNothingMaps, LockerInitMaps DEF Resume, Requests!Next
  <2>4. ASSUME NEW t \in Thread, LockerLeave(t) PROVE Requests!Next
    BY <2>4, LockerLeaveMaps DEF Requests!Next
  <2> QED
    BY <2>1, <2>2, <2>3, <2>4, OtherStepsMap DEF Next, Leave
<1> QED
  BY <1>1, <1>2, Invariant, PTL DEF Spec, PendingSpec, Requests!Spec
==============================================================================
