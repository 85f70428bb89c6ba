---------------------------- MODULE PendingRequests ----------------------------
(***************************************************************************)
(* What StackGuard and ThreadManager together promise: every thread that   *)
(* is inside V8 has a set of interrupt requests of its own.  A request     *)
(* goes to the thread that ran last; switching threads neither loses a     *)
(* request nor gives it to another thread; only the thread itself, or a    *)
(* cancellation while it is the current one, takes a request out.          *)
(***************************************************************************)
CONSTANTS Thread, Flag, NoThread

VARIABLES
    inside,    \* the threads that have entered V8 and not left it
    current,   \* the thread requests go to, or NoThread
    pending    \* the requests of each thread

vars == <<inside, current, pending>>

Init ==
    /\ inside = {}
    /\ current = NoThread
    /\ pending = [t \in Thread |-> {}]

Enter(t) ==
    /\ t \notin inside
    /\ inside' = inside \cup {t}
    /\ current' = t
    /\ UNCHANGED pending

\* Another thread is about to enter: until it has, requests go to nobody.
Suspend ==
    /\ current' = NoThread
    /\ UNCHANGED <<inside, pending>>

Switch(t) ==
    /\ t \in inside
    /\ current' = t
    /\ UNCHANGED <<inside, pending>>

Leave ==
    /\ current \in inside
    /\ inside' = inside \ {current}
    /\ current' = NoThread
    /\ pending' = [pending EXCEPT ![current] = {}]

Request(f) ==
    /\ current \in inside
    /\ pending' = [pending EXCEPT ![current] = @ \cup {f}]
    /\ UNCHANGED <<inside, current>>

Take(f) ==
    /\ current \in inside
    /\ pending' = [pending EXCEPT ![current] = @ \ {f}]
    /\ UNCHANGED <<inside, current>>

Next ==
    \/ \E t \in Thread : Enter(t) \/ Switch(t)
    \/ Suspend
    \/ Leave
    \/ \E f \in Flag : Request(f) \/ Take(f)

Spec == Init /\ [][Next]_vars
==============================================================================
