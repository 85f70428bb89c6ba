--------------------------- MODULE DependencyGroups ---------------------------
(***************************************************************************)
(* What the dependent_code() of a map or property cell is for: for each    *)
(* kind of assumption that optimized code may make about it, the           *)
(* compilations and the code that made it, so that all of them are told    *)
(* when it does not hold any more.                                         *)
(***************************************************************************)
CONSTANTS
    Group,       \* kinds of assumption
    Info,        \* compilations under way
    Code         \* finished code

VARIABLES
    members,     \* who relies on each assumption
    told         \* compilations aborted and code marked for deoptimization

groupsVars == <<members, told>>

GroupsInit == members = [g \in Group |-> {}] /\ told = {}

Join(x, g) ==
    /\ members' = [members EXCEPT ![g] = @ \cup {x}]
    /\ UNCHANGED told

\* The compilation has become code.
Finish(a, c) ==
    /\ a \notin told
    /\ members' = [g \in Group |-> IF a \in members[g] THEN (members[g] \ {a}) \cup {c}
                                   ELSE members[g]]
    /\ UNCHANGED told

\* The compilation is given up.
Leave(a) ==
    /\ members' = [g \in Group |-> members[g] \ {a}]
    /\ told' = told \ {a}

Break(g) ==
    /\ members' = [members EXCEPT ![g] = {}]
    /\ told' = told \cup members[g]

\* A collection forgets dead code and code that has been told.
Forget(dead) ==
    /\ members' = [g \in Group |-> members[g] \ (dead \cup (told \cap Code))]
    /\ told' = told \ dead

\* The object itself dies; only code may still refer to it, and that which
\* does not die with it is told.
Die(dead) ==
    /\ \A g \in Group : members[g] \subseteq Code
    /\ members' = [g \in Group |-> {}]
    /\ told' = (told \cup UNION {members[g] : g \in Group}) \ dead

GroupsNext ==
    \/ \E g \in Group : Break(g) \/ \E x \in Info \cup Code : Join(x, g)
    \/ \E a \in Info : Leave(a) \/ \E c \in Code : Finish(a, c)
    \/ \E dead \in SUBSET Code : Forget(dead) \/ Die(dead)

GroupsSpec == GroupsInit /\ [][GroupsNext]_groupsVars
==============================================================================
