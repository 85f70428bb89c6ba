----------------------------- MODULE DependentCode -----------------------------
(***************************************************************************)
(* DependentCode: the array in which a map or a property cell lists the    *)
(* optimized code that must be deoptimized, and the compilations that must *)
(* be aborted, when an assumption about it ceases to hold.                 *)
(*                                                                         *)
(* The array is divided into groups of varying size without gaps, so every *)
(* insertion and removal shifts entries of other groups.  The main thread  *)
(* does all of this, but compilations overlap: one registers while its     *)
(* graph is built and becomes code much later, when others have come and   *)
(* gone, and every allocation may be a collection that disposes of queued  *)
(* compilations and forgets dead code.                                     *)
(*                                                                         *)
(* The module is about the array of one object.                            *)
(***************************************************************************)
EXTENDS Integers, FiniteSets

CONSTANTS
    Info,          \* CompilationInfos; bounds the compilations at a time
    CodeObject,    \* code objects; likewise
    NULL,          \* no object; undefined in the array
    kGroupCount,
    MaxUses        \* bound: registrations of a compilation

Group == 0..(kGroupCount - 1)
kWeaklyEmbeddedGroup == 0

ASSUME DependentCodeAssumption ==
    /\ kGroupCount \in Nat \ {0, 1}
    /\ MaxUses \in Nat \ {0}
    /\ NULL \notin Info \cup CodeObject
    /\ Info \cap CodeObject = {}

VARIABLES
    dep,        \* dependent_code(): the counters and the entries
    info,       \* "none", or where the compilation is
    aborted,    \* abort_due_to_dependency_
    uses,       \* dependencies_[group]->length() of each compilation
    codes,      \* "none", "new" before CommitDependencies, or "live"
    markedCode, \* marked_for_deoptimization()
    assumes,    \* auxiliary: the groups whose assumption the code relies on
    current,    \* the compilation whose graph or code is being made
    insert      \* an Insert that allocates a longer array: its arguments

infoVars == <<info, aborted, uses>>
codeVars == <<codes, markedCode, assumes>>
dependentVars == <<dep, infoVars, codeVars, current, insert>>

Undefined == [x \in {} |-> NULL]

NoUses == [g \in Group |-> 0]

DependentInit ==
    /\ dep = [count |-> NoUses, entry |-> Undefined]
    /\ info = [a \in Info |-> "none"] /\ aborted = [a \in Info |-> FALSE]
    /\ uses = [a \in Info |-> NoUses]
    /\ codes = [c \in CodeObject |-> "none"] /\ markedCode = [c \in CodeObject |-> FALSE]
    /\ assumes = [c \in CodeObject |-> {}]
    /\ current = NULL /\ insert = NULL

-------------------------------------------------------------------------------
(* The array *)

\* GroupStartIndexes
Start(d, g) ==
    LET start[h \in 0..kGroupCount] == IF h = 0 THEN 0 ELSE start[h - 1] + d.count[h - 1]
    IN  start[g]

Entries(d) == Start(d, kGroupCount)

Places(d, g) == Start(d, g)..(Start(d, g + 1) - 1)

Members(d, g) == {d.entry[i] : i \in Places(d, g)}

PlacesOf(d, g, x) == {i \in Places(d, g) : d.entry[i] = x}

\* The entries of an array that CopySizeFixedArray allocates for n entries.
Length(n) ==
    LET capacity == kGroupCount + n + 1
    IN  (IF capacity > 5 THEN (capacity * 5) \div 4 ELSE capacity) - kGroupCount

Grown(d) ==
    [d EXCEPT !.entry = [i \in 0..(Length(Entries(d)) - 1) |->
                             IF i < Entries(d) THEN d.entry[i] ELSE NULL]]

IsFull(d) == Cardinality(DOMAIN d.entry) = Entries(d)

\* ExtendGroup, which moves the first entry of each later group behind the
\* last, and the new entry.
Put(d, g, x) ==
    LET end(h) == Start(d, h + 1)
        later  == {h \in Group : h > g /\ d.count[h] > 0}
    IN  [count |-> [d.count EXCEPT ![g] = @ + 1],
         entry |-> [i \in DOMAIN d.entry |->
                       IF i = end(g) THEN x
                       ELSE IF \E h \in later : end(h) = i
                       THEN d.entry[Start(d, CHOOSE h \in later : end(h) = i)]
                       ELSE d.entry[i]]]

\* Fault: a compilation that registered twice is replaced once in the group.
UpdateFirst(d, a, c) ==
    [d EXCEPT !.entry = [i \in DOMAIN d.entry |->
        IF d.entry[i] = a /\ \E g \in Group :
              i \in Places(d, g) /\ \A j \in Places(d, g) : j < i => d.entry[j] # a
        THEN c ELSE d.entry[i]]]

\* UpdateToFinishedCode for each registration of a.
Update(d, a, c) ==
    [d EXCEPT !.entry = [i \in DOMAIN d.entry |->
        IF d.entry[i] = a
           /\ \E g \in Group :
                 /\ i \in Places(d, g)
                 /\ Cardinality({j \in PlacesOf(d, g, a) : j < i}) < uses[a][g]
        THEN c ELSE d.entry[i]]]

\* Fault: the last entry of the array fills the gap.
RemoveOnceByLast(d, g, a) ==
    LET found == PlacesOf(d, g, a)
        gap   == CHOOSE i \in found : \A j \in found : i <= j
    IN  IF found = {} THEN d
        ELSE [count |-> [d.count EXCEPT ![g] = @ - 1],
              entry |-> [i \in DOMAIN d.entry |->
                            IF i = Entries(d) - 1 THEN NULL
                            ELSE IF i = gap THEN d.entry[Entries(d) - 1]
                            ELSE d.entry[i]]]

\* RemoveCompilationInfo: the last entry of each group, from g on, fills the
\* gap in front of it.
RemoveOnce(d, g, a) ==
    LET found   == PlacesOf(d, g, a)
        last(h) == Start(d, h + 1) - 1
        gap(h)  == IF h = g THEN CHOOSE i \in found : \A j \in found : i <= j
                   ELSE last(h - 1)
        moved   == {h \in g..(kGroupCount - 1) : last(h) # gap(h)}
    IN  IF found = {} THEN d
        ELSE [count |-> [d.count EXCEPT ![g] = @ - 1],
              entry |-> [i \in DOMAIN d.entry |->
                            IF i = Entries(d) - 1 THEN NULL
                            ELSE IF \E h \in moved : gap(h) = i
                            THEN d.entry[last(CHOOSE h \in moved : gap(h) = i)]
                            ELSE d.entry[i]]]

\* The registrations of a group undone one after the other.
Removed(d, g, a, n) ==
    LET removed[k \in 0..n] == IF k = 0 THEN d ELSE RemoveOnce(removed[k - 1], g, a)
    IN  removed[n]

\* RollbackDependencies, for what is in dependencies_, group after group.
Rollback(d, a) ==
    LET rolled[g \in 0..kGroupCount] ==
            IF g = 0 THEN d ELSE Removed(rolled[g - 1], g - 1, a, uses[a][g - 1])
    IN  rolled[kGroupCount]

-------------------------------------------------------------------------------
(* Insertion *)

\* Insert finds its argument at the end of the group.
IsLast(g, x) == dep.count[g] > 0 /\ dep.entry[Start(dep, g + 1) - 1] = x

\* AddDependentCompilationInfo and AddDependentCode note who has registered.
Noted(g, x) ==
    IF x \in Info THEN /\ uses' = [uses EXCEPT ![x][g] = @ + 1]
                       /\ UNCHANGED assumes
    ELSE /\ assumes' = [assumes EXCEPT ![x] = @ \cup {g}]
         /\ UNCHANGED uses

\* Insert up to the allocation of a longer array, if it takes one.
Insert(g, x) ==
    /\ insert = NULL
    /\ \/ /\ IsLast(g, x)
          /\ Noted(g, x) /\ UNCHANGED <<dep, insert>>
       \/ /\ ~IsLast(g, x) /\ ~IsFull(dep)
          /\ dep' = Put(dep, g, x)
          /\ Noted(g, x) /\ UNCHANGED insert
       \/ /\ ~IsLast(g, x) /\ IsFull(dep)
          /\ insert' = [group |-> g, object |-> x]
          /\ UNCHANGED <<dep, uses, assumes>>
    /\ UNCHANGED <<info, aborted, codes, markedCode, current>>

\* The rest of it.  What a collection has removed in between only leaves the
\* copy more room than it needs.
InsertIntoCopy ==
    /\ insert # NULL
    /\ dep' = Put(Grown(dep), insert.group, insert.object)
    /\ Noted(insert.group, insert.object)
    /\ insert' = NULL
    /\ UNCHANGED <<info, aborted, codes, markedCode, current>>

-------------------------------------------------------------------------------
(* Compilations *)

\* RecompileJob::CreateGraph begins.
StartGraph(a) ==
    /\ current = NULL /\ info[a] = "none"
    /\ current' = a
    /\ info' = [info EXCEPT ![a] = "graph"]
    /\ UNCHANGED <<dep, aborted, uses, codeVars, insert>>

\* The graph is built on an assumption about the object.
AddDependentCompilationInfo(g) ==
    /\ current # NULL /\ info[current] = "graph"
    /\ g # kWeaklyEmbeddedGroup
    /\ Cardinality({r \in Group \X (1..MaxUses) : r[2] <= uses[current][r[1]]}) < MaxUses
    /\ Insert(g, current)

\* The graph is finished, and no assumption has ceased to hold meanwhile.
GraphCreated ==
    /\ current # NULL /\ info[current] = "graph" /\ insert = NULL
    /\ ~aborted[current]
    /\ info' = [info EXCEPT ![current] = "queued"]
    /\ current' = NULL
    /\ UNCHANGED <<dep, aborted, uses, codeVars, insert>>

\* The CompilationInfo is deleted: the graph could not be built, or the job is
\* flushed, aged, evicted, or not installed.  Other jobs than the one in hand
\* are deleted by collections (AgeBufferedOsrJobs) at any point.
Dispose(a) ==
    /\ \/ info[a] = "queued"
       \/ info[a] = "graph" /\ insert = NULL
    /\ dep' = Rollback(dep, a)
    /\ uses' = [uses EXCEPT ![a] = NoUses]
    /\ info' = [info EXCEPT ![a] = "none"]
    /\ aborted' = [aborted EXCEPT ![a] = FALSE]
    /\ current' = IF current = a THEN NULL ELSE current
    /\ UNCHANGED <<codeVars, insert>>

\* Fault: an aborted compilation is installed as well.
StartCodegenAnyway(a, c) ==
    /\ current = NULL /\ info[a] = "queued"
    /\ codes[c] = "none"
    /\ info' = [info EXCEPT ![a] = "codegen"]
    /\ codes' = [codes EXCEPT ![c] = "new"]
    /\ current' = a
    /\ UNCHANGED <<dep, aborted, uses, markedCode, assumes, insert>>

\* InstallOptimizedCode: GenerateAndInstallCode makes a code object.
StartCodegen(a, c) ==
    /\ current = NULL /\ info[a] = "queued" /\ ~aborted[a]
    /\ codes[c] = "none"
    /\ info' = [info EXCEPT ![a] = "codegen"]
    /\ codes' = [codes EXCEPT ![c] = "new"]
    /\ current' = a
    /\ UNCHANGED <<dep, aborted, uses, markedCode, assumes, insert>>

\* RegisterDependentCodeForEmbeddedMaps
AddDependentCode(c) ==
    /\ codes[c] = "new"
    /\ Insert(kWeaklyEmbeddedGroup, c)

\* CommitDependencies
CommitDependencies(c) ==
    /\ codes[c] = "new" /\ insert = NULL
    /\ dep' = Update(dep, current, c)
    /\ codes' = [codes EXCEPT ![c] = "live"]
    /\ assumes' = [assumes EXCEPT ![c] = @ \cup {g \in Group : uses[current][g] > 0}]
    /\ uses' = [uses EXCEPT ![current] = NoUses]
    /\ info' = [info EXCEPT ![current] = "none"]
    /\ current' = NULL
    /\ UNCHANGED <<aborted, markedCode, insert>>

-------------------------------------------------------------------------------
(* Assumptions that fail, and collections *)

\* DeoptimizeDependentCodeGroup.  Not while code is generated
\* (DisallowCodeDependencyChange).
DeoptimizeDependentCodeGroup(g) ==
    /\ g # kWeaklyEmbeddedGroup
    /\ insert = NULL /\ (current # NULL => info[current] = "graph")
    /\ aborted' = [a \in Info |-> aborted[a] \/ a \in Members(dep, g)]
    /\ markedCode' = [c \in CodeObject |-> markedCode[c] \/ c \in Members(dep, g)]
    /\ dep' = [count |-> [dep.count EXCEPT ![g] = 0],
               entry |-> [i \in DOMAIN dep.entry |->
                             IF i < Start(dep, g) THEN dep.entry[i]
                             ELSE IF i + dep.count[g] < Entries(dep)
                             THEN dep.entry[i + dep.count[g]]
                             ELSE NULL]]
    /\ UNCHANGED <<info, uses, codes, assumes, current, insert>>

\* Dead code is freed, and its address may be used again.
Freed(dead) ==
    /\ codes' = [c \in CodeObject |-> IF c \in dead THEN "none" ELSE codes[c]]
    /\ assumes' = [c \in CodeObject |-> IF c \in dead THEN {} ELSE assumes[c]]

\* A collection that finds the object alive: ClearNonLiveDependentCode closes
\* up what is left, group by group.
ClearNonLiveDependentCode(dead) ==
    /\ dead \subseteq {c \in CodeObject : codes[c] = "live"}
    /\ LET keep == {i \in 0..(Entries(dep) - 1) :
                        dep.entry[i] \notin dead \cup {c \in CodeObject : markedCode[c]}}
           target(i) == Cardinality({j \in keep : j < i})
       IN  dep' = [count |-> [g \in Group |-> Cardinality(keep \cap Places(dep, g))],
                   entry |-> [i \in DOMAIN dep.entry |->
                                 IF i < Cardinality(keep)
                                 THEN dep.entry[CHOOSE j \in keep : target(j) = i]
                                 ELSE NULL]]
    /\ Freed(dead)
    /\ markedCode' = [c \in CodeObject |-> markedCode[c] /\ c \notin dead]
    /\ UNCHANGED <<infoVars, current, insert>>

\* A collection that finds it dead, and what takes its place next: a
\* compilation that uses it would keep it alive.
ClearAndDeoptimizeDependentCode(dead) ==
    /\ insert = NULL
    /\ dead \subseteq {c \in CodeObject : codes[c] = "live"}
    /\ \A a \in Info : uses[a] = NoUses
    /\ \A c \in CodeObject : codes[c] = "new" => assumes[c] = {}
    /\ markedCode' = [c \in CodeObject |->
                     c \notin dead /\ (markedCode[c] \/ \E g \in Group : c \in Members(dep, g))]
    /\ dep' = [count |-> NoUses, entry |-> Undefined]
    /\ Freed(dead)
    /\ UNCHANGED <<infoVars, current, insert>>

-------------------------------------------------------------------------------
DependentNext ==
    \/ \E a \in Info : StartGraph(a) \/ Dispose(a) \/ \E c \in CodeObject : StartCodegen(a, c)
    \/ \E g \in Group : AddDependentCompilationInfo(g) \/ DeoptimizeDependentCodeGroup(g)
    \/ GraphCreated
    \/ \E c \in CodeObject : AddDependentCode(c) \/ CommitDependencies(c)
    \/ InsertIntoCopy
    \/ \E dead \in SUBSET CodeObject :
          ClearNonLiveDependentCode(dead) \/ ClearAndDeoptimizeDependentCode(dead)

DependentSpec == DependentInit /\ [][DependentNext]_dependentVars

-------------------------------------------------------------------------------
(* Properties *)

\* The array is what its comment draws: the counters divide the entries in
\* use, and undefined follows them (objects.h:5531).
ArrayOK ==
    /\ dep.count \in [Group -> Nat]
    /\ DOMAIN dep.entry = 0..(Cardinality(DOMAIN dep.entry) - 1)
    /\ Entries(dep) <= Cardinality(DOMAIN dep.entry)
    /\ \A i \in DOMAIN dep.entry :
          dep.entry[i] \in IF i < Entries(dep) THEN Info \cup CodeObject ELSE {NULL}

\* No compilation or code that relies on an assumption is forgotten before it
\* has been told that the assumption failed, wherever the entries have been
\* moved and whatever was collected in between.
NobodyForgotten ==
    /\ \A a \in Info, g \in Group :
          uses[a][g] > 0 /\ ~aborted[a] => a \in Members(dep, g)
    /\ \A c \in CodeObject, g \in Group :
          g \in assumes[c] /\ ~markedCode[c] => c \in Members(dep, g)

\* The array holds no deleted CompilationInfo and no freed code: the entries of
\* a compilation are never more than the registrations that its end undoes,
\* even if it is in a group more than once.
NoDanglingEntry ==
    /\ ArrayOK
    /\ \A g \in Group :
           /\ \A a \in Info : Cardinality(PlacesOf(dep, g, a)) <= uses[a][g]
           /\ \A c \in CodeObject : c \in Members(dep, g) => codes[c] # "none"

\* What Insert says of its search for duplicates (objects.cc:11617): looking at
\* the last entry of the group is enough.
NoInfoTwice ==
    \A g \in Group, i, j \in DOMAIN dep.entry :
        i \in Places(dep, g) /\ j \in Places(dep, g) /\ dep.entry[i] = dep.entry[j]
        /\ dep.entry[i] \in Info => i = j

\* The groups are the sets that DependencyGroups describes.
Abstract == INSTANCE DependencyGroups WITH
    Code <- CodeObject,
    members <- [g \in Group |-> Members(dep, g)],
    told <- {a \in Info : aborted[a]} \cup {c \in CodeObject : markedCode[c]}

GroupsSpec == Abstract!GroupsSpec
==============================================================================
