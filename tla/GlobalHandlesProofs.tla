-------------------------- MODULE GlobalHandlesProofs --------------------------
(***************************************************************************)
(* Proofs about GlobalHandles: nodes and blocks are accounted for, the     *)
(* list of new-space nodes is complete, and a pass over all handles that   *)
(* is not given up visits every handle found dead, although the callbacks  *)
(* it runs change the list of blocks it walks.                             *)
(***************************************************************************)
EXTENDS GlobalHandles, WellFoundedInduction, NaturalsInduction, FiniteSetTheorems, TLAPS

\* A set of natural numbers has a least element.
LEMMA NatMin ==
    ASSUME NEW T \in SUBSET Nat, T # {}
    PROVE  \E x \in T : \A y \in T : x <= y
<1>1. PICK x \in T : \A y \in T : ~ (<<y, x>> \in OpToRel(<, Nat))
  BY NatLessThanWellFounded, WFMin
<1>2. \A y \in T : ~ (y < x)
  BY <1>1 DEF OpToRel
<1> QED
  BY <1>2

-------------------------------------------------------------------------------
(* Lists of nodes *)

Injective(s) == \A i, j \in DOMAIN s : s[i] = s[j] => i = j
Has(s, x) == \E i \in DOMAIN s : s[i] = x

\* How often something is on a list without repetition.
LEMMA Occurrences ==
    ASSUME NEW s, NEW x, Injective(s)
    PROVE  Cardinality({i \in DOMAIN s : s[i] = x}) = IF Has(s, x) THEN 1 ELSE 0
<1> DEFINE at == {i \in DOMAIN s : s[i] = x}
<1>1. CASE Has(s, x)
  <2>1. PICK i \in DOMAIN s : s[i] = x
    BY <1>1 DEF Has
  <2>2. at = {i}
    BY <2>1 DEF Injective
  <2> QED
    BY <1>1, <2>2, FS_Singleton
<1>2. CASE ~ Has(s, x)
  <2>1. at = {}
    BY <1>2 DEF Has
  <2> QED
    BY <1>2, <2>1, FS_EmptySet
<1> QED
  BY <1>1, <1>2

\* What Kept computes step by step.
KeptStep(s, keep, g, i) ==
    IF i = 0 THEN << >>
    ELSE IF s[i] \in keep THEN Append(g[i - 1], s[i])
    ELSE g[i - 1]

\* There is a function that satisfies the recursion of Kept.
LEMMA KeptExists ==
    ASSUME NEW S, NEW s \in Seq(S), NEW keep, NEW n \in 0..Len(s)
    PROVE  \E g : g = [i \in 0..n |-> KeptStep(s, keep, g, i)]
<1> DEFINE Defined(m) == \E g : g = [i \in 0..m |-> KeptStep(s, keep, g, i)]
           bad == {m \in 0..Len(s) : ~ Defined(m)}
<1>0. Len(s) \in Nat
  OBVIOUS
<1>1. SUFFICES ASSUME bad # {} PROVE FALSE
  OBVIOUS
<1>2. PICK m \in bad : \A k \in bad : m <= k
  <2>1. bad \in SUBSET Nat
    BY <1>0
  <2> HIDE DEF bad
  <2> QED
    BY <1>1, <2>1, NatMin
<1>3. m # 0
  <2>1. [i \in 0..0 |-> << >>] = [i \in 0..0 |-> KeptStep(s, keep, [j \in 0..0 |-> << >>], i)]
    BY DEF KeptStep
  <2>2. Defined(0)
    BY <2>1
  <2> QED
    BY <2>2
<1>4. m - 1 \in 0..Len(s) /\ m - 1 \notin bad
  BY <1>0, <1>2, <1>3
<1>5. PICK g : g = [i \in 0..(m - 1) |-> KeptStep(s, keep, g, i)]
  BY <1>4
<1> DEFINE h == [i \in 0..m |-> IF i = m THEN KeptStep(s, keep, g, i) ELSE g[i]]
<1>6. ASSUME NEW i \in 0..m PROVE h[i] = KeptStep(s, keep, h, i)
  <2>1. i # 0 => i - 1 \in 0..m /\ h[i - 1] = g[i - 1]
    BY <1>3, <1>4
  <2>2. KeptStep(s, keep, h, i) = KeptStep(s, keep, g, i)
    BY <2>1 DEF KeptStep
  <2>3. i # m => i \in 0..(m - 1)
    BY <1>4
  <2>4. i # m => g[i] = KeptStep(s, keep, g, i)
    BY <1>5, <2>3
  <2> QED
    BY <2>2, <2>4
<1>7. h = [i \in 0..m |-> KeptStep(s, keep, h, i)]
  BY <1>6
<1>8. Defined(m)
  BY <1>7
<1> QED
  BY <1>8

\* Kept keeps what it should, once if it was there once.
LEMMA KeptList ==
    ASSUME NEW S, NEW s \in Seq(S), NEW keep
    PROVE  /\ Kept(s, keep) \in Seq(S)
           /\ \A x : Has(Kept(s, keep), x) <=> Has(s, x) /\ x \in keep
           /\ Injective(s) => Injective(Kept(s, keep))
<1> DEFINE g == CHOOSE g : g = [i \in 0..Len(s) |-> KeptStep(s, keep, g, i)]
           Good(i) == /\ g[i] \in Seq(S)
                      /\ \A x : Has(g[i], x) <=> x \in keep /\ \E j \in 1..i : s[j] = x
                      /\ Injective(s) => Injective(g[i])
           bad == {i \in 0..Len(s) : ~ Good(i)}
<1>0. Len(s) \in Nat /\ DOMAIN s = 1..Len(s)
  OBVIOUS
<1>1. \E f : f = [i \in 0..Len(s) |-> KeptStep(s, keep, f, i)]
  <2>1. Len(s) \in 0..Len(s)
    BY <1>0
  <2> QED
    BY <2>1, KeptExists
<1>2. g = [i \in 0..Len(s) |-> KeptStep(s, keep, g, i)]
  BY <1>1
<1>3. Kept(s, keep) = g[Len(s)]
  BY DEF Kept, KeptStep
<1> HIDE DEF g
<1>4. ASSUME bad # {} PROVE FALSE
  <2>1. PICK m \in bad : \A k \in bad : m <= k
    <3>1. bad \in SUBSET Nat
      BY <1>0
    <3> HIDE DEF bad
    <3> QED
      BY <1>4, <3>1, NatMin
  <2>2. g[m] = KeptStep(s, keep, g, m)
    BY <1>2
  <2>3. CASE m = 0
    <3>1. g[m] = << >>
      BY <2>2, <2>3 DEF KeptStep
    <3>2. Good(m)
      BY <2>3, <3>1 DEF Has, Injective
    <3> QED
      BY <3>2
  <2>4. CASE m # 0
    <3>1. m - 1 \in 0..Len(s) /\ m - 1 \notin bad /\ m \in 1..Len(s)
      <4>1. m \in 0..Len(s)
        OBVIOUS
      <4>2. m - 1 < m /\ m - 1 \in 0..Len(s) /\ m \in 1..Len(s)
        BY <1>0, <2>4, <4>1
      <4> HIDE DEF bad
      <4> QED
        BY <1>0, <2>1, <4>1, <4>2
    <3>2. Good(m - 1)
      BY <3>1
    <3>3. \A x : (\E j \in 1..m : s[j] = x) <=> x = s[m] \/ \E j \in 1..(m - 1) : s[j] = x
      BY <3>1
    <3>4. CASE s[m] \notin keep
      <4>1. g[m] = g[m - 1]
        BY <2>2, <2>4, <3>4 DEF KeptStep
      <4>2. Good(m)
        BY <3>2, <3>3, <3>4, <4>1
      <4> QED
        BY <4>2
    <3>5. CASE s[m] \in keep
      <4> DEFINE p == g[m - 1]
      <4>1. g[m] = Append(p, s[m]) /\ p \in Seq(S) /\ s[m] \in S
        BY <2>2, <2>4, <3>1, <3>2, <3>5 DEF KeptStep
      <4> HIDE DEF p
      <4>2. /\ g[m] \in Seq(S)
            /\ DOMAIN g[m] = DOMAIN p \cup {Len(p) + 1}
            /\ \A i \in DOMAIN p : g[m][i] = p[i]
            /\ g[m][Len(p) + 1] = s[m]
        BY <4>1
      <4>3. \A x : Has(g[m], x) <=> Has(p, x) \/ x = s[m]
        BY <4>2 DEF Has
      <4>4. \A x : Has(p, x) <=> x \in keep /\ \E j \in 1..(m - 1) : s[j] = x
        BY <3>2 DEF p
      <4>5. \A x : Has(g[m], x) <=> x \in keep /\ \E j \in 1..m : s[j] = x
        BY <3>3, <3>5, <4>3, <4>4
      <4>6. ASSUME Injective(s) PROVE Injective(g[m])
        <5>1. Injective(p)
          BY <3>2, <4>6 DEF p
        <5>2. ~ Has(p, s[m])
          <6>1. ~ \E j \in 1..(m - 1) : s[j] = s[m]
            BY <1>0, <3>1, <4>6 DEF Injective
          <6> QED
            BY <4>4, <6>1
        <5> QED
          BY <4>2, <5>1, <5>2 DEF Injective, Has
      <4>7. Good(m)
        BY <4>2, <4>5, <4>6
      <4> QED
        BY <4>7
    <3> QED
      BY <3>4, <3>5
  <2> QED
    BY <2>3, <2>4
<1>5. Good(Len(s))
  <2>1. Len(s) \in 0..Len(s)
    BY <1>0
  <2> HIDE DEF Good
  <2> QED
    BY <1>4, <2>1
<1> QED
  BY <1>0, <1>3, <1>5 DEF Has

-------------------------------------------------------------------------------
(* The list of blocks in use *)

ClosedBy(nx, S) == \A b \in S : nx[b] # NULL => nx[b] \in S

\* The links nx and pv make the blocks U a list that begins with f.  That the
\* list has all of U is said without counting along it: whoever follows the
\* links from f stays among the members of a set only if it has all of U.
Linked(U, f, nx, pv) ==
    /\ U \subseteq Block /\ f \in U \cup {NULL}
    /\ nx \in [Block -> Block \cup {NULL}]
    /\ pv \in [Block -> Block \cup {NULL}]
    /\ f # NULL => pv[f] = NULL
    /\ \A b \in U : nx[b] # NULL => nx[b] \in U /\ nx[b] # b /\ pv[nx[b]] = b
    /\ \A b \in U : b # f => pv[b] \in U /\ nx[pv[b]] = b
    /\ \A S \in SUBSET Block : ClosedBy(nx, S) /\ (f # NULL => f \in S) => U \subseteq S

\* The links nx lead from what follows block b to c.
Leads(nx, b, c) ==
    \A S \in SUBSET Block : ClosedBy(nx, S) /\ (nx[b] # NULL => nx[b] \in S) => c \in S

\* The links after block b has been put in front, and after it has been taken out.
NextWith(b, f, nx) == [nx EXCEPT ![b] = f]
PrevWith(b, f, pv) == [c \in Block |-> IF c = b THEN NULL ELSE IF c = f THEN b ELSE pv[c]]
FirstWithout(b, f, nx) == IF b = f THEN nx[b] ELSE f
PrevWithout(b, nx, pv) == [c \in Block |-> IF c = nx[b] THEN pv[b] ELSE pv[c]]
NextWithout(b, nx, pv) == [c \in Block |-> IF c = pv[b] THEN nx[b] ELSE nx[c]]

\* NULL is no block.
LEMMA NullIsNoBlock == NULL \notin Block
BY GlobalHandlesAssumption

\* A closed set of the new list that has the block put in front, without it, is
\* one of the old list.
LEMMA AllBehindNew ==
    ASSUME NEW U, NEW f, NEW nx, NEW pv, NEW b, Linked(U, f, nx, pv),
           b \in Block, b \notin U,
           NEW S \in SUBSET Block, ClosedBy(NextWith(b, f, nx), S), f # NULL => f \in S
    PROVE  U \subseteq S
<1> DEFINE T == S \cap U
<1>1. ClosedBy(nx, T)
  BY DEF ClosedBy, NextWith, Linked
<1>2. f # NULL => f \in T
  BY DEF Linked
<1>3. U \subseteq T
  BY <1>1, <1>2 DEF Linked
<1> QED
  BY <1>3

\* A block is linked in as the first one.
LEMMA LinkIn ==
    ASSUME NEW U, NEW f, NEW nx, NEW pv, NEW b, Linked(U, f, nx, pv),
           b \in Block, b \notin U
    PROVE  /\ Linked(U \cup {b}, b, NextWith(b, f, nx), PrevWith(b, f, pv))
           /\ \A q \in Block, c \in U : Leads(nx, q, c) => Leads(NextWith(b, f, nx), q, c)
<1> USE NullIsNoBlock
<1> DEFINE V == U \cup {b}  ny == NextWith(b, f, nx)  pw == PrevWith(b, f, pv)
<1>0. /\ ny \in [Block -> Block \cup {NULL}] /\ pw \in [Block -> Block \cup {NULL}]
      /\ ny[b] = f /\ \A c \in Block : c # b => ny[c] = nx[c]
      /\ pw[b] = NULL /\ \A c \in Block : c # b => pw[c] = IF c = f THEN b ELSE pv[c]
  BY DEF Linked, NextWith, PrevWith
<1> HIDE DEF ny, pw
<1>1. V \subseteq Block /\ b \in V \cup {NULL} /\ (b # NULL => pw[b] = NULL)
  BY <1>0 DEF Linked
<1>2. ASSUME NEW c \in V, ny[c] # NULL
      PROVE  ny[c] \in V /\ ny[c] # c /\ pw[ny[c]] = c
  <2>1. CASE c = b
    BY <1>0, <1>2, <2>1 DEF Linked
  <2>2. CASE c # b
    <3>1. c \in U /\ ny[c] = nx[c] /\ nx[c] \in U /\ nx[c] # c /\ pv[nx[c]] = c
      BY <1>0, <1>2, <2>2 DEF Linked
    <3>2. nx[c] # f
      BY <3>1 DEF Linked
    <3> QED
      BY <1>0, <3>1, <3>2 DEF Linked
  <2> QED
    BY <2>1, <2>2
<1>3. ASSUME NEW c \in V, c # b
      PROVE  pw[c] \in V /\ ny[pw[c]] = c
  <2>1. CASE c = f
    BY <1>0, <1>3, <2>1 DEF Linked
  <2>2. CASE c # f
    <3>1. pw[c] = pv[c] /\ pv[c] \in U /\ nx[pv[c]] = c
      BY <1>0, <1>3, <2>2 DEF Linked
    <3> QED
      BY <1>0, <3>1 DEF Linked
  <2> QED
    BY <2>1, <2>2
<1>4. ASSUME NEW S \in SUBSET Block, ClosedBy(ny, S), b \in S
      PROVE  U \subseteq S
  <2>1. f # NULL => f \in S
    BY <1>0, <1>4 DEF ClosedBy
  <2> QED
    BY <1>4, <2>1, AllBehindNew DEF ny
<1>5. Linked(V, b, ny, pw)
  <2>1. \A S \in SUBSET Block : ClosedBy(ny, S) /\ (b # NULL => b \in S) => V \subseteq S
    BY <1>4
  <2> QED
    BY <1>0, <1>1, <1>2, <1>3, <2>1 DEF Linked
<1>6. ASSUME NEW q \in Block, NEW c \in U, Leads(nx, q, c),
             NEW S \in SUBSET Block, ClosedBy(ny, S), ny[q] # NULL => ny[q] \in S
      PROVE  c \in S
  <2>1. CASE q = b
    <3>1. f # NULL => f \in S
      BY <1>0, <1>6, <2>1
    <3> QED
      BY <1>6, <3>1, AllBehindNew DEF ny
  <2>2. CASE q # b /\ b \in S
    BY <1>4, <1>6, <2>2
  <2>3. CASE q # b /\ b \notin S
    <3>1. ClosedBy(nx, S)
      BY <1>0, <1>6, <2>3 DEF ClosedBy
    <3>2. nx[q] # NULL => nx[q] \in S
      BY <1>0, <1>6, <2>3
    <3> QED
      BY <1>6, <3>1, <3>2 DEF Leads
  <2> QED
    BY <2>1, <2>2, <2>3
<1>7. \A q \in Block, c \in U : Leads(nx, q, c) => Leads(ny, q, c)
  BY <1>6 DEF Leads
<1> QED
  BY <1>5, <1>7 DEF ny, pw

\* Two blocks do not follow one another both ways.
LEMMA NoShortCycle ==
    ASSUME NEW U, NEW f, NEW nx, NEW pv, NEW b, Linked(U, f, nx, pv),
           b \in U, b # f
    PROVE  nx[b] # pv[b]
<1> USE NullIsNoBlock
<1> DEFINE a == pv[b]  T == U \ {a, b}
<1>1. a \in U /\ nx[a] = b
  BY DEF Linked
<1>2. SUFFICES ASSUME nx[b] = a PROVE FALSE
  OBVIOUS
<1>3. pv[b] = a /\ pv[a] = b
  BY <1>1, <1>2 DEF Linked
<1>4. a # f
  BY <1>1, <1>3 DEF Linked
<1>5. ClosedBy(nx, T)
  <2>1. ASSUME NEW c \in T, nx[c] # NULL PROVE nx[c] \in T
    <3>1. nx[c] \in U /\ pv[nx[c]] = c
      BY <2>1 DEF Linked
    <3> QED
      BY <1>3, <2>1, <3>1
  <2> QED
    BY <2>1 DEF ClosedBy
<1>6. f # NULL => f \in T
  BY <1>4 DEF Linked
<1>7. U \subseteq T
  BY <1>5, <1>6 DEF Linked
<1> QED
  BY <1>7

\* A block is taken out of the list, and goes on pointing into it.
LEMMA LinkOut ==
    ASSUME NEW U, NEW f, NEW nx, NEW pv, NEW b, Linked(U, f, nx, pv), b \in U
    PROVE  /\ Linked(U \ {b}, FirstWithout(b, f, nx), NextWithout(b, nx, pv),
                     PrevWithout(b, nx, pv))
           /\ \A q \in Block, c \in U \ {b} :
                 Leads(nx, q, c) => Leads(NextWithout(b, nx, pv), q, c)
<1> USE NullIsNoBlock
<1> DEFINE V == U \ {b}  g == FirstWithout(b, f, nx)
           ny == NextWithout(b, nx, pv)  pw == PrevWithout(b, nx, pv)
<1>0. /\ ny \in [Block -> Block \cup {NULL}] /\ pw \in [Block -> Block \cup {NULL}]
      /\ \A c \in Block : ny[c] = IF c = pv[b] THEN nx[b] ELSE nx[c]
      /\ \A c \in Block : pw[c] = IF c = nx[b] THEN pv[b] ELSE pv[c]
      /\ g = IF b = f THEN nx[b] ELSE f
      /\ b \in Block
  BY DEF Linked, NextWithout, PrevWithout, FirstWithout
<1> HIDE DEF ny, pw, g
<1>1. /\ b = f => pv[b] = NULL
      /\ b # f => pv[b] \in V /\ nx[pv[b]] = b /\ nx[b] # pv[b]
      /\ nx[b] # NULL => nx[b] \in V /\ pv[nx[b]] = b
  BY NoShortCycle DEF Linked
<1>2. V \subseteq Block /\ g \in V \cup {NULL}
  BY <1>0, <1>1 DEF Linked
<1>3. g # NULL => pw[g] = NULL
  <2>1. CASE b = f
    BY <1>0, <1>1, <1>2, <2>1
  <2>2. CASE b # f /\ g # NULL
    <3>1. g = f /\ pv[f] = NULL /\ f \in Block
      BY <1>0, <2>2 DEF Linked
    <3>2. f # nx[b]
      BY <1>0, <1>1, <3>1
    <3> QED
      BY <1>0, <3>1, <3>2
  <2> QED
    BY <2>1, <2>2
<1>4. ASSUME NEW c \in V, ny[c] # NULL
      PROVE  ny[c] \in V /\ ny[c] # c /\ pw[ny[c]] = c
  <2>0. c \in Block
    BY <1>2
  <2>1. CASE c = pv[b]
    <3>1. ny[c] = nx[b] /\ b # f
      BY <1>0, <1>1, <2>0, <2>1
    <3> QED
      BY <1>0, <1>1, <1>2, <1>4, <2>1, <3>1
  <2>2. CASE c # pv[b]
    <3>1. ny[c] = nx[c] /\ nx[c] \in U /\ nx[c] # c /\ pv[nx[c]] = c
      BY <1>0, <1>4, <2>0, <2>2 DEF Linked
    <3>2. nx[c] # b /\ nx[c] # nx[b]
      BY <1>0, <1>1, <1>4, <2>2, <3>1
    <3> QED
      BY <1>0, <1>2, <3>1, <3>2
  <2> QED
    BY <2>1, <2>2
<1>5. ASSUME NEW c \in V, c # g
      PROVE  pw[c] \in V /\ ny[pw[c]] = c
  <2>0. c \in Block
    BY <1>2
  <2>1. CASE c = nx[b]
    <3>1. b # f
      BY <1>0, <1>5, <2>1
    <3> QED
      BY <1>0, <1>1, <1>2, <2>0, <2>1, <3>1
  <2>2. CASE c # nx[b]
    <3>1. c # f
      BY <1>0, <1>5
    <3>2. pw[c] = pv[c] /\ pv[c] \in U /\ nx[pv[c]] = c
      BY <1>0, <1>5, <2>0, <2>2, <3>1 DEF Linked
    <3>3. pv[c] # b /\ pv[c] # pv[b]
      BY <1>1, <1>5, <2>2, <3>2 DEF Linked
    <3> QED
      BY <1>0, <1>2, <3>2, <3>3
  <2> QED
    BY <2>1, <2>2
\* A closed set of the new list, with the block taken out where it was, is one
\* of the old list.
<1>6. ASSUME NEW S \in SUBSET Block, ClosedBy(ny, S),
             pv[b] \in S \/ (nx[b] # NULL => nx[b] \in S)
      PROVE  ClosedBy(nx, S \cup {b})
  <2>1. nx[b] # NULL => nx[b] \in S
    BY <1>0, <1>6 DEF ClosedBy
  <2>2. ASSUME NEW c \in S, nx[c] # NULL PROVE nx[c] \in S \cup {b}
    <3>1. CASE c = pv[b]
      BY <1>0, <1>1, <3>1
    <3>2. CASE c # pv[b]
      BY <1>0, <1>6, <2>2, <3>2 DEF ClosedBy
    <3> QED
      BY <3>1, <3>2
  <2> QED
    BY <2>1, <2>2 DEF ClosedBy
<1>7. ASSUME NEW S \in SUBSET Block, ClosedBy(ny, S), pv[b] \notin S
      PROVE  ClosedBy(nx, S)
  BY <1>0, <1>7 DEF ClosedBy
<1>8. ASSUME NEW S \in SUBSET Block, ClosedBy(ny, S), g # NULL => g \in S
      PROVE  V \subseteq S
  <2>1. CASE b = f \/ pv[b] \in S
    <3>1. ClosedBy(nx, S \cup {b})
      BY <1>0, <1>6, <1>8, <2>1
    <3>2. f # NULL => f \in S \cup {b}
      BY <1>0, <1>8
    <3>3. U \subseteq S \cup {b}
      <4> S \cup {b} \in SUBSET Block
        BY <1>0
      <4> QED
        BY <3>1, <3>2 DEF Linked
    <3> QED
      BY <3>3
  <2>2. CASE b # f /\ pv[b] \notin S
    <3>1. ClosedBy(nx, S)
      BY <1>7, <1>8, <2>2
    <3>2. f # NULL => f \in S
      BY <1>0, <1>8, <2>2
    <3> QED
      BY <3>1, <3>2 DEF Linked
  <2> QED
    BY <2>1, <2>2
<1>9. Linked(V, g, ny, pw)
  <2>1. \A S \in SUBSET Block : ClosedBy(ny, S) /\ (g # NULL => g \in S) => V \subseteq S
    BY <1>8
  <2> QED
    BY <1>0, <1>2, <1>3, <1>4, <1>5, <2>1 DEF Linked
<1>10. ASSUME NEW q \in Block, NEW c \in V, Leads(nx, q, c),
              NEW S \in SUBSET Block, ClosedBy(ny, S), ny[q] # NULL => ny[q] \in S
       PROVE  c \in S
  <2>1. CASE q = pv[b] \/ pv[b] \in S
    <3>1. ClosedBy(nx, S \cup {b})
      BY <1>0, <1>6, <1>10, <2>1
    <3>2. nx[q] # NULL => nx[q] \in S \cup {b}
      BY <1>0, <1>1, <1>10
    <3>3. S \cup {b} \in SUBSET Block
      BY <1>0
    <3>4. c \in S \cup {b}
      BY <1>10, <3>1, <3>2, <3>3 DEF Leads
    <3> QED
      BY <3>4
  <2>2. CASE q # pv[b] /\ pv[b] \notin S
    <3>1. ClosedBy(nx, S)
      BY <1>7, <1>10, <2>2
    <3>2. nx[q] # NULL => nx[q] \in S
      BY <1>0, <1>10, <2>2
    <3> QED
      BY <1>10, <3>1, <3>2 DEF Leads
  <2> QED
    BY <2>1, <2>2
<1>11. \A q \in Block, c \in V : Leads(nx, q, c) => Leads(ny, q, c)
  BY <1>10 DEF Leads
<1> QED
  BY <1>9, <1>11 DEF ny, pw, g

-------------------------------------------------------------------------------
(* The inductive invariant *)

\* A pass that will give up is in a callback; a pass over all handles is at a
\* node of a block, in the order of addresses, and runs the callback of the
\* node it is at.
PassInv(p) ==
    /\ p.stale => p.node # NULL
    /\ p.full => /\ p.index < Size
                 /\ p.node # NULL => p.block # NULL /\ p.node = <<p.block, p.index>>
    /\ ~ p.full => p.block = NULL /\ p.index > 0

\* A collection makes all passes under way give up.
PassesInv ==
    \A i \in 1..Depth : PassInv(passes[i]) /\ (i < Depth => passes[i].stale)

\* The free list has the nodes of the blocks that are not in use.
FreeInv ==
    /\ Injective(free)
    /\ \A n \in Node : /\ Has(free, n) <=> n[1] \in blocks /\ ~ Retainer(n)
                       /\ Retainer(n) => n[1] \in blocks

\* The list for the scavenger; a flag says what is on it.
NewInv ==
    /\ Injective(list)
    /\ \A n \in Node : /\ Has(list, n) <=> inList[n]
                       /\ Retainer(n) /\ space[n] = "new" => inList[n]

InUse == {b \in Block : \E i \in 0..(Size - 1) : Retainer(<<b, i>>)}

UsedInv == Linked(InUse, first, next, prev)

NearInv == \A n \in Node : state[n] = "NEAR_DEATH" => \E i \in 1..Depth : passes[i].node = n

IInv == TypeOK /\ PassesInv /\ FreeInv /\ NewInv /\ UsedInv /\ NearInv

\* The pass p has node n before it.
Ahead(p, n) ==
    /\ p.block # NULL
    /\ (n[1] = p.block /\ n[2] >= p.index) \/ Leads(next, p.block, n[1])

\* So a pass over all handles has before it all that is pending, whatever has
\* become of the block it is at.
AheadInv ==
    Depth > 0 /\ Current.full /\ ~ Current.stale =>
        \A n \in Node : state[n] = "PENDING" => n # Current.node /\ Ahead(Current, n)

\* A node is a place in a block.
LEMMA NodeIsPair ==
    ASSUME NEW n \in Node
    PROVE  n[1] \in Block /\ n[2] \in 0..(Size - 1) /\ n = <<n[1], n[2]>>
BY DEF Node

\* The block of a node comes to be in use with its first node and goes with its
\* last.
LEMMA UsesCounts ==
    ASSUME NEW n \in Node
    PROVE  /\ Uses(n[1]) = 0 <=> n[1] \notin InUse
           /\ Retainer(n) =>
                (Uses(n[1]) = 1 <=> \A m \in Node : m[1] = n[1] /\ Retainer(m) => m = n)
<1> USE GlobalHandlesAssumption
<1> DEFINE b == n[1]  used == {i \in 0..(Size - 1) : Retainer(<<b, i>>)}
<1>1. IsFiniteSet(used) /\ Uses(b) = Cardinality(used)
  <2>1. IsFiniteSet(0..(Size - 1))
    BY FS_Interval
  <2>2. used \in SUBSET (0..(Size - 1))
    OBVIOUS
  <2> QED
    BY <2>1, <2>2, FS_Subset DEF Uses
<1>2. b \in Block /\ n[2] \in 0..(Size - 1) /\ n = <<b, n[2]>>
  BY NodeIsPair
<1>3. used = {} <=> b \notin InUse
  BY <1>2 DEF InUse
<1>4. Uses(b) = 0 <=> b \notin InUse
  <2> HIDE DEF used, b
  <2> QED
    BY <1>1, <1>3, FS_EmptySet
<1>5. ASSUME Retainer(n)
      PROVE  Uses(b) = 1 <=> used = {n[2]}
  <2>1. n[2] \in used
    BY <1>2, <1>5
  <2> HIDE DEF used, b
  <2>2. Cardinality(used) = 1 <=> \E x : used = {x}
    BY <1>1, FS_Singleton
  <2> QED
    BY <1>1, <2>1, <2>2
<1>6. ASSUME Retainer(n)
      PROVE  used = {n[2]} <=> \A m \in Node : m[1] = b /\ Retainer(m) => m = n
  <2>1. ASSUME used = {n[2]}, NEW m \in Node, m[1] = b, Retainer(m) PROVE m = n
    <3>1. m = <<b, m[2]>> /\ m[2] \in 0..(Size - 1)
      BY <2>1, NodeIsPair
    <3> QED
      BY <1>2, <2>1, <3>1
  <2>2. ASSUME \A m \in Node : m[1] = b /\ Retainer(m) => m = n
        PROVE  used = {n[2]}
    <3>1. ASSUME NEW i \in used PROVE i = n[2]
      <4>1. <<b, i>> \in Node
        BY <1>2 DEF Node
      <4>2. <<b, i>> = n
        BY <2>2, <4>1
      <4> QED
        BY <1>2, <4>2
    <3>2. n[2] \in used
      BY <1>2, <1>6
    <3> QED
      BY <3>1, <3>2
  <2> QED
    BY <2>1, <2>2
<1> QED
  BY <1>4, <1>5, <1>6

\* The blocks in use are those of the nodes in use.
LEMMA UsedNode ==
    /\ InUse \subseteq Block
    /\ \A n \in Node : Retainer(n) => n[1] \in InUse
    /\ \A b \in InUse : \E n \in Node : n[1] = b /\ Retainer(n)
<1>1. \A n \in Node : Retainer(n) => n[1] \in InUse
  BY NodeIsPair DEF InUse
<1>2. \A b \in InUse : \E n \in Node : n[1] = b /\ Retainer(n)
  <2>1. ASSUME NEW b \in InUse PROVE \E n \in Node : n[1] = b /\ Retainer(n)
    <3>1. PICK i \in 0..(Size - 1) : Retainer(<<b, i>>)
      BY DEF InUse
    <3>2. <<b, i>> \in Node /\ <<b, i>>[1] = b
      BY DEF InUse, Node
    <3> QED
      BY <3>1, <3>2
  <2> QED
    BY <2>1
<1> QED
  BY <1>1, <1>2 DEF InUse

\* What a retainer's state is does not matter to the lists.
LEMMA SameRetainers ==
    ASSUME \A n \in Node : Retainer(n)' <=> Retainer(n)
    PROVE  /\ InUse' = InUse
           /\ UsedInv /\ UNCHANGED usedVars => UsedInv'
           /\ FreeInv /\ UNCHANGED <<free, blocks>> => FreeInv'
<1>1. \A b \in Block, i \in 0..(Size - 1) : Retainer(<<b, i>>)' <=> Retainer(<<b, i>>)
  BY DEF Node
<1>2. InUse' = InUse
  BY <1>1 DEF InUse
<1>3. UsedInv /\ UNCHANGED usedVars => UsedInv'
  BY <1>2 DEF UsedInv, usedVars
<1>4. FreeInv /\ UNCHANGED <<free, blocks>> => FreeInv'
  BY DEF FreeInv
<1> QED
  BY <1>2, <1>3, <1>4

\* What may be reached after a step that changes the links.
Leading == \A q \in Block, c \in InUse \cap InUse' : Leads(next, q, c) => Leads(next', q, c)

\* A node comes into use, and maybe its block.
LEMMA Enlist ==
    ASSUME TypeOK, UsedInv, NEW n \in Node, ~ Retainer(n),
           state' = [state EXCEPT ![n] = "NORMAL"], IncreaseUses(n[1])
    PROVE  UsedInv' /\ Leading
<1> DEFINE b == n[1]
<1>1. /\ \A m \in Node : Retainer(m)' <=> Retainer(m) \/ m = n
      /\ b \in Block
  BY NodeIsPair DEF TypeOK, Retainer
<1>2. InUse' = InUse \cup {b}
  <2>1. InUse' \subseteq Block
    BY DEF InUse
  <2>2. \A c \in InUse' : \E m \in Node : m[1] = c /\ Retainer(m)'
    <3>1. ASSUME NEW c \in InUse' PROVE \E m \in Node : m[1] = c /\ Retainer(m)'
      <4>1. PICK i \in 0..(Size - 1) : Retainer(<<c, i>>)'
        BY DEF InUse
      <4>2. <<c, i>> \in Node /\ <<c, i>>[1] = c
        BY <2>1 DEF Node
      <4> QED
        BY <4>1, <4>2
    <3> QED
      BY <3>1
  <2>3. \A m \in Node : Retainer(m)' => m[1] \in InUse'
    BY NodeIsPair DEF InUse
  <2> QED
    BY <1>1, <2>1, <2>2, <2>3, UsedNode
<1>3. CASE b \in InUse
  <2>1. UNCHANGED usedVars
    BY <1>3, UsesCounts DEF IncreaseUses
  <2> QED
    BY <1>2, <1>3, <2>1 DEF UsedInv, usedVars, Leading
<1>4. CASE b \notin InUse
  <2>1. /\ first' = b /\ next' = NextWith(b, first, next)
        /\ prev' = PrevWith(b, first, prev)
    BY <1>4, UsesCounts DEF IncreaseUses, NextWith, PrevWith
  <2>2. /\ Linked(InUse \cup {b}, b, NextWith(b, first, next), PrevWith(b, first, prev))
        /\ \A q \in Block, c \in InUse :
              Leads(next, q, c) => Leads(NextWith(b, first, next), q, c)
    BY <1>1, <1>4, LinkIn DEF UsedInv
  <2>3. UsedInv'
    BY <1>2, <2>1, <2>2 DEF UsedInv
  <2>4. Leading
    BY <2>1, <2>2 DEF Leading
  <2> QED
    BY <2>3, <2>4
<1> QED
  BY <1>3, <1>4

\* A node goes out of use, and maybe its block.
LEMMA Delist ==
    ASSUME TypeOK, UsedInv, NEW n \in Node, Retainer(n),
           state' = [state EXCEPT ![n] = "FREE"], DecreaseUses(n[1])
    PROVE  UsedInv' /\ Leading
<1> DEFINE b == n[1]
<1>1. /\ \A m \in Node : Retainer(m)' <=> Retainer(m) /\ m # n
      /\ b \in Block /\ b \in InUse
  BY NodeIsPair, UsedNode DEF TypeOK, Retainer
<1>2. InUse' \subseteq Block /\ \A c : c \in InUse' <=> \E m \in Node : m[1] = c /\ Retainer(m)'
  <2>1. InUse' \subseteq Block
    BY DEF InUse
  <2>2. ASSUME NEW c \in InUse' PROVE \E m \in Node : m[1] = c /\ Retainer(m)'
    <3>1. PICK i \in 0..(Size - 1) : Retainer(<<c, i>>)'
      BY DEF InUse
    <3>2. <<c, i>> \in Node /\ <<c, i>>[1] = c
      BY <2>1 DEF Node
    <3> QED
      BY <3>1, <3>2
  <2>3. \A m \in Node : Retainer(m)' => m[1] \in InUse'
    BY NodeIsPair DEF InUse
  <2> QED
    BY <2>1, <2>2, <2>3
<1>3. \A c : c \in InUse <=> \E m \in Node : m[1] = c /\ Retainer(m)
  BY UsedNode
<1>4. CASE Uses(b) # 1
  <2>1. PICK m \in Node : m[1] = b /\ Retainer(m) /\ m # n
    BY <1>4, UsesCounts
  <2>2. InUse' = InUse
    <3>1. b \in InUse'
      BY <1>1, <1>2, <2>1
    <3>2. ASSUME NEW c \in InUse, c # b PROVE c \in InUse'
      BY <1>1, <1>2, <1>3, <3>2
    <3>3. ASSUME NEW c \in InUse' PROVE c \in InUse
      BY <1>1, <1>2, <1>3
    <3> QED
      BY <1>1, <3>1, <3>2, <3>3
  <2>3. UNCHANGED usedVars
    BY <1>4 DEF DecreaseUses
  <2> QED
    BY <2>2, <2>3 DEF UsedInv, usedVars, Leading
<1>5. CASE Uses(b) = 1
  <2>1. \A m \in Node : m[1] = b /\ Retainer(m) => m = n
    BY <1>5, UsesCounts
  <2>2. InUse' = InUse \ {b}
    <3>1. b \notin InUse'
      BY <1>1, <1>2, <2>1
    <3>2. ASSUME NEW c \in InUse, c # b PROVE c \in InUse'
      BY <1>1, <1>2, <1>3, <3>2
    <3>3. ASSUME NEW c \in InUse' PROVE c \in InUse
      BY <1>1, <1>2, <1>3
    <3> QED
      BY <3>1, <3>2, <3>3
  <2>3. /\ first' = FirstWithout(b, first, next)
        /\ next' = NextWithout(b, next, prev)
        /\ prev' = PrevWithout(b, next, prev)
    BY <1>5 DEF DecreaseUses, FirstWithout, NextWithout, PrevWithout
  <2>4. /\ Linked(InUse \ {b}, FirstWithout(b, first, next),
                  NextWithout(b, next, prev), PrevWithout(b, next, prev))
        /\ \A q \in Block, c \in InUse \ {b} :
              Leads(next, q, c) => Leads(NextWithout(b, next, prev), q, c)
    BY <1>1, LinkOut DEF UsedInv
  <2>5. UsedInv'
    BY <2>2, <2>3, <2>4 DEF UsedInv
  <2>6. Leading
    BY <2>2, <2>3, <2>4 DEF Leading
  <2> QED
    BY <2>5, <2>6
<1> QED
  BY <1>4, <1>5

-------------------------------------------------------------------------------
(* The steps *)

\* While a callback runs its pass, if it walks the blocks, has before it what is
\* pending; other nodes than those may become anything but pending.
LEMMA AheadKept ==
    ASSUME AheadInv, PassesInv, ApiCall, passes \in Seq(Pass), UNCHANGED passes, Leading,
           \A n \in Node : state'[n] = "PENDING" => state[n] = "PENDING" /\ Retainer(n)',
           \A n \in Node : Retainer(n) => n[1] \in InUse,
           \A n \in Node : Retainer(n)' => n[1] \in InUse'
    PROVE  AheadInv'
<1>1. SUFFICES ASSUME (Depth > 0 /\ Current.full /\ ~ Current.stale)', NEW n \in Node,
                      state'[n] = "PENDING"
               PROVE  (n # Current.node /\ Ahead(Current, n))'
  BY DEF AheadInv
<1>2. Depth > 0 /\ Current.full /\ ~ Current.stale /\ Depth' = Depth /\ Current' = Current
  BY <1>1 DEF Depth, Current
<1>3. state[n] = "PENDING" /\ Retainer(n) /\ n # Current.node /\ Ahead(Current, n)
  BY <1>1, <1>2 DEF AheadInv, Retainer
<1>4. n[1] \in InUse \cap InUse'
  BY <1>1, <1>3
<1>5. Current \in Pass
  BY <1>2 DEF Depth, Current
<1>6. Current.block \in Block
  BY <1>3, <1>5 DEF Ahead, Pass
<1>7. Leads(next, Current.block, n[1]) => Leads(next', Current.block, n[1])
  BY <1>4, <1>6 DEF Leading
<1>8. Ahead(Current, n)'
  BY <1>2, <1>3, <1>7 DEF Ahead
<1> QED
  BY <1>2, <1>3, <1>8

\* The block of a node in use is in use, before and after a step.
LEMMA RetainersInUse ==
    /\ \A n \in Node : Retainer(n) => n[1] \in InUse
    /\ \A n \in Node : Retainer(n)' => n[1] \in InUse'
BY NodeIsPair DEF InUse

\* The free list of a new block.
BlockNodes(b) == [i \in 1..Size |-> <<b, i - 1>>]

\* The nodes of a block that is put on the free list.
LEMMA NewBlock ==
    ASSUME NEW b \in Block
    PROVE  /\ BlockNodes(b) \in Seq(Node) /\ BlockNodes(b) # << >>
           /\ Injective(BlockNodes(b))
           /\ \A n \in Node : Has(BlockNodes(b), n) <=> n[1] = b
<1> USE GlobalHandlesAssumption
<1>1. \A i \in 1..Size : <<b, i - 1>> \in Node
  BY DEF Node
<1>2. BlockNodes(b) \in Seq(Node)
  BY <1>1 DEF BlockNodes
<1>3. BlockNodes(b) # << >>
  <2>1. BlockNodes(b)[1] = <<b, 0>> /\ 1 \in DOMAIN BlockNodes(b)
    BY DEF BlockNodes
  <2> QED
    BY <2>1
<1>4. Injective(BlockNodes(b))
  BY DEF Injective, BlockNodes
<1>5. ASSUME NEW n \in Node, n[1] = b PROVE Has(BlockNodes(b), n)
  <2>1. n[2] \in 0..(Size - 1) /\ n = <<b, n[2]>>
    BY <1>5, NodeIsPair
  <2>2. n[2] + 1 \in 1..Size /\ BlockNodes(b)[n[2] + 1] = <<b, n[2]>>
    BY <2>1 DEF BlockNodes
  <2> QED
    BY <2>1, <2>2 DEF Has, BlockNodes
<1>6. ASSUME NEW n \in Node, Has(BlockNodes(b), n) PROVE n[1] = b
  <2>1. PICK i \in 1..Size : n = <<b, i - 1>>
    BY <1>6 DEF Has, BlockNodes
  <2> QED
    BY <2>1
<1> QED
  BY <1>2, <1>3, <1>4, <1>5, <1>6

\* The free list without its head.
LEMMA TailOf ==
    ASSUME NEW s \in Seq(Node), s # << >>, Injective(s)
    PROVE  /\ Head(s) \in Node /\ Has(s, Head(s))
           /\ Tail(s) \in Seq(Node) /\ Injective(Tail(s))
           /\ \A x : Has(Tail(s), x) <=> Has(s, x) /\ x # Head(s)
<1>1. /\ Head(s) = s[1] /\ 1 \in DOMAIN s /\ DOMAIN s = 1..Len(s) /\ Len(s) \in Nat
      /\ Tail(s) \in Seq(Node) /\ DOMAIN Tail(s) = 1..(Len(s) - 1)
      /\ \A i \in 1..(Len(s) - 1) : Tail(s)[i] = s[i + 1]
  OBVIOUS
<1>2. Injective(Tail(s))
  BY <1>1 DEF Injective
<1>3. \A x : Has(Tail(s), x) => Has(s, x) /\ x # Head(s)
  BY <1>1 DEF Has, Injective
<1>4. ASSUME NEW x, Has(s, x), x # Head(s) PROVE Has(Tail(s), x)
  <2>1. PICK i \in DOMAIN s : s[i] = x
    BY <1>4 DEF Has
  <2>2. i - 1 \in 1..(Len(s) - 1) /\ Tail(s)[i - 1] = x
    BY <1>1, <1>4, <2>1
  <2> QED
    BY <1>1, <2>2 DEF Has
<1>5. Head(s) \in Node /\ Has(s, Head(s))
  BY <1>1 DEF Has
<1> QED
  BY <1>1, <1>2, <1>3, <1>4, <1>5

\* The list of new-space nodes with one more.
LEMMA AppendTo ==
    ASSUME NEW s \in Seq(Node), NEW x \in Node, Injective(s), ~ Has(s, x)
    PROVE  /\ Append(s, x) \in Seq(Node) /\ Injective(Append(s, x))
           /\ \A y : Has(Append(s, x), y) <=> Has(s, y) \/ y = x
<1>1. /\ Append(s, x) \in Seq(Node)
      /\ DOMAIN Append(s, x) = DOMAIN s \cup {Len(s) + 1}
      /\ \A i \in DOMAIN s : Append(s, x)[i] = s[i]
      /\ Append(s, x)[Len(s) + 1] = x
  OBVIOUS
<1>2. Injective(Append(s, x))
  BY <1>1 DEF Injective, Has
<1> QED
  BY <1>1, <1>2 DEF Has

\* The free list with one more.
LEMMA PutBefore ==
    ASSUME NEW s \in Seq(Node), NEW x \in Node, Injective(s), ~ Has(s, x)
    PROVE  /\ <<x>> \o s \in Seq(Node) /\ Injective(<<x>> \o s)
           /\ \A y : Has(<<x>> \o s, y) <=> Has(s, y) \/ y = x
<1> DEFINE r == <<x>> \o s
<1>1. /\ r \in Seq(Node) /\ Len(s) \in Nat /\ DOMAIN s = 1..Len(s)
      /\ DOMAIN r = 1..(Len(s) + 1) /\ r[1] = x
      /\ \A i \in 1..Len(s) : r[i + 1] = s[i]
  OBVIOUS
<1> HIDE DEF r
<1>2. \A j \in DOMAIN r : j = 1 \/ (j - 1 \in DOMAIN s /\ r[j] = s[j - 1])
  BY <1>1
<1>3. Injective(r)
  BY <1>1, <1>2 DEF Injective, Has
<1>4. \A y : Has(s, y) \/ y = x => Has(r, y)
  BY <1>1 DEF Has
<1>5. \A y : Has(r, y) => Has(s, y) \/ y = x
  BY <1>2, <1>1 DEF Has
<1> QED
  BY <1>1, <1>3, <1>4, <1>5 DEF r

\* What may change on the list for the scavenger when a node comes to be in use.
LEMMA Added ==
    ASSUME TypeOK, NewInv, NEW n \in Node, NEW s \in {"new", "old"},
           AddToNewSpaceNodes(n, s)
    PROVE  /\ list' \in Seq(Node) /\ inList' \in [Node -> BOOLEAN]
           /\ Injective(list')
           /\ \A m \in Node : Has(list', m) <=> inList'[m]
           /\ \A m \in Node : inList[m] => inList'[m]
           /\ s = "new" => inList'[n]
<1>1. CASE s = "new" /\ ~ inList[n]
  <2>1. list' = Append(list, n) /\ inList' = [inList EXCEPT ![n] = TRUE]
    BY <1>1 DEF AddToNewSpaceNodes
  <2>2. ~ Has(list, n) /\ Injective(list) /\ list \in Seq(Node)
    BY <1>1 DEF NewInv, TypeOK
  <2>3. /\ list' \in Seq(Node) /\ Injective(list')
        /\ \A m : Has(list', m) <=> Has(list, m) \/ m = n
    BY <2>1, <2>2, AppendTo
  <2>4. inList' \in [Node -> BOOLEAN] /\ \A m \in Node : inList'[m] <=> inList[m] \/ m = n
    BY <2>1 DEF TypeOK
  <2> QED
    BY <2>3, <2>4 DEF NewInv
<1>2. CASE s # "new" \/ inList[n]
  <2>1. list' = list /\ inList' = inList
    BY <1>2 DEF AddToNewSpaceNodes, listVars
  <2> QED
    BY <1>2, <2>1 DEF NewInv, TypeOK
<1> QED
  BY <1>1, <1>2

\* Create takes the head of the free list.
LEMMA CreateStep ==
    ASSUME IInv, NEW s \in {"new", "old"}, Create(s)
    PROVE  IInv' /\ (AheadInv => AheadInv')
<1> USE DEF IInv
<1>1. PICK b \in IF free = << >> THEN Block \ blocks ELSE {NULL} :
          LET fs == IF b = NULL THEN free ELSE BlockNodes(b)
              n == Head(fs)
          IN  /\ blocks' = IF b = NULL THEN blocks ELSE blocks \cup {b}
              /\ free' = Tail(fs)
              /\ state' = [state EXCEPT ![n] = "NORMAL"]
              /\ dep' = [dep EXCEPT ![n] = "dependent"]
              /\ space' = [space EXCEPT ![n] = s]
              /\ IncreaseUses(n[1])
              /\ AddToNewSpaceNodes(n, s)
  BY DEF Create, BlockNodes
<1> DEFINE fs == IF b = NULL THEN free ELSE BlockNodes(b)  n == Head(fs)
<1>2. ApiCall /\ UNCHANGED passes
  BY DEF Create
\* The list the node is taken from has what is free.
<1>3. /\ fs \in Seq(Node) /\ fs # << >> /\ Injective(fs)
      /\ blocks' \subseteq Block
      /\ \A m \in Node : Has(fs, m) <=> m[1] \in blocks' /\ ~ Retainer(m)
      /\ \A m \in Node : Retainer(m) => m[1] \in blocks'
  <2>1. CASE free = << >>
    <3>1. b \in Block /\ b \notin blocks /\ b # NULL
      BY <1>1, <2>1, NullIsNoBlock
    <3>2. fs = BlockNodes(b) /\ blocks' = blocks \cup {b}
      BY <1>1, <3>1
    <3>3. \A m \in Node : m[1] \in blocks => Retainer(m)
      <4>1. \A m \in Node : ~ Has(free, m)
        BY <2>1 DEF Has
      <4> QED
        BY <4>1 DEF FreeInv
    <3>4. \A m \in Node : m[1] = b => ~ Retainer(m)
      BY <3>1 DEF FreeInv
    <3>5. /\ BlockNodes(b) \in Seq(Node) /\ BlockNodes(b) # << >>
          /\ Injective(BlockNodes(b))
          /\ \A m \in Node : Has(BlockNodes(b), m) <=> m[1] = b
      BY <3>1, NewBlock
    <3> QED
      BY <3>1, <3>2, <3>3, <3>4, <3>5 DEF FreeInv, TypeOK
  <2>2. CASE free # << >>
    <3>1. fs = free /\ blocks' = blocks
      BY <1>1, <2>2
    <3> QED
      BY <2>2, <3>1 DEF FreeInv, TypeOK
  <2> QED
    BY <2>1, <2>2
<1>4. /\ n \in Node /\ Has(fs, n) /\ Tail(fs) \in Seq(Node) /\ Injective(Tail(fs))
      /\ \A x : Has(Tail(fs), x) <=> Has(fs, x) /\ x # n
  BY <1>3, TailOf
<1>5. /\ free' = Tail(fs)
      /\ state' = [state EXCEPT ![n] = "NORMAL"]
      /\ dep' = [dep EXCEPT ![n] = "dependent"]
      /\ space' = [space EXCEPT ![n] = s]
      /\ IncreaseUses(n[1])
      /\ AddToNewSpaceNodes(n, s)
  BY <1>1
<1> HIDE DEF fs, n
<1>6. ~ Retainer(n) /\ n[1] \in blocks'
  BY <1>3, <1>4
<1>7. \A m \in Node : Retainer(m)' <=> Retainer(m) \/ m = n
  BY <1>4, <1>5 DEF TypeOK, Retainer
<1>8. UsedInv' /\ Leading
  BY <1>4, <1>5, <1>6, Enlist
<1>9. /\ list' \in Seq(Node) /\ inList' \in [Node -> BOOLEAN]
      /\ Injective(list')
      /\ \A m \in Node : Has(list', m) <=> inList'[m]
      /\ \A m \in Node : inList[m] => inList'[m]
      /\ s = "new" => inList'[n]
  BY <1>4, <1>5, Added
<1>10. TypeOK'
  <2>1. first' \in Block \cup {NULL} /\ next' \in [Block -> Block \cup {NULL}]
        /\ prev' \in [Block -> Block \cup {NULL}]
    <3>1. InUse' \subseteq Block
      BY DEF InUse
    <3> QED
      BY <1>8, <3>1 DEF UsedInv, Linked
  <2>2. /\ state' \in [Node -> {"FREE", "NORMAL", "WEAK", "PENDING", "NEAR_DEATH"}]
        /\ dep' \in [Node -> {"dependent", "partially", "independent"}]
        /\ space' \in [Node -> {"new", "old"}]
    BY <1>4, <1>5 DEF TypeOK
  <2> QED
    BY <1>2, <1>3, <1>4, <1>5, <1>9, <2>1, <2>2 DEF TypeOK
<1>11. FreeInv'
  <2>1. Injective(free')
    BY <1>4, <1>5
  <2>2. \A m \in Node : Has(free', m) <=> m[1] \in blocks' /\ ~ Retainer(m)'
    BY <1>3, <1>4, <1>5, <1>7
  <2>3. \A m \in Node : Retainer(m)' => m[1] \in blocks'
    BY <1>3, <1>6, <1>7
  <2> QED
    BY <2>1, <2>2, <2>3 DEF FreeInv
<1>12. NewInv'
  <2>1. ASSUME NEW m \in Node, Retainer(m)', space'[m] = "new" PROVE inList'[m]
    <3>1. CASE m = n
      BY <1>4, <1>5, <1>9, <2>1, <3>1 DEF TypeOK
    <3>2. CASE m # n
      BY <1>4, <1>5, <1>7, <1>9, <2>1, <3>2 DEF TypeOK, NewInv
    <3> QED
      BY <3>1, <3>2
  <2> QED
    BY <1>9, <2>1 DEF NewInv
<1>13. NearInv'
  BY <1>2, <1>4, <1>5 DEF NearInv, Depth, TypeOK
<1>14. PassesInv'
  BY <1>2 DEF PassesInv, Depth
<1>15. ASSUME AheadInv PROVE AheadInv'
  <2>1. \A m \in Node : state'[m] = "PENDING" => state[m] = "PENDING" /\ Retainer(m)'
    BY <1>4, <1>5 DEF TypeOK, Retainer
  <2> QED
    BY <1>2, <1>8, <1>15, <2>1, AheadKept, RetainersInUse DEF TypeOK
<1> QED
  BY <1>8, <1>10, <1>11, <1>12, <1>13, <1>14, <1>15

\* Destroy puts a node back, wherever a pass may stand.
LEMMA DestroyStep ==
    ASSUME IInv, NEW n \in Node, Destroy(n)
    PROVE  IInv' /\ (AheadInv => AheadInv')
<1> USE DEF IInv
<1>1. /\ ApiCall /\ Retainer(n)
      /\ state' = [state EXCEPT ![n] = "FREE"]
      /\ dep' = [dep EXCEPT ![n] = "dependent"]
      /\ space' = [space EXCEPT ![n] = "old"]
      /\ free' = <<n>> \o free
      /\ DecreaseUses(n[1])
      /\ blocks' = blocks /\ list' = list /\ inList' = inList /\ passes' = passes
  BY DEF Destroy, listVars
<1>2. \A m \in Node : Retainer(m)' <=> Retainer(m) /\ m # n
  BY <1>1 DEF TypeOK, Retainer
<1>3. UsedInv' /\ Leading
  BY <1>1, Delist
<1>4. ~ Has(free, n) /\ n[1] \in blocks
  BY <1>1 DEF FreeInv
<1>5. /\ free' \in Seq(Node) /\ Injective(free')
      /\ \A m : Has(free', m) <=> Has(free, m) \/ m = n
  BY <1>1, <1>4, PutBefore DEF FreeInv, TypeOK
<1>6. TypeOK'
  <2>1. first' \in Block \cup {NULL} /\ next' \in [Block -> Block \cup {NULL}]
        /\ prev' \in [Block -> Block \cup {NULL}]
    <3>1. InUse' \subseteq Block
      BY DEF InUse
    <3> QED
      BY <1>3, <3>1 DEF UsedInv, Linked
  <2>2. /\ state' \in [Node -> {"FREE", "NORMAL", "WEAK", "PENDING", "NEAR_DEATH"}]
        /\ dep' \in [Node -> {"dependent", "partially", "independent"}]
        /\ space' \in [Node -> {"new", "old"}]
    BY <1>1 DEF TypeOK
  <2> QED
    BY <1>1, <1>5, <2>1, <2>2 DEF TypeOK
<1>7. FreeInv'
  BY <1>1, <1>2, <1>4, <1>5 DEF FreeInv
<1>8. NewInv'
  BY <1>1, <1>2 DEF NewInv, TypeOK
<1>9. NearInv'
  BY <1>1 DEF NearInv, Depth, TypeOK
<1>10. PassesInv'
  BY <1>1 DEF PassesInv, Depth
<1>11. ASSUME AheadInv PROVE AheadInv'
  <2>1. \A m \in Node : state'[m] = "PENDING" => state[m] = "PENDING" /\ Retainer(m)'
    BY <1>1 DEF TypeOK, Retainer
  <2> QED
    BY <1>1, <1>3, <1>11, <2>1, AheadKept, RetainersInUse DEF TypeOK
<1> QED
  BY <1>3, <1>6, <1>7, <1>8, <1>9, <1>10, <1>11

\* Weakness and dependency of a handle.
LEMMA SetStep ==
    ASSUME IInv, NEW n \in Node,
           \/ MakeWeak(n) \/ ClearWeakness(n)
           \/ MarkIndependent(n) \/ MarkPartiallyDependent(n)
    PROVE  IInv' /\ (AheadInv => AheadInv')
<1> USE DEF IInv
<1>1. /\ ApiCall /\ Retainer(n)
      /\ space' = space /\ free' = free /\ blocks' = blocks /\ UNCHANGED usedVars
      /\ list' = list /\ inList' = inList /\ passes' = passes
  BY DEF MakeWeak, ClearWeakness, MarkIndependent, MarkPartiallyDependent, SetState,
     SetDependency, listVars
<1>2. /\ state' \in [Node -> {"FREE", "NORMAL", "WEAK", "PENDING", "NEAR_DEATH"}]
      /\ dep' \in [Node -> {"dependent", "partially", "independent"}]
      /\ \A m \in Node : state'[m] = state[m] \/ (m = n /\ state'[m] \in {"WEAK", "NORMAL"})
  <2>1. CASE \E s \in {"WEAK", "NORMAL"} : SetState(n, s)
    BY <2>1 DEF SetState, TypeOK
  <2>2. CASE \E d \in {"independent", "partially"} : SetDependency(n, d)
    BY <2>2 DEF SetDependency, TypeOK
  <2> QED
    BY <2>1, <2>2 DEF MakeWeak, ClearWeakness, MarkIndependent, MarkPartiallyDependent
<1>3. \A m \in Node : Retainer(m)' <=> Retainer(m)
  BY <1>1, <1>2 DEF Retainer
<1>4. UsedInv' /\ FreeInv' /\ InUse' = InUse
  BY <1>1, <1>3, SameRetainers
<1>5. TypeOK'
  BY <1>1, <1>2 DEF TypeOK, usedVars
<1>6. NewInv'
  BY <1>1, <1>3 DEF NewInv
<1>7. NearInv'
  BY <1>1, <1>2 DEF NearInv, Depth
<1>8. PassesInv'
  BY <1>1 DEF PassesInv, Depth
<1>9. ASSUME AheadInv PROVE AheadInv'
  <2>1. \A m \in Node : state'[m] = "PENDING" => state[m] = "PENDING" /\ Retainer(m)'
    BY <1>2 DEF Retainer
  <2>2. Leading
    BY <1>1 DEF Leading, usedVars
  <2> QED
    BY <1>1, <1>9, <2>1, <2>2, AheadKept, RetainersInUse DEF TypeOK
<1> QED
  BY <1>4, <1>5, <1>6, <1>7, <1>8, <1>9

\* Blocks that may be reached from the block b.
LEMMA LeadsFurther ==
    ASSUME NEW b \in Block, NEW c, Leads(next, b, c)
    PROVE  /\ next[b] # NULL
           /\ next \in [Block -> Block \cup {NULL}] =>
                c = next[b] \/ Leads(next, next[b], c)
<1>1. next[b] # NULL
  <2>1. {} \in SUBSET Block /\ ClosedBy(next, {}) /\ c \notin {}
    BY DEF ClosedBy
  <2> QED
    BY <2>1 DEF Leads
<1>2. ASSUME next \in [Block -> Block \cup {NULL}], c # next[b],
             NEW S \in SUBSET Block, ClosedBy(next, S),
             next[next[b]] # NULL => next[next[b]] \in S
      PROVE  c \in S
  <2> DEFINE T == S \cup {next[b]}
  <2>1. T \in SUBSET Block
    BY <1>1, <1>2
  <2>2. ClosedBy(next, T)
    BY <1>2 DEF ClosedBy
  <2>3. c \in T
    BY <2>1, <2>2 DEF Leads
  <2> QED
    BY <1>2, <2>3
<1> QED
  BY <1>1, <1>2 DEF Leads

\* All blocks in use may be reached from the first.
LEMMA FirstLeads ==
    ASSUME UsedInv, NEW c \in InUse
    PROVE  first # NULL /\ (c = first \/ Leads(next, first, c))
<1>1. first # NULL
  <2>1. {} \in SUBSET Block /\ ClosedBy(next, {})
    BY DEF ClosedBy
  <2> QED
    BY <2>1 DEF UsedInv, Linked
<1>2. ASSUME c # first,
             NEW S \in SUBSET Block, ClosedBy(next, S),
             next[first] # NULL => next[first] \in S
      PROVE  c \in S
  <2> DEFINE T == S \cup {first}
  <2>1. T \in SUBSET Block
    BY <1>1 DEF UsedInv, Linked
  <2>2. ClosedBy(next, T)
    BY <1>2 DEF ClosedBy
  <2>3. c \in T
    BY <2>1, <2>2 DEF UsedInv, Linked
  <2> QED
    BY <1>2, <2>3
<1> QED
  BY <1>1, <1>2 DEF Leads

\* The pass goes on to the next node and leaves no pending node behind.
LEMMA AdvancedPass ==
    ASSUME TypeOK, NEW p \in Pass, PassInv(p), ~ p.stale, p.full => p.block # NULL
    PROVE  /\ Advanced(p) \in Pass /\ PassInv(Advanced(p)) /\ Advanced(p).node = NULL
           /\ Advanced(p).full = p.full
           /\ p.full => \A n \in Node : n # <<p.block, p.index>> /\ Ahead(p, n)
                                            => Ahead(Advanced(p), n)
<1> USE GlobalHandlesAssumption
<1>1. p.index \in Nat /\ p.block \in Block \cup {NULL} /\ (p.full => p.index < Size)
  BY DEF Pass, PassInv
<1>2. CASE ~ p.full \/ p.index + 1 < Size
  <2>1. Advanced(p) = [p EXCEPT !.index = @ + 1, !.node = NULL]
    BY <1>2 DEF Advanced
  <2>2. /\ Advanced(p) \in Pass /\ Advanced(p).index = p.index + 1
        /\ Advanced(p).node = NULL /\ Advanced(p).full = p.full
        /\ Advanced(p).block = p.block /\ Advanced(p).stale = p.stale
    <3>1. p.index + 1 \in Nat
      BY <1>1
    <3>2. [p EXCEPT !.index = @ + 1, !.node = NULL] \in Pass
      BY <3>1 DEF Pass
    <3> QED
      BY <2>1, <3>1, <3>2 DEF Pass
  <2>3. PassInv(Advanced(p))
    BY <1>1, <1>2, <2>2 DEF PassInv
  <2>4. ASSUME p.full, NEW n \in Node, n # <<p.block, p.index>>, Ahead(p, n)
        PROVE  Ahead(Advanced(p), n)
    <3>1. n[2] \in 0..(Size - 1) /\ n = <<n[1], n[2]>>
      BY NodeIsPair
    <3>2. n[1] = p.block /\ n[2] >= p.index => n[2] >= p.index + 1
      <4>1. n[1] = p.block => n[2] # p.index
        BY <2>4, <3>1
      <4> QED
        BY <1>1, <3>1, <4>1
    <3> QED
      BY <2>2, <2>4, <3>2 DEF Ahead
  <2> QED
    BY <2>2, <2>3, <2>4
<1>3. CASE p.full /\ ~ (p.index + 1 < Size)
  <2>1. Advanced(p) = [p EXCEPT !.block = next[p.block], !.index = 0, !.node = NULL]
    BY <1>3 DEF Advanced
  <2>2. p.block \in Block /\ next[p.block] \in Block \cup {NULL}
    BY <1>1, <1>3 DEF TypeOK
  <2>3. /\ Advanced(p) \in Pass /\ Advanced(p).index = 0
        /\ Advanced(p).node = NULL /\ Advanced(p).full = p.full
        /\ Advanced(p).block = next[p.block] /\ Advanced(p).stale = p.stale
    <3>1. [p EXCEPT !.block = next[p.block], !.index = 0, !.node = NULL] \in Pass
      BY <2>2 DEF Pass
    <3> QED
      BY <2>1, <2>2, <3>1 DEF Pass
  <2>4. PassInv(Advanced(p))
    BY <1>3, <2>3 DEF PassInv
  <2>5. ASSUME NEW n \in Node, n # <<p.block, p.index>>, Ahead(p, n)
        PROVE  Ahead(Advanced(p), n)
    <3>1. n[2] \in 0..(Size - 1) /\ n = <<n[1], n[2]>>
      BY NodeIsPair
    <3>2. Leads(next, p.block, n[1])
      <4>1. n[1] = p.block => n[2] # p.index
        BY <2>5, <3>1
      <4>2. p.index = Size - 1
        BY <1>1, <1>3
      <4> QED
        BY <2>5, <3>1, <4>1, <4>2 DEF Ahead
    <3>3. next[p.block] # NULL /\ (n[1] = next[p.block] \/ Leads(next, next[p.block], n[1]))
      BY <2>2, <3>2, LeadsFurther DEF TypeOK
    <3> QED
      BY <2>3, <3>1, <3>3 DEF Ahead
  <2> QED
    BY <2>3, <2>4, <2>5
<1> QED
  BY <1>2, <1>3

\* A collection begins a pass and makes the outer ones stale.
LEMMA CollectStep ==
    ASSUME IInv, NEW full \in BOOLEAN, Collect(full)
    PROVE  IInv' /\ AheadInv'
<1> USE GlobalHandlesAssumption DEF IInv
<1> DEFINE begun == [full |-> full,
                     block |-> IF full THEN first ELSE NULL,
                     index |-> IF full THEN 0 ELSE 1,
                     node |-> NULL, stale |-> FALSE]
           givingUp == [i \in 1..Depth |-> [passes[i] EXCEPT !.stale = TRUE]]
<1>1. PICK dead \in SUBSET MayDie(full) :
          state' = [n \in Node |-> IF n \in dead THEN "PENDING" ELSE state[n]]
  BY DEF Collect
<1>2. PICK promoted \in SUBSET {n \in Node : Retainer(n) /\ space[n] = "new"} :
          space' = [n \in Node |-> IF n \in promoted THEN "old" ELSE space[n]]
  BY DEF Collect
<1>3. /\ ApiCall
      /\ passes' = Append(givingUp, begun)
      /\ dep' = dep /\ free' = free /\ blocks' = blocks /\ UNCHANGED usedVars
      /\ list' = list /\ inList' = inList
  BY DEF Collect, listVars
<1>4. dead \subseteq Node /\ \A n \in dead : state[n] = "WEAK"
  BY <1>1 DEF MayDie
<1>5. \A n \in Node : Retainer(n)' <=> Retainer(n)
  BY <1>1, <1>4 DEF Retainer
<1>6. UsedInv' /\ FreeInv' /\ InUse' = InUse
  BY <1>3, <1>5, SameRetainers
<1>7. passes \in Seq(Pass) /\ Depth \in Nat /\ DOMAIN passes = 1..Depth
  BY DEF TypeOK, Depth
<1>8. \A i \in 1..Depth : /\ passes[i] \in Pass /\ givingUp[i] \in Pass
                          /\ givingUp[i].stale
                          /\ givingUp[i].full = passes[i].full
                          /\ givingUp[i].block = passes[i].block
                          /\ givingUp[i].index = passes[i].index
                          /\ givingUp[i].node = passes[i].node
  <2>1. ASSUME NEW i \in 1..Depth
        PROVE  givingUp[i] = [passes[i] EXCEPT !.stale = TRUE] /\ passes[i] \in Pass
    BY <1>7
  <2>2. ASSUME NEW i \in 1..Depth
        PROVE  /\ passes[i] \in Pass /\ givingUp[i] \in Pass
               /\ givingUp[i].stale
               /\ givingUp[i].full = passes[i].full
               /\ givingUp[i].block = passes[i].block
               /\ givingUp[i].index = passes[i].index
               /\ givingUp[i].node = passes[i].node
    <3> DEFINE p == passes[i]  q == givingUp[i]
    <3>1. p \in Pass /\ q = [p EXCEPT !.stale = TRUE]
      BY <2>1
    <3> HIDE DEF p, q
    <3>2. q \in Pass
      BY <3>1 DEF Pass
    <3>3. q.stale /\ q.full = p.full
      BY <3>1 DEF Pass
    <3>4. q.block = p.block /\ q.index = p.index /\ q.node = p.node
      BY <3>1 DEF Pass
    <3> QED
      BY <3>1, <3>2, <3>3, <3>4 DEF p, q
  <2> HIDE DEF givingUp
  <2> QED
    BY <2>2
<1>9. begun \in Pass
  BY DEF Pass, TypeOK
<1>10. givingUp \in Seq(Pass) /\ Len(givingUp) = Depth
  BY <1>7, <1>8
<1> HIDE DEF begun, givingUp
<1>11. /\ passes' \in Seq(Pass) /\ Depth' = Depth + 1
       /\ \A i \in 1..Depth : passes'[i] = givingUp[i]
       /\ passes'[Depth + 1] = begun
  BY <1>3, <1>7, <1>9, <1>10 DEF Depth
<1>12. /\ begun.full = full /\ begun.node = NULL /\ begun.stale = FALSE
       /\ begun.block = IF full THEN first ELSE NULL
       /\ begun.index = IF full THEN 0 ELSE 1
  BY DEF begun
<1>13. TypeOK'
  <2>1. state' \in [Node -> {"FREE", "NORMAL", "WEAK", "PENDING", "NEAR_DEATH"}]
        /\ space' \in [Node -> {"new", "old"}]
    BY <1>1, <1>2 DEF TypeOK
  <2> QED
    BY <1>3, <1>11, <2>1 DEF TypeOK, usedVars
<1>14. NewInv'
  BY <1>2, <1>3, <1>5 DEF NewInv, TypeOK
<1>15. NearInv'
  <2>1. ASSUME NEW n \in Node, state'[n] = "NEAR_DEATH"
        PROVE  \E i \in 1..(Depth + 1) : passes'[i].node = n
    <3>1. state[n] = "NEAR_DEATH"
      BY <1>1, <2>1
    <3>2. PICK i \in 1..Depth : passes[i].node = n
      BY <3>1 DEF NearInv
    <3> QED
      BY <1>7, <1>8, <1>11, <3>2
  <2> QED
    BY <1>11, <2>1 DEF NearInv
<1>16. PassesInv'
  <2>1. ASSUME NEW i \in 1..(Depth + 1)
        PROVE  PassInv(passes'[i]) /\ (i < Depth + 1 => passes'[i].stale)
    <3>1. CASE i = Depth + 1
      <4>1. PassInv(begun)
        BY <1>12 DEF PassInv
      <4> QED
        BY <1>7, <1>11, <3>1, <4>1
    <3>2. CASE i # Depth + 1
      <4>1. i \in 1..Depth
        BY <1>7, <3>2
      <4>2. PassInv(passes[i]) /\ (i < Depth => passes[i].stale)
        BY <4>1 DEF PassesInv
      <4>3. passes[i].node # NULL
        <5>1. CASE i = Depth
          BY <1>3, <4>1, <5>1 DEF ApiCall, Current
        <5>2. CASE i # Depth
          BY <1>7, <4>1, <4>2, <5>2 DEF PassInv
        <5> QED
          BY <5>1, <5>2
      <4>4. PassInv(givingUp[i])
        BY <1>8, <4>1, <4>2, <4>3 DEF PassInv
      <4> QED
        BY <1>8, <1>11, <4>1, <4>4
    <3> QED
      BY <3>1, <3>2
  <2> QED
    BY <1>11, <2>1 DEF PassesInv
<1>17. AheadInv'
  <2>1. Current' = begun
    BY <1>11 DEF Current
  <2>2. ASSUME full, NEW n \in Node, state'[n] = "PENDING"
        PROVE  /\ n # NULL /\ begun.block # NULL
               /\ \/ n[1] = begun.block /\ n[2] >= begun.index
                  \/ Leads(next', begun.block, n[1])
    <3>1. Retainer(n)
      BY <1>5, <2>2 DEF Retainer
    <3>2. n[1] \in InUse
      BY <3>1, UsedNode
    <3>3. first # NULL /\ (n[1] = first \/ Leads(next, first, n[1]))
      BY <3>2, FirstLeads
    <3>4. next' = next /\ n[2] >= 0 /\ n # NULL
      BY <1>3, NodeIsPair DEF usedVars
    <3> QED
      BY <1>12, <2>2, <3>3, <3>4
  <2> QED
    BY <1>12, <2>1, <2>2 DEF AheadInv, Ahead
<1> QED
  BY <1>6, <1>13, <1>14, <1>15, <1>16, <1>17

\* A pass in which the next step may be taken, and the node it is at.
LEMMA PassAt ==
    ASSUME IInv, Depth > 0
    PROVE  /\ Depth \in Nat /\ DOMAIN passes = 1..Depth
           /\ Current \in Pass /\ PassInv(Current)
           /\ ~ Exhausted(Current) => /\ NodeAt(Current) \in Node
                                      /\ Current.full => Current.block # NULL
<1> USE GlobalHandlesAssumption
<1>1. /\ Depth \in Nat /\ DOMAIN passes = 1..Depth /\ Current \in Pass
  BY DEF IInv, TypeOK, Depth, Current
<1>2. PassInv(Current)
  BY <1>1 DEF IInv, PassesInv, Current
<1>3. ASSUME ~ Exhausted(Current)
      PROVE  /\ NodeAt(Current) \in Node
             /\ Current.full => Current.block # NULL
  <2>1. CASE Current.full
    <3>1. Current.block \in Block /\ Current.index \in 0..(Size - 1)
      BY <1>1, <1>2, <1>3, <2>1 DEF Exhausted, Pass, PassInv
    <3> QED
      BY <2>1, <3>1, NullIsNoBlock DEF NodeAt, Node
  <2>2. CASE ~ Current.full
    <3>1. Current.index \in Nat /\ Current.index > 0 /\ ~ (Current.index > Len(list))
      BY <1>1, <1>2, <1>3, <2>2 DEF Exhausted, Pass, PassInv
    <3>2. list \in Seq(Node)
      BY DEF IInv, TypeOK
    <3>3. Current.index \in 1..Len(list)
      BY <3>1, <3>2
    <3> QED
      BY <2>2, <3>2, <3>3 DEF NodeAt
  <2> QED
    BY <2>1, <2>2
<1> QED
  BY <1>1, <1>2, <1>3

\* When the innermost pass ends or goes on, the others stay as they are.
LEMMA PassReplaced ==
    ASSUME IInv, Depth > 0, NEW q \in Pass, PassInv(q), passes' = [passes EXCEPT ![Depth] = q]
    PROVE  /\ PassesInv' /\ passes' \in Seq(Pass) /\ Depth' = Depth /\ Current' = q
           /\ \A i \in 1..Depth : i # Depth => passes'[i] = passes[i]
<1>1. Depth \in Nat /\ DOMAIN passes = 1..Depth /\ passes \in Seq(Pass)
  BY DEF IInv, TypeOK, Depth
<1>2. passes' \in Seq(Pass) /\ Len(passes') = Len(passes)
  BY <1>1
<1>3. Depth' = Depth
  BY <1>2 DEF Depth
<1>4. \A i \in 1..Depth : passes'[i] = IF i = Depth THEN q ELSE passes[i]
  BY <1>1
<1>5. Current' = q
  BY <1>1, <1>3, <1>4 DEF Current
<1>6. PassesInv'
  BY <1>1, <1>3, <1>4 DEF PassesInv, IInv
<1> QED
  BY <1>2, <1>3, <1>4, <1>5, <1>6

\* The innermost pass ends, and the one around it is stale.
LEMMA PassEnded ==
    ASSUME IInv, Depth > 0, passes' = SubSeq(passes, 1, Depth - 1)
    PROVE  /\ PassesInv' /\ passes' \in Seq(Pass) /\ Depth' = Depth - 1
           /\ \A i \in 1..(Depth - 1) : passes'[i] = passes[i]
           /\ AheadInv'
<1>1. Depth \in Nat /\ DOMAIN passes = 1..Depth /\ passes \in Seq(Pass)
  BY DEF IInv, TypeOK, Depth
<1>2. /\ passes' \in Seq(Pass) /\ Len(passes') = Depth - 1
      /\ \A i \in 1..(Depth - 1) : passes'[i] = passes[i]
  BY <1>1 DEF Depth
<1>3. Depth' = Depth - 1
  BY <1>2 DEF Depth
<1>4. PassesInv'
  BY <1>1, <1>2, <1>3 DEF PassesInv, IInv
<1>5. Depth' > 0 => Current' = passes[Depth - 1] /\ passes[Depth - 1].stale
  BY <1>1, <1>2, <1>3 DEF Current, PassesInv, IInv
<1>6. AheadInv'
  BY <1>5 DEF AheadInv
<1> QED
  BY <1>2, <1>3, <1>4, <1>6

\* A round of the pass: it comes past a node, or calls back.
LEMMA VisitStep ==
    ASSUME IInv, AheadInv, Visit
    PROVE  IInv' /\ AheadInv'
<1> USE DEF IInv
<1> DEFINE n == NodeAt(Current)
           due == Concerns(Current, n) /\ state[n] = "PENDING"
           q == IF due THEN [Current EXCEPT !.node = n] ELSE Advanced(Current)
<1>1. /\ Depth > 0 /\ Current.node = NULL /\ ~ Exhausted(Current)
      /\ dep' = (IF Concerns(Current, n) /\ dep[n] = "partially"
                 THEN [dep EXCEPT ![n] = "dependent"] ELSE dep)
      /\ state' = (IF due THEN [state EXCEPT ![n] = "NEAR_DEATH"] ELSE state)
      /\ space' = space /\ free' = free /\ blocks' = blocks /\ UNCHANGED usedVars
      /\ list' = list /\ inList' = inList
  BY DEF Visit, listVars
<1>2. passes' = [passes EXCEPT ![Depth] =
                    IF due THEN [@ EXCEPT !.node = n] ELSE Advanced(@)]
  BY DEF Visit
<1>3. /\ Depth \in Nat /\ DOMAIN passes = 1..Depth
      /\ Current \in Pass /\ PassInv(Current)
      /\ n \in Node /\ (Current.full => Current.block # NULL)
  BY <1>1, PassAt
<1>4. ~ Current.stale
  BY <1>1, <1>3 DEF PassInv
<1>5. passes' = [passes EXCEPT ![Depth] = q]
  BY <1>1, <1>2, <1>3 DEF Current
<1>6. /\ Advanced(Current) \in Pass /\ PassInv(Advanced(Current))
      /\ Advanced(Current).node = NULL
      /\ Advanced(Current).full = Current.full
      /\ Current.full => \A m \in Node : m # <<Current.block, Current.index>> /\ Ahead(Current, m)
                                            => Ahead(Advanced(Current), m)
  BY <1>3, <1>4, AdvancedPass
<1> DEFINE c == Current
<1> HIDE DEF n, c
<1>7. /\ c.full => n = <<c.block, c.index>>
      /\ c \in Pass /\ c = Current
  BY <1>3 DEF NodeAt, n, c
<1>8. ASSUME due
      PROVE  /\ q \in Pass /\ PassInv(q) /\ q.node = n /\ q.full = c.full
             /\ q.block = c.block /\ q.index = c.index
  <2>1. q = [c EXCEPT !.node = n]
    BY <1>8 DEF c
  <2>2. [c EXCEPT !.node = n] \in Pass
    BY <1>3, <1>7 DEF Pass
  <2>3. /\ q.node = n /\ q.block = c.block /\ q.index = c.index
        /\ q.full = c.full /\ q.stale = c.stale
    BY <1>7, <2>1 DEF Pass
  <2> HIDE DEF q
  <2>4. PassInv(q)
    BY <1>3, <1>4, <1>7, <2>3 DEF PassInv
  <2> QED
    BY <2>1, <2>2, <2>3, <2>4
<1>9. q \in Pass /\ PassInv(q)
  BY <1>6, <1>8
<1> HIDE DEF q
<1>10. /\ PassesInv' /\ passes' \in Seq(Pass) /\ Depth' = Depth /\ Current' = q
       /\ \A i \in 1..Depth : i # Depth => passes'[i] = passes[i]
       /\ passes'[Depth] = q
  BY <1>1, <1>3, <1>5, <1>9, PassReplaced DEF Current
<1>11. \A m \in Node : Retainer(m)' <=> Retainer(m)
  BY <1>1, <1>3 DEF Retainer, Concerns, TypeOK
<1>12. UsedInv' /\ FreeInv' /\ InUse' = InUse
  BY <1>1, <1>11, SameRetainers
<1>13. TypeOK'
  <2>1. /\ state' \in [Node -> {"FREE", "NORMAL", "WEAK", "PENDING", "NEAR_DEATH"}]
        /\ dep' \in [Node -> {"dependent", "partially", "independent"}]
    BY <1>1, <1>3 DEF TypeOK
  <2> QED
    BY <1>1, <1>10, <2>1 DEF TypeOK, usedVars
<1>14. NewInv'
  BY <1>1, <1>11 DEF NewInv
<1>15. NearInv'
  <2>1. ASSUME NEW m \in Node, state'[m] = "NEAR_DEATH"
        PROVE  \E i \in 1..Depth : passes'[i].node = m
    <3>1. CASE due /\ m = n
      BY <1>1, <1>3, <1>8, <1>10, <3>1
    <3>2. CASE ~ (due /\ m = n)
      <4>1. state[m] = "NEAR_DEATH"
        BY <1>1, <1>3, <2>1, <3>2 DEF TypeOK
      <4>2. PICK i \in 1..Depth : passes[i].node = m
        BY <4>1 DEF NearInv
      <4>3. i # Depth
        BY <1>1, <4>2, GlobalHandlesAssumption DEF Current
      <4> QED
        BY <1>10, <4>2, <4>3
    <3> QED
      BY <3>1, <3>2
  <2> QED
    BY <1>10, <2>1 DEF NearInv
<1>16. AheadInv'
  <2>1. SUFFICES ASSUME q.full, NEW m \in Node, state'[m] = "PENDING"
                 PROVE  /\ m # q.node /\ q.block # NULL
                        /\ \/ m[1] = q.block /\ m[2] >= q.index
                           \/ Leads(next, q.block, m[1])
    BY <1>1, <1>10 DEF AheadInv, Ahead, usedVars
  <2>2. state[m] = "PENDING"
    BY <1>1, <1>3, <2>1 DEF TypeOK
  <2>3. c.full
    BY <1>6, <1>7, <1>8, <2>1 DEF q
  <2>4. Ahead(c, m)
    BY <1>1, <1>4, <1>7, <2>2, <2>3 DEF AheadInv
  <2>5. CASE due
    <3>1. m # n
      BY <1>1, <1>3, <2>1, <2>5 DEF TypeOK
    <3> QED
      BY <1>8, <2>4, <2>5, <3>1 DEF Ahead
  <2>6. CASE ~ due
    <3>1. m # n
      <4>1. Retainer(m)
        BY <2>2 DEF Retainer
      <4> QED
        BY <1>7, <2>2, <2>3, <2>6, <4>1 DEF Concerns
    <3>2. Ahead(Advanced(c), m) /\ Advanced(c).node = NULL /\ q = Advanced(c)
      BY <1>6, <1>7, <2>3, <2>4, <2>6, <3>1 DEF q
    <3> QED
      BY <3>2, GlobalHandlesAssumption DEF Ahead
  <2> QED
    BY <2>5, <2>6
<1> QED
  BY <1>10, <1>12, <1>13, <1>14, <1>15, <1>16

\* A callback returns to a pass that may be stale by now.
LEMMA CallbackReturnStep ==
    ASSUME IInv, AheadInv, CallbackReturn
    PROVE  IInv' /\ AheadInv'
<1> USE DEF IInv
<1> DEFINE c == Current
<1>1. /\ Depth > 0 /\ c.node # NULL /\ state[c.node] # "NEAR_DEATH"
      /\ passes' = IF c.stale THEN SubSeq(passes, 1, Depth - 1)
                   ELSE [passes EXCEPT ![Depth] = Advanced(@)]
      /\ state' = state /\ dep' = dep /\ space' = space
      /\ free' = free /\ blocks' = blocks /\ UNCHANGED usedVars
      /\ list' = list /\ inList' = inList
  BY DEF CallbackReturn, nodeVars, listVars
<1>2. /\ Depth \in Nat /\ DOMAIN passes = 1..Depth
      /\ c \in Pass /\ PassInv(c)
  BY <1>1, PassAt
<1>3. UsedInv' /\ FreeInv'
  <2>1. \A m \in Node : Retainer(m)' <=> Retainer(m)
    BY <1>1 DEF Retainer
  <2> QED
    BY <1>1, <2>1, SameRetainers
<1>4. NewInv'
  BY <1>1 DEF NewInv, Retainer
<1>5. \A m \in Node : state'[m] = "NEAR_DEATH" => \E i \in 1..(Depth - 1) : passes[i].node = m
  <2>1. ASSUME NEW m \in Node, state'[m] = "NEAR_DEATH"
        PROVE  \E i \in 1..(Depth - 1) : passes[i].node = m
    <3>1. PICK i \in 1..Depth : passes[i].node = m
      BY <1>1, <2>1 DEF NearInv
    <3>2. i # Depth
      BY <1>1, <2>1, <3>1 DEF Current
    <3> QED
      BY <1>2, <3>1, <3>2
  <2> QED
    BY <2>1
<1>6. CASE c.stale
  <2>1. /\ PassesInv' /\ passes' \in Seq(Pass) /\ Depth' = Depth - 1
        /\ \A i \in 1..(Depth - 1) : passes'[i] = passes[i]
        /\ AheadInv'
    BY <1>1, <1>6, PassEnded
  <2>2. TypeOK'
    BY <1>1, <2>1 DEF TypeOK, usedVars
  <2>3. NearInv'
    BY <1>5, <2>1 DEF NearInv
  <2> QED
    BY <1>3, <1>4, <2>1, <2>2, <2>3
<1>7. CASE ~ c.stale
  <2>1. c.full => c.block # NULL /\ c.node = <<c.block, c.index>>
    BY <1>1, <1>2 DEF PassInv
  <2>2. /\ Advanced(c) \in Pass /\ PassInv(Advanced(c)) /\ Advanced(c).node = NULL
        /\ Advanced(c).full = c.full
        /\ c.full => \A n \in Node : n # <<c.block, c.index>> /\ Ahead(c, n)
                                        => Ahead(Advanced(c), n)
    BY <1>2, <1>7, <2>1, AdvancedPass
  <2>3. passes' = [passes EXCEPT ![Depth] = Advanced(c)]
    BY <1>1, <1>2, <1>7 DEF Current
  <2>4. /\ PassesInv' /\ passes' \in Seq(Pass) /\ Depth' = Depth /\ Current' = Advanced(c)
        /\ \A i \in 1..Depth : i # Depth => passes'[i] = passes[i]
    BY <1>1, <2>2, <2>3, PassReplaced
  <2>5. TypeOK'
    BY <1>1, <2>4 DEF TypeOK, usedVars
  <2>6. NearInv'
    <3>1. ASSUME NEW m \in Node, state'[m] = "NEAR_DEATH"
          PROVE  \E i \in 1..Depth : passes'[i].node = m
      <4>1. PICK i \in 1..(Depth - 1) : passes[i].node = m
        BY <1>5, <3>1
      <4>2. i \in 1..Depth /\ i # Depth
        BY <1>2
      <4> QED
        BY <2>4, <4>1, <4>2
    <3> QED
      BY <2>4, <3>1 DEF NearInv
  <2>7. AheadInv'
    <3> DEFINE q == Advanced(c)
    <3> HIDE DEF q, c
    <3>1. SUFFICES ASSUME q.full, NEW m \in Node, state'[m] = "PENDING"
                   PROVE  /\ m # q.node /\ q.block # NULL
                          /\ \/ m[1] = q.block /\ m[2] >= q.index
                             \/ Leads(next, q.block, m[1])
      BY <1>1, <2>4 DEF AheadInv, Ahead, usedVars, q
    <3>2. state[m] = "PENDING" /\ c.full
      BY <1>1, <2>2, <3>1 DEF q
    <3>3. m # c.node /\ Ahead(c, m)
      BY <1>1, <1>7, <3>2 DEF AheadInv, c
    <3>4. Ahead(q, m) /\ q.node = NULL
      BY <2>1, <2>2, <3>2, <3>3 DEF q
    <3> QED
      BY <3>4, GlobalHandlesAssumption DEF Ahead
  <2> QED
    BY <1>3, <1>4, <2>4, <2>5, <2>6, <2>7
<1> QED
  BY <1>6, <1>7

\* A pass ends with the update of the list of new-space nodes.
LEMMA FinishStep ==
    ASSUME IInv, Finish
    PROVE  IInv' /\ AheadInv'
<1> USE DEF IInv
<1> DEFINE staying == {n \in Node : Retainer(n) /\ space[n] = "new"}
<1>1. /\ Depth > 0 /\ Current.node = NULL
      /\ list' = Kept(list, staying)
      /\ inList' = [n \in Node |-> inList[n] /\ n \in staying]
      /\ passes' = SubSeq(passes, 1, Depth - 1)
      /\ state' = state /\ dep' = dep /\ space' = space
      /\ free' = free /\ blocks' = blocks /\ UNCHANGED usedVars
  BY DEF Finish, nodeVars
<1>2. /\ PassesInv' /\ passes' \in Seq(Pass) /\ Depth' = Depth - 1
      /\ \A i \in 1..(Depth - 1) : passes'[i] = passes[i]
      /\ AheadInv'
  BY <1>1, PassEnded
<1>3. UsedInv' /\ FreeInv'
  <2>1. \A m \in Node : Retainer(m)' <=> Retainer(m)
    BY <1>1 DEF Retainer
  <2> QED
    BY <1>1, <2>1, SameRetainers
<1>4. /\ list' \in Seq(Node)
      /\ \A x : Has(list', x) <=> Has(list, x) /\ x \in staying
      /\ Injective(list')
  <2>1. list \in Seq(Node) /\ Injective(list)
    BY DEF TypeOK, NewInv
  <2> HIDE DEF staying
  <2> QED
    BY <1>1, <2>1, KeptList
<1>5. /\ inList' \in [Node -> BOOLEAN]
      /\ \A m \in Node : inList'[m] <=> inList[m] /\ m \in staying
  BY <1>1 DEF TypeOK
<1>6. TypeOK'
  BY <1>1, <1>2, <1>4, <1>5 DEF TypeOK, usedVars
<1>7. NewInv'
  BY <1>1, <1>4, <1>5 DEF NewInv, Retainer
<1>8. NearInv'
  <2>1. ASSUME NEW m \in Node, state'[m] = "NEAR_DEATH"
        PROVE  \E i \in 1..(Depth - 1) : passes'[i].node = m
    <3>1. PICK i \in 1..Depth : passes[i].node = m
      BY <1>1, <2>1 DEF NearInv
    <3>2. i # Depth
      BY <1>1, <3>1, GlobalHandlesAssumption DEF Current
    <3>3. i \in 1..(Depth - 1)
      BY <1>1, <3>2, PassAt
    <3> QED
      BY <1>2, <3>1, <3>3
  <2> QED
    BY <1>2, <2>1 DEF NearInv
<1> QED
  BY <1>2, <1>3, <1>6, <1>7, <1>8

\* The invariants hold at the start.
LEMMA InvInit == Init => IInv /\ AheadInv
<1> USE GlobalHandlesAssumption
<1> SUFFICES ASSUME Init PROVE IInv /\ AheadInv
  OBVIOUS
<1>1. TypeOK /\ PassesInv /\ AheadInv /\ NearInv
  BY DEF Init, TypeOK, PassesInv, AheadInv, NearInv, Depth
<1>2. \A n \in Node : ~ Retainer(n)
  BY DEF Init, Retainer
<1>3. FreeInv /\ NewInv
  BY <1>2 DEF FreeInv, NewInv, Init, Injective, Has
<1>4. UsedInv
  <2>1. InUse = {}
    BY <1>2, UsedNode
  <2> QED
    BY <2>1 DEF UsedInv, Linked, Init
<1> QED
  BY <1>1, <1>3, <1>4 DEF IInv

\* Every step preserves them.
LEMMA InvNext == IInv /\ AheadInv /\ [Next]_vars => IInv' /\ AheadInv'
<1> SUFFICES ASSUME IInv, AheadInv, [Next]_vars PROVE IInv' /\ AheadInv'
  OBVIOUS
<1>1. CASE \E s \in {"new", "old"} : Create(s)
  BY <1>1, CreateStep
<1>2. CASE \E n \in Node : Destroy(n)
  BY <1>2, DestroyStep
<1>3. CASE \E n \in Node : \/ MakeWeak(n) \/ ClearWeakness(n)
                           \/ MarkIndependent(n) \/ MarkPartiallyDependent(n)
  BY <1>3, SetStep
<1>4. CASE \E full \in BOOLEAN : Collect(full)
  BY <1>4, CollectStep
<1>5. CASE Visit
  BY <1>5, VisitStep
<1>6. CASE CallbackReturn
  BY <1>6, CallbackReturnStep
<1>7. CASE Finish
  BY <1>7, FinishStep
<1>8. CASE UNCHANGED vars
  <2>1. TypeOK' /\ PassesInv'
    BY <1>8 DEF vars, nodeVars, usedVars, listVars, IInv, TypeOK, PassesInv, Depth
  <2>2. FreeInv' /\ NewInv'
    BY <1>8 DEF vars, nodeVars, listVars, IInv, FreeInv, NewInv, Retainer
  <2>3. UsedInv'
    BY <1>8, SameRetainers DEF vars, nodeVars, IInv, Retainer
  <2>4. NearInv'
    BY <1>8 DEF vars, nodeVars, IInv, NearInv, Depth
  <2>5. AheadInv'
    BY <1>8 DEF vars, nodeVars, usedVars, AheadInv, Depth, Current, Ahead
  <2> QED
    BY <2>1, <2>2, <2>3, <2>4, <2>5 DEF IInv
<1> QED
  BY <1>1, <1>2, <1>3, <1>4, <1>5, <1>6, <1>7, <1>8 DEF Next

\* They hold always.
LEMMA InvHolds == Spec => [](IInv /\ AheadInv)
BY InvInit, InvNext, PTL DEF Spec

-------------------------------------------------------------------------------
(* Theorems *)

\* From is what Linked describes.
LEMMA FromFirst ==
    ASSUME UsedInv
    PROVE  From(first) = InUse
<1>1. InUse \subseteq Block /\ InUse \in SUBSET Block
  BY DEF InUse
<1>2. Closed(InUse) /\ (first # NULL => first \in InUse)
  BY DEF UsedInv, Linked, Closed
<1>3. From(first) \subseteq InUse
  BY <1>1, <1>2 DEF From
<1>4. InUse \subseteq From(first)
  BY <1>1 DEF UsedInv, Linked, From, Closed, ClosedBy
<1> QED
  BY <1>3, <1>4

\* Every node of a block is in use or on the free list once, the list of used
\* blocks has those with a node in use, linked both ways, and a handle is near
\* death only while its callback runs (Node::Release, NodeBlock's IncreaseUses
\* and DecreaseUses, PostGarbageCollectionProcessing).
THEOREM NodesAccountedTheorem == Spec => []NodesAccounted
<1>1. ASSUME IInv PROVE NodesAccounted
  <2> USE <1>1 DEF IInv
  <2>1. ASSUME NEW n \in Node
        PROVE  Cardinality({i \in DOMAIN free : free[i] = n}) =
                  IF n[1] \in blocks /\ ~ Retainer(n) THEN 1 ELSE 0
    BY Occurrences DEF FreeInv
  <2>2. From(first) = {b \in Block : Uses(b) > 0}
    <3>1. \A b \in Block : Uses(b) > 0 <=> b \in InUse
      <4>1. ASSUME NEW b \in Block PROVE Uses(b) > 0 <=> b \in InUse
        <5>1. <<b, 0>> \in Node /\ <<b, 0>>[1] = b
          BY GlobalHandlesAssumption DEF Node
        <5>2. Uses(b) = 0 <=> b \notin InUse
          BY <5>1, UsesCounts
        <5>3. Uses(b) \in Nat
          <6>1. {i \in 0..(Size - 1) : Retainer(<<b, i>>)} \in SUBSET (0..(Size - 1))
            OBVIOUS
          <6>2. IsFiniteSet(0..(Size - 1))
            BY GlobalHandlesAssumption, FS_Interval
          <6>3. IsFiniteSet({i \in 0..(Size - 1) : Retainer(<<b, i>>)})
            BY <6>1, <6>2, FS_Subset
          <6> QED
            BY <6>3, FS_CardinalityType DEF Uses
        <5> QED
          BY <5>2, <5>3
      <4> QED
        BY <4>1
    <3>2. InUse \subseteq Block
      BY DEF InUse
    <3> QED
      BY <3>1, <3>2, FromFirst
  <2>3. /\ first # NULL => prev[first] = NULL
        /\ \A b \in From(first) : next[b] # NULL => next[b] # b /\ prev[next[b]] = b
    BY FromFirst DEF UsedInv, Linked
  <2> QED
    BY <2>1, <2>2, <2>3 DEF NodesAccounted, NearInv
<1> QED
  BY <1>1, InvHolds, PTL

\* The scavenger's list has every handle with a new-space object, and each node
\* once (Create, the end of PostGarbageCollectionProcessing).
THEOREM NewSpaceNodesCompleteTheorem == Spec => []NewSpaceNodesComplete
<1>1. ASSUME IInv PROVE NewSpaceNodesComplete
  <2> USE <1>1 DEF IInv
  <2>1. ASSUME NEW n \in Node
        PROVE  Cardinality({i \in DOMAIN list : list[i] = n}) = IF inList[n] THEN 1 ELSE 0
    BY Occurrences DEF NewInv
  <2> QED
    BY <2>1 DEF NewSpaceNodesComplete, NewInv
<1> QED
  BY <1>1, InvHolds, PTL

\* A pass over all handles that comes to its end has run the callback of every
\* handle found dead, whatever callbacks have done to the list of blocks.
THEOREM NothingLeftPendingTheorem == Spec => NothingLeftPending
<1>1. ASSUME IInv, AheadInv, Finish, Current.full
      PROVE  \A n \in Node : state[n] # "PENDING"
  <2>1. Depth > 0 /\ Current.node = NULL /\ Current.block = NULL
    BY <1>1 DEF Finish, Exhausted
  <2>2. ~ Current.stale
    BY <1>1, <2>1, PassAt DEF PassInv
  <2> QED
    BY <1>1, <2>1, <2>2 DEF AheadInv, Ahead
<1>2. IInv /\ AheadInv => [Finish /\ Current.full => \A n \in Node : state[n] # "PENDING"]_vars
  BY <1>1
<1> QED
  BY <1>2, InvHolds, PTL DEF NothingLeftPending
===============================================================================
