----------------------- MODULE IncrementalMarkingProofs -----------------------
(***************************************************************************)
(* Proofs about IncrementalMarking.                                        *)
(***************************************************************************)
EXTENDS IncrementalMarking, WellFoundedInduction, NaturalsInduction, FiniteSetTheorems,
        SequenceTheorems, TLAPS

\* A set of natural numbers has a least element.
LEMMA NatMin ==
    ASSUME NEW T \in SUBSET Nat, T # {}
    PROVE  \E x \in T : \A y \in T : x <= y
<1>1. PICK x \in T : \A y \in T : ~ (<<y, x>> \in OpToRel(<, Nat))
  BY NatLessThanWellFounded, WFMin
<1>2. \A y \in T : ~ (y < x)
  BY <1>1 DEF OpToRel
<1> QED
  BY <1>2

\* A sequence of all the elements of a finite set has them all.
LEMMA SetToSeqFacts ==
    ASSUME NEW S, IsFiniteSet(S)
    PROVE  SetToSeq(S) \in Seq(S) /\ ToSet(SetToSeq(S)) = S
<1> DEFINE n == Cardinality(S)
<1>1. n \in Nat /\ IsFiniteSet(1..n) /\ Cardinality(1..n) = n
  BY FS_CardinalityType, FS_Interval
<1>2. ExistsBijection(1..n, S)
  BY <1>1, FS_CardinalityType
<1>3. PICK f \in [1..n -> S] : IsInjective(f)
  BY <1>2 DEF ExistsBijection, Bijection, Injection
<1>4. SetToSeq(S) \in [1..n -> S] /\ IsInjective(SetToSeq(S))
  BY <1>3 DEF SetToSeq
<1>5. SetToSeq(S) \in Surjection(1..n, S)
  BY <1>1, <1>4, FS_Injection DEF Injection
<1>6. ToSet(SetToSeq(S)) = S
  BY <1>5 DEF Surjection, ToSet
<1> QED
  BY <1>1, <1>4, <1>6
-------------------------------------------------------------------------------
(* Entries of a deque                                                      *)

Once(s, x) == \A i, j \in DOMAIN s : s[i] = x /\ s[j] = x => i = j

\* Append adds an entry.
LEMMA AppendFacts ==
    ASSUME NEW S, NEW s \in Seq(S), NEW a \in S
    PROVE  /\ Append(s, a) \in Seq(S)
           /\ ToSet(Append(s, a)) = ToSet(s) \cup {a}
           /\ \A x : Once(s, x) /\ (x = a => x \notin ToSet(s)) => Once(Append(s, a), x)
<1>1. /\ Append(s, a) \in Seq(S) /\ Len(s) \in Nat /\ DOMAIN s = 1..Len(s)
      /\ DOMAIN Append(s, a) = 1..(Len(s) + 1)
      /\ \A i \in 1..Len(s) : Append(s, a)[i] = s[i]
      /\ Append(s, a)[Len(s) + 1] = a
  BY AppendProperties
<1> DEFINE t == Append(s, a)
<1> HIDE DEF t
<1>2. ToSet(t) = ToSet(s) \cup {a}
  <2>1. \A i \in 1..(Len(s) + 1) : i \in 1..Len(s) \/ i = Len(s) + 1
    BY <1>1
  <2>2. 1..Len(s) \subseteq 1..(Len(s) + 1) /\ Len(s) + 1 \in 1..(Len(s) + 1)
    BY <1>1
  <2>3. ASSUME NEW x \in ToSet(t) PROVE x \in ToSet(s) \cup {a}
    BY <1>1, <2>1, <2>3 DEF ToSet, t
  <2>4. ASSUME NEW x \in ToSet(s) \cup {a} PROVE x \in ToSet(t)
    BY <1>1, <2>2, <2>4 DEF ToSet, t
  <2> QED
    BY <2>3, <2>4
<1>3. ASSUME NEW x, Once(s, x), x = a => x \notin ToSet(s) PROVE Once(t, x)
  <2>1. \A i \in 1..(Len(s) + 1) : i \in 1..Len(s) \/ i = Len(s) + 1
    BY <1>1
  <2>2. x = a => \A i \in 1..Len(s) : s[i] # x
    BY <1>1, <1>3 DEF ToSet
  <2> QED
    BY <1>1, <1>3, <2>1, <2>2 DEF Once, t
<1> QED
  BY <1>1, <1>2, <1>3 DEF t

\* So does an entry put in front.
LEMMA UnshiftFacts ==
    ASSUME NEW S, NEW s \in Seq(S), NEW a \in S
    PROVE  /\ <<a>> \o s \in Seq(S)
           /\ ToSet(<<a>> \o s) = ToSet(s) \cup {a}
           /\ \A x : Once(s, x) /\ (x = a => x \notin ToSet(s)) => Once(<<a>> \o s, x)
<1>1. /\ <<a>> \in Seq(S) /\ Len(<<a>>) = 1 /\ <<a>>[1] = a /\ Len(s) \in Nat
      /\ DOMAIN s = 1..Len(s)
  OBVIOUS
<1>2. /\ <<a>> \o s \in Seq(S)
      /\ Len(<<a>> \o s) = Len(s) + 1
      /\ \A i \in 1..(Len(s) + 1) : (<<a>> \o s)[i] = IF i <= 1 THEN a ELSE s[i - 1]
  BY <1>1, ConcatProperties
<1> DEFINE t == <<a>> \o s
<1> HIDE DEF t
<1>3. DOMAIN t = 1..(Len(s) + 1)
  BY <1>2 DEF t
<1>4. t[1] = a /\ 1 \in DOMAIN t
  BY <1>1, <1>2, <1>3 DEF t
<1>5. \A i \in 1..Len(s) : i + 1 \in DOMAIN t /\ t[i + 1] = s[i]
  BY <1>1, <1>2, <1>3 DEF t
<1>6. \A i \in DOMAIN t : i = 1 \/ (i - 1 \in 1..Len(s) /\ t[i] = s[i - 1])
  BY <1>1, <1>2, <1>3 DEF t
<1>7. ToSet(t) = ToSet(s) \cup {a}
  <2>1. ASSUME NEW x \in ToSet(t) PROVE x \in ToSet(s) \cup {a}
    BY <1>1, <1>4, <1>6, <2>1 DEF ToSet
  <2>2. ASSUME NEW x \in ToSet(s) \cup {a} PROVE x \in ToSet(t)
    BY <1>1, <1>4, <1>5, <2>2 DEF ToSet
  <2> QED
    BY <2>1, <2>2
<1>8. ASSUME NEW x, Once(s, x), x = a => x \notin ToSet(s) PROVE Once(t, x)
  <2> SUFFICES ASSUME NEW i \in DOMAIN t, NEW j \in DOMAIN t, t[i] = x, t[j] = x
               PROVE  i = j
    BY DEF Once
  <2>1. x = a => \A k \in 1..Len(s) : s[k] # x
    BY <1>1, <1>8 DEF ToSet
  <2>2. i # 1 /\ j # 1 => i - 1 = j - 1
    BY <1>1, <1>6, <1>8 DEF Once
  <2>3. i \in Int /\ j \in Int
    BY <1>3
  <2> QED
    BY <1>4, <1>6, <2>1, <2>2, <2>3
<1> QED
  BY <1>2, <1>7, <1>8 DEF t

\* What is left when the last entry is popped.
LEMMA FrontFacts ==
    ASSUME NEW S, NEW s \in Seq(S), s # << >>
    PROVE  /\ Front(s) \in Seq(S) /\ Len(Front(s)) = Len(s) - 1
           /\ Last(s) \in ToSet(s)
           /\ ToSet(s) = ToSet(Front(s)) \cup {Last(s)}
           /\ \A x : Once(s, x) => Once(Front(s), x) /\ (x = Last(s) => x \notin ToSet(Front(s)))
<1>a. PICK t : t = Front(s)
  OBVIOUS
<1>0. PICK n \in Nat : n = Len(s)
  OBVIOUS
<1>1. n >= 1 /\ DOMAIN s = 1..n /\ \A i \in 1..n : s[i] \in S
  BY <1>0, EmptySeq
<1>5. \A i \in 1..n : i = n \/ (i \in 1..(n - 1) /\ i # n)
  BY <1>1
<1>6. \A i \in 1..(n - 1) : i \in 1..n /\ i # n /\ 1 + i - 1 = i
  BY <1>1
<1>2. /\ t \in Seq(S) /\ Len(t) = n - 1
      /\ \A i \in 1..(n - 1) : t[i] = s[i]
  <2>1. /\ t \in Seq(S) /\ Len(t) = IF 1 <= n - 1 THEN n - 1 - 1 + 1 ELSE 0
        /\ \A i \in 1..(n - 1 - 1 + 1) : t[i] = s[1 + i - 1]
    BY <1>a, <1>0, <1>1, <1>6, SubSeqProperties DEF Front
  <2>2. n - 1 - 1 + 1 = n - 1 /\ (IF 1 <= n - 1 THEN n - 1 - 1 + 1 ELSE 0) = n - 1
    BY <1>1
  <2> QED
    BY <1>6, <2>1, <2>2
<1>3. DOMAIN t = 1..(n - 1)
  BY <1>1, <1>2
<1>4. Last(s) = s[n] /\ n \in 1..n /\ Last(s) \in ToSet(s)
  BY <1>0, <1>1 DEF Last, ToSet
<1>7. ToSet(s) = ToSet(t) \cup {Last(s)}
  <2>1. ASSUME NEW x \in ToSet(s) PROVE x \in ToSet(t) \cup {Last(s)}
    BY <1>1, <1>2, <1>3, <1>4, <1>5, <2>1 DEF ToSet
  <2>2. ASSUME NEW x \in ToSet(t) PROVE x \in ToSet(s)
    BY <1>1, <1>2, <1>3, <1>6, <2>2 DEF ToSet
  <2> QED
    BY <1>4, <2>1, <2>2
<1>8. ASSUME NEW x, Once(s, x) PROVE Once(t, x) /\ (x = Last(s) => x \notin ToSet(t))
  BY <1>1, <1>2, <1>3, <1>4, <1>6, <1>8 DEF Once, ToSet
<1> QED
  BY <1>a, <1>0, <1>2, <1>4, <1>7, <1>8

\* The first entry and the others.
LEMMA TailFacts ==
    ASSUME NEW S, NEW s \in Seq(S), s # << >>
    PROVE  /\ Head(s) \in S /\ Tail(s) \in Seq(S) /\ Len(Tail(s)) = Len(s) - 1
           /\ ToSet(s) = {Head(s)} \cup ToSet(Tail(s))
<1>1. PICK n \in Nat : n = Len(s) /\ n >= 1 /\ DOMAIN s = 1..n
  BY EmptySeq
<1>2. PICK t : t = Tail(s)
  OBVIOUS
<1>3. /\ Head(s) \in S /\ t \in Seq(S) /\ Len(t) = n - 1 /\ DOMAIN t = 1..(n - 1)
      /\ \A i \in 1..(n - 1) : t[i] = s[i + 1]
  <2>1. /\ Head(s) \in S /\ t \in Seq(S) /\ Len(t) = n - 1
        /\ \A i \in 1..Len(t) : t[i] = s[i + 1]
    BY <1>1, <1>2, HeadTailProperties
  <2> QED
    BY <2>1
<1>4. Head(s) = s[1]
  BY <1>1
<1>5. ASSUME NEW x, x \in ToSet(s) PROVE x \in {Head(s)} \cup ToSet(t)
  <2>1. PICK i \in 1..n : s[i] = x
    BY <1>1, <1>5 DEF ToSet
  <2>2. CASE i = 1
    BY <1>4, <2>1, <2>2
  <2>3. CASE i # 1
    <3>1. PICK j \in 1..(n - 1) : i = j + 1
      <4>1. i - 1 \in 1..(n - 1) /\ i = (i - 1) + 1
        BY <2>1, <2>3
      <4> QED
        BY <4>1
    <3>2. t[j] = x
      BY <1>3, <2>1, <3>1
    <3> QED
      BY <1>3, <3>1, <3>2 DEF ToSet
  <2> QED
    BY <2>2, <2>3
<1>6. ASSUME NEW x, x \in {Head(s)} \cup ToSet(t) PROVE x \in ToSet(s)
  <2>1. CASE x = Head(s)
    BY <1>1, <1>4, <2>1 DEF ToSet
  <2>2. CASE x \in ToSet(t)
    <3>1. PICK i \in 1..(n - 1) : t[i] = x
      BY <1>3, <2>2 DEF ToSet
    <3>2. i + 1 \in 1..n /\ s[i + 1] = x
      BY <1>1, <1>3, <3>1
    <3> QED
      BY <1>1, <3>2 DEF ToSet
  <2> QED
    BY <1>6, <2>1, <2>2
<1> QED
  BY <1>1, <1>2, <1>3, <1>5, <1>6

-------------------------------------------------------------------------------
(* Marking                                                                 *)

Colors == {"white", "grey", "black"}
AllMarks == [color : [Addr -> Colors], deque : Deque]

\* What has become of the marks m when the values in V have been marked: no
\* mark is taken back, what has been marked is on the deque with color c or is
\* grey and the deque has overflowed, and nothing is on it twice.
MarkedFacts(c, m, V, r) ==
    /\ r \in AllMarks
    /\ \A x \in Addr : m.color[x] # "white" => r.color[x] = m.color[x]
    /\ \A x \in Addr : m.color[x] = "white" /\ r.color[x] # "white" =>
          /\ x \in V
          /\ \/ x \in ToSet(r.deque.entries) /\ r.color[x] = c
             \/ r.color[x] = "grey" /\ r.deque.overflowed
    /\ \A x \in V \ {NULL} : r.color[x] # "white"
    /\ ToSet(m.deque.entries) \subseteq ToSet(r.deque.entries)
    /\ \A x \in ToSet(r.deque.entries) \ ToSet(m.deque.entries) :
          x \in Addr /\ m.color[x] = "white" /\ r.color[x] = c
    /\ m.deque.overflowed => r.deque.overflowed
    /\ \A x : /\ Once(m.deque.entries, x)
              /\ x \in ToSet(m.deque.entries) /\ x \in V => m.color[x] # "white"
              => Once(r.deque.entries, x)

\* A deque after a push.
LEMMA PushFacts ==
    ASSUME NEW d \in Deque, NEW a \in Addr
    PROVE  /\ Push(d, a) \in Deque
           /\ IF IsFull(d) THEN Push(d, a).entries = d.entries /\ Push(d, a).overflowed
              ELSE /\ Push(d, a).entries = Append(d.entries, a)
                   /\ Push(d, a).overflowed = d.overflowed
<1>1. d.entries \in Seq(Addr) /\ d.overflowed \in BOOLEAN
  BY DEF Deque
<1>2. Append(d.entries, a) \in Seq(Addr)
  BY <1>1, AppendFacts
<1>3. CASE IsFull(d)
  <2>1. Push(d, a) = [d EXCEPT !.overflowed = TRUE]
    BY <1>3 DEF Push
  <2>2. Push(d, a) = [entries |-> d.entries, overflowed |-> TRUE]
    BY <2>1 DEF Deque
  <2> QED
    BY <1>1, <1>3, <2>2 DEF Deque
<1>4. CASE ~IsFull(d)
  <2>1. Push(d, a) = [d EXCEPT !.entries = Append(d.entries, a)]
    BY <1>4 DEF Push
  <2>2. Push(d, a) = [entries |-> Append(d.entries, a), overflowed |-> d.overflowed]
    BY <2>1 DEF Deque
  <2> QED
    BY <1>1, <1>2, <1>4, <2>2 DEF Deque
<1> QED
  BY <1>3, <1>4

\* Marking one value.
LEMMA MarkAsFacts ==
    ASSUME NEW c \in {"grey", "black"}, NEW m \in AllMarks, NEW v \in Addr \cup {NULL}
    PROVE  MarkedFacts(c, m, {v}, MarkAs(c, m, v))
<1>1. m.color \in [Addr -> Colors] /\ m.deque \in Deque /\ m.deque.entries \in Seq(Addr)
  BY DEF AllMarks, Deque
<1>2. CASE v = NULL \/ m.color[v] # "white"
  <2>1. MarkAs(c, m, v) = m
    BY <1>2 DEF MarkAs
  <2> QED
    BY <1>2, <2>1 DEF MarkedFacts
<1>3. CASE ~ (v = NULL \/ m.color[v] # "white")
  <2> DEFINE e == IF IsFull(m.deque) THEN "grey" ELSE c
             q == Push(m.deque, v)
             k == [m.color EXCEPT ![v] = e]
  <2>1. MarkAs(c, m, v) = [color |-> k, deque |-> q]
    BY <1>3 DEF MarkAs
  <2>2. v \in Addr /\ m.color[v] = "white" /\ e \in {"grey", "black"}
    BY <1>3
  <2>3. /\ q \in Deque
        /\ IF IsFull(m.deque) THEN q.entries = m.deque.entries /\ q.overflowed
           ELSE /\ q.entries = Append(m.deque.entries, v)
                /\ q.overflowed = m.deque.overflowed
    BY <1>1, <2>2, PushFacts
  <2>4. /\ k \in [Addr -> Colors] /\ k[v] = e
        /\ \A x \in Addr : x # v => k[x] = m.color[x]
    BY <1>1, <2>2 DEF Colors
  <2>5. /\ ~IsFull(m.deque) => ToSet(q.entries) = ToSet(m.deque.entries) \cup {v}
        /\ \A x : /\ Once(m.deque.entries, x)
                  /\ x \in ToSet(m.deque.entries) /\ x \in {v} => m.color[x] # "white"
                  => Once(q.entries, x)
    <3> HIDE DEF q, k
    <3>1. /\ ToSet(Append(m.deque.entries, v)) = ToSet(m.deque.entries) \cup {v}
          /\ \A x : /\ Once(m.deque.entries, x)
                    /\ x = v => x \notin ToSet(m.deque.entries)
                    => Once(Append(m.deque.entries, v), x)
      BY <1>1, <2>2, AppendFacts
    <3>2. ASSUME NEW x, Once(m.deque.entries, x),
                 x \in ToSet(m.deque.entries) /\ x \in {v} => m.color[x] # "white"
          PROVE  Once(q.entries, x)
      <4>1. x = v => x \notin ToSet(m.deque.entries)
        BY <2>2, <3>2
      <4> QED
        BY <2>3, <3>1, <3>2, <4>1
    <3> QED
      BY <2>3, <3>1, <3>2
  <2> HIDE DEF q, k
  <2> DEFINE r == [color |-> k, deque |-> q]
  <2>6. r \in AllMarks /\ r.color = k /\ r.deque = q
    BY <2>3, <2>4 DEF AllMarks
  <2> HIDE DEF r
  <2>7. /\ \A x \in Addr : m.color[x] # "white" => r.color[x] = m.color[x]
        /\ \A x \in {v} \ {NULL} : r.color[x] # "white"
    BY <2>2, <2>4, <2>6
  <2>8. /\ ToSet(m.deque.entries) \subseteq ToSet(r.deque.entries)
        /\ \A x \in ToSet(r.deque.entries) \ ToSet(m.deque.entries) :
              x \in Addr /\ m.color[x] = "white" /\ r.color[x] = c
        /\ m.deque.overflowed => r.deque.overflowed
    BY <2>2, <2>3, <2>4, <2>5, <2>6
  <2>9. ASSUME NEW x \in Addr, m.color[x] = "white", r.color[x] # "white"
        PROVE  /\ x \in {v}
               /\ \/ x \in ToSet(r.deque.entries) /\ r.color[x] = c
                  \/ r.color[x] = "grey" /\ r.deque.overflowed
    <3>1. x = v
      BY <2>4, <2>6, <2>9
    <3> QED
      BY <2>3, <2>4, <2>5, <2>6, <3>1
  <2>10. MarkedFacts(c, m, {v}, r)
    BY <2>5, <2>6, <2>7, <2>8, <2>9 DEF MarkedFacts
  <2> QED
    BY <2>1, <2>10 DEF r
<1> QED
  BY <1>2, <1>3

\* Marking some values and then others.
LEMMA MarkedTwice ==
    ASSUME NEW c \in {"grey", "black"}, NEW m \in AllMarks, NEW p, NEW r, NEW V, NEW W,
           MarkedFacts(c, m, V, p), MarkedFacts(c, p, W, r),
           V \subseteq Addr \cup {NULL}
    PROVE  MarkedFacts(c, m, V \cup W, r)
<1>1. p \in AllMarks /\ r \in AllMarks
  BY DEF MarkedFacts
<1>2. \A x \in Addr : p.color[x] # "white" => r.color[x] = p.color[x]
  BY DEF MarkedFacts
<1>3. \A x \in Addr : m.color[x] # "white" => r.color[x] = m.color[x]
  BY <1>2 DEF MarkedFacts
<1>4. \A x \in (V \cup W) \ {NULL} : r.color[x] # "white"
  BY <1>2 DEF MarkedFacts
<1>5. ToSet(m.deque.entries) \subseteq ToSet(r.deque.entries)
  BY DEF MarkedFacts
<1>6. ASSUME NEW x \in ToSet(r.deque.entries) \ ToSet(m.deque.entries)
      PROVE  x \in Addr /\ m.color[x] = "white" /\ r.color[x] = c
  <2>1. CASE x \in ToSet(p.deque.entries)
    <3>1. x \in Addr /\ m.color[x] = "white" /\ p.color[x] = c
      BY <1>6, <2>1 DEF MarkedFacts
    <3> QED
      BY <1>2, <3>1
  <2>2. CASE x \notin ToSet(p.deque.entries)
    <3>1. x \in Addr /\ p.color[x] = "white" /\ r.color[x] = c
      BY <1>6, <2>2 DEF MarkedFacts
    <3>2. m.color[x] # "white" => p.color[x] = m.color[x]
      BY <3>1 DEF MarkedFacts
    <3> QED
      BY <3>1, <3>2
  <2> QED
    BY <2>1, <2>2
<1>7. ASSUME NEW x \in Addr, m.color[x] = "white", r.color[x] # "white"
      PROVE  /\ x \in V \cup W
             /\ \/ x \in ToSet(r.deque.entries) /\ r.color[x] = c
                \/ r.color[x] = "grey" /\ r.deque.overflowed
  <2>1. CASE p.color[x] = "white"
    BY <1>7, <2>1 DEF MarkedFacts
  <2>2. CASE p.color[x] # "white"
    <3>1. /\ x \in V
          /\ \/ x \in ToSet(p.deque.entries) /\ p.color[x] = c
             \/ p.color[x] = "grey" /\ p.deque.overflowed
      BY <1>7, <2>2 DEF MarkedFacts
    <3>2. r.color[x] = p.color[x]
      BY <1>2, <2>2
    <3>3. /\ ToSet(p.deque.entries) \subseteq ToSet(r.deque.entries)
          /\ p.deque.overflowed => r.deque.overflowed
      BY DEF MarkedFacts
    <3> QED
      BY <3>1, <3>2, <3>3
  <2> QED
    BY <2>1, <2>2
<1>8. m.deque.overflowed => r.deque.overflowed
  BY DEF MarkedFacts
<1>9. ASSUME NEW x, Once(m.deque.entries, x),
             x \in ToSet(m.deque.entries) /\ x \in V \cup W => m.color[x] # "white"
      PROVE  Once(r.deque.entries, x)
  <2>1. Once(p.deque.entries, x)
    BY <1>9 DEF MarkedFacts
  <2>2. ASSUME x \in ToSet(p.deque.entries), x \in W PROVE p.color[x] # "white"
    <3>1. CASE x \in ToSet(m.deque.entries)
      <4>0. x \in Addr
        BY <3>1 DEF AllMarks, Deque, ToSet
      <4>1. m.color[x] # "white" /\ p.color[x] = m.color[x]
        BY <1>9, <2>2, <3>1, <4>0 DEF MarkedFacts
      <4> QED
        BY <4>1
    <3>2. CASE x \notin ToSet(m.deque.entries)
      <4>1. p.color[x] = c
        BY <2>2, <3>2 DEF MarkedFacts
      <4> QED
        BY <4>1
    <3> QED
      BY <3>1, <3>2
  <2> QED
    BY <2>1, <2>2 DEF MarkedFacts
<1> QED
  BY <1>1, <1>3, <1>4, <1>5, <1>6, <1>7, <1>8, <1>9 DEF MarkedFacts

\* The recursion of MarkAll, as a step.
MarkStep(c, m, values, g, i) == IF i = 0 THEN m ELSE MarkAs(c, g[i - 1], values[i])

Run(c, m, values, n, g) == g = [i \in 0..n |-> MarkStep(c, m, values, g, i)]

\* There is a function that satisfies the recursion.
LEMMA MarkedExists ==
    ASSUME NEW c, NEW m, NEW values, NEW n \in Nat
    PROVE  \E g : Run(c, m, values, n, g)
<1> DEFINE Defined(k) == \E g : Run(c, m, values, k, g)
           bad == {k \in 0..n : ~ Defined(k)}
<1>0. n \in 0..n
  OBVIOUS
<1>1. SUFFICES ASSUME bad # {} PROVE FALSE
  BY <1>0
<1>2. PICK k \in bad : \A l \in bad : k <= l
  <2>1. bad \in SUBSET Nat
    OBVIOUS
  <2> HIDE DEF bad
  <2> QED
    BY <1>1, <2>1, NatMin
<1>3. k # 0
  <2>1. [i \in 0..0 |-> m] = [i \in 0..0 |-> MarkStep(c, m, values, [j \in 0..0 |-> m], i)]
    BY DEF MarkStep
  <2>2. Defined(0)
    BY <2>1 DEF Run
  <2> QED
    BY <2>2
<1>4. k - 1 \in 0..n /\ k - 1 \notin bad
  BY <1>2, <1>3
<1>5. PICK g : Run(c, m, values, k - 1, g)
  BY <1>4
<1> DEFINE h == [i \in 0..k |-> IF i = k THEN MarkStep(c, m, values, g, i) ELSE g[i]]
<1>6. ASSUME NEW i \in 0..k PROVE h[i] = MarkStep(c, m, values, h, i)
  <2>1. i # 0 => i - 1 \in 0..k /\ h[i - 1] = g[i - 1]
    BY <1>3, <1>4
  <2>2. MarkStep(c, m, values, h, i) = MarkStep(c, m, values, g, i)
    BY <2>1 DEF MarkStep
  <2>3. i # k => i \in 0..(k - 1)
    BY <1>4
  <2>4. i # k => g[i] = MarkStep(c, m, values, g, i)
    BY <1>5, <2>3 DEF Run
  <2> QED
    BY <2>2, <2>4
<1>7. h = [i \in 0..k |-> MarkStep(c, m, values, h, i)]
  BY <1>6
<1>8. Defined(k)
  BY <1>7 DEF Run
<1> QED
  BY <1>8

\* What MarkAll goes through.
LEMMA MarkAllSteps ==
    ASSUME NEW S, NEW c, NEW m, NEW values \in Seq(S)
    PROVE  \E g : /\ g[0] = m /\ MarkAll(c, m, values) = g[Len(values)]
                  /\ \A i \in 1..Len(values) : g[i] = MarkAs(c, g[i - 1], values[i])
<1>0. Len(values) \in Nat
  OBVIOUS
<1>1. PICK n \in Nat : n = Len(values)
  BY <1>0
<1>2. \E f : Run(c, m, values, Len(values), f)
  <2>1. \E f : Run(c, m, values, n, f)
    BY MarkedExists
  <2> QED
    BY <1>1, <2>1
<1> DEFINE g == CHOOSE g : Run(c, m, values, Len(values), g)
<1>3. g = [i \in 0..Len(values) |-> MarkStep(c, m, values, g, i)]
  BY <1>2 DEF Run
<1>4. MarkAll(c, m, values) = g[Len(values)]
  BY DEF MarkAll, MarkStep, Run
<1> HIDE DEF g
<1>5. g[0] = m
  BY <1>1, <1>3 DEF MarkStep
<1>6. \A i \in 1..Len(values) : i # 0 /\ i \in 0..Len(values)
  BY <1>1
<1>7. \A i \in 1..Len(values) : g[i] = MarkAs(c, g[i - 1], values[i])
  BY <1>3, <1>6 DEF MarkStep
<1> QED
  BY <1>4, <1>5, <1>7

\* Marking a sequence of values.
LEMMA MarkAllFacts ==
    ASSUME NEW c \in {"grey", "black"}, NEW m \in AllMarks, NEW values \in Seq(Addr \cup {NULL})
    PROVE  MarkedFacts(c, m, ToSet(values), MarkAll(c, m, values))
<1>1. PICK g : /\ g[0] = m /\ MarkAll(c, m, values) = g[Len(values)]
               /\ \A i \in 1..Len(values) : g[i] = MarkAs(c, g[i - 1], values[i])
  BY MarkAllSteps
<1>2. PICK n \in Nat : n = Len(values)
  OBVIOUS
<1>3. DOMAIN values = 1..n /\ \A i \in 1..n : values[i] \in Addr \cup {NULL}
  BY <1>2
<1> DEFINE Prefix(k) == {values[i] : i \in 1..k}
           bad == {k \in 0..n : ~ MarkedFacts(c, m, Prefix(k), g[k])}
<1>4. ASSUME bad # {} PROVE FALSE
  <2>1. PICK k \in bad : \A l \in bad : k <= l
    <3>1. bad \in SUBSET Nat
      OBVIOUS
    <3> HIDE DEF bad
    <3> QED
      BY <1>4, <3>1, NatMin
  <2>2. CASE k = 0
    <3>1. Prefix(0) = {}
      OBVIOUS
    <3>2. MarkedFacts(c, m, Prefix(0), m)
      BY <3>1 DEF MarkedFacts
    <3> QED
      BY <1>1, <2>1, <2>2, <3>2
  <2>3. CASE k # 0
    <3>1. k \in 1..n /\ k - 1 \in 0..n /\ k - 1 \notin bad
      <4>1. k \in 0..n
        OBVIOUS
      <4>2. k \in 1..n /\ k - 1 \in 0..n /\ k - 1 < k
        BY <2>3, <4>1
      <4> HIDE DEF bad
      <4> QED
        BY <2>1, <4>1, <4>2
    <3>2. MarkedFacts(c, m, Prefix(k - 1), g[k - 1])
      BY <3>1
    <3>3. g[k] = MarkAs(c, g[k - 1], values[k]) /\ values[k] \in Addr \cup {NULL}
      BY <1>1, <1>2, <1>3, <3>1
    <3>4. g[k - 1] \in AllMarks
      BY <3>2 DEF MarkedFacts
    <3>5. MarkedFacts(c, g[k - 1], {values[k]}, g[k])
      BY <3>3, <3>4, MarkAsFacts
    <3>6. Prefix(k) = Prefix(k - 1) \cup {values[k]}
      BY <3>1
    <3>7. Prefix(k - 1) \subseteq Addr \cup {NULL}
      BY <1>3, <3>1
    <3> HIDE DEF Prefix, bad
    <3>8. MarkedFacts(c, m, Prefix(k - 1) \cup {values[k]}, g[k])
      BY <3>2, <3>5, <3>7, MarkedTwice
    <3> QED
      BY <2>1, <3>6, <3>8 DEF bad
  <2> QED
    BY <2>2, <2>3
<1>5. MarkedFacts(c, m, Prefix(n), g[n])
  <2>1. n \in 0..n
    BY <1>2
  <2> QED
    BY <1>4, <2>1
<1>6. Prefix(n) = ToSet(values)
  BY <1>3 DEF ToSet
<1> HIDE DEF Prefix
<1> QED
  BY <1>1, <1>2, <1>5, <1>6

-------------------------------------------------------------------------------
(* The deque after a scavenge                                              *)

UpdateStep(entries, keep, dest, g, i) ==
    IF i = 0 THEN << >>
    ELSE IF entries[i] \in keep THEN Append(g[i - 1], Forward(dest, entries[i]))
    ELSE g[i - 1]

UpdateRun(entries, keep, dest, n, g) ==
    g = [i \in 0..n |-> UpdateStep(entries, keep, dest, g, i)]

\* There is a function that satisfies the recursion of Updated.
LEMMA UpdateExists ==
    ASSUME NEW entries, NEW keep, NEW dest, NEW n \in Nat
    PROVE  \E g : UpdateRun(entries, keep, dest, n, g)
<1> DEFINE Defined(k) == \E g : UpdateRun(entries, keep, dest, k, g)
           bad == {k \in 0..n : ~ Defined(k)}
<1>0. n \in 0..n
  OBVIOUS
<1>1. SUFFICES ASSUME bad # {} PROVE FALSE
  BY <1>0
<1>2. PICK k \in bad : \A l \in bad : k <= l
  <2>1. bad \in SUBSET Nat
    OBVIOUS
  <2> HIDE DEF bad
  <2> QED
    BY <1>1, <2>1, NatMin
<1>3. k # 0
  <2>1. [i \in 0..0 |-> << >>] =
            [i \in 0..0 |-> UpdateStep(entries, keep, dest, [j \in 0..0 |-> << >>], i)]
    BY DEF UpdateStep
  <2>2. Defined(0)
    BY <2>1 DEF UpdateRun
  <2> QED
    BY <2>2
<1>4. k - 1 \in 0..n /\ k - 1 \notin bad
  BY <1>2, <1>3
<1>5. PICK g : UpdateRun(entries, keep, dest, k - 1, g)
  BY <1>4
<1> DEFINE h == [i \in 0..k |-> IF i = k THEN UpdateStep(entries, keep, dest, g, i) ELSE g[i]]
<1>6. ASSUME NEW i \in 0..k PROVE h[i] = UpdateStep(entries, keep, dest, h, i)
  <2>1. i # 0 => i - 1 \in 0..k /\ h[i - 1] = g[i - 1]
    BY <1>3, <1>4
  <2>2. UpdateStep(entries, keep, dest, h, i) = UpdateStep(entries, keep, dest, g, i)
    BY <2>1 DEF UpdateStep
  <2>3. i # k => i \in 0..(k - 1)
    BY <1>4
  <2>4. i # k => g[i] = UpdateStep(entries, keep, dest, g, i)
    BY <1>5, <2>3 DEF UpdateRun
  <2> QED
    BY <2>2, <2>4
<1>7. h = [i \in 0..k |-> UpdateStep(entries, keep, dest, h, i)]
  BY <1>6
<1>8. Defined(k)
  BY <1>7 DEF UpdateRun
<1> QED
  BY <1>8

\* The entries that are kept are there, at their new addresses, as often as
\* before.
LEMMA UpdatedFacts ==
    ASSUME NEW entries \in Seq(Addr), NEW keep, NEW dest,
           \A e \in ToSet(entries) \cap keep : Forward(dest, e) \in Addr
    PROVE  /\ Updated(entries, keep, dest) \in Seq(Addr)
           /\ ToSet(Updated(entries, keep, dest)) =
                 {Forward(dest, e) : e \in ToSet(entries) \cap keep}
           /\ \A x : (\A i, j \in DOMAIN entries :
                         /\ entries[i] \in keep /\ Forward(dest, entries[i]) = x
                         /\ entries[j] \in keep /\ Forward(dest, entries[j]) = x
                         => i = j)
                     => Once(Updated(entries, keep, dest), x)
<1>0. Len(entries) \in Nat
  OBVIOUS
<1>1. PICK n \in Nat : n = Len(entries)
  BY <1>0
<1>2. DOMAIN entries = 1..n /\ \A i \in 1..n : entries[i] \in ToSet(entries)
  BY <1>1 DEF ToSet
<1>3. \E f : UpdateRun(entries, keep, dest, Len(entries), f)
  <2>1. \E f : UpdateRun(entries, keep, dest, n, f)
    BY UpdateExists
  <2> QED
    BY <1>1, <2>1
<1> DEFINE g == CHOOSE g : UpdateRun(entries, keep, dest, Len(entries), g)
<1>4. g = [i \in 0..Len(entries) |-> UpdateStep(entries, keep, dest, g, i)]
  BY <1>3 DEF UpdateRun
<1>5. Updated(entries, keep, dest) = g[Len(entries)]
  BY DEF Updated, UpdateStep, UpdateRun
<1> HIDE DEF g
<1>6. g[0] = << >>
  BY <1>1, <1>4 DEF UpdateStep
<1>7. ASSUME NEW k \in 1..n
      PROVE  g[k] = IF entries[k] \in keep THEN Append(g[k - 1], Forward(dest, entries[k]))
                    ELSE g[k - 1]
  <2>1. k # 0 /\ k \in 0..Len(entries)
    BY <1>1
  <2> QED
    BY <1>4, <2>1 DEF UpdateStep
<1> DEFINE F(i) == Forward(dest, entries[i])
           At(k) == {i \in 1..k : entries[i] \in keep}
           Alone(x) == \A i, j \in 1..n : /\ entries[i] \in keep /\ F(i) = x
                                          /\ entries[j] \in keep /\ F(j) = x
                                          => i = j
           Good(k) == /\ g[k] \in Seq(Addr)
                      /\ ToSet(g[k]) = {F(i) : i \in At(k)}
                      /\ \A x : Alone(x) => Once(g[k], x)
           bad == {k \in 0..n : ~ Good(k)}
<1>8. ASSUME bad # {} PROVE FALSE
  <2>1. PICK k \in bad : \A l \in bad : k <= l
    <3>1. bad \in SUBSET Nat
      OBVIOUS
    <3> HIDE DEF bad
    <3> QED
      BY <1>8, <3>1, NatMin
  <2>2. CASE k = 0
    <3>1. At(0) = {}
      OBVIOUS
    <3>2. Good(0)
      BY <1>6, <3>1 DEF ToSet, Once
    <3> QED
      BY <2>1, <2>2, <3>2
  <2>3. CASE k # 0
    <3>1. k \in 1..n /\ k - 1 \in 0..n /\ k - 1 \notin bad
      <4>1. k \in 0..n
        OBVIOUS
      <4>2. k \in 1..n /\ k - 1 \in 0..n /\ k - 1 < k
        BY <2>3, <4>1
      <4> HIDE DEF bad
      <4> QED
        BY <2>1, <4>1, <4>2
    <3>2. Good(k - 1)
      BY <3>1
    <3>3. \A i \in 1..k : i = k \/ (i \in 1..(k - 1) /\ i # k)
      BY <3>1
    <3>4. \A i \in 1..(k - 1) : i \in 1..k /\ i \in 1..n /\ i # k
      BY <3>1
    <3>5. CASE entries[k] \notin keep
      <4>1. At(k) = At(k - 1)
        BY <3>3, <3>4, <3>5
      <4>2. g[k] = g[k - 1]
        BY <1>7, <3>1, <3>5
      <4> HIDE DEF At, F, Alone
      <4>3. Good(k)
        BY <3>2, <4>1, <4>2
      <4> QED
        BY <4>3
    <3>6. CASE entries[k] \in keep
      <4>1. At(k) = At(k - 1) \cup {k}
        BY <3>1, <3>3, <3>4, <3>6
      <4>2. g[k] = Append(g[k - 1], F(k))
        BY <1>7, <3>1, <3>6
      <4>3. F(k) \in Addr
        BY <1>2, <3>1, <3>6
      <4>4. g[k - 1] \in Seq(Addr) /\ ToSet(g[k - 1]) = {F(i) : i \in At(k - 1)}
        BY <3>2
      <4>5. /\ g[k] \in Seq(Addr)
            /\ ToSet(g[k]) = ToSet(g[k - 1]) \cup {F(k)}
            /\ \A x : Once(g[k - 1], x) /\ (x = F(k) => x \notin ToSet(g[k - 1])) => Once(g[k], x)
        <5> HIDE DEF F
        <5> QED
          BY <4>2, <4>3, <4>4, AppendFacts
      <4>6. ToSet(g[k]) = {F(i) : i \in At(k)}
        <5> HIDE DEF At, F
        <5> QED
          BY <4>1, <4>4, <4>5
      <4>7. ASSUME NEW x, Alone(x) PROVE Once(g[k], x)
        <5>1. Once(g[k - 1], x)
          BY <3>2, <4>7
        <5>2. ASSUME x = F(k), x \in ToSet(g[k - 1]) PROVE FALSE
          <6>1. PICK i \in At(k - 1) : F(i) = x
            BY <4>4, <5>2
          <6>2. i \in 1..n /\ i # k /\ entries[i] \in keep
            BY <3>4, <6>1
          <6> QED
            BY <3>1, <3>6, <4>7, <5>2, <6>1, <6>2
        <5> QED
          BY <4>5, <5>1, <5>2
      <4>8. Good(k)
        BY <4>5, <4>6, <4>7
      <4> QED
        BY <4>8
    <3> QED
      BY <3>5, <3>6
  <2> QED
    BY <2>2, <2>3
<1>9. Good(n)
  <2>1. n \in 0..n
    OBVIOUS
  <2> QED
    BY <1>8, <2>1
<1>10. {F(i) : i \in At(n)} = {Forward(dest, e) : e \in ToSet(entries) \cap keep}
  <2>1. ASSUME NEW x, x \in {F(i) : i \in At(n)}
        PROVE  x \in {Forward(dest, e) : e \in ToSet(entries) \cap keep}
    BY <1>2, <2>1
  <2>2. ASSUME NEW x, x \in {Forward(dest, e) : e \in ToSet(entries) \cap keep}
        PROVE  x \in {F(i) : i \in At(n)}
    BY <1>2, <2>2 DEF ToSet
  <2> QED
    BY <2>1, <2>2
<1> QED
  BY <1>1, <1>2, <1>5, <1>9, <1>10

-------------------------------------------------------------------------------
(* The invariant                                                           *)

RootSet == {Large} \cup Cells \cup ({handle} \ {NULL})
Marked == {a \in Addr : color[a] # "white"}

\* Objects that only refer to each other.
Intact(S) == \A a \in S : Object(a) /\ Values(a) \subseteq S

\* All objects but the garbage on pages that are not swept yet.
Living == {a \in Addr : Object(a) /\ (a \in unswept => color[a] # "white")}

\* While the mutator runs, everything but such garbage is intact; in a
\* collection, at least everything that is marked or that is going to be.
HeapInv ==
    IF NotInGC THEN Intact(Living) /\ RootSet \subseteq Living
    ELSE \E S \in SUBSET Addr : Intact(S) /\ RootSet \cup Marked \subseteq S

\* When the incremental marker is on, there are no unswept pages, and nobody
\* looks at the array that is being filled without a barrier.
ControlInv ==
    /\ gc = "FINALIZE" => IsMarking /\ ToSet(roots) = RootSet
    /\ gc \in {"ROOTS", "EMPTY"} => state = "STOPPED"
    /\ ~NotInGC => unswept = {}
    /\ IsMarking => unswept = {}
    /\ no_marking => handle \in Old /\ (NotInGC /\ IsMarking => color[handle] # "black")

\* What is marked is an object; between two cycles only on unswept pages.
IdleInv ==
    /\ \A a \in Marked : Object(a)
    /\ NotInGC /\ ~IsMarking =>
          progress_bar = 0 /\ \A a \in Marked : a \in unswept /\ color[a] = "black"

\* The value of a slot is no white object.
Seen(a, i) == contents[a][i] # NULL => color[contents[a][i]] # "white"

\* Black objects have been scanned, the large array up to its progress bar,
\* which is back at the beginning if the array is to be scanned anew.
BlackInv ==
    /\ \A a \in Addr \ (Cells \cup {Large}) :
          color[a] = "black" => \A i \in Slots(a) : Seen(a, i)
    /\ IF color[Large] = "black" THEN \A i \in 1..progress_bar : Seen(Large, i)
       ELSE progress_bar = 0

Entries == ToSet(marking_deque.entries)

\* What has to be scanned is on the deque, once, unless it has overflowed.
EntriesInv ==
    /\ \A a \in Addr : color[a] = "grey" => a \in Entries \/ marking_deque.overflowed
    /\ color[Large] = "black" /\ progress_bar < LargeLength => Large \in Entries
    /\ \A a \in Entries :
          color[a] = "grey" \/ a = Large \/ (contents[a] = Filler /\ color[a] = "white")
    /\ \A a : a # Large => Once(marking_deque.entries, a)
    /\ state = "COMPLETE" => Entries = {}

MarkingInv == IsMarking => BlackInv /\ EntriesInv

\* In the pause, black objects that are not on the deque have been scanned,
\* grey ones will be found in the heap, and roots that are not marked are
\* still to come.
CollectInv ==
    gc \in {"ROOTS", "EMPTY"} =>
        /\ RootSet \subseteq Marked \cup ToSet(roots)
        /\ ToSet(roots) \subseteq RootSet
        /\ \A a \in ToSet(gc_deque.entries) : color[a] = "black"
        /\ \A a \in Addr : color[a] = "black" /\ a \notin ToSet(gc_deque.entries) =>
              Values(a) \subseteq Marked
        /\ \A a \in Addr : color[a] = "grey" => gc_deque.overflowed

IInv == TypeOK /\ ControlInv /\ HeapInv /\ IdleInv /\ MarkingInv /\ CollectInv

-------------------------------------------------------------------------------
(* The heap                                                                *)

\* Spaces do not overlap, and only the large array has several slots.
LEMMA AddrFacts ==
    /\ Large \in Addr /\ Cells \subseteq Addr /\ Old \subseteq Addr
    /\ Semi[1] \subseteq New /\ Semi[2] \subseteq New /\ New \subseteq Addr
    /\ NULL \notin Addr
    /\ Large \notin Cells /\ Large \notin Old /\ Large \notin New
    /\ \A c \in Cells : c \notin Old /\ c \notin New
    /\ \A a \in Old : a \notin New
    /\ \A a \in Addr : a # Large => Slots(a) = {1} /\ Slots(a) = 1..1
    /\ Slots(Large) = 1..LargeLength
    /\ LargeLength \in Nat /\ LargeLength >= 1
  BY IncrementalMarkingAssumption DEF Addr, New, Slots

\* The contents of an address that holds an object.
ObjectAt(a, f) ==
    /\ f \in [Slots(a) -> Addr \cup {NULL}]
    /\ f \notin {Free, Filler}
    /\ f \in Seq(Addr \cup {NULL})
    /\ \E n \in Nat : n = Len(f) /\ Slots(a) = 1..n /\ DOMAIN f = 1..n
    /\ ToSet(f) = {f[i] : i \in Slots(a)}
    /\ ToSet(f) \subseteq Addr \cup {NULL}

\* Contents that are a function on the slots are those of an object.
LEMMA ObjectFacts ==
    ASSUME NEW a \in Addr, NEW f \in [Slots(a) -> Addr \cup {NULL}]
    PROVE  ObjectAt(a, f)
<1>1. PICK n \in Nat : Slots(a) = 1..n
  BY AddrFacts
<1>2. f \in [1..n -> Addr \cup {NULL}]
  BY <1>1
<1>3. f \in Seq(Addr \cup {NULL}) /\ Len(f) = n /\ DOMAIN f = 1..n
  BY <1>2
<1>4. f \notin {Free, Filler}
  BY ContentsAssumption
<1>5. ToSet(f) = {f[i] : i \in Slots(a)} /\ ToSet(f) \subseteq Addr \cup {NULL}
  BY <1>1, <1>2 DEF ToSet
<1> QED
  BY <1>1, <1>3, <1>4, <1>5 DEF ObjectAt

\* What is no free address and no filler is an object.
LEMMA ObjectContents ==
    ASSUME TypeOK, NEW a \in Addr, Object(a)
    PROVE  /\ ObjectAt(a, contents[a])
           /\ Values(a) = ToSet(contents[a]) \ {NULL} /\ Values(a) \subseteq Addr
<1>1. contents[a] \in [Slots(a) -> Addr \cup {NULL}]
  BY DEF TypeOK, Object
<1>2. ObjectAt(a, contents[a])
  BY <1>1, ObjectFacts
<1> QED
  BY <1>2 DEF ObjectAt, Values

\* ReachFrom(S) is the smallest closed set that contains S.
LEMMA ReachSmallest ==
    ASSUME NEW S, NEW C \in SUBSET Addr, S \subseteq C, Closed(C)
    PROVE  ReachFrom(S) \subseteq C
<1>1. C = S \cup (C \ S) /\ C \ S \in SUBSET (Addr \ S)
  OBVIOUS
<1>2. C \in {S \cup D : D \in SUBSET (Addr \ S)}
  BY <1>1
<1> QED
  BY <1>2 DEF ReachFrom

\* ReachFrom(S) contains S and leads nowhere else.
LEMMA ReachClosed ==
    ASSUME TypeOK, NEW S \in SUBSET Addr
    PROVE  /\ ReachFrom(S) \subseteq Addr
           /\ S \subseteq ReachFrom(S)
           /\ \A a \in ReachFrom(S) : Object(a) => Values(a) \subseteq ReachFrom(S)
<1>1. ReachFrom(S) \subseteq Addr /\ S \subseteq ReachFrom(S)
  BY DEF ReachFrom
<1>2. ASSUME NEW a \in ReachFrom(S), Object(a), NEW v \in Values(a)
      PROVE  v \in ReachFrom(S)
  <2>1. a \in Addr
    BY <1>1, <1>2
  <2>2. v \in Addr
    BY <1>2, <2>1, ObjectContents
  <2>3. ASSUME NEW C \in {S \cup D : D \in SUBSET (Addr \ S)}, Closed(C) PROVE v \in C
    <3>1. a \in C
      BY <1>2, <2>3 DEF ReachFrom
    <3> QED
      BY <1>2, <2>3, <3>1 DEF Closed
  <2> QED
    BY <2>2, <2>3 DEF ReachFrom
<1> QED
  BY <1>1, <1>2

\* An intact set is closed.
LEMMA IntactClosed ==
    ASSUME NEW S, Intact(S)
    PROVE  Closed(S)
  BY DEF Intact, Closed

\* The elements of a concatenation.
LEMMA ConcatSet ==
    ASSUME NEW S, NEW s \in Seq(S), NEW t \in Seq(S)
    PROVE  s \o t \in Seq(S) /\ ToSet(s \o t) = ToSet(s) \cup ToSet(t)
<1>1. PICK m \in Nat : m = Len(s)
  OBVIOUS
<1>2. PICK n \in Nat : n = Len(t)
  OBVIOUS
<1>3. /\ DOMAIN s = 1..m /\ DOMAIN t = 1..n
      /\ s \o t \in Seq(S) /\ DOMAIN (s \o t) = 1..(m + n)
      /\ \A i \in 1..(m + n) : (s \o t)[i] = IF i <= m THEN s[i] ELSE t[i - m]
  BY <1>1, <1>2, ConcatProperties
<1>4. PICK u : u = s \o t
  OBVIOUS
<1>5. \A i \in 1..m : i \in 1..(m + n) /\ u[i] = s[i]
  BY <1>3, <1>4
<1>6. \A i \in 1..n : i + m \in 1..(m + n) /\ u[i + m] = t[i]
  BY <1>3, <1>4
<1>7. \A i \in 1..(m + n) : \/ i \in 1..m /\ u[i] = s[i]
                            \/ i - m \in 1..n /\ u[i] = t[i - m]
  BY <1>3, <1>4
<1>8. ASSUME NEW x, x \in ToSet(u) PROVE x \in ToSet(s) \cup ToSet(t)
  <2>1. DOMAIN u = 1..(m + n)
    BY <1>3, <1>4
  <2>2. PICK i \in 1..(m + n) : u[i] = x
    BY <1>8, <2>1 DEF ToSet
  <2>3. CASE i \in 1..m /\ u[i] = s[i]
    BY <1>3, <2>2, <2>3 DEF ToSet
  <2>4. CASE i - m \in 1..n /\ u[i] = t[i - m]
    BY <1>3, <2>2, <2>4 DEF ToSet
  <2> QED
    BY <1>7, <2>3, <2>4
<1>9. ASSUME NEW x, x \in ToSet(s) \cup ToSet(t) PROVE x \in ToSet(u)
  <2>1. DOMAIN u = 1..(m + n)
    BY <1>3, <1>4
  <2>2. CASE x \in ToSet(s)
    BY <1>3, <1>5, <2>1, <2>2 DEF ToSet
  <2>3. CASE x \in ToSet(t)
    BY <1>3, <1>6, <2>1, <2>3 DEF ToSet
  <2> QED
    BY <1>9, <2>2, <2>3
<1> QED
  BY <1>3, <1>4, <1>8, <1>9

\* The strong roots are visited in some order.
LEMMA RootsFacts ==
    ASSUME handle \in Addr \cup {NULL}
    PROVE  /\ StrongRoots \in Seq(Addr) /\ ToSet(StrongRoots) = RootSet
           /\ RootSet \subseteq Addr
<1>0. \A s, t \in Seq(Addr) : s \o t \in Seq(Addr) /\ ToSet(s \o t) = ToSet(s) \cup ToSet(t)
  BY ConcatSet
<1>1. IsFiniteSet(Cells)
  BY IncrementalMarkingAssumption, AddrFacts, FS_Subset
<1>2. SetToSeq(Cells) \in Seq(Addr) /\ ToSet(SetToSeq(Cells)) = Cells
  <2>1. SetToSeq(Cells) \in Seq(Cells) /\ ToSet(SetToSeq(Cells)) = Cells
    BY <1>1, SetToSeqFacts
  <2> QED
    BY <2>1, AddrFacts, SeqMonotonic
<1>3. <<Large>> \in Seq(Addr) /\ ToSet(<<Large>>) = {Large}
  BY AddrFacts DEF ToSet
<1> DEFINE last == IF handle = NULL THEN << >> ELSE <<handle>>
<1>4. last \in Seq(Addr) /\ ToSet(last) = {handle} \ {NULL}
  BY AddrFacts DEF ToSet
<1> HIDE DEF last
<1>5. /\ <<Large>> \o SetToSeq(Cells) \in Seq(Addr)
      /\ ToSet(<<Large>> \o SetToSeq(Cells)) = {Large} \cup Cells
  <2>1. PICK s : s = <<Large>>
    OBVIOUS
  <2>2. PICK t : t = SetToSeq(Cells)
    OBVIOUS
  <2>3. s \o t \in Seq(Addr) /\ ToSet(s \o t) = ToSet(s) \cup ToSet(t)
    BY <1>2, <1>3, <2>1, <2>2, <1>0
  <2> QED
    BY <1>2, <1>3, <2>1, <2>2, <2>3
<1>6. /\ <<Large>> \o SetToSeq(Cells) \o last \in Seq(Addr)
      /\ ToSet(<<Large>> \o SetToSeq(Cells) \o last) = {Large} \cup Cells \cup ({handle} \ {NULL})
  <2>1. PICK s : s = <<Large>> \o SetToSeq(Cells)
    OBVIOUS
  <2>2. s \o last \in Seq(Addr) /\ ToSet(s \o last) = ToSet(s) \cup ToSet(last)
    BY <1>4, <1>5, <2>1, <1>0
  <2> QED
    BY <1>4, <1>5, <2>1, <2>2
<1> QED
  BY <1>6, AddrFacts DEF StrongRoots, RootSet, last

\* What the mutator can reach is not garbage.
LEMMA ReachableLiving ==
    ASSUME IInv, NotInGC
    PROVE  Reachable \subseteq Living
<1>1. Intact(Living) /\ RootSet \subseteq Living /\ Living \in SUBSET Addr
  BY DEF IInv, HeapInv, Living
<1>2. ToSet(StrongRoots) = RootSet
  BY RootsFacts DEF IInv, TypeOK
<1> QED
  BY <1>1, <1>2, IntactClosed, ReachSmallest DEF Reachable

-------------------------------------------------------------------------------
(* Steps of the mutator                                                    *)

\* The deque e is d with an entry for a more, or it has overflowed.
Added(d, a, e) ==
    /\ e \in Deque
    /\ a \in ToSet(e.entries) \/ e.overflowed
    /\ ToSet(d.entries) \subseteq ToSet(e.entries)
    /\ ToSet(e.entries) \subseteq ToSet(d.entries) \cup {a}
    /\ d.overflowed => e.overflowed
    /\ ~IsFull(d) => a \in ToSet(e.entries)
    /\ \A x : Once(d.entries, x) /\ (x = a => x \notin ToSet(d.entries)) => Once(e.entries, x)

\* Push and UnshiftGrey add an entry, or overflow.
LEMMA AddFacts ==
    ASSUME NEW d \in Deque, NEW a \in Addr
    PROVE  Added(d, a, Push(d, a)) /\ Added(d, a, UnshiftGrey(d, a))
<1>1. d.entries \in Seq(Addr) /\ d.overflowed \in BOOLEAN
  BY DEF Deque
<1>2. Added(d, a, Push(d, a))
  <2>1. /\ ToSet(Append(d.entries, a)) = ToSet(d.entries) \cup {a}
        /\ \A x : Once(d.entries, x) /\ (x = a => x \notin ToSet(d.entries))
                  => Once(Append(d.entries, a), x)
    BY <1>1, AppendFacts
  <2> QED
    BY <2>1, PushFacts DEF Added
<1>3. Added(d, a, UnshiftGrey(d, a))
  <2>1. /\ <<a>> \o d.entries \in Seq(Addr)
        /\ ToSet(<<a>> \o d.entries) = ToSet(d.entries) \cup {a}
        /\ \A x : Once(d.entries, x) /\ (x = a => x \notin ToSet(d.entries))
                  => Once(<<a>> \o d.entries, x)
    BY <1>1, UnshiftFacts
  <2>2. PICK s : s = <<a>> \o d.entries
    OBVIOUS
  <2>3. CASE IsFull(d)
    <3>1. UnshiftGrey(d, a) = [entries |-> d.entries, overflowed |-> TRUE]
      BY <2>3 DEF UnshiftGrey, Deque
    <3> QED
      BY <1>1, <2>3, <3>1 DEF Deque, Added
  <2>4. CASE ~IsFull(d)
    <3>1. UnshiftGrey(d, a) = [d EXCEPT !.entries = s]
      BY <2>2, <2>4 DEF UnshiftGrey
    <3>2. UnshiftGrey(d, a) = [entries |-> s, overflowed |-> d.overflowed]
      BY <3>1 DEF Deque
    <3> QED
      BY <1>1, <2>1, <2>2, <2>4, <3>2 DEF Deque, Added
  <2> QED
    BY <2>3, <2>4
<1> QED
  BY <1>2, <1>3

\* Values that stand for living objects, or no object, are put at an address.
LEMMA StoreHeap ==
    ASSUME IInv, NotInGC, NotInGC', NEW obj \in Addr, obj \in unswept => obj \in Living,
           NEW f \in [Slots(obj) -> Living \cup {NULL}],
           contents' = [contents EXCEPT ![obj] = f],
           handle' \in Living \cup {obj, NULL}, unswept' = unswept,
           \A a \in unswept : color'[a] = color[a]
    PROVE  /\ HeapInv' /\ Living' = Living \cup {obj}
           /\ \A a \in Addr : Object(a)' <=> Object(a) \/ a = obj
           /\ DOMAIN contents' = Addr
           /\ \A a \in Addr : contents'[a] \in {Free, Filler} \cup [Slots(a) -> Addr \cup {NULL}]
           /\ contents'[obj] = f /\ \A a \in Addr : a # obj => contents'[a] = contents[a]
           /\ handle' \in Addr \cup {NULL}
<1>1. /\ DOMAIN contents = Addr
      /\ \A a \in Addr : contents[a] \in {Free, Filler} \cup [Slots(a) -> Addr \cup {NULL}]
  BY DEF IInv, TypeOK
<1>2. Living \subseteq Addr
  BY DEF Living
<1>3. f \in [Slots(obj) -> Addr \cup {NULL}]
  BY <1>2
<1>4. f \notin {Free, Filler}
  BY <1>3, ContentsAssumption
<1>5. /\ DOMAIN contents' = Addr
      /\ contents'[obj] = f /\ \A a \in Addr : a # obj => contents'[a] = contents[a]
  BY <1>1
<1>6. \A a \in Addr : Object(a)' <=> Object(a) \/ a = obj
  BY <1>4, <1>5 DEF Object
<1>7. Living' = Living \cup {obj}
  <2>1. ASSUME NEW a \in Addr PROVE a \in Living' <=> a \in Living \cup {obj}
    <3>1. CASE a = obj
      <4>1. a \in unswept => color'[a] # "white"
        BY <3>1 DEF Living
      <4> QED
        BY <1>6, <3>1, <4>1 DEF Living
    <3>2. CASE a # obj
      BY <1>6, <3>2 DEF Living
    <3> QED
      BY <3>1, <3>2
  <2> QED
    BY <2>1 DEF Living
<1>8. Intact(Living)'
  <2>1. Intact(Living)
    BY DEF IInv, HeapInv
  <2>2. ASSUME NEW a \in Living' PROVE Object(a)' /\ Values(a)' \subseteq Living'
    <3>1. CASE a = obj
      BY <1>5, <1>6, <1>7, <3>1 DEF Values
    <3>2. CASE a # obj
      <4>1. a \in Living /\ a \in Addr
        BY <1>2, <1>7, <3>2
      <4>2. Values(a)' = Values(a)
        BY <1>5, <3>2, <4>1 DEF Values
      <4>3. Object(a) /\ Values(a) \subseteq Living
        BY <2>1, <4>1 DEF Intact
      <4> QED
        BY <1>6, <1>7, <4>1, <4>2, <4>3
    <3> QED
      BY <3>1, <3>2
  <2> QED
    BY <2>2 DEF Intact
<1>9. RootSet' \subseteq Living'
  <2>1. RootSet \subseteq Living
    BY DEF IInv, HeapInv
  <2> QED
    BY <1>7, <2>1 DEF RootSet
<1>10. \A a \in Addr : contents'[a] \in {Free, Filler} \cup [Slots(a) -> Addr \cup {NULL}]
  BY <1>1, <1>3, <1>5
<1>11. handle' \in Addr \cup {NULL}
  BY <1>2
<1> QED
  BY <1>5, <1>6, <1>7, <1>8, <1>9, <1>10, <1>11 DEF HeapInv

\* A store the marker need not know of: the values are marked, or it has not
\* scanned what is written, or is going to scan it again.
LEMMA StorePlain ==
    ASSUME IInv, NotInGC, NEW obj \in Addr, obj \in unswept => obj \in Living,
           NEW f \in [Slots(obj) -> Living \cup {NULL}],
           contents' = [contents EXCEPT ![obj] = f], contents[obj] # Filler,
           handle' \in Living \cup {obj, NULL}, no_marking => handle' = handle,
           UNCHANGED <<to, unswept, markVars, stateVars, gcVars>>,
           IsMarking /\ color[obj] = "black" /\ obj \notin Cells =>
               \A i \in Slots(obj) : (obj = Large => i <= progress_bar) =>
                   f[i] = contents[obj][i] \/ f[i] = NULL \/ color[f[i]] # "white"
    PROVE  IInv'
<1>0. /\ to' = to /\ unswept' = unswept /\ color' = color /\ progress_bar' = progress_bar
      /\ marking_deque' = marking_deque /\ state' = state /\ should_hurry' = should_hurry
      /\ no_marking' = no_marking /\ gc' = gc /\ roots' = roots /\ gc_deque' = gc_deque
  BY DEF markVars, stateVars, gcVars
<1>1. NotInGC'
  BY <1>0 DEF NotInGC
<1>2. /\ HeapInv' /\ Living' = Living \cup {obj}
      /\ \A a \in Addr : Object(a)' <=> Object(a) \/ a = obj
      /\ DOMAIN contents' = Addr
      /\ \A a \in Addr : contents'[a] \in {Free, Filler} \cup [Slots(a) -> Addr \cup {NULL}]
      /\ contents'[obj] = f /\ \A a \in Addr : a # obj => contents'[a] = contents[a]
      /\ handle' \in Addr \cup {NULL}
  <2>1. \A a \in unswept : color'[a] = color[a]
    BY <1>0
  <2> QED
    BY <1>0, <1>1, <2>1, StoreHeap
<1>3. TypeOK'
  BY <1>0, <1>2 DEF IInv, TypeOK
<1>4. ControlInv'
  BY <1>0, <1>1 DEF IInv, ControlInv, NotInGC, IsMarking
<1>5. IdleInv'
  <2>1. Marked' = Marked
    BY <1>0 DEF Marked
  <2>2. \A a \in Marked' : a \in Addr /\ Object(a)'
    BY <1>2, <2>1 DEF IInv, IdleInv, Marked
  <2> QED
    BY <1>0, <2>1, <2>2 DEF IInv, IdleInv, NotInGC, IsMarking
<1>6. MarkingInv'
  <2> SUFFICES ASSUME IsMarking' PROVE BlackInv' /\ EntriesInv'
    BY DEF MarkingInv
  <2>1. IsMarking /\ BlackInv /\ EntriesInv
    BY <1>0 DEF IInv, MarkingInv, IsMarking
  <2>2. ASSUME NEW a \in Addr, a \notin Cells, color[a] = "black", NEW i \in Slots(a),
               a = Large => i <= progress_bar
        PROVE  Seen(a, i)'
    <3>1. contents[a][i] # NULL => color[contents[a][i]] # "white"
      <4>1. CASE a = Large
        <5>1. i \in 1..progress_bar
          BY <2>2, <4>1, AddrFacts DEF IInv, TypeOK
        <5> QED
          BY <2>1, <2>2, <4>1, <5>1 DEF BlackInv, Seen
      <4>2. CASE a # Large
        BY <2>1, <2>2, <4>2 DEF BlackInv, Seen
      <4> QED
        BY <4>1, <4>2
    <3>2. CASE a = obj
      <4>1. f[i] = contents[a][i] \/ f[i] = NULL \/ color[f[i]] # "white"
        BY <2>1, <2>2, <3>2
      <4> QED
        BY <1>0, <1>2, <3>1, <3>2, <4>1 DEF Seen
    <3>3. CASE a # obj
      BY <1>0, <1>2, <3>1, <3>3 DEF Seen
    <3> QED
      BY <3>2, <3>3
  <2>3. BlackInv'
    <3>1. ASSUME NEW a \in Addr \ (Cells \cup {Large}), color'[a] = "black", NEW i \in Slots(a)
          PROVE  Seen(a, i)'
      BY <1>0, <2>2, <3>1
    <3>2. CASE color'[Large] = "black"
      <4>1. ASSUME NEW i \in 1..progress_bar' PROVE Seen(Large, i)'
        <5>1. i \in Slots(Large) /\ i <= progress_bar
          BY <1>0, <4>1, AddrFacts DEF IInv, TypeOK
        <5> QED
          BY <1>0, <2>2, <3>2, <5>1, AddrFacts
      <4> QED
        BY <3>1, <3>2, <4>1 DEF BlackInv
    <3>3. CASE color'[Large] # "black"
      BY <1>0, <2>1, <3>1, <3>3 DEF BlackInv
    <3> QED
      BY <3>2, <3>3
  <2>4. EntriesInv'
    <3>1. Entries' = Entries
      BY <1>0 DEF Entries
    <3>2. \A a \in Entries : contents[a] = Filler => contents'[a] = Filler
      <4>1. Entries \subseteq Addr
        BY DEF IInv, TypeOK, Deque, Entries, ToSet
      <4> QED
        BY <1>2, <4>1
    <3>3. \A a \in Entries :
              color[a] = "grey" \/ a = Large \/ (contents'[a] = Filler /\ color[a] = "white")
      BY <2>1, <3>2 DEF EntriesInv
    <3> QED
      BY <1>0, <2>1, <3>1, <3>3 DEF EntriesInv
  <2> QED
    BY <2>3, <2>4
<1>7. CollectInv'
  BY <1>1 DEF CollectInv, NotInGC
<1> QED
  BY <1>2, <1>3, <1>4, <1>5, <1>6, <1>7 DEF IInv

\* Nothing in the heap and no mark changes.
LEMMA QuietStep ==
    ASSUME IInv, NotInGC, handle' \in {handle, NULL},
           UNCHANGED <<contents, to, unswept, markVars, state, should_hurry, gcVars>>,
           no_marking' \in BOOLEAN,
           no_marking' => handle' = handle /\ handle \in Old /\ (IsMarking => color[handle] # "black")
    PROVE  IInv'
<1>0. /\ contents' = contents
      /\ to' = to /\ unswept' = unswept /\ color' = color /\ progress_bar' = progress_bar
      /\ marking_deque' = marking_deque /\ state' = state /\ should_hurry' = should_hurry
      /\ gc' = gc /\ roots' = roots /\ gc_deque' = gc_deque
  BY DEF markVars, gcVars
<1>1. TypeOK'
  BY <1>0 DEF IInv, TypeOK
<1>2. ControlInv'
  BY <1>0 DEF IInv, ControlInv, NotInGC, IsMarking
<1>3. HeapInv'
  <2>1. Living' = Living /\ RootSet' \subseteq RootSet
    BY <1>0 DEF Living, Object, RootSet
  <2>2. Intact(Living)'
    BY <1>0, <2>1 DEF IInv, HeapInv, Intact, Object, Values
  <2> QED
    BY <1>0, <2>1, <2>2 DEF IInv, HeapInv, NotInGC
<1>4. IdleInv'
  BY <1>0 DEF IInv, IdleInv, Marked, Object, NotInGC, IsMarking
<1>5. MarkingInv'
  <2>1. IsMarking' = IsMarking
    BY <1>0 DEF IsMarking
  <2>2. BlackInv' = BlackInv
    BY <1>0 DEF BlackInv, Seen
  <2>3. EntriesInv' = EntriesInv
    BY <1>0 DEF EntriesInv, Entries
  <2> QED
    BY <2>1, <2>2, <2>3 DEF IInv, MarkingInv
<1>6. CollectInv'
  BY <1>0 DEF CollectInv, NotInGC
<1> QED
  BY <1>1, <1>2, <1>3, <1>4, <1>5, <1>6 DEF IInv

\* The roots are alive, and have contents that are too.
LEMMA LivingFacts ==
    ASSUME IInv, NotInGC
    PROVE  /\ Living \subseteq Addr /\ Large \in Living /\ Cells \subseteq Living
           /\ handle \in Living \cup {NULL}
           /\ \A a \in Living : /\ contents[a] \in [Slots(a) -> Living \cup {NULL}]
                                /\ contents[a] \notin {Free, Filler}
<1>1. Intact(Living) /\ RootSet \subseteq Living /\ Living \subseteq Addr
  BY DEF IInv, HeapInv, Living
<1>2. ASSUME NEW a \in Living
      PROVE  contents[a] \in [Slots(a) -> Living \cup {NULL}] /\ contents[a] \notin {Free, Filler}
  <2>1. Object(a) /\ Values(a) \subseteq Living /\ a \in Addr
    BY <1>1 DEF Intact
  <2>2. contents[a] \in [Slots(a) -> Addr \cup {NULL}]
    BY <2>1 DEF IInv, TypeOK, Object
  <2>3. \A i \in Slots(a) : contents[a][i] \in Living \cup {NULL}
    BY <2>1 DEF Values
  <2> QED
    BY <2>1, <2>2, <2>3 DEF Object
<1> QED
  BY <1>1, <1>2 DEF RootSet

\* A new object is white, empty and held by the handle.
LEMMA AllocateStep ==
    ASSUME IInv, NEW a \in Addr, Allocate(a)
    PROVE  IInv'
<1>1. NotInGC /\ ~no_marking /\ contents[a] = Free /\ a \notin unswept /\ a \in Old \cup Semi[to]
  BY DEF Allocate, Available
<1>2. Fresh(a) \in [Slots(a) -> Living \cup {NULL}]
  BY DEF Fresh
<1>3. contents' = [contents EXCEPT ![a] = Fresh(a)]
  BY DEF Allocate
<1>4. contents[a] # Filler
  BY <1>1, ContentsAssumption
<1>5. handle' = a /\ UNCHANGED <<to, unswept, markVars, stateVars, gcVars>>
  BY DEF Allocate
<1>6. color[a] # "black"
  <2>1. ~Object(a)
    BY <1>1 DEF Object
  <2> QED
    BY <2>1 DEF IInv, IdleInv, Marked
<1> HIDE DEF Allocate
<1> QED
  BY <1>1, <1>2, <1>3, <1>4, <1>5, <1>6, StorePlain

\* An object the handle gives up may become garbage.
LEMMA DropHandleStep ==
    ASSUME IInv, DropHandle
    PROVE  IInv'
<1>1. /\ NotInGC /\ ~no_marking /\ handle' = NULL
      /\ UNCHANGED <<contents, to, unswept, markVars, state, should_hurry, gcVars>>
      /\ no_marking' = FALSE
  BY DEF DropHandle, stateVars, IInv, TypeOK
<1> QED
  BY <1>1, QuietStep

\* Cells do without the write barrier: they are scanned again.
LEMMA WriteCellStep ==
    ASSUME IInv, NEW cell \in Cells, NEW value \in Reachable \cup {NULL}, WriteCell(cell, value)
    PROVE  IInv'
<1>1. NotInGC /\ UNCHANGED <<handle, to, unswept, markVars, stateVars, gcVars>>
  BY DEF WriteCell
<1>2. cell \in Living /\ cell \in Addr /\ Slots(cell) = {1}
  BY <1>1, LivingFacts, AddrFacts
<1>3. value \in Living \cup {NULL}
  BY <1>1, ReachableLiving
<1> DEFINE f == [contents[cell] EXCEPT ![1] = value]
<1>4. contents[cell] \in [Slots(cell) -> Living \cup {NULL}] /\ contents[cell] \notin {Free, Filler}
  BY <1>1, <1>2, LivingFacts
<1>5. f \in [Slots(cell) -> Living \cup {NULL}]
  BY <1>2, <1>3, <1>4
<1>6. contents' = [contents EXCEPT ![cell] = f]
  BY DEF WriteCell
<1>7. handle \in Living \cup {NULL}
  BY <1>1, LivingFacts
<1> HIDE DEF f
<1> QED
  BY <1>1, <1>2, <1>4, <1>5, <1>6, <1>7, StorePlain

\* The array that is going to be filled is white.
LEMMA EnterNoMarkingScopeStep ==
    ASSUME IInv, EnterNoMarkingScope
    PROVE  IInv'
<1>1. /\ NotInGC /\ handle' = handle /\ handle \in Old /\ color[handle] # "black"
      /\ UNCHANGED <<contents, to, unswept, markVars, state, should_hurry, gcVars>>
      /\ no_marking' = TRUE
  BY DEF EnterNoMarkingScope, heapVars
<1> QED
  BY <1>1, QuietStep

\* Its scope ends.
LEMMA LeaveNoMarkingScopeStep ==
    ASSUME IInv, LeaveNoMarkingScope
    PROVE  IInv'
<1>1. /\ NotInGC /\ handle' = handle /\ no_marking' = FALSE
      /\ UNCHANGED <<contents, to, unswept, markVars, state, should_hurry, gcVars>>
  BY DEF LeaveNoMarkingScope, heapVars
<1> QED
  BY <1>1, QuietStep

\* A store without barrier in an array that is not black.
LEMMA WriteWitnessedStep ==
    ASSUME IInv, NEW value \in Reachable \cup {NULL}, WriteWitnessed(value)
    PROVE  IInv'
<1>1. NotInGC /\ no_marking /\ UNCHANGED <<handle, to, unswept, markVars, stateVars, gcVars>>
  BY DEF WriteWitnessed
<1>2. handle \in Old /\ (IsMarking => color[handle] # "black")
  BY <1>1 DEF IInv, ControlInv
<1>3. handle \in Living /\ handle \in Addr /\ Slots(handle) = {1}
  <2>1. handle \in Addr /\ handle # NULL /\ handle # Large
    BY <1>2, AddrFacts
  <2>2. handle \in Living
    BY <1>1, <2>1, LivingFacts
  <2> QED
    BY <2>1, <2>2, AddrFacts
<1>4. value \in Living \cup {NULL}
  BY <1>1, ReachableLiving
<1> DEFINE f == [contents[handle] EXCEPT ![1] = value]
<1>5. contents[handle] \in [Slots(handle) -> Living \cup {NULL}] /\ contents[handle] \notin {Free, Filler}
  BY <1>1, <1>3, LivingFacts
<1>6. f \in [Slots(handle) -> Living \cup {NULL}]
  BY <1>3, <1>4, <1>5
<1>7. contents' = [contents EXCEPT ![handle] = f]
  BY DEF WriteWitnessed
<1> HIDE DEF f
<1>8. PICK obj \in Addr : obj = handle
  BY <1>3
<1> QED
  BY <1>1, <1>2, <1>3, <1>5, <1>6, <1>7, <1>8, StorePlain

\* A store the barrier reacts to: it turns the object or the value g grey.
LEMMA StoreBarrier ==
    ASSUME IInv, NotInGC, IsMarking, NEW obj \in Living,
           NEW f \in [Slots(obj) -> Living \cup {NULL}], NEW g \in Living,
           contents' = [contents EXCEPT ![obj] = f],
           color' = [color EXCEPT ![g] = "grey"],
           Added(marking_deque, g, marking_deque'), g = Large \/ g \notin Entries,
           progress_bar' = IF g = Large THEN 0 ELSE progress_bar,
           state' = "MARKING",
           UNCHANGED <<handle, to, unswept, should_hurry, no_marking, gcVars>>,
           color'[obj] = "black" /\ obj \notin Cells =>
               \A i \in Slots(obj) : (obj = Large => i <= progress_bar') =>
                   f[i] = contents[obj][i] \/ f[i] = NULL \/ color'[f[i]] # "white"
    PROVE  IInv'
<1>0. /\ handle' = handle /\ to' = to /\ unswept' = unswept /\ should_hurry' = should_hurry
      /\ no_marking' = no_marking /\ gc' = gc /\ roots' = roots /\ gc_deque' = gc_deque
  BY DEF gcVars
<1>1. NotInGC' /\ IsMarking' /\ unswept = {} /\ unswept' = {}
  BY <1>0 DEF NotInGC, IsMarking, IInv, ControlInv
<1>2. /\ HeapInv' /\ Living' = Living \cup {obj}
      /\ \A a \in Addr : Object(a)' <=> Object(a) \/ a = obj
      /\ DOMAIN contents' = Addr
      /\ \A a \in Addr : contents'[a] \in {Free, Filler} \cup [Slots(a) -> Addr \cup {NULL}]
      /\ contents'[obj] = f /\ \A a \in Addr : a # obj => contents'[a] = contents[a]
      /\ handle' \in Addr \cup {NULL}
  <2>1. /\ obj \in Addr /\ handle' \in Living \cup {obj, NULL} /\ unswept' = unswept
        /\ \A a \in unswept : color'[a] = color[a]
    BY <1>0, <1>1, LivingFacts
  <2> QED
    BY <1>1, <2>1, StoreHeap
<1>3. /\ g \in Addr /\ obj \in Addr /\ Object(g) /\ Object(obj)
      /\ color' \in [Addr -> Colors] /\ color'[g] = "grey"
      /\ \A a \in Addr : a # g => color'[a] = color[a]
  BY DEF Living, IInv, TypeOK, Colors
<1>4. TypeOK'
  <2>1. progress_bar' \in 0..LargeLength
    BY AddrFacts DEF IInv, TypeOK
  <2> QED
    BY <1>0, <1>1, <1>2, <1>3, <2>1 DEF IInv, TypeOK, Added, Colors
<1>5. ControlInv'
  <2>1. no_marking' => handle' \in Old /\ color'[handle'] # "black"
    <3>1. ASSUME no_marking PROVE handle \in Old /\ handle \in Addr /\ color[handle] # "black"
      BY <3>1, AddrFacts DEF IInv, ControlInv
    <3> QED
      BY <1>0, <1>3, <3>1
  <2> QED
    BY <1>0, <1>1, <2>1 DEF IInv, ControlInv, NotInGC
<1>6. IdleInv'
  <2>1. \A a \in Marked' : Object(a)'
    BY <1>2, <1>3 DEF IInv, IdleInv, Marked
  <2> QED
    BY <1>1, <2>1 DEF IdleInv
<1>7. BlackInv /\ EntriesInv
  BY DEF IInv, MarkingInv
<1>8. ASSUME NEW a \in Addr, a \notin Cells, color'[a] = "black", NEW i \in Slots(a),
             a = Large => i <= progress_bar'
      PROVE  Seen(a, i)'
  <2>0. a # g /\ color[a] = "black"
    BY <1>3, <1>8
  <2>1. contents[a][i] # NULL => color[contents[a][i]] # "white"
    <3>1. CASE a = Large
      <4>1. i \in 1..progress_bar
        BY <1>8, <2>0, <3>1, AddrFacts DEF IInv, TypeOK
      <4> QED
        BY <1>7, <2>0, <3>1, <4>1 DEF BlackInv, Seen
    <3>2. CASE a # Large
      BY <1>7, <1>8, <2>0, <3>2 DEF BlackInv, Seen
    <3> QED
      BY <3>1, <3>2
  <2>2. contents[a][i] \in Addr \cup {NULL}
    <3>1. Object(a)
      BY <2>0 DEF IInv, IdleInv, Marked
    <3> QED
      BY <3>1 DEF Object, IInv, TypeOK
  <2>3. contents[a][i] # NULL => color'[contents[a][i]] # "white"
    BY <1>3, <2>1, <2>2
  <2>4. CASE a = obj
    <3>1. f[i] = contents[a][i] \/ f[i] = NULL \/ color'[f[i]] # "white"
      BY <1>8, <2>4
    <3> QED
      BY <1>2, <2>3, <2>4, <3>1 DEF Seen
  <2>5. CASE a # obj
    BY <1>2, <2>3, <2>5 DEF Seen
  <2> QED
    BY <2>4, <2>5
<1>9. BlackInv'
  <2>1. ASSUME NEW a \in Addr \ (Cells \cup {Large}), color'[a] = "black", NEW i \in Slots(a)
        PROVE  Seen(a, i)'
    BY <1>8, <2>1
  <2>2. CASE color'[Large] = "black"
    <3>1. ASSUME NEW i \in 1..progress_bar' PROVE Seen(Large, i)'
      <4>1. i \in Slots(Large) /\ i <= progress_bar'
        BY <1>4, <3>1, AddrFacts DEF TypeOK
      <4> QED
        BY <1>8, <2>2, <4>1, AddrFacts
    <3> QED
      BY <2>1, <2>2, <3>1 DEF BlackInv
  <2>3. CASE color'[Large] # "black"
    <3>1. progress_bar' = 0
      BY <1>3, <1>7, <2>3, AddrFacts DEF BlackInv
    <3> QED
      BY <2>1, <2>3, <3>1 DEF BlackInv
  <2> QED
    BY <2>2, <2>3
<1>10. EntriesInv'
  <2>0. /\ Entries \subseteq Entries' /\ Entries' \subseteq Entries \cup {g}
        /\ g \in Entries' \/ marking_deque'.overflowed
        /\ marking_deque.overflowed => marking_deque'.overflowed
        /\ \A x : Once(marking_deque.entries, x) /\ (x = g => x \notin Entries)
                  => Once(marking_deque'.entries, x)
    BY DEF Added, Entries
  <2>1. \A a \in Addr : color'[a] = "grey" => a \in Entries' \/ marking_deque'.overflowed
    BY <1>3, <1>7, <2>0 DEF EntriesInv
  <2>2. color'[Large] = "black" /\ progress_bar' < LargeLength => Large \in Entries'
    BY <1>3, <1>7, <2>0, AddrFacts DEF EntriesInv
  <2>3. ASSUME NEW a \in Entries'
        PROVE  color'[a] = "grey" \/ a = Large \/ (contents'[a] = Filler /\ color'[a] = "white")
    <3>1. CASE a = g
      BY <1>3, <3>1
    <3>2. CASE a # g
      <4>1. a \in Entries /\ a \in Addr
        <5>1. Entries \subseteq Addr
          BY DEF IInv, TypeOK, Deque, Entries, ToSet
        <5> QED
          BY <2>0, <2>3, <3>2, <5>1
      <4>2. color[a] = "grey" \/ a = Large \/ (contents[a] = Filler /\ color[a] = "white")
        BY <1>7, <4>1 DEF EntriesInv
      <4>3. contents[a] = Filler => a # obj
        BY <1>3 DEF Object
      <4> QED
        BY <1>2, <1>3, <3>2, <4>1, <4>2, <4>3
    <3> QED
      BY <3>1, <3>2
  <2>4. \A a : a # Large => Once(marking_deque'.entries, a)
    BY <1>7, <2>0 DEF EntriesInv
  <2>5. state' # "COMPLETE"
    OBVIOUS
  <2> QED
    BY <2>1, <2>2, <2>3, <2>4, <2>5 DEF EntriesInv
<1> QED
  BY <1>1, <1>2, <1>4, <1>5, <1>6, <1>9, <1>10 DEF IInv, MarkingInv, CollectInv, NotInGC

\* An object that is white, or black and no large array, is not on the deque.
LEMMA NoEntry ==
    ASSUME IInv, IsMarking, NEW a \in Addr, Object(a), a # Large, color[a] # "grey"
    PROVE  a \notin Entries
  BY DEF IInv, MarkingInv, EntriesInv, Object

\* With the write barrier.
LEMMA WriteStep ==
    ASSUME IInv, NEW obj \in Reachable, NEW value \in Reachable \cup {NULL},
           NEW slot \in Slots(obj), Write(obj, slot, value)
    PROVE  IInv'
<1>1. NotInGC /\ obj \notin Cells /\ UNCHANGED <<handle, to, unswept, should_hurry, no_marking, gcVars>>
  BY DEF Write
<1>2. obj \in Living /\ obj \in Addr /\ value \in Living \cup {NULL}
  BY <1>1, ReachableLiving, LivingFacts
<1>3. contents[obj] \in [Slots(obj) -> Living \cup {NULL}] /\ contents[obj] \notin {Free, Filler}
  BY <1>1, <1>2, LivingFacts
<1> DEFINE f == [contents[obj] EXCEPT ![slot] = value]
<1>4. /\ f \in [Slots(obj) -> Living \cup {NULL}]
      /\ \A i \in Slots(obj) : f[i] = IF i = slot THEN value ELSE contents[obj][i]
  BY <1>2, <1>3
<1>5. contents' = [contents EXCEPT ![obj] = f]
  BY DEF Write
<1> HIDE DEF f
<1>6. RecordWrite(obj, slot, value)
  BY DEF Write
<1>7. CASE \/ ~IsMarking \/ value = NULL \/ color[value] # "white" \/ color[obj] # "black"
           \/ obj = Large /\ slot > progress_bar
  <2>1. UNCHANGED <<markVars, state>>
    BY <1>6, <1>7 DEF RecordWrite
  <2>2. UNCHANGED <<to, unswept, markVars, stateVars, gcVars>>
    BY <1>1, <2>1 DEF stateVars
  <2>3. handle' \in Living \cup {obj, NULL} /\ handle' = handle
    BY <1>1, LivingFacts
  <2>4. ASSUME IsMarking, color[obj] = "black", NEW i \in Slots(obj), obj = Large => i <= progress_bar
        PROVE  f[i] = contents[obj][i] \/ f[i] = NULL \/ color[f[i]] # "white"
    <3>1. i = slot /\ obj = Large => ~ (slot > progress_bar)
      <4>1. obj = Large => i \in Int
        BY <2>4, AddrFacts
      <4> QED
        BY <2>4, <4>1 DEF IInv, TypeOK
    <3> QED
      BY <1>4, <1>7, <2>4, <3>1
  <2> QED
    BY <1>1, <1>2, <1>3, <1>4, <1>5, <2>2, <2>3, <2>4, StorePlain
<1>8. CASE ~ (\/ ~IsMarking \/ value = NULL \/ color[value] # "white" \/ color[obj] # "black"
              \/ obj = Large /\ slot > progress_bar)
  <2>1. /\ IsMarking /\ value \in Living /\ value \in Addr /\ color[value] = "white"
        /\ color[obj] = "black" /\ Object(value) /\ Object(obj)
    BY <1>2, <1>8 DEF Living
  <2>2. marking_deque \in Deque /\ color \in [Addr -> Colors]
    BY DEF IInv, TypeOK, Colors
  <2>3. CASE obj = Large
    <3>1. /\ color' = [color EXCEPT ![value] = "grey"]
          /\ marking_deque' = Push(marking_deque, value)
          /\ state' = "MARKING" /\ progress_bar' = progress_bar
      BY <1>6, <1>8, <2>3 DEF RecordWrite, WhiteToGreyAndPush, Marks, Restart
    <3>2. Added(marking_deque, value, marking_deque')
      BY <2>1, <2>2, <3>1, AddFacts
    <3>3. value # Large /\ value \notin Entries
      BY <2>1, <2>3, NoEntry
    <3>4. \A i \in Slots(obj) : f[i] = contents[obj][i] \/ f[i] = NULL \/ color'[f[i]] # "white"
      <4>1. color'[value] # "white"
        BY <2>1, <2>2, <3>1
      <4> QED
        BY <1>4, <4>1
    <3> QED
      BY <1>1, <1>2, <1>4, <1>5, <2>1, <3>1, <3>2, <3>3, <3>4, StoreBarrier
  <2>4. CASE obj # Large
    <3>1. /\ color' = [color EXCEPT ![obj] = "grey"]
          /\ marking_deque' = UnshiftGrey(marking_deque, obj)
          /\ state' = "MARKING" /\ progress_bar' = progress_bar
      BY <1>6, <1>8, <2>4 DEF RecordWrite, BlackToGreyAndUnshift, Marks, Restart
    <3>2. Added(marking_deque, obj, marking_deque')
      BY <1>2, <2>2, <3>1, AddFacts
    <3>3. obj \notin Entries
      BY <1>2, <2>1, <2>4, NoEntry
    <3>4. color'[obj] # "black"
      BY <1>2, <2>2, <3>1
    <3> QED
      BY <1>1, <1>2, <1>4, <1>5, <2>1, <2>4, <3>1, <3>2, <3>3, <3>4, StoreBarrier
  <2> QED
    BY <2>3, <2>4
<1> QED
  BY <1>7, <1>8

\* A bulk copy: the large array is grey again, from its beginning.
LEMMA CopyElementsStep ==
    ASSUME IInv, NEW f \in [Slots(Large) -> Reachable \cup {NULL}], CopyElements(Large, f)
    PROVE  IInv'
<1>1. /\ NotInGC /\ UNCHANGED <<handle, to, unswept, should_hurry, no_marking, gcVars>>
      /\ contents' = [contents EXCEPT ![Large] = f]
      /\ RecordWrites(Large)
  BY DEF CopyElements
<1>2. Large \in Living /\ Large \in Addr /\ contents[Large] \notin {Free, Filler}
  BY <1>1, LivingFacts
<1>3. f \in [Slots(Large) -> Living \cup {NULL}]
  BY <1>1, ReachableLiving
<1>4. CASE IsMarking /\ color[Large] = "black"
  <2>1. /\ color' = [color EXCEPT ![Large] = "grey"]
        /\ marking_deque' = UnshiftGrey(marking_deque, Large)
        /\ state' = "MARKING" /\ progress_bar' = 0
    BY <1>1, <1>4 DEF RecordWrites, RecordWritesFrom, BlackToGreyAndUnshift, Marks, Restart
  <2>2. Added(marking_deque, Large, marking_deque')
    <3>1. marking_deque \in Deque
      BY DEF IInv, TypeOK
    <3> QED
      BY <1>2, <2>1, <3>1, AddFacts
  <2>3. color'[Large] # "black"
    BY <1>2, <2>1 DEF IInv, TypeOK
  <2> QED
    BY <1>1, <1>2, <1>3, <1>4, <2>1, <2>2, <2>3, StoreBarrier
<1>5. CASE ~ (IsMarking /\ color[Large] = "black")
  <2>1. UNCHANGED <<to, unswept, markVars, stateVars, gcVars>>
    BY <1>1, <1>5 DEF RecordWrites, RecordWritesFrom, stateVars
  <2>2. handle' \in Living \cup {Large, NULL} /\ handle' = handle
    BY <1>1, LivingFacts
  <2> QED
    BY <1>1, <1>2, <1>3, <1>5, <2>1, <2>2, StorePlain
<1> QED
  BY <1>4, <1>5

\* The array at old has moved to new, and holder refers to it there.
LEMMA LeftTrimStep ==
    ASSUME IInv, NEW holder \in Reachable, NEW new \in Addr, NEW slot \in Slots(holder),
           LeftTrim(new, holder, slot)
    PROVE  IInv'
<1>1. PICK old : old = contents[holder][slot]
  OBVIOUS
<1>2. /\ NotInGC /\ ~no_marking /\ contents[new] = Free
      /\ \/ {old, new} \subseteq Old /\ (old \in unswept <=> new \in unswept)
         \/ {old, new} \subseteq Semi[to]
      /\ holder # old /\ handle # old
      /\ \A b \in Addr : Object(b) =>
            \A i \in Slots(b) : contents[b][i] = old => <<b, i>> = <<holder, slot>>
  BY <1>1 DEF LeftTrim
<1>3. contents' = [contents EXCEPT ![new] = contents[old], ![old] = Filler, ![holder][slot] = new]
  BY <1>1 DEF LeftTrim
<1>4. /\ color' = TransferMark(Marks, old, new).color
      /\ marking_deque' = TransferMark(Marks, old, new).deque
      /\ state' = IF color[old] = "grey" THEN "MARKING" ELSE state
  BY <1>1 DEF LeftTrim
<1>5. /\ handle' = handle /\ to' = to /\ unswept' = unswept /\ progress_bar' = progress_bar
      /\ should_hurry' = should_hurry /\ no_marking' = no_marking
      /\ gc' = gc /\ roots' = roots /\ gc_deque' = gc_deque
  BY DEF LeftTrim, gcVars
<1>6. /\ holder \in Living /\ holder \in Addr /\ Object(holder)
      /\ contents[holder] \in [Slots(holder) -> Living \cup {NULL}]
  BY <1>2, ReachableLiving, LivingFacts DEF Living
<1>7. /\ old \in Addr /\ new \in Addr /\ old # Large /\ new # Large
      /\ old \notin Cells /\ new \notin Cells /\ Slots(old) = Slots(new)
      /\ to \in {1, 2}
  <2>1. to \in {1, 2}
    BY DEF IInv, TypeOK
  <2>2. {old, new} \subseteq Old \/ {old, new} \subseteq New
    BY <1>2, <2>1, AddrFacts
  <2>3. old \in Addr /\ old # Large /\ new # Large /\ old \notin Cells /\ new \notin Cells
    BY <2>2, AddrFacts
  <2> QED
    BY <2>1, <2>3, AddrFacts
<1>8. old \in Living /\ Object(old) /\ (old \in unswept => color[old] # "white")
  <2>1. old \in Living
    BY <1>1, <1>6, <1>7, AddrFacts
  <2> QED
    BY <2>1 DEF Living
<1>9. /\ ~Object(new) /\ new # old /\ new # holder /\ color[new] = "white" /\ contents[new] # Filler
  <2>1. ~Object(new)
    BY <1>2 DEF Object
  <2>2. color[new] = "white"
    BY <1>7, <2>1 DEF IInv, IdleInv, Marked
  <2> QED
    BY <1>2, <1>6, <1>8, <2>1, <2>2, ContentsAssumption
<1>10. old \in unswept <=> new \in unswept
  <2>1. unswept \subseteq Old
    BY DEF IInv, TypeOK
  <2>2. {old, new} \subseteq Semi[to] => old \notin Old /\ new \notin Old
    BY <1>7, AddrFacts
  <2> QED
    BY <1>2, <2>1, <2>2
<1>11. /\ DOMAIN contents' = Addr
       /\ contents'[new] = contents[old] /\ contents'[old] = Filler
       /\ contents'[holder] = [contents[holder] EXCEPT ![slot] = new]
       /\ \A a \in Addr : a \notin {old, new, holder} => contents'[a] = contents[a]
  BY <1>2, <1>3, <1>6, <1>7, <1>9 DEF IInv, TypeOK
<1>12. /\ contents'[holder] \in [Slots(holder) -> Addr \cup {NULL}]
       /\ contents'[holder][slot] = new
       /\ \A i \in Slots(holder) : i # slot => contents'[holder][i] = contents[holder][i]
  BY <1>6, <1>7, <1>11, LivingFacts, <1>2
<1>13. contents[old] \in [Slots(old) -> Living \cup {NULL}] /\ contents[old] \notin {Free, Filler}
  BY <1>2, <1>8, LivingFacts
<1>14. \A a \in Addr : Object(a)' <=> (Object(a) /\ a # old) \/ a = new
  <2>1. contents'[holder] \notin {Free, Filler}
    BY <1>6, <1>12, ContentsAssumption
  <2> QED
    BY <1>6, <1>9, <1>11, <1>13, <2>1 DEF Object
\* Where a value of an object is, after the step.
<1>15. ASSUME NEW a \in Addr, Object(a)', NEW i \in Slots(a)
       PROVE  LET b == IF a = new THEN old ELSE a
              IN  /\ Object(b) /\ b \in Addr /\ i \in Slots(b)
                  /\ \/ contents'[a][i] = contents[b][i] /\ contents[b][i] # old
                     \/ contents'[a][i] = new /\ contents[b][i] = old
  <2>1. CASE a = new
    <3>1. contents[old][i] # old
      BY <1>2, <1>7, <1>8, <2>1
    <3> QED
      BY <1>7, <1>8, <1>11, <2>1, <3>1
  <2>2. CASE a = holder
    BY <1>1, <1>2, <1>6, <1>9, <1>12, <2>2
  <2>3. CASE a \notin {new, holder}
    <3>1. Object(a) /\ a # old
      BY <1>14, <1>15, <2>3
    <3> QED
      BY <1>2, <1>11, <2>3, <3>1
  <2> QED
    BY <2>1, <2>2, <2>3
\* The mark has moved along.
<1>16. marking_deque \in Deque /\ color \in [Addr -> Colors]
  BY DEF IInv, TypeOK, Colors
<1>17. /\ color' \in [Addr -> Colors] /\ color'[new] = color[old] /\ color'[old] = "white"
       /\ \A a \in Addr : a \notin {old, new} => color'[a] = color[a]
       /\ IF color[old] = "grey" THEN Added(marking_deque, new, marking_deque')
          ELSE marking_deque' = marking_deque
  <2> DEFINE cleared == [Marks EXCEPT !.color[old] = "white"]
  <2>1. cleared = [color |-> [color EXCEPT ![old] = "white"], deque |-> marking_deque]
    BY DEF Marks
  <2>2. Marks.color = color /\ Marks.deque = marking_deque
    BY DEF Marks
  <2>3. CASE color[old] = "black"
    <3>1. TransferMark(Marks, old, new) = [cleared EXCEPT !.color[new] = "black"]
      BY <2>2, <2>3 DEF TransferMark
    <3>2. TransferMark(Marks, old, new) =
             [color |-> [color EXCEPT ![old] = "white", ![new] = "black"], deque |-> marking_deque]
      BY <2>1, <3>1
    <3> QED
      BY <1>4, <1>7, <1>9, <1>16, <2>3, <3>2 DEF Colors
  <2>4. CASE color[old] = "grey"
    <3>1. TransferMark(Marks, old, new) = WhiteToGreyAndPush(cleared, new)
      BY <2>2, <2>4 DEF TransferMark
    <3>2. /\ color' = [color EXCEPT ![old] = "white", ![new] = "grey"]
          /\ marking_deque' = Push(marking_deque, new)
      <4>1. PICK k : k = [color EXCEPT ![old] = "white"]
        OBVIOUS
      <4>2. cleared.color = k /\ cleared.deque = marking_deque
        BY <2>1, <4>1
      <4> HIDE DEF cleared
      <4>3. /\ color' = [k EXCEPT ![new] = "grey"]
            /\ marking_deque' = Push(marking_deque, new)
        BY <1>4, <3>1, <4>2 DEF WhiteToGreyAndPush
      <4> QED
        BY <4>1, <4>3
    <3>3. Added(marking_deque, new, marking_deque')
      BY <1>7, <1>16, <3>2, AddFacts
    <3> QED
      BY <1>7, <1>9, <1>16, <2>4, <3>2, <3>3 DEF Colors
  <2>5. CASE color[old] = "white"
    <3>1. TransferMark(Marks, old, new) = Marks
      BY <2>2, <2>5 DEF TransferMark
    <3> QED
      BY <1>4, <1>7, <1>9, <1>16, <2>2, <2>5, <3>1
  <2> QED
    BY <1>7, <1>16, <2>3, <2>4, <2>5 DEF Colors
<1>18. TypeOK'
  <2>1. \A a \in Addr : contents'[a] \in {Free, Filler} \cup [Slots(a) -> Addr \cup {NULL}]
    <3>1. contents[old] \in [Slots(new) -> Addr \cup {NULL}]
      BY <1>2, <1>7, <1>13, LivingFacts
    <3> QED
      BY <1>11, <1>12, <3>1 DEF IInv, TypeOK
  <2>2. marking_deque' \in Deque
    BY <1>16, <1>17 DEF Added
  <2>3. state' \in {"STOPPED", "SWEEPING", "MARKING", "COMPLETE"}
    BY <1>4 DEF IInv, TypeOK
  <2> QED
    BY <1>5, <1>11, <1>17, <2>1, <2>2, <2>3 DEF IInv, TypeOK, Colors
\* Between two cycles nothing is grey.
<1>19. /\ IsMarking' <=> IsMarking
       /\ ~IsMarking => color[old] # "grey"
  <2>1. ~IsMarking => color[old] # "grey"
    BY <1>2, <1>7 DEF IInv, IdleInv, Marked
  <2> QED
    BY <1>4, <2>1 DEF IsMarking
<1>20. NotInGC'
  BY <1>2, <1>5 DEF NotInGC
<1>21. ControlInv'
  BY <1>2, <1>5, <1>19, <1>20 DEF IInv, ControlInv, NotInGC
<1>22. HeapInv'
  <2>1. Living' = (Living \ {old}) \cup {new}
    <3>1. ASSUME NEW a \in Addr PROVE a \in Living' <=> a \in (Living \ {old}) \cup {new}
      <4>1. CASE a = new
        BY <1>5, <1>8, <1>10, <1>14, <1>17, <4>1 DEF Living
      <4>2. CASE a = old
        BY <1>9, <1>14, <4>2 DEF Living
      <4>3. CASE a \notin {old, new}
        BY <1>5, <1>14, <1>17, <4>3 DEF Living
      <4> QED
        BY <4>1, <4>2, <4>3
    <3> QED
      BY <1>7, <3>1 DEF Living
  <2>2. ASSUME NEW a \in Living' PROVE Object(a)' /\ Values(a)' \subseteq Living'
    <3>1. a \in Addr /\ Object(a)'
      BY DEF Living
    <3>2. PICK b : b = IF a = new THEN old ELSE a
      OBVIOUS
    <3>3. b \in Living
      BY <1>8, <2>1, <3>2
    <3>4. ASSUME NEW i \in Slots(a) PROVE contents'[a][i] \in Living' \cup {NULL}
      <4>1. /\ i \in Slots(b)
            /\ \/ contents'[a][i] = contents[b][i] /\ contents[b][i] # old
               \/ contents'[a][i] = new
        BY <1>15, <3>1, <3>2
      <4>2. contents[b][i] \in Living \cup {NULL}
        BY <1>2, <3>3, <4>1, LivingFacts
      <4> QED
        BY <2>1, <4>1, <4>2
    <3> QED
      BY <3>1, <3>4 DEF Values
  <2>3. RootSet' \subseteq Living'
    BY <1>2, <1>5, <1>7, <2>1, LivingFacts DEF RootSet
  <2> QED
    BY <1>20, <2>2, <2>3 DEF HeapInv, Intact
<1>23. IdleInv'
  <2>1. \A a \in Marked' : a \in Addr /\ Object(a)'
    BY <1>14, <1>17 DEF IInv, IdleInv, Marked
  <2>2. ASSUME ~IsMarking
        PROVE  progress_bar' = 0 /\ \A a \in Marked' : a \in unswept' /\ color'[a] = "black"
    <3>1. progress_bar = 0 /\ \A a \in Marked : a \in unswept /\ color[a] = "black"
      BY <1>2, <2>2 DEF IInv, IdleInv
    <3>2. ASSUME NEW a \in Marked' PROVE a \in unswept /\ color'[a] = "black"
      <4>1. a \in Addr /\ color'[a] # "white"
        BY DEF Marked
      <4>2. CASE a = new
        <5>1. old \in Marked
          BY <1>7, <1>17, <4>1, <4>2 DEF Marked
        <5> QED
          BY <1>10, <1>17, <3>1, <4>2, <5>1
      <4>3. CASE a # new
        <5>1. a # old /\ color'[a] = color[a] /\ a \in Marked
          BY <1>17, <4>1, <4>3 DEF Marked
        <5> QED
          BY <3>1, <5>1
      <4> QED
        BY <4>2, <4>3
    <3> QED
      BY <1>5, <3>1, <3>2
  <2> QED
    BY <1>19, <2>1, <2>2 DEF IdleInv
<1>24. ASSUME IsMarking PROVE BlackInv' /\ EntriesInv'
  <2>1. BlackInv /\ EntriesInv
    BY <1>24 DEF IInv, MarkingInv
  <2>2. ASSUME NEW a \in Addr, a \notin Cells, color'[a] = "black", NEW i \in Slots(a),
               a = Large => i <= progress_bar
        PROVE  Seen(a, i)'
    <3>1. PICK b : b = IF a = new THEN old ELSE a
      OBVIOUS
    <3>2. Object(a)'
      <4>1. a \in Marked'
        BY <2>2 DEF Marked
      <4> QED
        BY <1>23, <4>1 DEF IdleInv
    <3>3. /\ b \in Addr /\ i \in Slots(b)
          /\ \/ contents'[a][i] = contents[b][i] /\ contents[b][i] # old
             \/ contents'[a][i] = new /\ contents[b][i] = old
      BY <1>15, <3>1, <3>2
    <3>4. color[b] = "black" /\ b \notin Cells /\ (b = Large <=> a = Large)
      BY <1>7, <1>17, <2>2, <3>1
    <3>5. contents[b][i] # NULL => color[contents[b][i]] # "white"
      <4>1. CASE b = Large
        <5>1. i \in 1..progress_bar
          BY <2>2, <3>3, <3>4, <4>1, AddrFacts DEF IInv, TypeOK
        <5> QED
          BY <2>1, <3>4, <4>1, <5>1 DEF BlackInv, Seen
      <4>2. CASE b # Large
        BY <2>1, <3>3, <3>4, <4>2 DEF BlackInv, Seen
      <4> QED
        BY <4>1, <4>2
    <3>6. contents[b][i] \in Addr \cup {NULL}
      <4>1. Object(b)
        BY <3>3, <3>4 DEF IInv, IdleInv, Marked
      <4> QED
        BY <3>3, <4>1 DEF Object, IInv, TypeOK
    <3>7. CASE contents'[a][i] = contents[b][i] /\ contents[b][i] # old
      <4>1. contents[b][i] # NULL => color'[contents[b][i]] # "white"
        BY <1>9, <1>17, <3>5, <3>6, <3>7
      <4> QED
        BY <3>7, <4>1 DEF Seen
    <3>8. CASE contents'[a][i] = new /\ contents[b][i] = old
      BY <1>7, <1>17, <3>5, <3>8, AddrFacts DEF Seen
    <3> QED
      BY <3>3, <3>7, <3>8
  <2>3. color'[Large] = color[Large] /\ Large \in Addr /\ progress_bar' = progress_bar
    BY <1>5, <1>7, <1>17, AddrFacts
  <2>4. BlackInv'
    <3>1. ASSUME NEW a \in Addr \ (Cells \cup {Large}), color'[a] = "black", NEW i \in Slots(a)
          PROVE  Seen(a, i)'
      BY <2>2, <3>1
    <3>2. CASE color'[Large] = "black"
      <4>1. ASSUME NEW i \in 1..progress_bar' PROVE Seen(Large, i)'
        <5>1. i \in Slots(Large) /\ i <= progress_bar
          BY <2>3, <4>1, AddrFacts DEF IInv, TypeOK
        <5> QED
          BY <2>2, <3>2, <5>1, AddrFacts
      <4> QED
        BY <3>1, <3>2, <4>1 DEF BlackInv
    <3>3. CASE color'[Large] # "black"
      BY <2>1, <2>3, <3>1, <3>3 DEF BlackInv
    <3> QED
      BY <3>2, <3>3
  <2>5. new \notin Entries /\ (color[old] # "grey" => old \notin Entries)
    BY <1>7, <1>8, <1>9, <2>1 DEF EntriesInv, Object
  <2>6. /\ Entries \subseteq Entries' /\ Entries' \subseteq Entries \cup {new}
        /\ color[old] = "grey" => new \in Entries' \/ marking_deque'.overflowed
        /\ color[old] # "grey" => Entries' = Entries
        /\ marking_deque.overflowed => marking_deque'.overflowed
        /\ \A x : Once(marking_deque.entries, x) => Once(marking_deque'.entries, x)
    BY <1>17, <2>5 DEF Added, Entries
  <2>7. \A a \in Addr : color'[a] = "grey" => a \in Entries' \/ marking_deque'.overflowed
    <3>1. ASSUME NEW a \in Addr, color'[a] = "grey"
          PROVE  a \in Entries' \/ marking_deque'.overflowed
      <4>1. CASE a = new
        BY <1>17, <2>6, <3>1, <4>1
      <4>2. CASE a # new
        <5>1. color[a] = "grey"
          BY <1>17, <3>1, <4>2
        <5> QED
          BY <2>1, <2>6, <5>1 DEF EntriesInv
      <4> QED
        BY <4>1, <4>2
    <3> QED
      BY <3>1
  <2>8. ASSUME NEW a \in Entries'
        PROVE  color'[a] = "grey" \/ a = Large \/ (contents'[a] = Filler /\ color'[a] = "white")
    <3>1. CASE a \notin Entries
      <4>1. a = new /\ color[old] = "grey"
        BY <2>6, <2>8, <3>1
      <4> QED
        BY <1>17, <4>1
    <3>2. CASE a \in Entries
      <4>1. a \in Addr
        BY <3>2 DEF IInv, TypeOK, Deque, Entries, ToSet
      <4>2. color[a] = "grey" \/ a = Large \/ (contents[a] = Filler /\ color[a] = "white")
        BY <2>1, <3>2 DEF EntriesInv
      <4>3. a # new
        BY <2>5, <3>2
      <4>4. CASE a = old
        BY <1>11, <1>17, <4>4
      <4>5. CASE a # old
        <5>1. color'[a] = color[a]
          BY <1>17, <4>1, <4>3, <4>5
        <5>2. contents[a] = Filler => a # holder
          BY <1>6 DEF Object
        <5>3. contents[a] = Filler => contents'[a] = Filler
          BY <1>11, <4>1, <4>3, <4>5, <5>2
        <5> QED
          BY <4>2, <5>1, <5>3
      <4> QED
        BY <4>4, <4>5
    <3> QED
      BY <3>1, <3>2
  <2>9. state' = "COMPLETE" => Entries' = {}
    BY <1>4, <2>1, <2>6 DEF EntriesInv
  <2>10. color'[Large] = "black" /\ progress_bar' < LargeLength => Large \in Entries'
    BY <2>1, <2>3, <2>6 DEF EntriesInv
  <2>11. \A a : a # Large => Once(marking_deque'.entries, a)
    BY <2>1, <2>6 DEF EntriesInv
  <2>12. EntriesInv'
    BY <2>7, <2>8, <2>9, <2>10, <2>11 DEF EntriesInv
  <2> QED
    BY <2>4, <2>12
<1> QED
  BY <1>18, <1>19, <1>20, <1>21, <1>22, <1>23, <1>24 DEF IInv, MarkingInv, CollectInv, NotInGC

-------------------------------------------------------------------------------
(* Incremental steps                                                       *)

\* Outside of a collection only the color of garbage candidates matters for
\* what is alive.
LEMMA HeapStays ==
    ASSUME IInv, NotInGC, NotInGC', UNCHANGED heapVars,
           \A a \in unswept : color'[a] = color[a]
    PROVE  HeapInv'
<1>1. contents' = contents /\ handle' = handle /\ unswept' = unswept
  BY DEF heapVars
<1>2. Living' = Living /\ RootSet' = RootSet
  BY <1>1 DEF Living, Object, RootSet
<1>3. Intact(Living)'
  BY <1>1, <1>2 DEF IInv, HeapInv, Intact, Object, Values
<1> QED
  BY <1>2, <1>3 DEF IInv, HeapInv

\* The strong roots are grey and on the deque.
LEMMA StartMarkingStep ==
    ASSUME IInv, NotInGC, ~IsMarking, unswept = {}, StartMarking, UNCHANGED <<heapVars, gcVars>>
    PROVE  IInv'
<1>0. /\ contents' = contents /\ handle' = handle /\ to' = to /\ unswept' = unswept
      /\ progress_bar' = progress_bar /\ should_hurry' = should_hurry
      /\ no_marking' = no_marking /\ gc' = gc /\ roots' = roots /\ gc_deque' = gc_deque
      /\ state' = "MARKING"
  BY DEF heapVars, gcVars, StartMarking
<1>1. /\ progress_bar = 0 /\ color \in [Addr -> Colors] /\ \A a \in Addr : color[a] = "white"
      /\ handle \in Addr \cup {NULL}
  BY DEF IInv, IdleInv, Marked, TypeOK, Colors
<1>2. PICK m : m = [color |-> color, deque |-> EmptyDeque]
  OBVIOUS
<1>3. m \in AllMarks /\ m.color = color /\ m.deque.entries = << >> /\ m.deque = EmptyDeque
  <2>1. EmptyDeque \in Deque /\ EmptyDeque.entries = << >>
    BY DEF EmptyDeque, Deque
  <2> QED
    BY <1>1, <1>2, <2>1 DEF AllMarks
<1>4. PICK r : r = MarkAll("grey", m, StrongRoots)
  OBVIOUS
<1>5. color' = r.color /\ marking_deque' = r.deque
  <2>1. [Marks EXCEPT !.deque = EmptyDeque] = m
    BY <1>2 DEF Marks
  <2> QED
    BY <1>4, <2>1 DEF StartMarking
<1>6. StrongRoots \in Seq(Addr) /\ ToSet(StrongRoots) = RootSet /\ RootSet \subseteq Addr
  BY <1>1, RootsFacts
<1>7. MarkedFacts("grey", m, RootSet, r)
  <2>1. StrongRoots \in Seq(Addr \cup {NULL})
    BY <1>6, SeqMonotonic
  <2> QED
    BY <1>3, <1>4, <1>6, <2>1, MarkAllFacts
<1>8. /\ r.color \in [Addr -> Colors] /\ r.deque \in Deque
      /\ \A x \in Addr : r.color[x] # "white" =>
            /\ x \in RootSet /\ r.color[x] = "grey"
            /\ x \in ToSet(r.deque.entries) \/ r.deque.overflowed
      /\ \A x \in ToSet(r.deque.entries) : x \in Addr /\ r.color[x] = "grey"
      /\ \A x : Once(r.deque.entries, x)
  <2>1. ToSet(m.deque.entries) = {} /\ \A x : Once(m.deque.entries, x)
    BY <1>3 DEF ToSet, Once
  <2>2. r.color \in [Addr -> Colors] /\ r.deque \in Deque
    BY <1>7 DEF MarkedFacts, AllMarks
  <2>3. \A x \in Addr : r.color[x] # "white" =>
            /\ x \in RootSet /\ r.color[x] = "grey"
            /\ x \in ToSet(r.deque.entries) \/ r.deque.overflowed
    BY <1>1, <1>3, <1>7 DEF MarkedFacts
  <2>4. \A x \in ToSet(r.deque.entries) : x \in Addr /\ r.color[x] = "grey"
    BY <1>7, <2>1 DEF MarkedFacts
  <2>5. \A x : Once(r.deque.entries, x)
    BY <1>7, <2>1 DEF MarkedFacts
  <2> QED
    BY <2>2, <2>3, <2>4, <2>5
<1>9. NotInGC' /\ IsMarking'
  BY <1>0 DEF NotInGC, IsMarking
<1>10. TypeOK'
  BY <1>0, <1>5, <1>8 DEF IInv, TypeOK, Colors
<1>11. ControlInv'
  <2>1. \A x \in Addr : color'[x] # "black"
    BY <1>5, <1>8
  <2>2. no_marking => handle \in Old /\ handle \in Addr
    BY AddrFacts DEF IInv, ControlInv
  <2> QED
    BY <1>0, <1>9, <2>1, <2>2 DEF ControlInv, NotInGC
<1>12. HeapInv'
  BY <1>0, <1>9, HeapStays
<1>13. IdleInv'
  <2>1. \A a \in Marked' : Object(a)'
    <3>1. RootSet \subseteq Living
      BY DEF IInv, HeapInv
    <3> QED
      BY <1>0, <1>5, <1>8, <3>1 DEF Marked, Living, Object
  <2> QED
    BY <1>9, <2>1 DEF IdleInv
<1>14. BlackInv'
  BY <1>0, <1>1, <1>5, <1>8, AddrFacts DEF BlackInv
<1>15. EntriesInv'
  BY <1>0, <1>5, <1>8, AddrFacts DEF EntriesInv, Entries
<1> QED
  BY <1>9, <1>10, <1>11, <1>12, <1>13, <1>14, <1>15 DEF IInv, MarkingInv, CollectInv, NotInGC

\* Start marks the roots, or waits for the lazy sweeper.
LEMMA StartStep ==
    ASSUME IInv, Start
    PROVE  IInv'
<1>1. NotInGC /\ state = "STOPPED" /\ UNCHANGED <<heapVars, gcVars>>
  BY DEF Start
<1>2. ~IsMarking
  BY <1>1 DEF IsMarking
<1>3. CASE unswept = {}
  BY <1>1, <1>2, <1>3, StartMarkingStep DEF Start
<1>4. CASE unswept # {}
  <2>1. state' = "SWEEPING" /\ UNCHANGED <<markVars, should_hurry, no_marking>>
    BY <1>4 DEF Start
  <2>2. /\ contents' = contents /\ handle' = handle /\ to' = to /\ unswept' = unswept
        /\ progress_bar' = progress_bar /\ should_hurry' = should_hurry
        /\ no_marking' = no_marking /\ gc' = gc /\ roots' = roots /\ gc_deque' = gc_deque
        /\ color' = color /\ marking_deque' = marking_deque
    BY <1>1, <2>1 DEF heapVars, gcVars, markVars
  <2>3. NotInGC' /\ ~IsMarking'
    BY <1>1, <2>1, <2>2 DEF NotInGC, IsMarking
  <2>4. TypeOK'
    BY <2>1, <2>2 DEF IInv, TypeOK
  <2>5. ControlInv'
    BY <2>2, <2>3 DEF IInv, ControlInv, NotInGC
  <2>6. HeapInv'
    BY <1>1, <2>2, <2>3, HeapStays
  <2>7. IdleInv'
    BY <1>1, <1>2, <2>2, <2>3 DEF IInv, IdleInv, Marked, Object
  <2> QED
    BY <2>3, <2>4, <2>5, <2>6, <2>7 DEF IInv, MarkingInv, CollectInv, NotInGC
<1> QED
  BY <1>3, <1>4

\* Marking starts when sweeping is complete.
LEMMA StepSweepingStep ==
    ASSUME IInv, StepSweeping
    PROVE  IInv'
<1>1. /\ NotInGC /\ state = "SWEEPING" /\ unswept = {} /\ StartMarking
      /\ UNCHANGED <<heapVars, gcVars>>
  BY DEF StepSweeping
<1>2. ~IsMarking
  BY <1>1 DEF IsMarking
<1> QED
  BY <1>1, <1>2, StartMarkingStep

\* Sweeping a page frees garbage only.
LEMMA SweepPageStep ==
    ASSUME IInv, NEW a \in Old, SweepPage(a)
    PROVE  IInv'
<1>0. /\ NotInGC /\ a \in unswept /\ unswept' = unswept \ {a}
      /\ handle' = handle /\ to' = to
      /\ progress_bar' = progress_bar /\ should_hurry' = should_hurry
      /\ no_marking' = no_marking /\ gc' = gc /\ roots' = roots /\ gc_deque' = gc_deque
      /\ state' = state /\ marking_deque' = marking_deque
  BY DEF SweepPage, stateVars, gcVars
<1>1. ~IsMarking /\ ~IsMarking' /\ NotInGC'
  BY <1>0 DEF IInv, ControlInv, IsMarking, NotInGC
<1>2. /\ DOMAIN contents' = Addr
      /\ contents'[a] = IF color[a] = "white" THEN Free ELSE contents[a]
      /\ \A b \in Addr : b # a => contents'[b] = contents[b]
  BY AddrFacts DEF SweepPage, IInv, TypeOK
<1>3. /\ color' \in [Addr -> Colors] /\ color'[a] = "white"
      /\ \A b \in Addr : b # a => color'[b] = color[b]
  BY AddrFacts DEF SweepPage, IInv, TypeOK, Colors
<1>4. TypeOK'
  <2>1. \A b \in Addr : contents'[b] \in {Free, Filler} \cup [Slots(b) -> Addr \cup {NULL}]
    BY <1>2 DEF IInv, TypeOK
  <2> QED
    BY <1>0, <1>2, <1>3, <2>1 DEF IInv, TypeOK, Colors
<1>5. Living' = Living
  <2>1. ASSUME NEW b \in Addr PROVE b \in Living' <=> b \in Living
    <3>1. CASE b = a
      <4>1. Object(a)' <=> Object(a) /\ color[a] # "white"
        BY <1>2 DEF Object
      <4> QED
        BY <1>0, <3>1, <4>1 DEF Living
    <3>2. CASE b # a
      BY <1>0, <1>2, <1>3, <3>2 DEF Living, Object
    <3> QED
      BY <3>1, <3>2
  <2> QED
    BY <2>1 DEF Living
<1>6. HeapInv'
  <2>1. Intact(Living) /\ RootSet \subseteq Living
    BY <1>0 DEF IInv, HeapInv
  <2>2. ASSUME NEW b \in Living' PROVE Object(b)' /\ Values(b)' \subseteq Living'
    <3>1. b \in Addr /\ b \in Living /\ Object(b)'
      BY <1>5 DEF Living
    <3>2. contents'[b] = contents[b]
      BY <1>0, <1>2, <3>1 DEF Living
    <3> QED
      BY <1>5, <2>1, <3>1, <3>2 DEF Intact, Values
  <2>3. RootSet' = RootSet
    BY <1>0 DEF RootSet
  <2> QED
    BY <1>1, <1>5, <2>1, <2>2, <2>3 DEF HeapInv, Intact
<1>7. ControlInv'
  BY <1>0, <1>1 DEF IInv, ControlInv, NotInGC
<1>8. IdleInv'
  <2>1. ASSUME NEW b \in Marked'
        PROVE  b \in Marked /\ b # a /\ Object(b)' /\ color'[b] = color[b]
    <3>1. b \in Addr /\ b # a
      BY <1>3 DEF Marked
    <3>2. b \in Marked /\ color'[b] = color[b] /\ contents'[b] = contents[b]
      BY <1>2, <1>3, <3>1 DEF Marked
    <3> QED
      BY <3>1, <3>2 DEF IInv, IdleInv, Object
  <2> QED
    BY <1>0, <1>1, <2>1 DEF IInv, IdleInv
<1> QED
  BY <1>1, <1>4, <1>6, <1>7, <1>8 DEF IInv, MarkingInv, CollectInv, NotInGC

\* The values of the object that is visited have been marked, those of the
\* large array up to the new progress bar, where the rest of it is left to do.
Visited(a, m, V, r) ==
    /\ MarkedFacts("grey", m, V, r)
    /\ color' = [r.color EXCEPT ![a] = "black"]
    /\ progress_bar' \in 0..LargeLength
    /\ marking_deque' \in Deque
    /\ ToSet(r.deque.entries) \subseteq Entries'
    /\ r.deque.overflowed => marking_deque'.overflowed
    /\ \A x : x # Large /\ Once(r.deque.entries, x) => Once(marking_deque'.entries, x)
    /\ Entries' \subseteq ToSet(r.deque.entries) \cup {Large}
    /\ IF a = Large
       THEN /\ progress_bar <= progress_bar'
            /\ V = {contents[Large][i] : i \in (progress_bar + 1)..progress_bar'}
            /\ progress_bar' < LargeLength => Large \in Entries'
       ELSE /\ progress_bar' = progress_bar
            /\ V = ToSet(contents[a])
            /\ Entries' = ToSet(r.deque.entries)

\* Min chooses from the set.
LEMMA MinFacts ==
    ASSUME NEW T \in SUBSET Nat, T # {}
    PROVE  Min(T) \in T
<1>1. \E x \in T : \A y \in T : x <= y
  BY NatMin
<1> QED
  BY <1>1 DEF Min

\* What a visit marks: the values of the object, or of one or more chunks.
LEMMA VisitFacts ==
    ASSUME IInv, IsMarking, ProcessTop, ~IsEmpty(marking_deque), NEW a, a = Top(marking_deque),
           NEW m, m = [color |-> color, deque |-> Pop(marking_deque)],
           contents[a] # Filler, Object(a), a \in Addr
    PROVE  m \in AllMarks /\ \E V, r : Visited(a, m, V, r)
<1>1. /\ marking_deque \in Deque /\ marking_deque.entries \in Seq(Addr)
      /\ marking_deque.entries # << >> /\ color \in [Addr -> Colors]
      /\ progress_bar \in 0..LargeLength
  BY DEF IInv, TypeOK, Deque, IsEmpty, Colors
<1>2. m \in AllMarks /\ m.color = color /\ m.deque = Pop(marking_deque)
  <2>1. Front(marking_deque.entries) \in Seq(Addr)
    BY <1>1, FrontFacts
  <2>2. Pop(marking_deque) \in Deque
    BY <1>1, <2>1 DEF Pop, Deque
  <2> QED
    BY <1>1, <2>2 DEF AllMarks
<1>3. /\ color' = VisitObject(m, a).marks.color
      /\ marking_deque' = VisitObject(m, a).marks.deque
      /\ progress_bar' = VisitObject(m, a).bar
  <2>1. [Marks EXCEPT !.deque = Pop(@)] = m
    BY DEF Marks
  <2> QED
    BY <2>1 DEF ProcessTop
<1>4. ObjectAt(a, contents[a])
  BY ObjectContents DEF IInv
<1>5. CASE a # Large
  <2>1. PICK r : r = MarkAll("grey", m, contents[a])
    OBVIOUS
  <2>2. MarkedFacts("grey", m, ToSet(contents[a]), r)
    BY <1>2, <1>4, <2>1, MarkAllFacts DEF ObjectAt
  <2>3. r.color \in [Addr -> Colors] /\ r.deque \in Deque /\ r = [color |-> r.color, deque |-> r.deque]
    BY <2>2 DEF MarkedFacts, AllMarks
  <2>4. /\ color' = [r.color EXCEPT ![a] = "black"]
        /\ marking_deque' = r.deque /\ progress_bar' = progress_bar
    <3>1. VisitObject(m, a) = [[marks |-> r, bar |-> progress_bar] EXCEPT !.marks.color[a] = "black"]
      BY <1>5, <2>1 DEF VisitObject
    <3>2. VisitObject(m, a) = [marks |-> [r EXCEPT !.color[a] = "black"], bar |-> progress_bar]
      BY <3>1
    <3> QED
      BY <1>3, <2>3, <3>2
  <2>5. Visited(a, m, ToSet(contents[a]), r)
    BY <1>1, <1>5, <2>2, <2>3, <2>4 DEF Visited, Entries
  <2> QED
    BY <1>2, <2>5
<1>6. CASE a = Large
  <2> DEFINE After(i) == MarkAll("grey", m, SubSeq(contents[Large], progress_bar + 1, i))
             T == {i \in progress_bar..LargeLength :
                      i = LargeLength \/ (i > progress_bar /\ ~IsFull(After(i).deque))}
  <2>1. PICK bar : bar = Min(T)
    OBVIOUS
  <2>2. bar \in T
    <3>1. T \in SUBSET Nat /\ T # {}
      <4> HIDE DEF After
      <4>1. progress_bar..LargeLength \in SUBSET Nat /\ LargeLength \in progress_bar..LargeLength
        BY <1>1, AddrFacts
      <4> QED
        BY <4>1, Zenon
    <3> HIDE DEF T
    <3> QED
      BY <2>1, <3>1, MinFacts
  <2>3. /\ bar \in 0..LargeLength /\ progress_bar <= bar
        /\ bar < LargeLength => ~IsFull(After(bar).deque)
    BY <1>1, <2>2, AddrFacts
  <2>4. PICK values : values = SubSeq(contents[Large], progress_bar + 1, bar)
    OBVIOUS
  <2> DEFINE V == {contents[Large][i] : i \in (progress_bar + 1)..bar}
  <2>5. values \in Seq(Addr \cup {NULL}) /\ ToSet(values) = V
    <3>1. contents[Large] \in [1..LargeLength -> Addr \cup {NULL}]
      BY <1>4, <1>6, AddrFacts DEF ObjectAt
    <3>2. PICK b \in Int : b = progress_bar + 1
      BY <1>1
    <3>3. \A i \in b..bar : contents[Large][i] \in Addr \cup {NULL}
      BY <1>1, <2>3, <3>1, <3>2, AddrFacts
    <3>4. bar \in Int
      BY <2>3
    <3>5. /\ values \in Seq(Addr \cup {NULL})
          /\ Len(values) = IF b <= bar THEN bar - b + 1 ELSE 0
          /\ \A i \in 1..(bar - b + 1) : values[i] = contents[Large][b + i - 1]
      BY <2>4, <3>2, <3>3, <3>4, SubSeqProperties
    <3>6. DOMAIN values = 1..(bar - b + 1)
      BY <3>4, <3>5
    <3>7. ASSUME NEW x, x \in ToSet(values) PROVE x \in V
      <4>1. PICK i \in 1..(bar - b + 1) : values[i] = x
        BY <3>6, <3>7 DEF ToSet
      <4>2. b + i - 1 \in b..bar
        BY <3>4, <4>1
      <4> QED
        BY <3>2, <3>5, <4>1, <4>2
    <3>8. ASSUME NEW x, x \in V PROVE x \in ToSet(values)
      <4>1. PICK i \in b..bar : contents[Large][i] = x
        BY <3>2, <3>8
      <4>2. PICK j \in 1..(bar - b + 1) : b + j - 1 = i
        <5>1. i - b + 1 \in 1..(bar - b + 1) /\ b + (i - b + 1) - 1 = i
          BY <3>4, <4>1
        <5> QED
          BY <5>1
      <4>3. values[j] = x
        BY <3>5, <4>1, <4>2
      <4> QED
        BY <3>6, <4>2, <4>3 DEF ToSet
    <3> QED
      BY <3>5, <3>7, <3>8
  <2>6. PICK r : r = After(bar)
    OBVIOUS
  <2>7. r = MarkAll("grey", m, values)
    BY <2>4, <2>6
  <2>8. MarkedFacts("grey", m, V, r)
    <3>1. MarkedFacts("grey", m, ToSet(values), r)
      BY <1>2, <2>5, <2>7, MarkAllFacts
    <3> QED
      BY <2>5, <3>1
  <2>9. r.color \in [Addr -> Colors] /\ r.deque \in Deque /\ r = [color |-> r.color, deque |-> r.deque]
    BY <2>8 DEF MarkedFacts, AllMarks
  <2>10. VisitLarge(m) =
            [marks |-> IF bar < LargeLength THEN [r EXCEPT !.deque = UnshiftGrey(@, Large)] ELSE r,
             bar |-> bar]
    BY <2>1, <2>6 DEF VisitLarge
  <2>11. PICK d : d = IF bar < LargeLength THEN UnshiftGrey(r.deque, Large) ELSE r.deque
    OBVIOUS
  <2>12. VisitLarge(m) = [marks |-> [color |-> r.color, deque |-> d], bar |-> bar]
    BY <2>9, <2>10, <2>11
  <2>13. VisitObject(m, Large) =
            [marks |-> [color |-> [r.color EXCEPT ![Large] = "black"], deque |-> d], bar |-> bar]
    BY <2>12 DEF VisitObject
  <2>14. color' = [r.color EXCEPT ![Large] = "black"] /\ marking_deque' = d /\ progress_bar' = bar
    BY <1>3, <1>6, <2>13
  <2>15. Added(r.deque, Large, UnshiftGrey(r.deque, Large))
    BY <2>9, AddrFacts, AddFacts
  <2>16. /\ d \in Deque
         /\ ToSet(r.deque.entries) \subseteq ToSet(d.entries)
         /\ r.deque.overflowed => d.overflowed
         /\ \A x : x # Large /\ Once(r.deque.entries, x) => Once(d.entries, x)
         /\ ToSet(d.entries) \subseteq ToSet(r.deque.entries) \cup {Large}
         /\ bar < LargeLength => Large \in ToSet(d.entries)
    <3>1. CASE bar < LargeLength
      <4>1. d = UnshiftGrey(r.deque, Large) /\ ~IsFull(r.deque)
        BY <2>3, <2>6, <2>11, <3>1
      <4> QED
        BY <2>15, <4>1 DEF Added
    <3>2. CASE ~(bar < LargeLength)
      BY <2>9, <2>11, <3>2
    <3> QED
      BY <3>1, <3>2
  <2> HIDE DEF After, T
  <2>17. Visited(a, m, V, r)
    BY <1>6, <2>3, <2>8, <2>14, <2>16 DEF Visited, Entries
  <2> QED
    BY <1>2, <2>17
<1> QED
  BY <1>5, <1>6

\* A round of the marker, inside and outside of the pause.
LEMMA ProcessTopFacts ==
    ASSUME IInv, IsMarking, ProcessTop, ~IsEmpty(marking_deque), UNCHANGED heapVars,
           state' = "COMPLETE" => Entries' = {},
           NEW S \in SUBSET Addr, Intact(S), RootSet \cup Marked \subseteq S
    PROVE  /\ color' \in [Addr -> Colors] /\ marking_deque' \in Deque
           /\ progress_bar' \in 0..LargeLength
           /\ Marked' \subseteq S
           /\ BlackInv' /\ EntriesInv'
<1>0. contents' = contents /\ handle' = handle
  BY DEF heapVars
<1>1. /\ marking_deque \in Deque /\ marking_deque.entries \in Seq(Addr)
      /\ marking_deque.entries # << >> /\ color \in [Addr -> Colors]
      /\ progress_bar \in 0..LargeLength
  BY DEF IInv, TypeOK, Deque, IsEmpty, Colors
<1>2. PICK a : a = Top(marking_deque)
  OBVIOUS
<1>3. PICK m : m = [color |-> color, deque |-> Pop(marking_deque)]
  OBVIOUS
<1>4. PICK front : front = Front(marking_deque.entries)
  OBVIOUS
<1>5. /\ front \in Seq(Addr) /\ a \in Entries /\ Entries = ToSet(front) \cup {a} /\ a \in Addr
      /\ \A x : Once(marking_deque.entries, x) => Once(front, x) /\ (x = a => x \notin ToSet(front))
  <2>1. /\ front \in Seq(Addr) /\ a \in Entries /\ Entries = ToSet(front) \cup {a}
        /\ \A x : Once(marking_deque.entries, x)
                  => Once(front, x) /\ (x = a => x \notin ToSet(front))
    BY <1>1, <1>2, <1>4, FrontFacts DEF Top, Entries
  <2>2. a \in Addr
    BY <1>1, <2>1 DEF Entries, ToSet
  <2> QED
    BY <2>1, <2>2
<1>6. /\ Pop(marking_deque) = [entries |-> front, overflowed |-> marking_deque.overflowed]
      /\ m.color = color /\ m.deque.entries = front
      /\ m.deque.overflowed = marking_deque.overflowed
      /\ Pop(marking_deque) \in Deque
  <2>1. Pop(marking_deque) = [marking_deque EXCEPT !.entries = front]
    BY <1>4 DEF Pop
  <2>2. Pop(marking_deque) = [entries |-> front, overflowed |-> marking_deque.overflowed]
    BY <1>1, <2>1 DEF Deque
  <2>3. Pop(marking_deque) \in Deque
    BY <1>1, <1>5, <2>2 DEF Deque
  <2> QED
    BY <1>3, <2>2, <2>3
<1>7. BlackInv /\ EntriesInv
  BY DEF IInv, MarkingInv
<1>8. \A x \in S : x \in Addr /\ Object(x) /\ Values(x) \subseteq S
  BY DEF Intact
<1>9. Large \in S /\ Marked \subseteq S
  BY DEF RootSet
<1>10. CASE contents[a] = Filler
  <2>1. color' = color /\ marking_deque' = Pop(marking_deque) /\ progress_bar' = progress_bar
    <3>1. [Marks EXCEPT !.deque = Pop(@)] = m
      BY <1>3 DEF Marks
    <3> QED
      BY <1>2, <1>3, <1>10, <3>1 DEF ProcessTop
  <2>2. a # Large /\ color[a] # "grey"
    BY <1>5, <1>8, <1>9, <1>10 DEF Object, Marked
  <2>3. Entries' = ToSet(front) /\ marking_deque'.overflowed = marking_deque.overflowed
    BY <1>6, <2>1 DEF Entries
  <2>4. Marked' = Marked
    BY <2>1 DEF Marked
  <2>5. BlackInv'
    BY <1>0, <1>7, <2>1 DEF BlackInv, Seen
  <2>6. EntriesInv'
    <3>1. \A x \in Addr : color'[x] = "grey" => x \in Entries' \/ marking_deque'.overflowed
      BY <1>5, <1>7, <2>1, <2>2, <2>3 DEF EntriesInv
    <3>2. color'[Large] = "black" /\ progress_bar' < LargeLength => Large \in Entries'
      BY <1>5, <1>7, <2>1, <2>2, <2>3 DEF EntriesInv
    <3>3. \A x \in Entries' :
             color'[x] = "grey" \/ x = Large \/ (contents'[x] = Filler /\ color'[x] = "white")
      BY <1>0, <1>5, <1>7, <2>1, <2>3 DEF EntriesInv
    <3>4. \A x : x # Large => Once(marking_deque'.entries, x)
      BY <1>5, <1>6, <1>7, <2>1 DEF EntriesInv
    <3> QED
      BY <3>1, <3>2, <3>3, <3>4 DEF EntriesInv
  <2> QED
    BY <1>1, <1>6, <1>9, <2>1, <2>4, <2>5, <2>6
<1>11. CASE contents[a] # Filler
  <2>1. a \in S /\ Object(a)
    <3>1. color[a] = "grey" \/ a = Large
      BY <1>5, <1>7, <1>11 DEF EntriesInv
    <3>2. a \in S
      BY <1>5, <1>9, <3>1 DEF Marked
    <3> QED
      BY <1>8, <3>2
  <2>2. m \in AllMarks /\ \E V, r : Visited(a, m, V, r)
    BY <1>2, <1>3, <1>5, <1>11, <2>1, VisitFacts
  <2>3. PICK V, r : Visited(a, m, V, r)
    BY <2>2
  <2>4. /\ MarkedFacts("grey", m, V, r)
        /\ color' = [r.color EXCEPT ![a] = "black"]
        /\ progress_bar' \in 0..LargeLength
        /\ marking_deque' \in Deque
        /\ ToSet(r.deque.entries) \subseteq Entries'
        /\ r.deque.overflowed => marking_deque'.overflowed
        /\ \A x : x # Large /\ Once(r.deque.entries, x) => Once(marking_deque'.entries, x)
        /\ Entries' \subseteq ToSet(r.deque.entries) \cup {Large}
    BY <2>3 DEF Visited
  <2>5. /\ a = Large => /\ progress_bar <= progress_bar'
                        /\ V = {contents[Large][i] : i \in (progress_bar + 1)..progress_bar'}
                        /\ progress_bar' < LargeLength => Large \in Entries'
        /\ a # Large => /\ progress_bar' = progress_bar
                        /\ V = ToSet(contents[a])
                        /\ Entries' = ToSet(r.deque.entries)
    BY <2>3 DEF Visited
  \* What is visited is a slot's value.
  <2>6. V \subseteq {contents[a][i] : i \in Slots(a)} /\ V \ {NULL} \subseteq S
    <3>1. ObjectAt(a, contents[a]) /\ Values(a) \subseteq S
      BY <1>5, <1>8, <2>1, ObjectContents DEF IInv
    <3>2. CASE a = Large
      <4>1. (progress_bar + 1)..progress_bar' \subseteq 1..LargeLength
        BY <1>1, <2>4, AddrFacts
      <4>2. V \subseteq {contents[a][i] : i \in Slots(a)}
        BY <2>5, <3>2, <4>1, AddrFacts
      <4> QED
        BY <3>1, <4>2 DEF Values
    <3>3. CASE a # Large
      BY <2>5, <3>1, <3>3 DEF ObjectAt, Values
    <3> QED
      BY <3>2, <3>3
  <2>7. /\ r.color \in [Addr -> Colors] /\ r.deque \in Deque
        /\ \A x \in Addr : color[x] # "white" => r.color[x] = color[x]
        /\ \A x \in Addr : color[x] = "white" /\ r.color[x] # "white" =>
              /\ x \in V /\ r.color[x] = "grey"
              /\ x \in ToSet(r.deque.entries) \/ r.deque.overflowed
        /\ \A x \in V \ {NULL} : r.color[x] # "white"
    <3>1. r \in AllMarks
      BY <2>4 DEF MarkedFacts
    <3>2. \A x \in Addr : color[x] = "white" /\ r.color[x] # "white" =>
              /\ x \in V /\ r.color[x] = "grey"
              /\ x \in ToSet(r.deque.entries) \/ r.deque.overflowed
      BY <1>6, <2>4 DEF MarkedFacts
    <3> QED
      BY <1>6, <2>4, <3>1, <3>2 DEF MarkedFacts, AllMarks
  <2>8. /\ ToSet(front) \subseteq ToSet(r.deque.entries)
        /\ \A x \in ToSet(r.deque.entries) \ ToSet(front) :
              x \in Addr /\ color[x] = "white" /\ r.color[x] = "grey"
        /\ marking_deque.overflowed => r.deque.overflowed
        /\ \A x : /\ Once(front, x)
                  /\ x \in ToSet(front) /\ x \in V => color[x] # "white"
                  => Once(r.deque.entries, x)
    BY <1>6, <2>4 DEF MarkedFacts
  <2>9. /\ color' \in [Addr -> Colors] /\ color'[a] = "black"
        /\ \A x \in Addr : x # a => color'[x] = r.color[x]
    BY <1>5, <2>4, <2>7 DEF Colors
  <2>10. color[a] # "white" \/ a = Large
    BY <1>5, <1>7, <1>11 DEF EntriesInv
  <2>11. Marked' \subseteq S
    <3>1. ASSUME NEW x \in Addr, color'[x] # "white" PROVE x \in S
      <4>1. CASE x = a
        BY <2>1, <4>1
      <4>2. CASE x # a /\ color[x] # "white"
        BY <1>9, <4>2 DEF Marked
      <4>3. CASE x # a /\ color[x] = "white"
        <5>1. x \in V
          BY <2>7, <2>9, <3>1, <4>3
        <5> QED
          BY <2>6, <5>1, AddrFacts
      <4> QED
        BY <4>1, <4>2, <4>3
    <3> QED
      BY <3>1 DEF Marked
  \* No mark is taken back, and no object but the visited one turns black.
  <2>12. \A x \in Addr \cup {NULL} : (x # NULL => color[x] # "white") => (x # NULL => color'[x] # "white")
    BY <2>7, <2>9
  <2>13. \A x \in Addr : color'[x] = "black" => x = a \/ color[x] = "black"
    BY <2>7, <2>9
  <2>14. ASSUME NEW x \in Addr, x \in Marked, NEW i \in Slots(x) PROVE contents[x][i] \in Addr \cup {NULL}
    BY <1>8, <1>9, <2>14, ObjectContents DEF IInv, Values
  <2>15. BlackInv'
    <3>1. ASSUME NEW x \in Addr \ (Cells \cup {Large}), color'[x] = "black", NEW i \in Slots(x)
          PROVE  Seen(x, i)'
      <4>1. CASE x = a
        <5>1. ObjectAt(a, contents[a])
          BY <1>5, <2>1, ObjectContents DEF IInv
        <5>2. contents[a][i] \in V /\ contents[a][i] \in Addr \cup {NULL}
          BY <2>5, <3>1, <4>1, <5>1 DEF ObjectAt
        <5>3. contents[a][i] # NULL => color'[contents[a][i]] # "white"
          BY <2>7, <2>9, <5>2
        <5> QED
          BY <1>0, <4>1, <5>3 DEF Seen
      <4>2. CASE x # a
        <5>1. color[x] = "black" /\ x \in Marked
          BY <2>13, <3>1, <4>2 DEF Marked
        <5>2. contents[x][i] # NULL => color[contents[x][i]] # "white"
          BY <1>7, <3>1, <5>1 DEF BlackInv, Seen
        <5>3. contents[x][i] \in Addr \cup {NULL}
          BY <2>14, <3>1, <5>1
        <5>4. contents[x][i] # NULL => color'[contents[x][i]] # "white"
          BY <2>12, <5>2, <5>3
        <5> QED
          BY <1>0, <5>4 DEF Seen
      <4> QED
        BY <4>1, <4>2
    <3>2. CASE color'[Large] = "black"
      <4>1. ASSUME NEW i \in 1..progress_bar' PROVE Seen(Large, i)'
        <5>1. i \in Slots(Large) /\ i \in Nat
          BY <2>4, AddrFacts
        <5>2. CASE color[Large] = "black" /\ i <= progress_bar
          <6>1. i \in 1..progress_bar
            BY <1>1, <5>1, <5>2
          <6>2. contents[Large][i] # NULL => color[contents[Large][i]] # "white"
            BY <1>7, <5>2, <6>1 DEF BlackInv, Seen
          <6>3. contents[Large][i] \in Addr \cup {NULL}
            <7>1. Large \in Marked
              BY <5>2, AddrFacts DEF Marked
            <7> QED
              BY <2>14, <5>1, <7>1, AddrFacts
          <6> QED
            BY <1>0, <2>12, <6>2, <6>3 DEF Seen
        <5>3. CASE ~(color[Large] = "black" /\ i <= progress_bar)
          <6>1. a = Large
            BY <1>1, <2>5, <2>13, <3>2, <4>1, <5>3, AddrFacts
          <6>2. i > progress_bar
            BY <1>1, <1>7, <5>1, <5>3 DEF BlackInv
          <6>3. i \in (progress_bar + 1)..progress_bar'
            BY <1>1, <2>4, <4>1, <6>2
          <6>4. contents[Large][i] \in V
            BY <2>5, <6>1, <6>3
          <6>5. contents[Large][i] \in Addr \cup {NULL}
            BY <1>8, <2>6, <6>4
          <6>6. contents[Large][i] # NULL => color'[contents[Large][i]] # "white"
            BY <2>7, <2>9, <6>4, <6>5
          <6> QED
            BY <1>0, <6>6 DEF Seen
        <5> QED
          BY <5>2, <5>3
      <4> QED
        BY <3>1, <3>2, <4>1 DEF BlackInv
    <3>3. CASE color'[Large] # "black"
      <4>1. a # Large /\ color[Large] # "black"
        BY <2>7, <2>9, <3>3, AddrFacts
      <4>2. progress_bar' = 0
        BY <1>7, <2>5, <4>1 DEF BlackInv
      <4> QED
        BY <3>1, <3>3, <4>2 DEF BlackInv
    <3> QED
      BY <3>2, <3>3
  <2>16. EntriesInv'
    <3>1. ASSUME NEW x \in Addr, color'[x] = "grey"
          PROVE  x \in Entries' \/ marking_deque'.overflowed
      <4>1. x # a /\ r.color[x] = "grey"
        BY <2>9, <3>1
      <4>2. CASE color[x] = "white"
        BY <2>4, <2>7, <4>1, <4>2
      <4>3. CASE color[x] # "white"
        <5>1. x \in Entries \/ marking_deque.overflowed
          BY <1>7, <2>7, <4>1, <4>3 DEF EntriesInv
        <5> QED
          BY <1>5, <2>4, <2>8, <4>1, <5>1
      <4> QED
        BY <4>2, <4>3
    <3>2. color'[Large] = "black" /\ progress_bar' < LargeLength => Large \in Entries'
      <4>1. ASSUME a # Large, color'[Large] = "black", progress_bar' < LargeLength
            PROVE  Large \in Entries'
        <5>1. Large \in Entries
          BY <1>7, <2>5, <2>13, <4>1, AddrFacts DEF EntriesInv
        <5> QED
          BY <1>5, <2>4, <2>8, <4>1, <5>1
      <4> QED
        BY <2>5, <4>1
    <3>3. ASSUME NEW x \in Entries'
          PROVE  color'[x] = "grey" \/ x = Large \/ (contents'[x] = Filler /\ color'[x] = "white")
      <4>1. CASE x = Large
        BY <4>1
      <4>2. CASE x # Large /\ x \in ToSet(front)
        <5>1. x # a /\ x \in Addr /\ x \in Entries
          BY <1>5, <1>7, <4>2 DEF EntriesInv, ToSet
        <5>2. CASE color[x] = "grey"
          BY <2>7, <2>9, <5>1, <5>2
        <5>3. CASE color[x] # "grey"
          <6>1. contents[x] = Filler /\ color[x] = "white"
            BY <1>7, <4>2, <5>1, <5>3 DEF EntriesInv
          <6>2. x \notin V
            <7>1. x \notin S
              BY <1>8, <6>1 DEF Object
            <7> QED
              BY <2>6, <5>1, <7>1, AddrFacts
          <6> QED
            BY <1>0, <2>7, <2>9, <5>1, <6>1, <6>2
        <5> QED
          BY <5>2, <5>3
      <4>3. CASE x # Large /\ x \notin ToSet(front)
        <5>1. x \in ToSet(r.deque.entries)
          BY <2>4, <3>3, <4>3
        <5>2. x \in Addr /\ color[x] = "white" /\ r.color[x] = "grey"
          BY <2>8, <4>3, <5>1
        <5>3. CASE x = a
          BY <2>10, <4>3, <5>2, <5>3
        <5>4. CASE x # a
          BY <2>9, <5>2, <5>4
        <5> QED
          BY <5>3, <5>4
      <4> QED
        BY <4>1, <4>2, <4>3
    <3>4. ASSUME NEW x, x # Large PROVE Once(marking_deque'.entries, x)
      <4>1. Once(front, x)
        BY <1>5, <1>7, <3>4 DEF EntriesInv
      <4>2. ASSUME x \in ToSet(front), x \in V PROVE color[x] # "white"
        <5>1. x \in Entries /\ x \in Addr
          BY <1>5, <4>2 DEF ToSet
        <5>2. x \in S
          BY <2>6, <4>2, <5>1, AddrFacts
        <5>3. contents[x] # Filler
          BY <1>8, <5>2 DEF Object
        <5> QED
          BY <1>7, <3>4, <5>1, <5>3 DEF EntriesInv
      <4>3. Once(r.deque.entries, x)
        BY <2>8, <4>1, <4>2
      <4> QED
        BY <2>4, <3>4, <4>3
    <3> QED
      BY <3>1, <3>2, <3>3, <3>4 DEF EntriesInv
  <2> QED
    BY <2>4, <2>9, <2>11, <2>15, <2>16
<1> QED
  BY <1>10, <1>11

\* A set of intact objects with all the roots and all that is marked.
LEMMA MarkedLiving ==
    ASSUME IInv, NotInGC, IsMarking
    PROVE  /\ Living \in SUBSET Addr /\ Intact(Living) /\ RootSet \cup Marked \subseteq Living
           /\ unswept = {}
<1>1. unswept = {}
  BY DEF IInv, ControlInv
<1>2. Marked \subseteq Living
  BY <1>1 DEF IInv, IdleInv, Marked, Living
<1> QED
  BY <1>1, <1>2 DEF IInv, HeapInv, Living

\* A round of the marker between two steps of the mutator.
LEMMA StepMarkingStep ==
    ASSUME IInv, StepMarking
    PROVE  IInv'
<1>1. /\ NotInGC /\ state = "MARKING" /\ ~no_marking
      /\ UNCHANGED <<heapVars, no_marking, gcVars>>
      /\ IF IsEmpty(marking_deque) THEN UNCHANGED markVars ELSE ProcessTop
      /\ IF IsEmpty(marking_deque') THEN state' = "COMPLETE" /\ should_hurry' = TRUE
         ELSE UNCHANGED <<state, should_hurry>>
  BY DEF StepMarking, ProcessMarkingDeque
<1>2. /\ contents' = contents /\ handle' = handle /\ to' = to /\ unswept' = unswept
      /\ no_marking' = no_marking /\ gc' = gc /\ roots' = roots /\ gc_deque' = gc_deque
      /\ UNCHANGED heapVars
  BY <1>1 DEF heapVars, gcVars
<1>3. IsMarking /\ IsMarking' /\ NotInGC'
  BY <1>1, <1>2 DEF IsMarking, NotInGC
<1>4. /\ Living \in SUBSET Addr /\ Intact(Living) /\ RootSet \cup Marked \subseteq Living
      /\ unswept = {}
  BY <1>1, <1>3, MarkedLiving
<1>5. state' = "COMPLETE" => Entries' = {}
  BY <1>1 DEF IsEmpty, Entries, ToSet
<1>6. /\ color' \in [Addr -> Colors] /\ marking_deque' \in Deque /\ progress_bar' \in 0..LargeLength
      /\ Marked' \subseteq Living /\ BlackInv' /\ EntriesInv'
  <2>1. CASE IsEmpty(marking_deque)
    <3>1. color' = color /\ marking_deque' = marking_deque /\ progress_bar' = progress_bar
      BY <1>1, <2>1 DEF markVars
    <3>2. BlackInv /\ EntriesInv
      BY <1>3 DEF IInv, MarkingInv
    <3>3. Marked' = Marked
      BY <3>1 DEF Marked
    <3>4. BlackInv'
      BY <1>2, <3>1, <3>2 DEF BlackInv, Seen
    <3>5. EntriesInv'
      <4>1. Entries' = Entries
        BY <3>1 DEF Entries
      <4> QED
        BY <1>2, <1>5, <3>1, <3>2, <4>1 DEF EntriesInv
    <3> QED
      BY <1>4, <3>1, <3>3, <3>4, <3>5 DEF IInv, TypeOK, Colors
  <2>2. CASE ~IsEmpty(marking_deque)
    <3>1. ProcessTop
      BY <1>1, <2>2
    <3> QED
      BY <1>2, <1>3, <1>4, <1>5, <2>2, <3>1, ProcessTopFacts
  <2> QED
    BY <2>1, <2>2
<1>7. TypeOK'
  BY <1>1, <1>2, <1>6 DEF IInv, TypeOK, Colors
<1>8. ControlInv'
  BY <1>1, <1>2, <1>3, <1>4 DEF ControlInv, NotInGC
<1>9. HeapInv'
  BY <1>1, <1>2, <1>3, <1>4, HeapStays
<1>10. IdleInv'
  <2>1. \A a \in Marked' : Object(a)'
    BY <1>2, <1>6 DEF Living, Object
  <2> QED
    BY <1>3, <2>1 DEF IdleInv
<1> QED
  BY <1>3, <1>6, <1>7, <1>8, <1>9, <1>10 DEF IInv, MarkingInv, CollectInv, NotInGC

-------------------------------------------------------------------------------
(* The full collection                                                     *)

\* A round of the marker in the pause.
LEMMA HurryStep ==
    ASSUME IInv, Hurry
    PROVE  IInv'
<1>1. /\ gc = "FINALIZE" /\ state = "MARKING" /\ ~IsEmpty(marking_deque) /\ ProcessTop
      /\ UNCHANGED <<heapVars, stateVars, gcVars>>
  BY DEF Hurry
<1>2. /\ contents' = contents /\ handle' = handle /\ to' = to /\ unswept' = unswept
      /\ state' = state /\ should_hurry' = should_hurry /\ no_marking' = no_marking
      /\ gc' = gc /\ roots' = roots /\ gc_deque' = gc_deque
      /\ UNCHANGED heapVars
  BY <1>1 DEF heapVars, stateVars, gcVars
<1>3. IsMarking /\ IsMarking' /\ ~NotInGC /\ ~NotInGC'
  BY <1>1, <1>2 DEF IsMarking, NotInGC
<1>4. PICK S \in SUBSET Addr : Intact(S) /\ RootSet \cup Marked \subseteq S
  BY <1>3 DEF IInv, HeapInv
<1>5. /\ color' \in [Addr -> Colors] /\ marking_deque' \in Deque /\ progress_bar' \in 0..LargeLength
      /\ Marked' \subseteq S /\ BlackInv' /\ EntriesInv'
  BY <1>1, <1>2, <1>3, <1>4, ProcessTopFacts
<1>6. TypeOK'
  BY <1>2, <1>5 DEF IInv, TypeOK, Colors
<1>7. RootSet' = RootSet /\ Intact(S)'
  BY <1>2, <1>4 DEF RootSet, Intact, Object, Values
<1>8. ControlInv'
  BY <1>2, <1>3, <1>7 DEF IInv, ControlInv
<1>9. HeapInv'
  BY <1>3, <1>4, <1>5, <1>7 DEF HeapInv
<1>10. IdleInv'
  <2>1. \A a \in Marked' : Object(a)'
    BY <1>2, <1>4, <1>5 DEF Intact, Object
  <2> QED
    BY <1>3, <2>1 DEF IdleInv
<1>11. CollectInv'
  BY <1>1, <1>2 DEF CollectInv
<1> QED
  BY <1>5, <1>6, <1>8, <1>9, <1>10, <1>11 DEF IInv, MarkingInv

\* The pause begins: marking is taken over, or all marks are cleared.
LEMMA CollectGarbageStep ==
    ASSUME IInv, NEW abort \in BOOLEAN, CollectGarbage(abort)
    PROVE  IInv'
<1>1. /\ NotInGC /\ roots' = StrongRoots /\ unswept' = {}
      /\ contents' = contents /\ handle' = handle /\ to' = to /\ no_marking' = no_marking
  BY DEF CollectGarbage
<1>2. StrongRoots \in Seq(Addr) /\ ToSet(StrongRoots) = RootSet
  BY RootsFacts DEF IInv, TypeOK
<1>3. RootSet' = RootSet
  BY <1>1 DEF RootSet
<1>4. Intact(Living) /\ RootSet \subseteq Living /\ Living \in SUBSET Addr
  BY <1>1 DEF IInv, HeapInv, Living
<1>5. \A S : Intact(S) => Intact(S)'
  BY <1>1 DEF Intact, Object, Values
<1>6. CASE IsMarking /\ ~abort
  <2>1. /\ gc' = "FINALIZE" /\ color' = color /\ progress_bar' = progress_bar
        /\ marking_deque' = marking_deque /\ state' = state /\ should_hurry' = should_hurry
        /\ gc_deque' = gc_deque
    BY <1>6 DEF CollectGarbage, markVars
  <2>2. IsMarking' /\ ~NotInGC'
    BY <1>6, <2>1 DEF IsMarking, NotInGC
  <2>3. Marked' = Marked /\ Marked \subseteq Living /\ unswept = {}
    <3>1. Marked \subseteq Living /\ unswept = {}
      BY <1>1, <1>6, MarkedLiving
    <3> QED
      BY <2>1, <3>1 DEF Marked
  <2>4. TypeOK'
    BY <1>1, <1>2, <2>1, <2>3 DEF IInv, TypeOK
  <2>5. ControlInv'
    BY <1>1, <1>2, <1>3, <2>1, <2>2 DEF IInv, ControlInv
  <2>6. HeapInv'
    BY <1>3, <1>4, <1>5, <2>2, <2>3 DEF HeapInv
  <2>7. IdleInv'
    BY <1>1, <2>2, <2>3 DEF IInv, IdleInv, Object
  <2>8. BlackInv' /\ EntriesInv'
    <3>1. BlackInv /\ EntriesInv
      BY <1>6 DEF IInv, MarkingInv
    <3>2. BlackInv'
      BY <1>1, <2>1, <3>1 DEF BlackInv, Seen
    <3>3. EntriesInv'
      BY <1>1, <2>1, <3>1 DEF EntriesInv, Entries
    <3> QED
      BY <3>2, <3>3
  <2>9. CollectInv'
    BY <2>1 DEF CollectInv
  <2> QED
    BY <2>4, <2>5, <2>6, <2>7, <2>8, <2>9 DEF IInv, MarkingInv
<1>7. CASE ~(IsMarking /\ ~abort)
  <2>1. /\ gc' = "ROOTS" /\ state' = "STOPPED" /\ should_hurry' = FALSE
        /\ color' = [a \in Addr |-> "white"] /\ progress_bar' = 0
        /\ marking_deque' = EmptyDeque /\ gc_deque' = EmptyDeque
    BY <1>7 DEF CollectGarbage
  <2>2. ~IsMarking' /\ ~NotInGC'
    BY <2>1 DEF IsMarking, NotInGC
  <2>3. Marked' = {} /\ \A a \in Addr : color'[a] = "white"
    BY <2>1 DEF Marked
  <2>4. EmptyDeque \in Deque /\ ToSet(EmptyDeque.entries) = {}
    BY DEF EmptyDeque, Deque, ToSet
  <2>5. TypeOK'
    <3>1. color' \in [Addr -> {"white", "grey", "black"}]
      BY <2>1
    <3>2. progress_bar' \in 0..LargeLength
      BY <2>1, AddrFacts
    <3>3. marking_deque' \in Deque /\ gc_deque' \in Deque /\ roots' \in Seq(Addr)
      BY <1>1, <1>2, <2>1, <2>4
    <3> QED
      BY <1>1, <2>1, <3>1, <3>2, <3>3 DEF IInv, TypeOK
  <2>6. ControlInv'
    BY <1>1, <2>1, <2>2 DEF IInv, ControlInv
  <2>7. HeapInv'
    BY <1>3, <1>4, <1>5, <2>2, <2>3 DEF HeapInv
  <2>8. IdleInv'
    BY <2>2, <2>3 DEF IdleInv
  <2>9. CollectInv'
    <3>1. ToSet(gc_deque'.entries) = {}
      BY <2>1, <2>4
    <3>2. ToSet(roots') = RootSet'
      BY <1>1, <1>2, <1>3
    <3> QED
      BY <2>3, <3>1, <3>2 DEF CollectInv
  <2> QED
    BY <2>2, <2>5, <2>6, <2>7, <2>8, <2>9 DEF IInv, MarkingInv
<1> QED
  BY <1>6, <1>7

\* Marks of the collector: what is on the deque is black, other black objects
\* but those in X have been scanned, and grey ones are found in the heap.
Collected(cl, d, X) ==
    /\ \A a \in ToSet(d.entries) : a \in Addr /\ cl[a] = "black"
    /\ \A a \in Addr \ X : cl[a] = "black" /\ a \notin ToSet(d.entries) =>
          \A v \in Values(a) : cl[v] # "white"
    /\ \A a \in Addr : cl[a] = "grey" => d.overflowed

\* The objects in X have been scanned too, when their values are marked.
LEMMA CollectedFacts ==
    ASSUME TypeOK, NEW m \in AllMarks, NEW V, NEW r, NEW X, Collected(m.color, m.deque, X),
           MarkedFacts("black", m, V, r), \A a \in Addr : m.color[a] # "white" => Object(a),
           \A a \in X : a \in Addr => Values(a) \subseteq V
    PROVE  Collected(r.color, r.deque, {})
<1>1. \A a \in ToSet(r.deque.entries) : a \in Addr /\ r.color[a] = "black"
  BY DEF Collected, MarkedFacts
<1>2. ASSUME NEW a \in Addr, r.color[a] = "grey" PROVE r.deque.overflowed
  <2>1. CASE m.color[a] = "white"
    BY <1>1, <1>2, <2>1 DEF MarkedFacts
  <2>2. CASE m.color[a] # "white"
    BY <1>2, <2>2 DEF Collected, MarkedFacts
  <2> QED
    BY <2>1, <2>2
<1>3. ASSUME NEW a \in Addr, r.color[a] = "black", a \notin ToSet(r.deque.entries),
             NEW v \in Values(a)
      PROVE  r.color[v] # "white"
  <2>1. m.color[a] = "black" /\ a \notin ToSet(m.deque.entries)
    BY <1>3 DEF MarkedFacts
  <2>2. v \in Addr /\ v # NULL
    <3>1. Object(a)
      BY <2>1
    <3> QED
      BY <3>1, ObjectContents, AddrFacts
  <2>3. CASE a \in X
    BY <1>3, <2>2, <2>3 DEF MarkedFacts
  <2>4. CASE a \notin X
    <3>1. m.color[v] # "white"
      BY <1>3, <2>1, <2>4 DEF Collected
    <3> QED
      BY <2>2, <3>1 DEF MarkedFacts
  <2> QED
    BY <2>3, <2>4
<1> QED
  BY <1>1, <1>2, <1>3 DEF Collected

\* Marking what intact objects refer to leaves the heap as it is.
LEMMA MarkedInside ==
    ASSUME NEW m \in AllMarks, NEW c, NEW V, NEW r, MarkedFacts(c, m, V, r), NEW S \in SUBSET Addr,
           V \ {NULL} \subseteq S, \A a \in Addr : m.color[a] # "white" => a \in S
    PROVE  \A a \in Addr : r.color[a] # "white" => a \in S
<1>1. ASSUME NEW a \in Addr, r.color[a] # "white" PROVE a \in S
  <2>1. CASE m.color[a] # "white"
    BY <2>1
  <2>2. CASE m.color[a] = "white"
    <3>1. a \in V /\ a # NULL
      BY <1>1, <2>2, AddrFacts DEF MarkedFacts
    <3> QED
      BY <3>1
  <2> QED
    BY <2>1, <2>2
<1> QED
  BY <1>1

\* What the invariant says once the marks of a step of the pause are known.
LEMMA PauseStep ==
    ASSUME IInv, gc \in {"FINALIZE", "ROOTS", "EMPTY"}, gc' \in {"ROOTS", "EMPTY"},
           UNCHANGED heapVars, state' = "STOPPED", should_hurry' \in BOOLEAN,
           no_marking' = no_marking, progress_bar' = progress_bar,
           marking_deque' \in Deque, roots' \in Seq(Addr), gc_deque' \in Deque,
           color' \in [Addr -> Colors], Collected(color', gc_deque', {}),
           RootSet \subseteq Marked' \cup ToSet(roots'), ToSet(roots') \subseteq RootSet,
           NEW S \in SUBSET Addr, Intact(S), RootSet \cup Marked' \subseteq S
    PROVE  IInv'
<1>1. contents' = contents /\ handle' = handle /\ to' = to /\ unswept' = unswept
  BY DEF heapVars
<1>2. ~NotInGC /\ ~NotInGC' /\ ~IsMarking'
  BY DEF NotInGC, IsMarking
<1>3. RootSet' = RootSet /\ Intact(S)'
  BY <1>1 DEF RootSet, Intact, Object, Values
<1>4. TypeOK'
  BY <1>1 DEF IInv, TypeOK, Colors
<1>5. ControlInv'
  BY <1>1, <1>2 DEF IInv, ControlInv
<1>6. HeapInv'
  BY <1>2, <1>3 DEF HeapInv
<1>7. IdleInv'
  BY <1>2, <1>3 DEF IdleInv, Intact
<1>8. CollectInv'
  <2>1. \A a : Values(a)' = Values(a)
    BY <1>1 DEF Values
  <2>2. ASSUME NEW a \in Addr, color'[a] = "black", a \notin ToSet(gc_deque'.entries)
        PROVE  Values(a)' \subseteq Marked'
    <3>1. Object(a)
      BY <2>2 DEF Marked, Intact
    <3>2. Values(a) \subseteq Addr
      BY <3>1, ObjectContents DEF IInv
    <3>3. \A v \in Values(a) : color'[v] # "white"
      BY <2>2 DEF Collected
    <3> QED
      BY <2>1, <3>2, <3>3 DEF Marked
  <2> QED
    BY <1>3, <2>2 DEF CollectInv, Collected
<1> QED
  BY <1>2, <1>4, <1>5, <1>6, <1>7, <1>8 DEF IInv, MarkingInv

\* In the pause.
LEMMA PauseFacts ==
    ASSUME IInv, gc \in {"ROOTS", "EMPTY"}
    PROVE  /\ state = "STOPPED" /\ unswept = {} /\ ~IsMarking /\ ~NotInGC
           /\ color \in [Addr -> Colors] /\ gc_deque \in Deque /\ gc_deque.entries \in Seq(Addr)
           /\ Collected(color, gc_deque, {})
           /\ RootSet \subseteq Marked \cup ToSet(roots) /\ ToSet(roots) \subseteq RootSet
           /\ \A a \in Addr : color[a] # "white" => Object(a)
           /\ \E S \in SUBSET Addr : Intact(S) /\ RootSet \cup Marked \subseteq S
<1>1. state = "STOPPED" /\ unswept = {} /\ ~IsMarking /\ ~NotInGC
  BY DEF IInv, ControlInv, IsMarking, NotInGC
<1>2. color \in [Addr -> Colors] /\ gc_deque \in Deque /\ gc_deque.entries \in Seq(Addr)
  BY DEF IInv, TypeOK, Deque, Colors
<1>3. CollectInv
  BY DEF IInv
<1>4. Collected(color, gc_deque, {})
  <2>1. \A a \in ToSet(gc_deque.entries) : a \in Addr
    BY <1>2 DEF ToSet
  <2>2. \A a \in Addr : color[a] = "black" /\ a \notin ToSet(gc_deque.entries) =>
            \A v \in Values(a) : color[v] # "white"
    BY <1>3 DEF CollectInv, Marked
  <2> QED
    BY <1>3, <2>1, <2>2 DEF CollectInv, Collected
<1>5. \A a \in Addr : color[a] # "white" => Object(a)
  BY DEF IInv, IdleInv, Marked
<1>6. \E S \in SUBSET Addr : Intact(S) /\ RootSet \cup Marked \subseteq S
  BY <1>1 DEF IInv, HeapInv
<1> QED
  BY <1>1, <1>2, <1>3, <1>4, <1>5, <1>6 DEF CollectInv

\* A step of the pause that visits an object: the marks before are m, where X
\* is what is to be scanned, and the visitor marks V.
LEMMA VisitPause ==
    ASSUME IInv, gc \in {"FINALIZE", "ROOTS", "EMPTY"}, gc' \in {"ROOTS", "EMPTY"},
           UNCHANGED heapVars, state' = "STOPPED", should_hurry' \in BOOLEAN,
           no_marking' = no_marking, progress_bar' = progress_bar,
           marking_deque' \in Deque, roots' \in Seq(Addr), ToSet(roots') \subseteq RootSet,
           NEW S \in SUBSET Addr, Intact(S), RootSet \subseteq S,
           NEW m \in AllMarks, NEW V, NEW X, Collected(m.color, m.deque, X),
           \A a \in Addr : m.color[a] # "white" => a \in S,
           \A a \in X : a \in Addr => Values(a) \subseteq V, V \ {NULL} \subseteq S,
           MarkedFacts("black", m, V, [color |-> color', deque |-> gc_deque']),
           \A a \in RootSet \ ToSet(roots') : m.color[a] # "white"
    PROVE  IInv'
<1>1. PICK r : r = [color |-> color', deque |-> gc_deque']
  OBVIOUS
<1>2. r.color = color' /\ r.deque = gc_deque' /\ MarkedFacts("black", m, V, r)
  BY <1>1
<1>3. color' \in [Addr -> Colors] /\ gc_deque' \in Deque
  BY <1>2 DEF MarkedFacts, AllMarks
<1>4. \A a \in Addr : m.color[a] # "white" => Object(a)
  BY DEF Intact
<1>5. Collected(color', gc_deque', {})
  <2>1. TypeOK
    BY DEF IInv
  <2>2. Collected(r.color, r.deque, {})
    BY <1>2, <1>4, <2>1, CollectedFacts
  <2> QED
    BY <1>2, <2>2
<1>6. RootSet \cup Marked' \subseteq S
  <2>1. \A a \in Addr : r.color[a] # "white" => a \in S
    BY <1>2, MarkedInside
  <2> QED
    BY <1>2, <2>1 DEF Marked
<1>7. RootSet \subseteq Marked' \cup ToSet(roots')
  <2>1. ASSUME NEW a \in RootSet \ ToSet(roots') PROVE a \in Addr /\ color'[a] # "white"
    BY <1>2 DEF MarkedFacts
  <2> QED
    BY <2>1 DEF Marked
<1> QED
  BY <1>3, <1>5, <1>6, <1>7, PauseStep

\* The collector scans the last entry of its deque.
LEMMA EmptyMarkingDequeStep ==
    ASSUME IInv, EmptyMarkingDeque
    PROVE  IInv'
<1>1. /\ gc = "EMPTY" /\ ~IsEmpty(gc_deque)
      /\ UNCHANGED <<heapVars, progress_bar, marking_deque, stateVars, gc, roots>>
  BY DEF EmptyMarkingDeque
<1>2. /\ UNCHANGED heapVars /\ progress_bar' = progress_bar /\ marking_deque' = marking_deque
      /\ state' = state /\ should_hurry' = should_hurry /\ no_marking' = no_marking
      /\ gc' = gc /\ roots' = roots
  BY <1>1 DEF stateVars
<1>3. /\ state = "STOPPED"
      /\ color \in [Addr -> Colors] /\ gc_deque \in Deque /\ gc_deque.entries \in Seq(Addr)
      /\ Collected(color, gc_deque, {})
      /\ RootSet \subseteq Marked \cup ToSet(roots) /\ ToSet(roots) \subseteq RootSet
      /\ \A a \in Addr : color[a] # "white" => Object(a)
      /\ \E S \in SUBSET Addr : Intact(S) /\ RootSet \cup Marked \subseteq S
  BY <1>1, PauseFacts
<1>4. PICK S \in SUBSET Addr : Intact(S) /\ RootSet \cup Marked \subseteq S
  BY <1>3
<1>5. PICK a : a = Top(gc_deque)
  OBVIOUS
<1>6. PICK front : front = Front(gc_deque.entries)
  OBVIOUS
<1>7. front \in Seq(Addr) /\ a \in ToSet(gc_deque.entries) /\ ToSet(gc_deque.entries) = ToSet(front) \cup {a}
  <2>1. gc_deque.entries # << >>
    BY <1>1 DEF IsEmpty
  <2> QED
    BY <1>3, <1>5, <1>6, <2>1, FrontFacts DEF Top
<1>8. a \in Addr /\ color[a] = "black" /\ Object(a) /\ a \in S /\ Values(a) \subseteq S
  <2>1. a \in Addr /\ color[a] = "black"
    BY <1>3, <1>7 DEF Collected
  <2>2. a \in S
    BY <1>4, <2>1 DEF Marked
  <2> QED
    BY <1>4, <2>1, <2>2 DEF Intact
<1>9. PICK m : m = [color |-> color, deque |-> [entries |-> front, overflowed |-> gc_deque.overflowed]]
  OBVIOUS
<1>10. /\ m \in AllMarks /\ m.color = color /\ m.deque.entries = front
       /\ m.deque.overflowed = gc_deque.overflowed
  <2>1. [entries |-> front, overflowed |-> gc_deque.overflowed] \in Deque
    BY <1>3, <1>7 DEF Deque
  <2> QED
    BY <1>3, <1>9, <2>1 DEF AllMarks
<1>11. [GCMarks EXCEPT !.deque = Pop(@)] = m
  <2>1. Pop(gc_deque) = [gc_deque EXCEPT !.entries = front]
    BY <1>6 DEF Pop
  <2>2. Pop(gc_deque) = [entries |-> front, overflowed |-> gc_deque.overflowed]
    BY <1>3, <2>1 DEF Deque
  <2>3. [GCMarks EXCEPT !.deque = Pop(@)] = [color |-> color, deque |-> Pop(gc_deque)]
    BY DEF GCMarks
  <2> QED
    BY <1>9, <2>2, <2>3
<1>12. PICK r : r = MarkAll("black", m, contents[a])
  OBVIOUS
<1>13. color' = r.color /\ gc_deque' = r.deque
  BY <1>5, <1>11, <1>12 DEF EmptyMarkingDeque, GCVisit
<1>14. ObjectAt(a, contents[a]) /\ Values(a) = ToSet(contents[a]) \ {NULL}
  BY <1>8, ObjectContents DEF IInv
<1>15. MarkedFacts("black", m, ToSet(contents[a]), [color |-> color', deque |-> gc_deque'])
  <2>1. MarkedFacts("black", m, ToSet(contents[a]), r)
    BY <1>10, <1>12, <1>14, MarkAllFacts DEF ObjectAt
  <2>2. r = [color |-> r.color, deque |-> r.deque]
    BY <2>1 DEF MarkedFacts, AllMarks
  <2> QED
    BY <1>13, <2>1, <2>2
<1>16. PICK X : X = {a}
  OBVIOUS
<1>22. Collected(m.color, m.deque, X)
  BY <1>3, <1>7, <1>10, <1>16 DEF Collected
<1>17. \A x \in Addr : m.color[x] # "white" => x \in S
  BY <1>4, <1>10 DEF Marked
<1>18. \A x \in RootSet \ ToSet(roots') : m.color[x] # "white"
  BY <1>2, <1>3, <1>10 DEF Marked
<1>19. /\ should_hurry' \in BOOLEAN /\ marking_deque' \in Deque /\ roots' \in Seq(Addr)
       /\ ToSet(roots') \subseteq RootSet
  BY <1>2, <1>3 DEF IInv, TypeOK
<1>20. PICK V : V = ToSet(contents[a])
  OBVIOUS
<1>21. /\ V \ {NULL} \subseteq S /\ \A x \in X : x \in Addr => Values(x) \subseteq V
       /\ MarkedFacts("black", m, V, [color |-> color', deque |-> gc_deque'])
  BY <1>8, <1>14, <1>15, <1>16, <1>20
<1> QED
  BY <1>1, <1>2, <1>3, <1>4, <1>10, <1>17, <1>18, <1>19, <1>21, <1>22, VisitPause

\* The next root is marked and scanned.
LEMMA MarkRootStep ==
    ASSUME IInv, MarkRoot
    PROVE  IInv'
<1>1. /\ gc \in {"ROOTS", "EMPTY"} /\ roots # << >> /\ roots' = Tail(roots)
      /\ UNCHANGED <<heapVars, progress_bar, marking_deque, stateVars>>
      /\ gc' \in {"ROOTS", "EMPTY"}
  BY DEF MarkRoot
<1>2. /\ UNCHANGED heapVars /\ progress_bar' = progress_bar /\ marking_deque' = marking_deque
      /\ state' = state /\ should_hurry' = should_hurry /\ no_marking' = no_marking
  BY <1>1 DEF stateVars
<1>3. /\ state = "STOPPED"
      /\ color \in [Addr -> Colors] /\ gc_deque \in Deque /\ gc_deque.entries \in Seq(Addr)
      /\ Collected(color, gc_deque, {})
      /\ RootSet \subseteq Marked \cup ToSet(roots) /\ ToSet(roots) \subseteq RootSet
      /\ \A a \in Addr : color[a] # "white" => Object(a)
      /\ \E S \in SUBSET Addr : Intact(S) /\ RootSet \cup Marked \subseteq S
  BY <1>1, PauseFacts
<1>4. PICK S \in SUBSET Addr : Intact(S) /\ RootSet \cup Marked \subseteq S
  BY <1>3
<1>5. PICK rt : rt = Head(roots)
  OBVIOUS
<1>6. roots' \in Seq(Addr) /\ rt \in Addr /\ ToSet(roots) = {rt} \cup ToSet(roots')
  <2>1. roots \in Seq(Addr)
    BY DEF IInv, TypeOK
  <2> QED
    BY <1>1, <1>5, <2>1, TailFacts
<1>7. rt \in S /\ Object(rt) /\ Values(rt) \subseteq S
  BY <1>3, <1>4, <1>6 DEF Intact
<1>8. PICK m : m = IF color[rt] = "white" THEN [color |-> [color EXCEPT ![rt] = "black"], deque |-> gc_deque]
                   ELSE [color |-> color, deque |-> gc_deque]
  OBVIOUS
<1>9. /\ m \in AllMarks /\ m.deque = gc_deque
      /\ m.color[rt] = (IF color[rt] = "white" THEN "black" ELSE color[rt])
      /\ \A x \in Addr : x # rt => m.color[x] = color[x]
  BY <1>3, <1>6, <1>8 DEF AllMarks, Colors
<1>10. PICK X : X = IF color[rt] = "white" THEN {rt} ELSE {}
  OBVIOUS
<1>11. PICK V : V = IF color[rt] = "white" THEN ToSet(contents[rt]) ELSE {}
  OBVIOUS
<1>12. PICK r : r = IF color[rt] = "white" THEN MarkAll("black", m, contents[rt]) ELSE m
  OBVIOUS
<1>13. color' = r.color /\ gc_deque' = r.deque
  <2>1. CASE color[rt] = "white"
    <3>1. [GCMarks EXCEPT !.color[rt] = "black"] = m
      BY <1>8, <2>1 DEF GCMarks
    <3> QED
      BY <1>5, <1>12, <2>1, <3>1 DEF MarkRoot, GCVisit
  <2>2. CASE color[rt] # "white"
    BY <1>5, <1>8, <1>12, <2>2 DEF MarkRoot, GCMarks
  <2> QED
    BY <2>1, <2>2
<1>14. ObjectAt(rt, contents[rt]) /\ Values(rt) = ToSet(contents[rt]) \ {NULL}
  BY <1>6, <1>7, ObjectContents DEF IInv
<1>15. MarkedFacts("black", m, V, [color |-> color', deque |-> gc_deque'])
  <2>1. CASE color[rt] = "white"
    <3>1. MarkedFacts("black", m, V, r)
      BY <1>9, <1>11, <1>12, <1>14, <2>1, MarkAllFacts DEF ObjectAt
    <3>2. r = [color |-> r.color, deque |-> r.deque]
      BY <3>1 DEF MarkedFacts, AllMarks
    <3> QED
      BY <1>13, <3>1, <3>2
  <2>2. CASE color[rt] # "white"
    <3>1. MarkedFacts("black", m, V, m)
      BY <1>9, <1>11, <2>2 DEF MarkedFacts
    <3>2. m = [color |-> m.color, deque |-> m.deque]
      BY <1>9 DEF AllMarks
    <3> QED
      BY <1>12, <1>13, <2>2, <3>1, <3>2
  <2> QED
    BY <2>1, <2>2
<1>16. Collected(m.color, m.deque, X)
  <2>1. \A x \in ToSet(gc_deque.entries) : x \in Addr /\ m.color[x] = "black"
    BY <1>3, <1>9 DEF Collected
  <2>2. \A x \in Addr \ X : m.color[x] = "black" => color[x] = "black"
    BY <1>9, <1>10
  <2>3. \A x \in Addr : color[x] # "white" => m.color[x] # "white"
    BY <1>9
  <2>4. ASSUME NEW x \in Addr \ X, m.color[x] = "black", x \notin ToSet(gc_deque.entries),
               NEW v \in Values(x)
        PROVE  m.color[v] # "white"
    <3>1. color[v] # "white" /\ Object(x)
      BY <1>3, <2>2, <2>4 DEF Collected
    <3>2. v \in Addr
      BY <2>4, <3>1, ObjectContents DEF IInv
    <3> QED
      BY <2>3, <3>1, <3>2
  <2>5. \A x \in Addr : m.color[x] = "grey" => gc_deque.overflowed
    BY <1>3, <1>9 DEF Collected
  <2> QED
    BY <1>9, <2>1, <2>4, <2>5 DEF Collected
<1>17. \A x \in Addr : m.color[x] # "white" => x \in S
  BY <1>4, <1>7, <1>9 DEF Marked
<1>18. \A x \in RootSet \ ToSet(roots') : m.color[x] # "white"
  BY <1>3, <1>6, <1>9 DEF Marked
<1>19. V \ {NULL} \subseteq S /\ \A x \in X : x \in Addr => Values(x) \subseteq V
  BY <1>7, <1>10, <1>11, <1>14
<1>20. should_hurry' \in BOOLEAN /\ marking_deque' \in Deque /\ ToSet(roots') \subseteq RootSet
  BY <1>2, <1>3, <1>6 DEF IInv, TypeOK
<1> QED
  BY <1>1, <1>2, <1>3, <1>4, <1>6, <1>9, <1>15, <1>16, <1>17, <1>18, <1>19, <1>20, VisitPause

\* At the end of Finalize the incremental marker's deque is empty, so that
\* every black object but the cells has been scanned.
LEMMA FinalizeStep ==
    ASSUME IInv, Finalize
    PROVE  IInv'
<1>1. /\ gc = "FINALIZE" /\ (state = "MARKING" => IsEmpty(marking_deque))
      /\ state' = "STOPPED" /\ should_hurry' = FALSE
      /\ marking_deque' = [marking_deque EXCEPT !.overflowed = FALSE]
      /\ gc' = "ROOTS" /\ UNCHANGED heapVars
      /\ progress_bar' = progress_bar /\ no_marking' = no_marking /\ roots' = roots
  BY DEF Finalize, FinalizeWith
<1>2. PICK marked : marked = {c \in Cells : color[c] # "white"}
  OBVIOUS
<1>3. PICK cells : cells = SetToSeq(marked)
  OBVIOUS
<1>4. PICK values : values = [i \in DOMAIN cells |-> contents[cells[i]][1]]
  OBVIOUS
<1>5. PICK m : m = [color |-> color, deque |-> [entries |-> << >>, overflowed |-> marking_deque.overflowed]]
  OBVIOUS
<1>6. PICK r : r = MarkAll("black", m, values)
  OBVIOUS
<1>7. color' = r.color /\ gc_deque' = r.deque
  <2>1. m = [color |-> color, deque |-> [EmptyDeque EXCEPT !.overflowed = marking_deque.overflowed]]
    BY <1>5 DEF EmptyDeque
  <2> QED
    BY <1>2, <1>3, <1>4, <1>6, <2>1 DEF Finalize, FinalizeWith
<1>8. /\ marking_deque \in Deque /\ color \in [Addr -> Colors] /\ progress_bar \in 0..LargeLength
      /\ marking_deque.overflowed \in BOOLEAN
  BY DEF IInv, TypeOK, Colors, Deque
<1>9. /\ m \in AllMarks /\ m.color = color /\ m.deque.entries = << >>
      /\ m.deque.overflowed = marking_deque.overflowed
  <2>1. [entries |-> << >>, overflowed |-> marking_deque.overflowed] \in Deque
    BY <1>8 DEF Deque
  <2> QED
    BY <1>5, <1>8, <2>1 DEF AllMarks
<1>10. IsMarking /\ ~NotInGC /\ ToSet(roots) = RootSet /\ BlackInv /\ EntriesInv
  BY <1>1 DEF IInv, ControlInv, MarkingInv, NotInGC
<1>11. PICK S \in SUBSET Addr : Intact(S) /\ RootSet \cup Marked \subseteq S
  BY <1>10 DEF IInv, HeapInv
<1>12. Entries = {}
  <2>1. CASE state = "MARKING"
    <3>1. marking_deque.entries = << >>
      BY <1>1, <2>1 DEF IsEmpty
    <3> QED
      BY <3>1 DEF Entries, ToSet
  <2>2. CASE state = "COMPLETE"
    BY <1>10, <2>2 DEF EntriesInv
  <2> QED
    BY <1>10, <2>1, <2>2 DEF IsMarking
<1>13. cells \in Seq(marked) /\ ToSet(cells) = marked
  <2>1. IsFiniteSet(marked)
    BY <1>2, IncrementalMarkingAssumption, AddrFacts, FS_Subset
  <2> QED
    BY <1>3, <2>1, SetToSeqFacts
<1>14. \A c \in marked : /\ c \in Addr /\ c \in S /\ Object(c) /\ Values(c) \subseteq S
                         /\ contents[c][1] \in Addr \cup {NULL}
                         /\ Values(c) = {contents[c][1]} \ {NULL}
  <2>1. ASSUME NEW c \in marked
        PROVE  /\ c \in Addr /\ c \in S /\ Object(c) /\ Values(c) \subseteq S
               /\ contents[c][1] \in Addr \cup {NULL}
               /\ Values(c) = {contents[c][1]} \ {NULL}
    <3>1. c \in Addr /\ c \in S /\ Slots(c) = {1}
      BY <1>2, <1>11, AddrFacts DEF RootSet
    <3>2. Object(c) /\ Values(c) \subseteq S
      BY <1>11, <3>1 DEF Intact
    <3>3. ObjectAt(c, contents[c])
      BY <3>1, <3>2, ObjectContents DEF IInv
    <3> QED
      BY <3>1, <3>2, <3>3 DEF ObjectAt, Values
  <2> QED
    BY <2>1
<1>15. PICK V : V = {contents[c][1] : c \in marked}
  OBVIOUS
<1>16. values \in Seq(Addr \cup {NULL}) /\ ToSet(values) = V
  <2>1. PICK n \in Nat : n = Len(cells) /\ DOMAIN cells = 1..n
    BY <1>13
  <2>2. \A i \in 1..n : cells[i] \in marked
    BY <1>13, <2>1
  <2>3. values \in [1..n -> Addr \cup {NULL}] /\ \A i \in 1..n : values[i] = contents[cells[i]][1]
    BY <1>4, <1>14, <2>1, <2>2
  <2>4. values \in Seq(Addr \cup {NULL}) /\ DOMAIN values = 1..n
    BY <2>3
  <2>5. marked = {cells[i] : i \in 1..n}
    BY <1>13, <2>1 DEF ToSet
  <2> QED
    BY <1>15, <2>3, <2>4, <2>5 DEF ToSet
<1>17. MarkedFacts("black", m, V, [color |-> color', deque |-> gc_deque'])
  <2>1. MarkedFacts("black", m, V, r)
    BY <1>6, <1>9, <1>16, MarkAllFacts
  <2>2. r = [color |-> r.color, deque |-> r.deque]
    BY <2>1 DEF MarkedFacts, AllMarks
  <2> QED
    BY <1>7, <2>1, <2>2
<1>18. V \ {NULL} \subseteq S /\ \A a \in marked : a \in Addr => Values(a) \subseteq V
  BY <1>14, <1>15
<1>19. Collected(m.color, m.deque, marked)
  <2>1. ToSet(m.deque.entries) = {}
    BY <1>9 DEF ToSet
  <2>2. ASSUME NEW a \in Addr \ marked, color[a] = "black", NEW v \in Values(a)
        PROVE  color[v] # "white"
    <3>1. a \notin Cells
      BY <1>2, <2>2
    <3>2. PICK i \in Slots(a) : v = contents[a][i] /\ v # NULL
      BY <2>2 DEF Values
    <3>3. CASE a = Large
      <4>1. progress_bar = LargeLength
        BY <1>8, <1>10, <1>12, <2>2, <3>3, AddrFacts DEF EntriesInv
      <4>2. i \in 1..progress_bar
        BY <3>2, <3>3, <4>1, AddrFacts
      <4> QED
        BY <1>10, <2>2, <3>2, <3>3, <4>2 DEF BlackInv, Seen
    <3>4. CASE a # Large
      BY <1>10, <2>2, <3>1, <3>2, <3>4 DEF BlackInv, Seen
    <3> QED
      BY <3>3, <3>4
  <2>3. \A a \in Addr : color[a] = "grey" => marking_deque.overflowed
    BY <1>10, <1>12 DEF EntriesInv
  <2> QED
    BY <1>9, <2>1, <2>2, <2>3 DEF Collected
<1>20. \A a \in Addr : m.color[a] # "white" => a \in S
  BY <1>9, <1>11 DEF Marked
<1>21. /\ should_hurry' \in BOOLEAN /\ marking_deque' \in Deque /\ roots' \in Seq(Addr)
       /\ ToSet(roots') \subseteq RootSet /\ RootSet \ ToSet(roots') = {} /\ RootSet \subseteq S
  <2>1. marking_deque' \in Deque
    BY <1>1, <1>8 DEF Deque
  <2> QED
    BY <1>1, <1>10, <1>11, <2>1 DEF IInv, TypeOK
<1> QED
  BY <1>1, <1>9, <1>11, <1>17, <1>18, <1>19, <1>20, <1>21, VisitPause

\* A sequence of all the elements of a set, each once.
LEMMA SetToSeqsFacts ==
    ASSUME NEW S, IsFiniteSet(S), NEW s \in SetToSeqs(S)
    PROVE  s \in Seq(S) /\ ToSet(s) = S /\ Len(s) = Cardinality(S)
<1>1. PICK n \in Nat : n = Cardinality(S)
  BY FS_CardinalityType
<1>2. s \in [1..n -> S] /\ \A i, j \in 1..n : i # j => s[i] # s[j]
  BY <1>1 DEF SetToSeqs
<1>3. s \in Seq(S) /\ Len(s) = n /\ DOMAIN s = 1..n
  BY <1>2
<1>4. IsFiniteSet(1..n) /\ Cardinality(1..n) = n
  BY FS_Interval
<1>5. s \in Injection(1..n, S)
  BY <1>2 DEF Injection, IsInjective
<1>6. s \in Surjection(1..n, S)
  BY <1>1, <1>4, <1>5, FS_Injection
<1>7. ToSet(s) = S
  BY <1>3, <1>6 DEF ToSet, Surjection
<1> QED
  BY <1>1, <1>3, <1>7

\* Grey objects in the heap become black entries.
LEMMA RefillMarkingDequeStep ==
    ASSUME IInv, RefillMarkingDeque
    PROVE  IInv'
<1>1. /\ gc = "EMPTY" /\ IsEmpty(gc_deque) /\ roots = << >>
      /\ UNCHANGED <<heapVars, progress_bar, marking_deque, stateVars, gc, roots>>
  BY DEF RefillMarkingDeque, RefillMarking
<1>2. /\ UNCHANGED heapVars /\ progress_bar' = progress_bar /\ marking_deque' = marking_deque
      /\ state' = state /\ should_hurry' = should_hurry /\ no_marking' = no_marking
      /\ gc' = gc /\ roots' = roots
  BY <1>1 DEF stateVars
<1>3. /\ state = "STOPPED"
      /\ color \in [Addr -> Colors]
      /\ Collected(color, gc_deque, {})
      /\ RootSet \subseteq Marked \cup ToSet(roots) /\ ToSet(roots) \subseteq RootSet
      /\ \A a \in Addr : color[a] # "white" => Object(a)
      /\ \E S \in SUBSET Addr : Intact(S) /\ RootSet \cup Marked \subseteq S
  BY <1>1, PauseFacts
<1>4. PICK S \in SUBSET Addr : Intact(S) /\ RootSet \cup Marked \subseteq S
  BY <1>3
<1>5. PICK grey : grey = {a \in Addr : Object(a) /\ color[a] = "grey"}
  OBVIOUS
<1>14. PICK found \in SUBSET grey : \E entries \in SetToSeqs(found) :
         /\ Cardinality(found) = Capacity \/ (found = grey /\ Cardinality(found) < Capacity)
         /\ color' = [a \in Addr |-> IF a \in found THEN "black" ELSE color[a]]
         /\ gc_deque' = [entries |-> entries, overflowed |-> Cardinality(found) = Capacity]
  BY <1>5 DEF RefillMarkingDeque, RefillMarking
<1>6. PICK entries \in SetToSeqs(found) :
         /\ Cardinality(found) = Capacity \/ (found = grey /\ Cardinality(found) < Capacity)
         /\ color' = [a \in Addr |-> IF a \in found THEN "black" ELSE color[a]]
         /\ gc_deque' = [entries |-> entries, overflowed |-> Cardinality(found) = Capacity]
  BY <1>14
<1>7. found \subseteq Addr /\ \A a \in found : color[a] = "grey"
  BY <1>5
<1>8. entries \in Seq(Addr) /\ ToSet(entries) = found
  <2>1. IsFiniteSet(found)
    BY <1>7, IncrementalMarkingAssumption, FS_Subset
  <2>2. entries \in Seq(found) /\ ToSet(entries) = found
    BY <2>1, SetToSeqsFacts
  <2> QED
    BY <1>7, <2>2, SeqMonotonic
<1>9. /\ gc_deque' \in Deque /\ ToSet(gc_deque'.entries) = found
      /\ gc_deque'.overflowed = (Cardinality(found) = Capacity)
  <2>1. gc_deque'.entries = entries /\ gc_deque'.overflowed = (Cardinality(found) = Capacity)
    BY <1>6
  <2> QED
    BY <1>6, <1>8, <2>1 DEF Deque
<1>10. /\ color' \in [Addr -> Colors]
       /\ \A a \in found : color'[a] = "black"
       /\ \A a \in Addr : a \notin found => color'[a] = color[a]
  BY <1>3, <1>6, <1>7 DEF Colors
<1>11. Marked' = Marked
  BY <1>7, <1>10 DEF Marked
<1>12. Collected(color', gc_deque', {})
  <2>1. ToSet(gc_deque.entries) = {}
    BY <1>1 DEF IsEmpty, ToSet
  <2>2. ASSUME NEW a \in Addr, color'[a] = "black", a \notin found, NEW v \in Values(a)
        PROVE  color'[v] # "white"
    <3>1. color[a] = "black"
      BY <1>10, <2>2
    <3>2. color[v] # "white"
      BY <1>3, <2>1, <2>2, <3>1 DEF Collected
    <3>3. v \in Addr
      BY <1>3, <2>2, <3>1, ObjectContents DEF IInv
    <3> QED
      BY <1>7, <1>10, <3>2, <3>3
  <2>3. ASSUME NEW a \in Addr, color'[a] = "grey" PROVE gc_deque'.overflowed
    <3>1. a \notin found /\ a \in grey
      BY <1>3, <1>5, <1>10, <2>3
    <3> QED
      BY <1>6, <1>9, <3>1
  <2> QED
    BY <1>7, <1>9, <1>10, <2>2, <2>3 DEF Collected
<1>13. /\ should_hurry' \in BOOLEAN /\ marking_deque' \in Deque /\ roots' \in Seq(Addr)
       /\ RootSet \subseteq Marked' \cup ToSet(roots') /\ ToSet(roots') \subseteq RootSet
       /\ RootSet \cup Marked' \subseteq S /\ gc' \in {"ROOTS", "EMPTY"}
       /\ gc \in {"FINALIZE", "ROOTS", "EMPTY"} /\ state' = "STOPPED"
  BY <1>1, <1>2, <1>3, <1>4, <1>11 DEF IInv, TypeOK
<1> QED
  BY <1>2, <1>4, <1>9, <1>10, <1>12, <1>13, PauseStep

\* What is freed is not marked, and what is marked refers to nothing else.
LEMMA SweepSpacesStep ==
    ASSUME IInv, NEW lazy \in SUBSET Old, SweepSpaces(lazy)
    PROVE  IInv'
<1>1. /\ gc = "EMPTY" /\ IsEmpty(gc_deque) /\ roots = << >> /\ ~gc_deque.overflowed
      /\ contents' = [a \in Addr |->
            IF a \notin lazy /\ color[a] = "white" THEN Free ELSE contents[a]]
      /\ color' = [a \in Addr |-> IF a \in lazy THEN color[a] ELSE "white"]
      /\ progress_bar' = 0 /\ unswept' = lazy /\ gc' = "NOT_IN_GC"
      /\ handle' = handle /\ to' = to /\ marking_deque' = marking_deque
      /\ state' = state /\ should_hurry' = should_hurry /\ no_marking' = no_marking
      /\ roots' = roots /\ gc_deque' = gc_deque
  BY DEF SweepSpaces, stateVars
<1>2. /\ state = "STOPPED" /\ color \in [Addr -> Colors]
      /\ Collected(color, gc_deque, {})
      /\ RootSet \subseteq Marked \cup ToSet(roots)
      /\ \A a \in Addr : color[a] # "white" => Object(a)
  BY <1>1, PauseFacts
<1>3. ToSet(gc_deque.entries) = {} /\ ToSet(roots) = {}
  BY <1>1 DEF IsEmpty, ToSet
<1>4. \A a \in Addr : color[a] \in {"white", "black"}
  BY <1>1, <1>2 DEF Collected, Colors
<1>5. \A a \in Marked : a \in Addr /\ Object(a) /\ Values(a) \subseteq Marked
  <2>1. ASSUME NEW a \in Marked PROVE a \in Addr /\ Object(a) /\ Values(a) \subseteq Marked
    <3>1. a \in Addr /\ Object(a) /\ color[a] = "black"
      BY <1>2, <1>4 DEF Marked
    <3>2. Values(a) \subseteq Addr
      BY <3>1, ObjectContents DEF IInv
    <3> QED
      BY <1>2, <1>3, <3>1, <3>2 DEF Collected, Marked
  <2> QED
    BY <2>1
<1>6. NotInGC' /\ ~IsMarking'
  BY <1>1, <1>2 DEF NotInGC, IsMarking
<1>7. \A a \in Marked : contents'[a] = contents[a]
  BY <1>1 DEF Marked
<1>8. Living' = Marked
  <2>1. ASSUME NEW a \in Addr PROVE a \in Living' <=> a \in Marked
    <3>1. CASE a \in Marked
      BY <1>1, <1>5, <1>7, <3>1 DEF Living, Object, Marked
    <3>2. CASE a \notin Marked /\ a \in lazy
      BY <1>1, <3>2 DEF Living, Marked
    <3>3. CASE a \notin Marked /\ a \notin lazy
      BY <1>1, <3>3 DEF Living, Object, Marked
    <3> QED
      BY <3>1, <3>2, <3>3
  <2> QED
    BY <2>1 DEF Living, Marked
<1>9. HeapInv'
  <2>1. Intact(Living)'
    BY <1>5, <1>7, <1>8 DEF Intact, Object, Values
  <2>2. RootSet' = RootSet
    BY <1>1 DEF RootSet
  <2> QED
    BY <1>2, <1>3, <1>6, <1>8, <2>1, <2>2 DEF HeapInv
<1>10. TypeOK'
  <2>1. /\ DOMAIN contents' = Addr
        /\ \A a \in Addr : contents'[a] \in {Free, Filler} \cup [Slots(a) -> Addr \cup {NULL}]
    BY <1>1 DEF IInv, TypeOK
  <2>2. color' \in [Addr -> Colors]
    BY <1>1, <1>2 DEF Colors
  <2>3. progress_bar' \in 0..LargeLength
    BY <1>1, AddrFacts
  <2> QED
    BY <1>1, <2>1, <2>2, <2>3 DEF IInv, TypeOK, Colors
<1>11. ControlInv'
  BY <1>1, <1>6 DEF IInv, ControlInv
<1>12. IdleInv'
  <2>1. ASSUME NEW a \in Marked' PROVE a \in lazy /\ a \in Marked /\ color'[a] = "black"
    BY <1>1, <1>4, <2>1 DEF Marked
  <2> QED
    BY <1>1, <1>5, <1>7, <2>1 DEF IdleInv, Object
<1> QED
  BY <1>6, <1>9, <1>10, <1>11, <1>12 DEF IInv, MarkingInv, CollectInv, NotInGC

-------------------------------------------------------------------------------
(* Scavenges                                                               *)

\* What a scavenge keeps in place or moves is alive and refers to nothing else.
LEMMA SurvivorsFacts ==
    ASSUME IInv, NotInGC
    PROVE  /\ Survivors \subseteq Living /\ Survivors \subseteq New
           /\ (Living \ New) \cap Survivors = {}
           /\ \A a \in (Living \ New) \cup Survivors :
                 Values(a) \subseteq (Living \ New) \cup Survivors
           /\ RootSet \subseteq (Living \ New) \cup Survivors
<1>1. PICK B : B = ToSet(StrongRoots) \cup {a \in Old : Object(a) /\ (a \in unswept => color[a] # "white")}
  OBVIOUS
<1>2. PICK R : R = ReachFrom(B)
  OBVIOUS
<1>3. Survivors = R \cap New
  BY <1>1, <1>2 DEF Survivors
<1>4. ToSet(StrongRoots) = RootSet
  BY RootsFacts DEF IInv, TypeOK
<1>5. Intact(Living) /\ RootSet \subseteq Living /\ Living \in SUBSET Addr
  BY DEF IInv, HeapInv, Living
<1>6. B = RootSet \cup (Old \cap Living) /\ B \subseteq Living
  BY <1>1, <1>4, <1>5, AddrFacts DEF Living
<1>7. R \subseteq Living
  BY <1>2, <1>5, <1>6, IntactClosed, ReachSmallest
<1>8. B \subseteq R /\ \A a \in R : Object(a) => Values(a) \subseteq R
  <2>1. B \in SUBSET Addr /\ TypeOK
    BY <1>5, <1>6 DEF IInv
  <2> QED
    BY <1>2, <2>1, ReachClosed
<1>9. Living \ New \subseteq R
  <2>1. ASSUME NEW a \in Living \ New PROVE a \in B
    <3>1. a = Large \/ a \in Cells \/ a \in Old
      BY <1>5, <2>1 DEF Addr
    <3> QED
      BY <1>6, <2>1, <3>1 DEF RootSet
  <2> QED
    BY <1>8, <2>1
<1>10. (Living \ New) \cup Survivors = R
  BY <1>3, <1>7, <1>9
<1>11. \A a \in R : Object(a)
  BY <1>5, <1>7 DEF Intact
<1> QED
  BY <1>3, <1>6, <1>7, <1>8, <1>10, <1>11

\* Survivors move, in the heap, the marks and the deque at once.
LEMMA ScavengeStep ==
    ASSUME IInv, Scavenge
    PROVE  IInv'
<1> DEFINE live == Survivors
           room == {a \in Old \cup Semi[3 - to] : Available(a)}
<1>1. live = Survivors
  OBVIOUS
<1>2. /\ NotInGC /\ to' = 3 - to /\ unswept' = unswept /\ progress_bar' = progress_bar
      /\ state' = state /\ should_hurry' = should_hurry /\ no_marking' = no_marking
      /\ gc' = gc /\ roots' = roots /\ gc_deque' = gc_deque
  BY DEF Scavenge, stateVars, gcVars
<1>3. room = {a \in Old \cup Semi[3 - to] : Available(a)}
  OBVIOUS
<1>4. PICK dest \in [live -> room] :
         /\ \A a, b \in live : a # b => dest[a] # dest[b]
         /\ LET moved == {dest[a] : a \in live}
                Source(b) == CHOOSE a \in live : dest[a] = b
                Forwarded(f) == [i \in DOMAIN f |-> Forward(dest, f[i])]
            IN  /\ contents' = [a \in Addr |->
                       IF a \in moved THEN Forwarded(contents[Source(a)])
                       ELSE IF a \in New THEN Free
                       ELSE IF Object(a) THEN Forwarded(contents[a])
                       ELSE contents[a]]
                /\ color' = [a \in Addr |->
                       IF a \in moved THEN color[Source(a)]
                       ELSE IF a \in New THEN "white" ELSE color[a]]
         /\ handle' = Forward(dest, handle)
         /\ marking_deque' = IF IsMarking THEN UpdatedDeque(dest) ELSE marking_deque
  BY DEF Scavenge
<1> HIDE DEF live, room
<1>5. PICK moved : moved = {dest[a] : a \in live}
  OBVIOUS
<1>6. PICK kept : kept = Living \ New
  OBVIOUS
<1>7. /\ live \subseteq Living /\ live \subseteq New /\ live \cap kept = {}
      /\ \A a \in kept \cup live : Values(a) \subseteq kept \cup live
      /\ RootSet \subseteq kept \cup live
      /\ Living \subseteq Addr
  BY <1>1, <1>2, <1>6, SurvivorsFacts DEF Living
<1>8. to \in {1, 2}
  BY DEF IInv, TypeOK
<1>9. \A b \in moved : /\ b \in Addr /\ b # Large /\ b \notin Cells /\ b \notin unswept
                       /\ contents[b] = Free /\ ~Object(b) /\ color[b] = "white"
                       /\ b \in Old \cup New /\ b \notin Living
  <2>1. ASSUME NEW b \in room
        PROVE  /\ b \in Addr /\ b # Large /\ b \notin Cells /\ b \notin unswept
               /\ contents[b] = Free /\ ~Object(b) /\ color[b] = "white"
               /\ b \in Old \cup New /\ b \notin Living
    <3>1. contents[b] = Free /\ b \notin unswept /\ b \in Old \cup New
      BY <1>3, <1>8, <2>1, AddrFacts DEF Available
    <3>2. b \in Addr /\ b # Large /\ b \notin Cells
      BY <3>1, AddrFacts
    <3>3. ~Object(b) /\ b \notin Living
      BY <3>1 DEF Object, Living
    <3> QED
      BY <3>1, <3>2, <3>3 DEF IInv, IdleInv, Marked
  <2> QED
    BY <1>5, <2>1
\* Where a survivor goes, and where a moved object comes from.
<1>10. /\ \A a \in live : dest[a] \in moved /\ Forward(dest, a) = dest[a]
       /\ \A a : a \notin live => Forward(dest, a) = a
       /\ \A b \in moved : \E a \in live : dest[a] = b
  BY <1>5 DEF Forward
<1>11. \A a \in live : (CHOOSE x \in live : dest[x] = dest[a]) = a
  BY <1>4
<1>12. \A a \in live : a \in Addr /\ a # Large /\ a \notin Cells /\ Slots(a) = {1} /\ Object(a)
                       /\ a \notin Old /\ a \notin unswept
  BY <1>7, AddrFacts DEF Living, IInv, TypeOK
<1>13. \A a \in kept \cup live : ObjectAt(a, contents[a])
  <2>1. ASSUME NEW a \in kept \cup live PROVE ObjectAt(a, contents[a])
    <3>1. a \in Addr /\ Object(a)
      BY <1>6, <1>7, <2>1 DEF Living
    <3> QED
      BY <3>1, ObjectContents DEF IInv
  <2> QED
    BY <2>1
\* The contents and colors after the scavenge.
<1> DEFINE Fwd(f) == [i \in DOMAIN f |-> Forward(dest, f[i])]
<1>14. DOMAIN contents' = Addr /\ DOMAIN color' = Addr
  BY <1>4
<1>15. \A a \in live : contents'[dest[a]] = Fwd(contents[a]) /\ color'[dest[a]] = color[a]
  BY <1>4, <1>5, <1>9, <1>10, <1>11
<1>16. \A a \in Addr : a \notin moved /\ a \in New => contents'[a] = Free /\ color'[a] = "white"
  BY <1>4, <1>5
<1>17. \A a \in Addr : a \notin moved /\ a \notin New =>
          /\ color'[a] = color[a]
          /\ contents'[a] = IF Object(a) THEN Fwd(contents[a]) ELSE contents[a]
  BY <1>4, <1>5
<1>18. \A v \in Addr \cup {NULL} : Forward(dest, v) \in Addr \cup {NULL}
  BY <1>9, <1>10
<1>19. ASSUME NEW a \in Addr, Object(a), NEW b \in Addr, Slots(a) = Slots(b)
       PROVE  /\ Fwd(contents[a]) \in [Slots(b) -> Addr \cup {NULL}]
              /\ Fwd(contents[a]) \notin {Free, Filler}
              /\ \A i \in Slots(b) : Fwd(contents[a])[i] = Forward(dest, contents[a][i])
  <2>1. contents[a] \in [Slots(a) -> Addr \cup {NULL}]
    BY <1>19 DEF Object, IInv, TypeOK
  <2>2. /\ Fwd(contents[a]) \in [Slots(b) -> Addr \cup {NULL}]
        /\ \A i \in Slots(b) : Fwd(contents[a])[i] = Forward(dest, contents[a][i])
    BY <1>18, <1>19, <2>1
  <2> HIDE DEF Fwd
  <2> QED
    BY <2>2, ContentsAssumption
<1>20. \A a \in live : Slots(a) = Slots(dest[a])
  BY <1>9, <1>10, <1>12, AddrFacts
<1> HIDE DEF Fwd
<1>21. ASSUME NEW a \in live
       PROVE  /\ contents'[dest[a]] \in [Slots(dest[a]) -> Addr \cup {NULL}]
              /\ Object(dest[a])' /\ color'[dest[a]] = color[a]
              /\ \A i \in Slots(dest[a]) :
                    i \in Slots(a) /\ contents'[dest[a]][i] = Forward(dest, contents[a][i])
  <2>1. a \in Addr /\ Object(a) /\ dest[a] \in Addr /\ Slots(a) = Slots(dest[a])
    BY <1>9, <1>10, <1>12, <1>20
  <2> QED
    BY <1>15, <1>19, <2>1 DEF Object
<1>22. ASSUME NEW a \in Addr, a \notin moved, a \notin New
       PROVE  /\ contents'[a] \in {Free, Filler} \cup [Slots(a) -> Addr \cup {NULL}]
              /\ color'[a] = color[a] /\ (Object(a)' <=> Object(a))
              /\ Object(a) => \A i \in Slots(a) : contents'[a][i] = Forward(dest, contents[a][i])
              /\ ~Object(a) => contents'[a] = contents[a]
  <2>1. CASE Object(a)
    BY <1>17, <1>19, <1>22, <2>1 DEF Object
  <2>2. CASE ~Object(a)
    BY <1>17, <1>22, <2>2 DEF Object, IInv, TypeOK
  <2> QED
    BY <2>1, <2>2
<1>23. \A a \in kept : a \in Addr /\ a \notin moved /\ a \notin New /\ Object(a) /\ a \in Living
  BY <1>6, <1>7, <1>9 DEF Living
\* The values of what is kept are kept or moved, with their colors.
<1>24. ASSUME NEW v \in kept \cup live
       PROVE  Forward(dest, v) \in kept \cup moved /\ color'[Forward(dest, v)] = color[v]
  <2>1. CASE v \in live
    BY <1>10, <1>21, <2>1
  <2>2. CASE v \in kept
    BY <1>7, <1>10, <1>22, <1>23, <2>2
  <2> QED
    BY <1>24, <2>1, <2>2
<1>25. NotInGC' /\ (IsMarking' <=> IsMarking)
  BY <1>2 DEF NotInGC, IsMarking
<1>26. color' \in [Addr -> Colors]
  <2>1. \A a \in Addr : color[a] \in Colors
    BY DEF IInv, TypeOK, Colors
  <2>2. \A a \in Addr : color'[a] \in Colors
    <3>1. ASSUME NEW a \in Addr PROVE color'[a] \in Colors
      <4>1. CASE a \in moved
        BY <1>10, <1>12, <1>21, <2>1, <4>1
      <4>2. CASE a \notin moved /\ a \in New
        BY <1>16, <4>2 DEF Colors
      <4>3. CASE a \notin moved /\ a \notin New
        BY <1>22, <2>1, <4>3
      <4> QED
        BY <4>1, <4>2, <4>3
    <3> QED
      BY <3>1
  <2>3. color' = [a \in Addr |-> color'[a]]
    BY <1>4
  <2> QED
    BY <2>2, <2>3
<1>27. handle' \in kept \cup moved \cup {NULL}
  <2>1. NULL \notin live
    BY <1>12, AddrFacts
  <2> QED
    BY <1>4, <1>7, <1>10, <1>24, <2>1 DEF RootSet
<1>28. Living' = kept \cup moved
  <2>1. ASSUME NEW a \in Addr PROVE a \in Living' <=> a \in kept \cup moved
    <3>1. CASE a \in moved
      <4>1. Object(a)'
        BY <1>10, <1>21, <3>1
      <4> QED
        BY <1>2, <1>9, <3>1, <4>1 DEF Living
    <3>2. CASE a \notin moved /\ a \in New
      <4>1. ~Object(a)'
        BY <1>16, <3>2 DEF Object
      <4> QED
        BY <1>6, <3>2, <4>1 DEF Living
    <3>3. CASE a \notin moved /\ a \notin New
      BY <1>2, <1>6, <1>22, <3>3 DEF Living
    <3> QED
      BY <3>1, <3>2, <3>3
  <2> QED
    BY <1>9, <1>23, <2>1 DEF Living
<1>29. HeapInv'
  <2>1. ASSUME NEW a \in Living' PROVE Object(a)' /\ Values(a)' \subseteq Living'
    <3>1. PICK s \in kept \cup live :
             /\ Object(a)' /\ Slots(a) = Slots(s)
             /\ \A i \in Slots(a) : contents'[a][i] = Forward(dest, contents[s][i])
      <4>1. CASE a \in moved
        <5>1. PICK s \in live : dest[s] = a
          BY <1>10, <4>1
        <5> QED
          BY <1>20, <1>21, <5>1
      <4>2. CASE a \in kept
        BY <1>22, <1>23, <4>2
      <4> QED
        BY <1>28, <2>1, <4>1, <4>2
    <3>2. ASSUME NEW i \in Slots(a), contents'[a][i] # NULL PROVE contents'[a][i] \in Living'
      <4>1. contents[s][i] # NULL
        <5>1. NULL \notin live
          BY <1>12, AddrFacts
        <5> QED
          BY <1>10, <3>1, <3>2, <5>1
      <4>2. contents[s][i] \in kept \cup live
        BY <1>7, <3>1, <4>1 DEF Values
      <4> QED
        BY <1>24, <1>28, <3>1, <4>2
    <3> QED
      BY <3>1, <3>2 DEF Values
  <2>2. RootSet' \subseteq Living'
    <3>1. {Large} \cup Cells \subseteq kept
      BY <1>7, <1>12 DEF RootSet
    <3> QED
      BY <1>27, <1>28, <3>1 DEF RootSet
  <2> QED
    BY <1>25, <2>1, <2>2 DEF HeapInv, Intact
<1>30. ControlInv'
  <2>1. ASSUME no_marking
        PROVE  handle' \in Old /\ (IsMarking => color'[handle'] # "black")
    <3>1. handle \in Old /\ (IsMarking => color[handle] # "black")
      BY <1>2, <2>1 DEF IInv, ControlInv
    <3>2. handle \notin live /\ handle \in Addr
      BY <1>12, <3>1, AddrFacts
    <3>3. handle \in kept
      BY <1>7, <3>2, AddrFacts DEF RootSet
    <3> QED
      BY <1>4, <1>10, <1>24, <3>1, <3>2, <3>3
  <2> QED
    BY <1>2, <1>25, <2>1 DEF IInv, ControlInv, NotInGC
<1>31. IdleInv'
  <2>1. ASSUME NEW a \in Marked' PROVE Object(a)'
    <3>1. CASE a \in moved
      BY <1>10, <1>21, <3>1
    <3>2. CASE a \notin moved
      <4>1. a \in Addr /\ a \notin New /\ color[a] # "white"
        BY <1>16, <1>22, <2>1, <3>2 DEF Marked
      <4>2. Object(a)
        BY <4>1 DEF IInv, IdleInv, Marked
      <4> QED
        BY <1>22, <3>2, <4>1, <4>2
    <3> QED
      BY <3>1, <3>2
  <2>2. ASSUME ~IsMarking, NEW a \in Marked'
        PROVE  a \in unswept /\ color'[a] = "black"
    <3>1. \A x \in Marked : x \in unswept /\ color[x] = "black"
      BY <1>2, <2>2 DEF IInv, IdleInv
    <3>2. CASE a \in moved
      <4>1. PICK s \in live : dest[s] = a
        BY <1>10, <3>2
      <4>2. s \in Marked
        BY <1>12, <1>21, <2>2, <4>1 DEF Marked
      <4> QED
        BY <1>12, <3>1, <4>2
    <3>3. CASE a \notin moved
      <4>1. a \in Addr /\ a \notin New /\ color'[a] = color[a] /\ a \in Marked
        BY <1>16, <1>22, <2>2, <3>3 DEF Marked
      <4> QED
        BY <3>1, <4>1
    <3> QED
      BY <3>2, <3>3
  <2>3. ~IsMarking => progress_bar = 0
    BY <1>2 DEF IInv, IdleInv
  <2> QED
    BY <1>2, <1>25, <2>1, <2>2, <2>3 DEF IdleInv

<1>32. ASSUME IsMarking PROVE BlackInv' /\ EntriesInv' /\ marking_deque' \in Deque
  <2>1. BlackInv /\ EntriesInv /\ unswept = {}
    BY <1>2, <1>32 DEF IInv, MarkingInv, ControlInv
  \* What is marked outside of new space is kept.
  <2>2. \A a \in Addr : a \notin New /\ color[a] # "white" => a \in kept
    BY <1>6, <2>1 DEF IInv, IdleInv, Marked, Living
  <2>3. color'[Large] = color[Large] /\ Large \in kept
    <3>1. Large \in kept
      BY <1>7, <1>12 DEF RootSet
    <3> QED
      BY <1>22, <1>23, <3>1
  <2>4. BlackInv'
    <3>1. ASSUME NEW s \in kept \cup live, NEW i \in Slots(s), NEW a,
                 contents'[a][i] = Forward(dest, contents[s][i]),
                 contents[s][i] # NULL => color[contents[s][i]] # "white"
          PROVE  Seen(a, i)'
      <4>1. CASE contents[s][i] = NULL
        <5>1. NULL \notin live
          BY <1>12, AddrFacts
        <5> QED
          BY <1>10, <3>1, <4>1, <5>1 DEF Seen
      <4>2. CASE contents[s][i] # NULL
        <5>1. contents[s][i] \in kept \cup live
          BY <1>7, <3>1, <4>2 DEF Values
        <5> QED
          BY <1>24, <3>1, <4>2, <5>1 DEF Seen
      <4> QED
        BY <4>1, <4>2
    <3>2. ASSUME NEW a \in Addr \ (Cells \cup {Large}), color'[a] = "black", NEW i \in Slots(a)
          PROVE  Seen(a, i)'
      <4>1. CASE a \in moved
        <5>1. PICK s \in live : dest[s] = a
          BY <1>10, <4>1
        <5>2. /\ color[s] = "black" /\ s \in Addr \ (Cells \cup {Large}) /\ i \in Slots(s)
              /\ contents'[a][i] = Forward(dest, contents[s][i])
          BY <1>12, <1>21, <3>2, <5>1
        <5>3. contents[s][i] # NULL => color[contents[s][i]] # "white"
          BY <2>1, <5>2 DEF BlackInv, Seen
        <5> QED
          BY <3>1, <5>2, <5>3
      <4>2. CASE a \notin moved
        <5>1. a \notin New /\ color[a] = "black"
          BY <1>16, <1>22, <3>2, <4>2
        <5>2. a \in kept
          BY <2>2, <5>1
        <5>3. contents'[a][i] = Forward(dest, contents[a][i])
          BY <1>22, <1>23, <3>2, <5>2
        <5>4. contents[a][i] # NULL => color[contents[a][i]] # "white"
          BY <2>1, <3>2, <5>1 DEF BlackInv, Seen
        <5> QED
          BY <3>1, <3>2, <5>2, <5>3, <5>4
      <4> QED
        BY <4>1, <4>2
    <3>3. CASE color[Large] = "black"
      <4>1. ASSUME NEW i \in 1..progress_bar' PROVE Seen(Large, i)'
        <5>1. i \in Slots(Large) /\ i \in 1..progress_bar
          BY <1>2, <4>1, AddrFacts DEF IInv, TypeOK
        <5>2. contents'[Large][i] = Forward(dest, contents[Large][i])
          BY <1>22, <1>23, <2>3, <5>1
        <5>3. contents[Large][i] # NULL => color[contents[Large][i]] # "white"
          BY <2>1, <3>3, <5>1 DEF BlackInv, Seen
        <5> QED
          BY <2>3, <3>1, <5>1, <5>2, <5>3
      <4> QED
        BY <2>3, <3>2, <3>3, <4>1 DEF BlackInv
    <3>4. CASE color[Large] # "black"
      BY <1>2, <2>1, <2>3, <3>2, <3>4 DEF BlackInv
    <3> QED
      BY <3>3, <3>4
  <2>5. marking_deque \in Deque /\ marking_deque.entries \in Seq(Addr)
    BY DEF IInv, TypeOK, Deque
  <2>6. PICK keep : keep = live \cup {a \in Addr \ New : contents[a] # Filler}
    OBVIOUS
  <2>7. PICK updated : updated = Updated(marking_deque.entries, keep, dest)
    OBVIOUS
  <2>8. \A e \in Entries : e \in Addr
    BY <2>5 DEF Entries, ToSet
  \* What stays on the deque is grey, or the large array.
  <2>9. ASSUME NEW e \in Entries, e \in keep
        PROVE  e \in kept \cup live /\ (color[e] = "grey" \/ e = Large)
    <3>1. CASE e \in live
      <4>1. contents[e] # Filler
        BY <1>12, <3>1 DEF Object
      <4> QED
        BY <2>1, <3>1, <4>1 DEF EntriesInv
    <3>2. CASE e \notin live
      <4>1. e \in Addr /\ e \notin New /\ contents[e] # Filler
        BY <2>6, <2>9, <3>2
      <4>2. color[e] = "grey" \/ e = Large
        BY <2>1, <4>1 DEF EntriesInv
      <4> QED
        BY <2>2, <2>3, <4>1, <4>2
    <3> QED
      BY <3>1, <3>2
  <2>10. \A e \in kept \cup live : e \in keep
    BY <1>23, <2>6 DEF Object
  <2>11. /\ updated \in Seq(Addr)
         /\ ToSet(updated) = {Forward(dest, e) : e \in Entries \cap keep}
         /\ \A x : (\A i, j \in DOMAIN marking_deque.entries :
                       /\ marking_deque.entries[i] \in keep
                       /\ Forward(dest, marking_deque.entries[i]) = x
                       /\ marking_deque.entries[j] \in keep
                       /\ Forward(dest, marking_deque.entries[j]) = x
                       => i = j)
                   => Once(updated, x)
    <3>1. \A e \in ToSet(marking_deque.entries) \cap keep : Forward(dest, e) \in Addr
      <4>1. ASSUME NEW e \in Entries \cap keep PROVE Forward(dest, e) \in Addr
        <5>1. Forward(dest, e) \in kept \cup moved
          BY <1>24, <2>9
        <5> QED
          BY <1>9, <1>23, <5>1
      <4> QED
        BY <4>1 DEF Entries
    <3> QED
      BY <2>5, <2>7, <3>1, UpdatedFacts DEF Entries
  <2>12. /\ marking_deque' = [entries |-> updated, overflowed |-> marking_deque.overflowed]
         /\ marking_deque'.entries = updated
         /\ marking_deque'.overflowed = marking_deque.overflowed
    <3>1. DOMAIN dest = live
      OBVIOUS
    <3>2. UpdatedDeque(dest) = [marking_deque EXCEPT !.entries = updated]
      BY <2>6, <2>7, <3>1 DEF UpdatedDeque
    <3> QED
      BY <1>4, <1>32, <2>5, <3>2 DEF Deque
  <2>13. Entries' = {Forward(dest, e) : e \in Entries \cap keep}
    BY <2>11, <2>12 DEF Entries
  <2>14. \A a \in kept \cup live : a \in Entries => Forward(dest, a) \in Entries'
    BY <2>10, <2>13
  <2>15. ASSUME NEW a \in Addr, color'[a] = "grey" PROVE a \in Entries' \/ marking_deque'.overflowed
    <3>1. CASE a \in moved
      <4>1. PICK s \in live : dest[s] = a
        BY <1>10, <3>1
      <4>2. color[s] = "grey" /\ s \in Addr /\ Forward(dest, s) = a
        BY <1>10, <1>12, <1>21, <2>15, <4>1
      <4> QED
        BY <2>1, <2>12, <2>14, <4>2 DEF EntriesInv
    <3>2. CASE a \notin moved
      <4>1. a \notin New /\ color[a] = "grey"
        BY <1>16, <1>22, <2>15, <3>2
      <4>2. a \in kept /\ Forward(dest, a) = a
        BY <1>7, <1>10, <2>2, <4>1
      <4> QED
        BY <2>1, <2>12, <2>14, <4>1, <4>2 DEF EntriesInv
    <3> QED
      BY <3>1, <3>2
  <2>16. color'[Large] = "black" /\ progress_bar' < LargeLength => Large \in Entries'
    <3>1. Forward(dest, Large) = Large
      BY <1>7, <1>10, <2>3
    <3> QED
      BY <1>2, <2>1, <2>3, <2>14, <3>1 DEF EntriesInv
  <2>17. \A a \in Entries' : color'[a] = "grey" \/ a = Large
    <3>1. ASSUME NEW e \in Entries, e \in keep
          PROVE  color'[Forward(dest, e)] = "grey" \/ Forward(dest, e) = Large
      <4>1. e \in kept \cup live /\ (color[e] = "grey" \/ e = Large)
        BY <2>9, <3>1
      <4>2. CASE color[e] = "grey"
        BY <1>24, <4>1, <4>2
      <4>3. CASE e = Large
        BY <1>10, <1>12, <4>3
      <4> QED
        BY <4>1, <4>2, <4>3
    <3> QED
      BY <2>13, <3>1
  <2>18. ASSUME NEW x, x # Large PROVE Once(marking_deque'.entries, x)
    <3>1. ASSUME NEW i \in DOMAIN marking_deque.entries, NEW j \in DOMAIN marking_deque.entries,
                 marking_deque.entries[i] \in keep, Forward(dest, marking_deque.entries[i]) = x,
                 marking_deque.entries[j] \in keep, Forward(dest, marking_deque.entries[j]) = x
          PROVE  i = j
      <4>1. PICK e \in Entries : e = marking_deque.entries[i]
        BY DEF Entries, ToSet
      <4>2. PICK d \in Entries : d = marking_deque.entries[j]
        BY DEF Entries, ToSet
      <4>3. /\ e \in kept \cup live /\ d \in kept \cup live
            /\ Forward(dest, e) = x /\ Forward(dest, d) = x
        BY <2>9, <3>1, <4>1, <4>2
      <4>4. e = d
        <5>1. CASE e \in live /\ d \in live
          BY <1>4, <1>10, <4>3, <5>1
        <5>2. CASE e \in live /\ d \notin live
          <6>1. d \in kept /\ d = x /\ x \in moved
            BY <1>10, <4>3, <5>2
          <6> QED
            BY <1>23, <6>1
        <5>3. CASE e \notin live /\ d \in live
          <6>1. e \in kept /\ e = x /\ x \in moved
            BY <1>10, <4>3, <5>3
          <6> QED
            BY <1>23, <6>1
        <5>4. CASE e \notin live /\ d \notin live
          BY <1>10, <4>3, <5>4
        <5> QED
          BY <5>1, <5>2, <5>3, <5>4
      <4>5. e # Large
        BY <1>10, <1>12, <2>18, <4>3
      <4>6. Once(marking_deque.entries, e)
        BY <2>1, <4>5 DEF EntriesInv
      <4> QED
        BY <4>1, <4>2, <4>4, <4>6 DEF Once
    <3>2. Once(updated, x)
      BY <2>11, <3>1
    <3> QED
      BY <2>12, <3>2
  <2>19. state' = "COMPLETE" => Entries' = {}
    BY <1>2, <2>1, <2>13 DEF EntriesInv
  <2>20. EntriesInv'
    BY <2>15, <2>16, <2>17, <2>18, <2>19 DEF EntriesInv
  <2>21. marking_deque' \in Deque
    BY <2>5, <2>11, <2>12 DEF Deque
  <2> QED
    BY <2>4, <2>20, <2>21
<1>33. marking_deque' \in Deque /\ MarkingInv'
  <2>1. CASE IsMarking
    <3>1. BlackInv' /\ EntriesInv' /\ marking_deque' \in Deque
      BY <1>32, <2>1
    <3> QED
      BY <3>1 DEF MarkingInv
  <2>2. CASE ~IsMarking
    BY <1>4, <1>25, <2>2 DEF MarkingInv, IInv, TypeOK
  <2> QED
    BY <2>1, <2>2
<1>34. TypeOK'
  <2>1. \A a \in Addr : contents'[a] \in {Free, Filler} \cup [Slots(a) -> Addr \cup {NULL}]
    <3>1. ASSUME NEW a \in Addr
          PROVE  contents'[a] \in {Free, Filler} \cup [Slots(a) -> Addr \cup {NULL}]
      <4>1. CASE a \in moved
        BY <1>10, <1>21, <4>1
      <4>2. CASE a \notin moved /\ a \in New
        BY <1>16, <4>2
      <4>3. CASE a \notin moved /\ a \notin New
        BY <1>22, <4>3
      <4> QED
        BY <4>1, <4>2, <4>3
    <3> QED
      BY <3>1
  <2>2. handle' \in Addr \cup {NULL} /\ to' \in {1, 2}
    BY <1>2, <1>8, <1>9, <1>23, <1>27
  <2> QED
    BY <1>2, <1>14, <1>26, <1>33, <2>1, <2>2 DEF IInv, TypeOK, Colors
<1> QED
  BY <1>25, <1>29, <1>30, <1>31, <1>33, <1>34 DEF IInv, CollectInv, NotInGC

-------------------------------------------------------------------------------
(* The theorems                                                            *)

\* The invariant holds at the start.
LEMMA InitInv ==
    ASSUME Init
    PROVE  IInv
<1>1. /\ handle = NULL /\ to = 1 /\ unswept = {} /\ progress_bar = 0 /\ marking_deque = EmptyDeque
      /\ state = "STOPPED" /\ should_hurry = FALSE /\ no_marking = FALSE
      /\ gc = "NOT_IN_GC" /\ roots = << >> /\ gc_deque = EmptyDeque
  BY DEF Init
<1>2. EmptyDeque \in Deque
  BY DEF EmptyDeque, Deque
<1>3. color \in [Addr -> Colors] /\ \A a \in Addr : color[a] = "white"
  BY DEF Init, Colors
<1>4. DOMAIN contents = Addr
  BY DEF Init
<1>5. ASSUME NEW a \in {Large} \cup Cells
      PROVE  /\ a \in Addr /\ contents[a] = [i \in Slots(a) |-> NULL]
             /\ contents[a] \in [Slots(a) -> Addr \cup {NULL}]
  BY AddrFacts DEF Init, Fresh
<1>6. \A a \in Addr : a \notin {Large} \cup Cells => contents[a] = Free
  BY DEF Init
<1>7. \A a \in Addr : Object(a) <=> a \in {Large} \cup Cells
  BY <1>5, <1>6, ContentsAssumption DEF Object
<1>8. NotInGC /\ ~IsMarking
  BY <1>1 DEF NotInGC, IsMarking
<1>9. TypeOK
  <2>1. \A a \in Addr : contents[a] \in {Free, Filler} \cup [Slots(a) -> Addr \cup {NULL}]
    BY <1>5, <1>6
  <2>2. progress_bar \in 0..LargeLength /\ roots \in Seq(Addr)
    BY <1>1, AddrFacts
  <2> QED
    BY <1>1, <1>2, <1>3, <1>4, <2>1, <2>2 DEF TypeOK, Colors
<1>10. ControlInv
  BY <1>1, <1>8 DEF ControlInv, NotInGC
<1>11. HeapInv
  <2>1. Living = {Large} \cup Cells
    BY <1>1, <1>7, AddrFacts DEF Living
  <2>2. ASSUME NEW a \in Living PROVE Object(a) /\ Values(a) = {}
    <3>1. a \in {Large} \cup Cells
      BY <2>1
    <3>2. \A i \in Slots(a) : contents[a][i] = NULL
      BY <1>5, <3>1
    <3> QED
      BY <1>5, <1>7, <3>1, <3>2 DEF Values
  <2>3. Intact(Living)
    BY <2>2 DEF Intact
  <2> QED
    BY <1>1, <1>8, <2>1, <2>3 DEF HeapInv, RootSet
<1>12. IdleInv
  BY <1>1, <1>3 DEF IdleInv, Marked
<1> QED
  BY <1>8, <1>9, <1>10, <1>11, <1>12 DEF IInv, MarkingInv, CollectInv, NotInGC

\* Every step preserves the invariant.
LEMMA NextInv ==
    ASSUME IInv, [Next]_vars
    PROVE  IInv'
<1>1. CASE Mutate
  <2>1. ASSUME NEW a \in Addr, Allocate(a) PROVE IInv'
    BY <2>1, AllocateStep
  <2>2. CASE DropHandle
    BY <2>2, DropHandleStep
  <2>3. ASSUME NEW obj \in Reachable, NEW value \in Reachable \cup {NULL}, NEW slot \in Slots(obj),
               Write(obj, slot, value)
        PROVE  IInv'
    BY <2>3, WriteStep
  <2>4. ASSUME NEW cell \in Cells, NEW value \in Reachable \cup {NULL}, WriteCell(cell, value)
        PROVE  IInv'
    BY <2>4, WriteCellStep
  <2>5. ASSUME NEW copied \in [Slots(Large) -> Reachable \cup {NULL}], CopyElements(Large, copied)
        PROVE  IInv'
    BY <2>5, CopyElementsStep
  <2>6. CASE EnterNoMarkingScope
    BY <2>6, EnterNoMarkingScopeStep
  <2>7. CASE LeaveNoMarkingScope
    BY <2>7, LeaveNoMarkingScopeStep
  <2>8. ASSUME NEW value \in Reachable \cup {NULL}, WriteWitnessed(value) PROVE IInv'
    BY <2>8, WriteWitnessedStep
  <2>9. ASSUME NEW holder \in Reachable, NEW new \in Addr, NEW slot \in Slots(holder),
               LeftTrim(new, holder, slot)
        PROVE  IInv'
    BY <2>9, LeftTrimStep
  <2> QED
    BY <1>1, <2>1, <2>2, <2>3, <2>4, <2>5, <2>6, <2>7, <2>8, <2>9 DEF Mutate
<1>2. CASE Step
  BY <1>2, StartStep, StepSweepingStep, StepMarkingStep, SweepPageStep DEF Step
<1>3. CASE Scavenge
  BY <1>3, ScavengeStep
<1>4. CASE \E abort \in BOOLEAN : CollectGarbage(abort)
  BY <1>4, CollectGarbageStep
<1>5. CASE Collect
  BY <1>5, HurryStep, FinalizeStep, MarkRootStep, EmptyMarkingDequeStep, RefillMarkingDequeStep,
     SweepSpacesStep DEF Collect
<1>6. CASE UNCHANGED vars
  <2>1. /\ contents' = contents /\ handle' = handle /\ to' = to /\ unswept' = unswept
        /\ color' = color /\ progress_bar' = progress_bar /\ marking_deque' = marking_deque
        /\ state' = state /\ should_hurry' = should_hurry /\ no_marking' = no_marking
        /\ gc' = gc /\ roots' = roots /\ gc_deque' = gc_deque
    BY <1>6 DEF vars, heapVars, markVars, stateVars, gcVars
  <2>2. TypeOK' /\ ControlInv'
    BY <2>1 DEF IInv, TypeOK, ControlInv, IsMarking, NotInGC, RootSet
  <2>3. Living' = Living /\ RootSet' = RootSet /\ Marked' = Marked
    BY <2>1 DEF Living, Object, RootSet, Marked
  <2>4. \A S : Intact(S)' <=> Intact(S)
    BY <2>1 DEF Intact, Object, Values
  <2>5. HeapInv'
    BY <2>1, <2>3, <2>4 DEF IInv, HeapInv, NotInGC
  <2>6. IdleInv'
    BY <2>1, <2>3 DEF IInv, IdleInv, NotInGC, IsMarking, Object
  <2>7. MarkingInv'
    <3>1. BlackInv' <=> BlackInv
      BY <2>1 DEF BlackInv, Seen
    <3>2. EntriesInv' <=> EntriesInv
      BY <2>1 DEF EntriesInv, Entries
    <3> QED
      BY <2>1, <3>1, <3>2 DEF IInv, MarkingInv, IsMarking
  <2>8. CollectInv'
    BY <2>1, <2>3 DEF IInv, CollectInv, Values
  <2> QED
    BY <2>2, <2>5, <2>6, <2>7, <2>8 DEF IInv
<1> QED
  BY <1>1, <1>2, <1>3, <1>4, <1>5, <1>6 DEF Next

\* The inductive invariant: the tri-color invariant and what is on the deques,
\* together with what keeps the heap intact around them.
THEOREM MarkingInvariant == Spec => []IInv
<1>1. Init => IInv
  BY InitInv
<1>2. IInv /\ [Next]_vars => IInv'
  BY NextInv
<1> QED
  BY <1>1, <1>2, PTL DEF Spec

\* The write barrier and everything that moves or trims objects keep the
\* tri-color invariant: a black object refers to no white one
\* (incremental-marking-inl.h, BaseRecordWrite).
THEOREM WriteBarrier == Spec => []BlackSeesNoWhite
<1>1. IInv => BlackSeesNoWhite
  <2> SUFFICES ASSUME IInv, NotInGC, IsMarking,
                      NEW a \in Addr, color[a] = "black", a \notin Cells, NEW i \in Slots(a),
                      contents[a][i] # NULL, color[contents[a][i]] = "white"
               PROVE  a = Large /\ i > progress_bar
    BY DEF BlackSeesNoWhite
  <2>1. BlackInv
    BY DEF IInv, MarkingInv
  <2>2. a = Large
    BY <2>1 DEF BlackInv, Seen
  <2>3. i \in 1..LargeLength /\ i \notin 1..progress_bar
    BY <2>1, <2>2, AddrFacts DEF BlackInv, Seen
  <2>4. i > progress_bar
    BY <2>3, AddrFacts DEF IInv, TypeOK
  <2> QED
    BY <2>2, <2>4
<1> QED
  BY <1>1, MarkingInvariant, PTL

\* Everything that must still be scanned is found on the deque, or in the heap
\* after an overflow, and nothing else is on it.
THEOREM DequeIsComplete == Spec => []DequeHoldsGrey
<1>1. IInv => DequeHoldsGrey
  <2> SUFFICES ASSUME IInv, NotInGC, IsMarking
               PROVE  LET entries == ToSet(marking_deque.entries)
                      IN  /\ \A a \in Addr : Object(a) /\ color[a] = "grey" =>
                                a \in entries \/ marking_deque.overflowed
                          /\ color[Large] = "black" /\ progress_bar < LargeLength => Large \in entries
                          /\ \A a \in entries :
                                \/ Object(a) /\ (color[a] = "grey" \/ a = Large)
                                \/ contents[a] = Filler /\ color[a] = "white"
                          /\ state = "COMPLETE" => entries = {}
    BY DEF DequeHoldsGrey
  <2>1. EntriesInv
    BY DEF IInv, MarkingInv
  <2>2. Object(Large)
    BY LivingFacts DEF Living
  <2>3. ASSUME NEW a \in Entries
        PROVE  \/ Object(a) /\ (color[a] = "grey" \/ a = Large)
               \/ contents[a] = Filler /\ color[a] = "white"
    <3>1. a \in Addr
      BY DEF IInv, TypeOK, Deque, Entries, ToSet
    <3>2. color[a] = "grey" => Object(a)
      BY <3>1 DEF IInv, IdleInv, Marked
    <3> QED
      BY <2>1, <2>2, <3>2 DEF EntriesInv
  <2> QED
    BY <2>1, <2>3 DEF EntriesInv, Entries
<1> QED
  BY <1>1, MarkingInvariant, PTL

\* No collection frees or leaves behind what the mutator can reach.
THEOREM CollectionIsSafe == Spec => []ReachableIntact
<1>1. IInv => ReachableIntact
  <2> SUFFICES ASSUME IInv PROVE \A a \in Reachable : Object(a)
    BY DEF ReachableIntact, IInv
  <2>1. CASE NotInGC
    BY <2>1, ReachableLiving DEF Living
  <2>2. CASE ~NotInGC
    <3>1. PICK S \in SUBSET Addr : Intact(S) /\ RootSet \cup Marked \subseteq S
      BY <2>2 DEF IInv, HeapInv
    <3>2. ToSet(StrongRoots) = RootSet
      BY RootsFacts DEF IInv, TypeOK
    <3>3. Reachable \subseteq S
      <4>1. ToSet(StrongRoots) \subseteq S /\ Closed(S)
        BY <3>1, <3>2, IntactClosed
      <4> QED
        BY <4>1, ReachSmallest DEF Reachable
    <3> QED
      BY <3>1, <3>3 DEF Intact
  <2> QED
    BY <2>1, <2>2
<1> QED
  BY <1>1, MarkingInvariant, PTL

-------------------------------------------------------------------------------
(* The pause makes progress                                                *)

ObjectsOf(c, k) == {a \in Addr : Object(a) /\ k[a] = c}

\* What is left to do, but for the roots.
WorkOf(m) ==
    4 * Cardinality(ObjectsOf("white", m.color)) + 2 * Cardinality(ObjectsOf("grey", m.color))
      + Len(m.deque.entries) + (IF m.deque.overflowed THEN 1 ELSE 0)

Units(w, g, n, o) == 4 * w + 2 * g + n + o

\* What the steps of marking do to a sum of that form.
LEMMA UnitsFacts ==
    ASSUME NEW w \in Nat, NEW g \in Nat, NEW n \in Nat, NEW o \in Nat
    PROVE  /\ Units(w, g, n, o) \in Nat
           /\ \A o1 \in Nat : w # 0 /\ o1 <= 1 => Units(w - 1, g + 1, n, o1) <= Units(w, g, n, o)
           /\ w # 0 => Units(w - 1, g, n + 1, o) <= Units(w, g, n, o)
           /\ w # 0 => Units(w - 1, g, n, o) <= Units(w, g, n, o)
           /\ n # 0 => Units(w, g, n - 1, o) = Units(w, g, n, o) - 1
  BY DEF Units

\* The work is a natural number.
LEMMA WorkType ==
    ASSUME NEW m \in AllMarks
    PROVE  /\ WorkOf(m) \in Nat /\ Len(m.deque.entries) \in Nat
           /\ \A c : /\ IsFiniteSet(ObjectsOf(c, m.color))
                     /\ Cardinality(ObjectsOf(c, m.color)) \in Nat
           /\ \E w, g, n, o \in Nat :
                 /\ w = Cardinality(ObjectsOf("white", m.color))
                 /\ g = Cardinality(ObjectsOf("grey", m.color))
                 /\ n = Len(m.deque.entries) /\ o = IF m.deque.overflowed THEN 1 ELSE 0
                 /\ WorkOf(m) = Units(w, g, n, o)
<1>1. ASSUME NEW c
      PROVE  /\ IsFiniteSet(ObjectsOf(c, m.color)) /\ Cardinality(ObjectsOf(c, m.color)) \in Nat
  <2>1. ObjectsOf(c, m.color) \in SUBSET Addr /\ IsFiniteSet(Addr)
    BY IncrementalMarkingAssumption DEF ObjectsOf
  <2>2. IsFiniteSet(ObjectsOf(c, m.color))
    BY <2>1, FS_Subset
  <2> QED
    BY <2>2, FS_CardinalityType
<1>2. Len(m.deque.entries) \in Nat
  BY DEF AllMarks, Deque
<1>3. PICK w \in Nat : w = Cardinality(ObjectsOf("white", m.color))
  BY <1>1
<1>4. PICK g \in Nat : g = Cardinality(ObjectsOf("grey", m.color))
  BY <1>1
<1>5. PICK n \in Nat : n = Len(m.deque.entries)
  BY <1>2
<1>6. PICK o \in Nat : o = IF m.deque.overflowed THEN 1 ELSE 0
  OBVIOUS
<1>7. WorkOf(m) = Units(w, g, n, o)
  BY <1>3, <1>4, <1>5, <1>6 DEF WorkOf, Units
<1>8. Units(w, g, n, o) \in Nat
  BY UnitsFacts
<1>9. \E w2, g2, n2, o2 \in Nat :
         /\ w2 = Cardinality(ObjectsOf("white", m.color))
         /\ g2 = Cardinality(ObjectsOf("grey", m.color))
         /\ n2 = Len(m.deque.entries) /\ o2 = IF m.deque.overflowed THEN 1 ELSE 0
         /\ WorkOf(m) = Units(w2, g2, n2, o2)
  BY <1>3, <1>4, <1>5, <1>6, <1>7
<1> QED
  BY <1>1, <1>2, <1>7, <1>8, <1>9

\* The objects of each color when a white one is given another color e.
LEMMA Recolored ==
    ASSUME NEW m \in AllMarks, NEW v \in Addr, Object(v), m.color[v] = "white",
           NEW e \in {"grey", "black"}, NEW k, k = [m.color EXCEPT ![v] = e]
    PROVE  /\ Cardinality(ObjectsOf("white", k)) = Cardinality(ObjectsOf("white", m.color)) - 1
           /\ Cardinality(ObjectsOf("grey", k)) =
                 Cardinality(ObjectsOf("grey", m.color)) + (IF e = "grey" THEN 1 ELSE 0)
           /\ Cardinality(ObjectsOf("white", m.color)) \in Nat
           /\ Cardinality(ObjectsOf("grey", m.color)) \in Nat
<1>1. /\ IsFiniteSet(ObjectsOf("white", m.color)) /\ IsFiniteSet(ObjectsOf("grey", m.color))
      /\ Cardinality(ObjectsOf("white", m.color)) \in Nat
      /\ Cardinality(ObjectsOf("grey", m.color)) \in Nat
  BY WorkType
<1>2. k[v] = e /\ \A a \in Addr : a # v => k[a] = m.color[a]
  BY DEF AllMarks
<1>3. /\ ObjectsOf("white", k) = ObjectsOf("white", m.color) \ {v} /\ v \in ObjectsOf("white", m.color)
      /\ v \notin ObjectsOf("grey", m.color)
      /\ ObjectsOf("grey", k) = IF e = "grey" THEN ObjectsOf("grey", m.color) \cup {v}
                                ELSE ObjectsOf("grey", m.color)
  BY <1>2 DEF ObjectsOf
<1>4. Cardinality(ObjectsOf("white", m.color) \ {v}) = Cardinality(ObjectsOf("white", m.color)) - 1
  BY <1>1, <1>3, FS_RemoveElement
<1>5. Cardinality(ObjectsOf("grey", m.color) \cup {v}) = Cardinality(ObjectsOf("grey", m.color)) + 1
  BY <1>1, <1>3, FS_AddElement
<1>6. e = "grey" =>
         Cardinality(ObjectsOf("grey", k)) = Cardinality(ObjectsOf("grey", m.color)) + 1
  BY <1>3, <1>5
<1>7. e # "grey" =>
         Cardinality(ObjectsOf("grey", k)) = Cardinality(ObjectsOf("grey", m.color))
  BY <1>3
<1>8. Cardinality(ObjectsOf("grey", k)) =
         Cardinality(ObjectsOf("grey", m.color)) + (IF e = "grey" THEN 1 ELSE 0)
  <2>1. PICK g \in Nat : g = Cardinality(ObjectsOf("grey", m.color))
    BY <1>1
  <2> QED
    BY <1>6, <1>7, <2>1
<1> QED
  BY <1>1, <1>3, <1>4, <1>8

\* Marking one value leaves no more to do than before, even if it overflows.
LEMMA MarkAsWork ==
    ASSUME NEW m \in AllMarks, NEW v \in Addr \cup {NULL}, v # NULL => Object(v)
    PROVE  WorkOf(MarkAs("black", m, v)) <= WorkOf(m)
<1>1. WorkOf(m) \in Nat /\ Len(m.deque.entries) \in Nat
  BY WorkType
<1>2. CASE v = NULL \/ m.color[v] # "white"
  <2>1. MarkAs("black", m, v) = m
    BY <1>2 DEF MarkAs
  <2> QED
    BY <1>1, <2>1
<1>3. CASE ~ (v = NULL \/ m.color[v] # "white")
  <2>1. PICK e \in {"grey", "black"} : e = IF IsFull(m.deque) THEN "grey" ELSE "black"
    OBVIOUS
  <2>2. PICK k : k = [m.color EXCEPT ![v] = e]
    OBVIOUS
  <2>3. PICK q : q = Push(m.deque, v)
    OBVIOUS
  <2>4. PICK r : r = [color |-> k, deque |-> q]
    OBVIOUS
  <2>5. MarkAs("black", m, v) = r /\ r.color = k /\ r.deque = q
    BY <1>3, <2>1, <2>2, <2>3, <2>4 DEF MarkAs
  <2>6. /\ Cardinality(ObjectsOf("white", k)) = Cardinality(ObjectsOf("white", m.color)) - 1
        /\ Cardinality(ObjectsOf("grey", k)) =
              Cardinality(ObjectsOf("grey", m.color)) + (IF e = "grey" THEN 1 ELSE 0)
        /\ Cardinality(ObjectsOf("white", m.color)) \in Nat
        /\ Cardinality(ObjectsOf("grey", m.color)) \in Nat
    BY <1>3, <2>2, Recolored
  <2>7. m.deque \in Deque /\ m.deque.entries \in Seq(Addr) /\ m.deque.overflowed \in BOOLEAN
    BY DEF AllMarks, Deque
  <2>8. IF IsFull(m.deque) THEN q.entries = m.deque.entries /\ q.overflowed
        ELSE q.entries = Append(m.deque.entries, v) /\ q.overflowed = m.deque.overflowed
    BY <1>3, <2>3, <2>7, PushFacts
  <2>11. r \in AllMarks
    BY <1>3, <2>5, MarkAsFacts DEF MarkedFacts
  <2>12. PICK w, g, n, o \in Nat :
            /\ w = Cardinality(ObjectsOf("white", m.color))
            /\ g = Cardinality(ObjectsOf("grey", m.color))
            /\ n = Len(m.deque.entries) /\ o = IF m.deque.overflowed THEN 1 ELSE 0
            /\ WorkOf(m) = Units(w, g, n, o)
    BY WorkType
  <2>13. PICK w1, g1, n1, o1 \in Nat :
            /\ w1 = Cardinality(ObjectsOf("white", r.color))
            /\ g1 = Cardinality(ObjectsOf("grey", r.color))
            /\ n1 = Len(r.deque.entries) /\ o1 = IF r.deque.overflowed THEN 1 ELSE 0
            /\ WorkOf(r) = Units(w1, g1, n1, o1)
    BY <2>11, WorkType
  <2>14. w1 = w - 1 /\ w # 0 /\ o1 <= 1
    <3>1. w1 = w - 1
      BY <2>5, <2>6, <2>12, <2>13
    <3>2. o1 <= 1
      BY <2>13
    <3> QED
      BY <3>1, <3>2
  <2>9. CASE IsFull(m.deque)
    <3>1. g1 = g + 1
      BY <2>1, <2>5, <2>6, <2>9, <2>12, <2>13
    <3>2. n1 = n
      BY <2>5, <2>8, <2>9, <2>12, <2>13
    <3>3. Units(w - 1, g + 1, n, o1) <= Units(w, g, n, o)
      BY <2>14, UnitsFacts
    <3>4. WorkOf(r) <= WorkOf(m)
      BY <2>12, <2>13, <2>14, <3>1, <3>2, <3>3
    <3> QED
      BY <2>5, <3>4
  <2>10. CASE ~IsFull(m.deque)
    <3>1. Len(q.entries) = Len(m.deque.entries) + 1 /\ q.overflowed = m.deque.overflowed
      BY <1>3, <2>7, <2>8, <2>10
    <3>2. g1 = g
      BY <2>1, <2>5, <2>6, <2>10, <2>12, <2>13
    <3>3. n1 = n + 1 /\ o1 = o
      BY <2>5, <2>12, <2>13, <3>1
    <3>4. Units(w - 1, g, n + 1, o) <= Units(w, g, n, o)
      BY <2>14, UnitsFacts
    <3>5. WorkOf(r) <= WorkOf(m)
      BY <2>12, <2>13, <2>14, <3>2, <3>3, <3>4
    <3> QED
      BY <2>5, <3>5
  <2> QED
    BY <2>9, <2>10
<1> QED
  BY <1>2, <1>3

\* Nor does marking the values of an object.
LEMMA MarkAllWork ==
    ASSUME NEW m \in AllMarks, NEW values \in Seq(Addr \cup {NULL}),
           \A v \in ToSet(values) \ {NULL} : Object(v)
    PROVE  WorkOf(MarkAll("black", m, values)) <= WorkOf(m)
<1>1. PICK g : /\ g[0] = m /\ MarkAll("black", m, values) = g[Len(values)]
               /\ \A i \in 1..Len(values) : g[i] = MarkAs("black", g[i - 1], values[i])
  BY MarkAllSteps
<1>2. PICK n \in Nat : n = Len(values)
  OBVIOUS
<1>3. \A i \in 1..n : values[i] \in Addr \cup {NULL} /\ (values[i] # NULL => Object(values[i]))
  BY <1>2 DEF ToSet
<1> DEFINE Good(k) == g[k] \in AllMarks /\ WorkOf(g[k]) <= WorkOf(m)
           bad == {k \in 0..n : ~ Good(k)}
<1>4. ASSUME bad # {} PROVE FALSE
  <2>1. PICK k \in bad : \A l \in bad : k <= l
    <3>1. bad \in SUBSET Nat
      OBVIOUS
    <3> HIDE DEF bad
    <3> QED
      BY <1>4, <3>1, NatMin
  <2>2. k \in 0..n /\ ~ Good(k)
    BY <2>1
  <2>3. k # 0
    BY <1>1, <2>2, WorkType
  <2>4. k \in 1..n /\ k - 1 \in 0..n /\ k - 1 < k
    BY <2>2, <2>3
  <2>5. Good(k - 1)
    <3> HIDE DEF Good
    <3>1. k - 1 \notin bad
      <4> HIDE DEF bad
      <4> QED
        BY <2>1, <2>2, <2>4
    <3> QED
      BY <2>4, <3>1
  <2>6. PICK p : p = g[k - 1]
    OBVIOUS
  <2>7. PICK v \in Addr \cup {NULL} : v = values[k]
    BY <1>3, <2>4
  <2>8. p \in AllMarks /\ WorkOf(p) <= WorkOf(m) /\ (v # NULL => Object(v))
    BY <1>3, <2>4, <2>5, <2>6, <2>7
  <2>9. g[k] = MarkAs("black", p, v)
    BY <1>1, <1>2, <2>4, <2>6, <2>7
  <2>10. g[k] \in AllMarks
    <3>1. MarkedFacts("black", p, {v}, MarkAs("black", p, v))
      BY <2>8, MarkAsFacts
    <3> QED
      BY <2>9, <3>1 DEF MarkedFacts
  <2>11. WorkOf(g[k]) <= WorkOf(p)
    BY <2>8, <2>9, MarkAsWork
  <2>12. WorkOf(m) \in Nat /\ WorkOf(p) \in Nat /\ WorkOf(g[k]) \in Nat
    BY <2>8, <2>10, WorkType
  <2> QED
    BY <2>2, <2>8, <2>10, <2>11, <2>12
<1>5. Good(n)
  <2>1. n \in 0..n
    OBVIOUS
  <2> QED
    BY <1>4, <2>1
<1> QED
  BY <1>1, <1>2, <1>5

\* The work of a state, and of the next one if the heap has stayed as it is.
LEMMA WorkIs ==
    ASSUME IInv
    PROVE  /\ GCMarks \in AllMarks /\ Work = WorkOf(GCMarks) + Len(roots)
           /\ \A r \in AllMarks : r.color = color' /\ r.deque = gc_deque' /\ contents' = contents =>
                 Work' = WorkOf(r) + Len(roots')
<1>1. GCMarks \in AllMarks /\ GCMarks.color = color /\ GCMarks.deque = gc_deque
  BY DEF IInv, TypeOK, GCMarks, AllMarks, Colors
<1>2. Work = WorkOf(GCMarks) + Len(roots)
  BY <1>1 DEF Work, WorkOf, ObjectsOf
<1>3. ASSUME NEW r \in AllMarks, r.color = color', r.deque = gc_deque', contents' = contents
      PROVE  Work' = WorkOf(r) + Len(roots')
  BY <1>3 DEF Work, WorkOf, ObjectsOf, Object
<1> QED
  BY <1>1, <1>2, <1>3

\* An object found in the pause refers to objects, which a visit marks.
LEMMA VisitWork ==
    ASSUME IInv, gc \in {"ROOTS", "EMPTY"}, NEW a \in Addr, color[a] # "white" \/ a \in RootSet,
           NEW m \in AllMarks
    PROVE  /\ Object(a) /\ GCVisit(m, a) \in AllMarks
           /\ WorkOf(GCVisit(m, a)) <= WorkOf(m)
<1>1. PICK S \in SUBSET Addr : Intact(S) /\ RootSet \cup Marked \subseteq S
  BY PauseFacts
<1>2. a \in S
  BY <1>1 DEF Marked
<1>3. Object(a) /\ Values(a) \subseteq S
  BY <1>1, <1>2 DEF Intact
<1>4. ObjectAt(a, contents[a]) /\ Values(a) = ToSet(contents[a]) \ {NULL}
  BY <1>3, ObjectContents DEF IInv
<1>5. contents[a] \in Seq(Addr \cup {NULL})
  BY <1>4 DEF ObjectAt
<1>6. \A v \in ToSet(contents[a]) \ {NULL} : Object(v)
  BY <1>1, <1>3, <1>4 DEF Intact
<1>7. GCVisit(m, a) \in AllMarks
  BY <1>5, MarkAllFacts DEF GCVisit, MarkedFacts
<1> QED
  BY <1>3, <1>5, <1>6, <1>7, MarkAllWork DEF GCVisit

\* A root less to come to; and one that was white is black.
LEMMA MarkRootWork ==
    ASSUME IInv, MarkRoot
    PROVE  Work' < Work
<1>1. /\ gc \in {"ROOTS", "EMPTY"} /\ roots # << >> /\ roots' = Tail(roots)
      /\ contents' = contents
  BY DEF MarkRoot, heapVars
<1>2. PICK rt : rt = Head(roots)
  OBVIOUS
<1>3. /\ roots \in Seq(Addr) /\ rt \in Addr /\ rt \in ToSet(roots)
      /\ Len(roots) \in Nat /\ Len(roots') = Len(roots) - 1
  BY <1>1, <1>2, TailFacts DEF IInv, TypeOK
<1>4. rt \in RootSet
  BY <1>1, <1>3, PauseFacts
<1>5. GCMarks \in AllMarks /\ Work = WorkOf(GCMarks) + Len(roots) /\ WorkOf(GCMarks) \in Nat
  BY WorkIs, WorkType
<1>6. CASE color[rt] = "white"
  <2>1. PICK k : k = [color EXCEPT ![rt] = "black"]
    OBVIOUS
  <2>2. PICK m : m = [GCMarks EXCEPT !.color[rt] = "black"]
    OBVIOUS
  <2>3. /\ m = [color |-> k, deque |-> gc_deque]
        /\ GCMarks.color = color /\ GCMarks.deque = gc_deque
    BY <2>1, <2>2 DEF GCMarks
  <2>4. m \in AllMarks /\ m.color = k /\ m.deque = gc_deque
    BY <1>3, <1>5, <2>1, <2>3 DEF AllMarks, Colors
  <2>5. Object(rt) /\ GCVisit(m, rt) \in AllMarks /\ WorkOf(GCVisit(m, rt)) <= WorkOf(m)
    BY <1>1, <1>3, <1>4, <2>4, VisitWork
  <2>6. WorkOf(m) <= WorkOf(GCMarks)
    <3>1. /\ Cardinality(ObjectsOf("white", k)) = Cardinality(ObjectsOf("white", color)) - 1
          /\ Cardinality(ObjectsOf("grey", k)) = Cardinality(ObjectsOf("grey", color)) + 0
          /\ Cardinality(ObjectsOf("white", color)) \in Nat
          /\ Cardinality(ObjectsOf("grey", color)) \in Nat
      <4>1. PICK e : e = "black"
        OBVIOUS
      <4>2. /\ GCMarks \in AllMarks /\ rt \in Addr /\ GCMarks.color[rt] = "white"
            /\ e \in {"grey", "black"} /\ k = [GCMarks.color EXCEPT ![rt] = e]
        BY <1>3, <1>5, <1>6, <2>1, <2>3, <4>1
      <4>3. /\ Cardinality(ObjectsOf("white", k)) =
                   Cardinality(ObjectsOf("white", GCMarks.color)) - 1
            /\ Cardinality(ObjectsOf("grey", k)) =
                   Cardinality(ObjectsOf("grey", GCMarks.color)) + (IF e = "grey" THEN 1 ELSE 0)
            /\ Cardinality(ObjectsOf("white", GCMarks.color)) \in Nat
            /\ Cardinality(ObjectsOf("grey", GCMarks.color)) \in Nat
        <5>1. Object(rt)
          BY <2>5
        <5> QED
          BY <4>2, <5>1, Recolored
      <4> QED
        BY <2>3, <4>1, <4>3
    <3>2. PICK w, g, n, o \in Nat :
            /\ w = Cardinality(ObjectsOf("white", color))
            /\ g = Cardinality(ObjectsOf("grey", color))
            /\ n = Len(gc_deque.entries) /\ o = IF gc_deque.overflowed THEN 1 ELSE 0
            /\ WorkOf(GCMarks) = Units(w, g, n, o)
      <4>1. GCMarks \in AllMarks
        BY <1>5
      <4> QED
        BY <2>3, <4>1, WorkType
    <3>3. PICK w1, g1, n1, o1 \in Nat :
            /\ w1 = Cardinality(ObjectsOf("white", m.color))
            /\ g1 = Cardinality(ObjectsOf("grey", m.color))
            /\ n1 = Len(m.deque.entries) /\ o1 = IF m.deque.overflowed THEN 1 ELSE 0
            /\ WorkOf(m) = Units(w1, g1, n1, o1)
      BY <2>4, WorkType
    <3>4. g1 = g /\ n1 = n /\ o1 = o /\ w1 = w - 1
      BY <2>4, <3>1, <3>2, <3>3
    <3>5. Units(w - 1, g, n, o) <= Units(w, g, n, o)
      BY <3>4, UnitsFacts
    <3> QED
      BY <3>2, <3>3, <3>4, <3>5
  <2>7. color' = GCVisit(m, rt).color /\ gc_deque' = GCVisit(m, rt).deque
    BY <1>2, <1>6, <2>2 DEF MarkRoot
  <2>8. Work' = WorkOf(GCVisit(m, rt)) + Len(roots')
    BY <1>1, <2>5, <2>7, WorkIs
  <2>9. WorkOf(m) \in Nat /\ WorkOf(GCVisit(m, rt)) \in Nat
    BY <2>4, <2>5, WorkType
  <2> QED
    BY <1>3, <1>5, <2>5, <2>6, <2>8, <2>9
<1>7. CASE color[rt] # "white"
  <2>1. color' = GCMarks.color /\ gc_deque' = GCMarks.deque
    BY <1>2, <1>7 DEF MarkRoot
  <2>2. Work' = WorkOf(GCMarks) + Len(roots')
    BY <1>1, <1>5, <2>1, WorkIs
  <2> QED
    BY <1>3, <1>5, <2>2
<1> QED
  BY <1>6, <1>7

\* An entry less.
LEMMA EmptyMarkingDequeWork ==
    ASSUME IInv, EmptyMarkingDeque
    PROVE  Work' < Work
<1>1. /\ gc = "EMPTY" /\ ~IsEmpty(gc_deque) /\ roots' = roots /\ contents' = contents
  BY DEF EmptyMarkingDeque, heapVars
<1>2. PICK a : a = Top(gc_deque)
  OBVIOUS
<1>3. PICK m : m = [GCMarks EXCEPT !.deque = Pop(@)]
  OBVIOUS
<1>4. /\ color \in [Addr -> Colors] /\ gc_deque \in Deque /\ gc_deque.entries \in Seq(Addr)
      /\ \A x \in ToSet(gc_deque.entries) : x \in Addr /\ color[x] = "black"
  BY <1>1, PauseFacts DEF Collected
<1>5. /\ Front(gc_deque.entries) \in Seq(Addr)
      /\ Len(Front(gc_deque.entries)) = Len(gc_deque.entries) - 1
      /\ a \in ToSet(gc_deque.entries)
  BY <1>1, <1>2, <1>4, FrontFacts DEF IsEmpty, Top
<1>6. PICK q : q = Pop(gc_deque)
  OBVIOUS
<1>7. /\ q \in Deque /\ q.entries = Front(gc_deque.entries) /\ q.overflowed = gc_deque.overflowed
  BY <1>4, <1>5, <1>6 DEF Pop, Deque
<1>8. m = [color |-> color, deque |-> q]
  BY <1>3, <1>6 DEF GCMarks
<1>9. m \in AllMarks /\ m.color = color /\ m.deque = q
  BY <1>4, <1>7, <1>8 DEF AllMarks
<1>10. GCVisit(m, a) \in AllMarks /\ WorkOf(GCVisit(m, a)) <= WorkOf(m)
  BY <1>1, <1>4, <1>5, <1>9, VisitWork
<1>11. /\ GCMarks \in AllMarks /\ Work = WorkOf(GCMarks) + Len(roots) /\ WorkOf(GCMarks) \in Nat
       /\ GCMarks.color = color /\ GCMarks.deque = gc_deque
  BY WorkIs, WorkType DEF GCMarks
<1>12. WorkOf(m) = WorkOf(GCMarks) - 1
  <2>1. PICK w, g, n, o \in Nat :
            /\ w = Cardinality(ObjectsOf("white", color))
            /\ g = Cardinality(ObjectsOf("grey", color))
            /\ n = Len(gc_deque.entries) /\ o = IF gc_deque.overflowed THEN 1 ELSE 0
            /\ WorkOf(GCMarks) = Units(w, g, n, o)
    <3>1. GCMarks \in AllMarks
      BY <1>11
    <3> QED
      BY <1>11, <3>1, WorkType
  <2>2. Len(q.entries) = n - 1 /\ o = IF q.overflowed THEN 1 ELSE 0
    BY <1>5, <1>7, <2>1
  <2>3. PICK w1, g1, n1, o1 \in Nat :
            /\ w1 = Cardinality(ObjectsOf("white", m.color))
            /\ g1 = Cardinality(ObjectsOf("grey", m.color))
            /\ n1 = Len(m.deque.entries) /\ o1 = IF m.deque.overflowed THEN 1 ELSE 0
            /\ WorkOf(m) = Units(w1, g1, n1, o1)
    BY <1>9, WorkType
  <2>4. w1 = w /\ g1 = g /\ n1 = n - 1 /\ o1 = o
    BY <1>9, <2>1, <2>2, <2>3
  <2>5. Units(w, g, n - 1, o) = Units(w, g, n, o) - 1
    BY <2>4, UnitsFacts
  <2> QED
    BY <2>1, <2>3, <2>4, <2>5
<1>13. Work' = WorkOf(GCVisit(m, a)) + Len(roots)
  <2>1. color' = GCVisit(m, a).color /\ gc_deque' = GCVisit(m, a).deque
    BY <1>2, <1>3 DEF EmptyMarkingDeque
  <2> QED
    BY <1>1, <1>10, <2>1, WorkIs
<1>14. WorkOf(GCVisit(m, a)) \in Nat /\ Len(roots) \in Nat
  BY <1>10, WorkType DEF IInv, TypeOK
<1> QED
  BY <1>10, <1>11, <1>12, <1>13, <1>14

\* Grey objects become entries; where there are none, the overflow is over.
LEMMA RefillMarkingDequeWork ==
    ASSUME IInv, RefillMarkingDeque
    PROVE  Work' < Work
<1>1. /\ gc = "EMPTY" /\ gc_deque.entries = << >> /\ gc_deque.overflowed /\ roots' = roots
      /\ contents' = contents
  BY DEF RefillMarkingDeque, RefillMarking, IsEmpty, heapVars
<1>2. /\ GCMarks \in AllMarks /\ Work = WorkOf(GCMarks) + Len(roots)
      /\ GCMarks.color = color /\ GCMarks.deque = gc_deque /\ color \in [Addr -> Colors]
  BY <1>1, WorkIs, PauseFacts DEF GCMarks
<1>3. PICK grey : grey = ObjectsOf("grey", color)
  OBVIOUS
<1>4. PICK found \in SUBSET grey : \E entries \in SetToSeqs(found) :
         /\ Cardinality(found) = Capacity \/ (found = grey /\ Cardinality(found) < Capacity)
         /\ color' = [a \in Addr |-> IF a \in found THEN "black" ELSE color[a]]
         /\ gc_deque' = [entries |-> entries, overflowed |-> Cardinality(found) = Capacity]
  BY <1>3 DEF RefillMarkingDeque, RefillMarking, ObjectsOf
<1>5. PICK entries \in SetToSeqs(found) :
         /\ Cardinality(found) = Capacity \/ (found = grey /\ Cardinality(found) < Capacity)
         /\ color' = [a \in Addr |-> IF a \in found THEN "black" ELSE color[a]]
         /\ gc_deque' = [entries |-> entries, overflowed |-> Cardinality(found) = Capacity]
  BY <1>4
<1>6. /\ IsFiniteSet(grey) /\ Cardinality(grey) \in Nat
      /\ Cardinality(ObjectsOf("white", color)) \in Nat
  BY <1>2, <1>3, WorkType
<1>7. /\ IsFiniteSet(found) /\ Cardinality(found) \in Nat
      /\ Cardinality(found) <= Cardinality(grey)
      /\ Cardinality(grey \ found) = Cardinality(grey) - Cardinality(found)
  <2>1. IsFiniteSet(found) /\ Cardinality(found) <= Cardinality(grey)
    BY <1>6, FS_Subset
  <2>2. Cardinality(grey \ found) = Cardinality(grey) - Cardinality(grey \cap found)
    BY <1>6, <2>1, FS_Difference
  <2>3. grey \cap found = found
    OBVIOUS
  <2> QED
    BY <2>1, <2>2, <2>3, FS_CardinalityType
<1>8. /\ entries \in Seq(Addr) /\ Len(entries) = Cardinality(found)
  <2>1. entries \in Seq(found) /\ Len(entries) = Cardinality(found)
    BY <1>7, SetToSeqsFacts
  <2>2. found \subseteq Addr
    BY <1>3 DEF ObjectsOf
  <2> QED
    BY <2>1, <2>2, SeqMonotonic
<1>9. PICK r : r = [color |-> color', deque |-> gc_deque']
  OBVIOUS
<1>10. r \in AllMarks /\ r.color = color' /\ r.deque = gc_deque'
  <2>1. color' \in [Addr -> Colors]
    BY <1>2, <1>5 DEF Colors
  <2>2. gc_deque' \in Deque
    BY <1>5, <1>8 DEF Deque
  <2> QED
    BY <1>9, <2>1, <2>2 DEF AllMarks
<1>11. Work' = WorkOf(r) + Len(roots)
  BY <1>1, <1>10, WorkIs
<1>12. /\ ObjectsOf("white", color') = ObjectsOf("white", color)
       /\ ObjectsOf("grey", color') = grey \ found
  BY <1>3, <1>5 DEF ObjectsOf
<1>13. WorkOf(GCMarks) = 4 * Cardinality(ObjectsOf("white", color)) + 2 * Cardinality(grey) + 1
  BY <1>1, <1>2, <1>3, <1>6 DEF WorkOf
<1>14. WorkOf(r) = 4 * Cardinality(ObjectsOf("white", color))
                     + 2 * (Cardinality(grey) - Cardinality(found)) + Cardinality(found)
                     + (IF Cardinality(found) = Capacity THEN 1 ELSE 0)
  <2>1. /\ gc_deque'.entries = entries
        /\ gc_deque'.overflowed = (Cardinality(found) = Capacity)
    BY <1>5
  <2> QED
    BY <1>7, <1>8, <1>10, <1>12, <2>1 DEF WorkOf
<1>15. Capacity \in Nat /\ Capacity > 0 /\ Len(roots) \in Nat
  BY IncrementalMarkingAssumption DEF IInv, TypeOK
<1>16. WorkOf(r) < WorkOf(GCMarks) /\ WorkOf(r) \in Nat /\ WorkOf(GCMarks) \in Nat
  <2>1. WorkOf(r) \in Nat /\ WorkOf(GCMarks) \in Nat
    BY <1>2, <1>10, WorkType
  <2>2. CASE Cardinality(found) = Capacity
    BY <1>6, <1>7, <1>13, <1>14, <1>15, <2>1, <2>2
  <2>3. CASE Cardinality(found) # Capacity
    BY <1>6, <1>7, <1>13, <1>14, <1>15, <2>1, <2>3
  <2> QED
    BY <2>1, <2>2, <2>3
<1> QED
  BY <1>2, <1>11, <1>15, <1>16

\* Marking in the pause ends: every step of it but the last leaves less to do.
THEOREM PauseTerminates == Spec => PauseMakesProgress
<1>1. ASSUME IInv, Next, gc \in {"ROOTS", "EMPTY"}, gc' # "NOT_IN_GC"
      PROVE  Work' < Work
  <2>1. ~NotInGC /\ gc # "FINALIZE"
    BY <1>1 DEF NotInGC
  <2>2. ~Mutate
    <3>1. ~DropHandle /\ ~EnterNoMarkingScope /\ ~LeaveNoMarkingScope
      BY <2>1 DEF DropHandle, EnterNoMarkingScope, LeaveNoMarkingScope
    <3>2. \A b : ~Allocate(b) /\ ~WriteWitnessed(b) /\ ~CopyElements(Large, b)
      BY <2>1 DEF Allocate, WriteWitnessed, CopyElements
    <3>3. \A b, v : ~WriteCell(b, v)
      BY <2>1 DEF WriteCell
    <3>4. \A b, v, i : ~Write(b, i, v) /\ ~LeftTrim(v, b, i)
      BY <2>1 DEF Write, LeftTrim
    <3> QED
      BY <3>1, <3>2, <3>3, <3>4 DEF Mutate
  <2>3. ~Step /\ ~Scavenge /\ ~ \E abort \in BOOLEAN : CollectGarbage(abort)
    BY <2>1 DEF Step, Start, StepSweeping, StepMarking, ProcessMarkingDeque, SweepPage, Scavenge,
                CollectGarbage
  <2>4. ~Hurry /\ ~Finalize
    BY <2>1 DEF Hurry, Finalize, FinalizeWith
  <2>5. ~ \E lazy \in SUBSET Old : SweepSpaces(lazy)
    BY <1>1 DEF SweepSpaces
  <2>6. MarkRoot \/ EmptyMarkingDeque \/ RefillMarkingDeque
    BY <1>1, <2>2, <2>3, <2>4, <2>5 DEF Next, Collect
  <2> QED
    BY <1>1, <2>6, MarkRootWork, EmptyMarkingDequeWork, RefillMarkingDequeWork
<1>2. IInv /\ [Next]_vars =>
         [(gc \in {"ROOTS", "EMPTY"} /\ gc' # "NOT_IN_GC") => (Work' < Work)]_vars
  BY <1>1
<1> QED
  BY <1>2, MarkingInvariant, PTL DEF Spec, PauseMakesProgress
===============================================================================
