--------------------------- MODULE Documents_proofs ---------------------------
(***************************************************************************)
(* Proofs about Documents: for any number of writes and hand edits, any    *)
(* names, values and lists asked for, and any documents the user leaves,   *)
(* what is read back is what was asked for, and no write spoils a file.    *)
(***************************************************************************)
EXTENDS Documents, FiniteSetTheorems, SequenceTheorems, WellFoundedInduction, TLAPS

-----------------------------------------------------------------------------
(* The least and the greatest of some lines *)

LEMMA MinFacts ==
    ASSUME NEW S \in SUBSET Nat, S # {}
    PROVE  Min(S) \in S /\ \A y \in S : Min(S) <= y
<1> DEFINE T == {0..x : x \in S}
<1>1. T \subseteq FiniteSubsetsOf(Nat) /\ T # {}
  <2>1. ASSUME NEW x \in S PROVE IsFiniteSet(0..x) /\ 0..x \in SUBSET Nat
    BY FS_Interval
  <2> QED
    BY <2>1 DEF FiniteSubsetsOf
<1>2. PICK X \in T : \A Y \in T : ~(<<Y, X>> \in StrictSubsetOrdering(Nat))
  <2> HIDE DEF T
  <2> QED
    BY <1>1, FS_StrictSubsetOrderingWellFounded, WFMin
<1>3. PICK x \in S : X = 0..x
  OBVIOUS
<1>4. ASSUME NEW y \in S PROVE x <= y
  <2>1. 0..y \in T /\ ~(<<0..y, 0..x>> \in StrictSubsetOrdering(Nat))
    BY <1>2, <1>3
  <2>2. SUFFICES ASSUME y < x PROVE FALSE
    OBVIOUS
  <2>3. 0..y \subseteq 0..x /\ x \in 0..x /\ x \notin 0..y
    BY <2>2
  <2> QED
    BY <2>1, <2>3 DEF StrictSubsetOrdering
<1> QED
  BY <1>4 DEF Min

LEMMA MaxFacts ==
    ASSUME NEW n \in Nat, NEW S \in SUBSET (0..n), S # {}
    PROVE  Max(S) \in S /\ \A y \in S : Max(S) >= y
<1> DEFINE T == {x \in Nat : n - x \in S}
<1>1. T \in SUBSET Nat /\ T # {}
  <2>1. PICK y \in S : TRUE
    OBVIOUS
  <2>2. y \in 0..n /\ n - y \in Nat /\ n - (n - y) = y
    BY <2>1
  <2> QED
    BY <2>1, <2>2
<1> HIDE DEF T
<1>2. Min(T) \in T /\ \A x \in T : Min(T) <= x
  BY <1>1, MinFacts
<1>3. \E x \in S : \A y \in S : x >= y
  <2>1. n - Min(T) \in S /\ Min(T) \in Nat
    BY <1>2 DEF T
  <2>2. ASSUME NEW y \in S PROVE n - Min(T) >= y
    <3>1. y \in 0..n /\ n - y \in Nat /\ n - (n - y) = y
      OBVIOUS
    <3>2. Min(T) <= n - y
      BY <1>2, <3>1 DEF T
    <3> QED
      BY <2>1, <3>1, <3>2
  <2> QED
    BY <2>1, <2>2
<1> QED
  BY <1>3 DEF Max

-----------------------------------------------------------------------------
(* Sections by their lines: line i is in the section that starts at h *)

In(s, h, i) == /\ h \in Heads(s) /\ i \in h..Len(s)
               /\ \A j \in Heads(s) : ~(h < j /\ j <= i)
Entries(s, h) == {i \in 1..Len(s) : In(s, h, i) /\ s[i].line = "entry"}
Of(s, h, k) == {i \in Entries(s, h) : Canonical(s[i].key) = k}

LEMMA NextFacts ==
    ASSUME NEW L, NEW s \in Seq(L), NEW h \in Heads(s)
    PROVE  /\ Next1(s, h) \in (h + 1)..(Len(s) + 1)
           /\ \A i \in 1..Len(s) : In(s, h, i) <=> i \in h..(Next1(s, h) - 1)
           /\ Next1(s, h) # Len(s) + 1 => Next1(s, h) \in Heads(s)
<1> DEFINE later == {j \in Heads(s) : j > h} \cup {Len(s) + 1}
<1>1. Len(s) \in Nat /\ Heads(s) \subseteq 1..Len(s) /\ h \in 1..Len(s)
  BY DEF Heads
<1>2. later \in SUBSET Nat /\ later # {}
  BY <1>1
<1>3. Min(later) \in later /\ \A j \in later : Min(later) <= j
  BY <1>2, MinFacts
<1>4. Next1(s, h) = Min(later)
  BY DEF Next1
<1> HIDE DEF later
<1>5. Next1(s, h) \in later /\ \A j \in later : Next1(s, h) <= j
  BY <1>3, <1>4
<1>6. Next1(s, h) \in (h + 1)..(Len(s) + 1)
  BY <1>1, <1>5 DEF later
<1>7. ASSUME NEW i \in 1..Len(s) PROVE In(s, h, i) <=> i \in h..(Next1(s, h) - 1)
  BY <1>1, <1>5, <1>6 DEF later, In
<1> QED
  BY <1>5, <1>6, <1>7 DEF later

LEMMA ValuesFacts ==
    ASSUME NEW L, NEW s \in Seq(L), NEW h \in Heads(s)
    PROVE  Values(s, h) = [k \in {Canonical(s[i].key) : i \in Entries(s, h)} |->
                             Plain(s[Max(Of(s, h, k))].value)]
<1>1. {i \in h..(Next1(s, h) - 1) : s[i].line = "entry"} = Entries(s, h)
  <2>1. Len(s) \in Nat /\ h \in 1..Len(s)
    BY DEF Heads
  <2> QED
    BY <2>1, NextFacts DEF Entries
<1> QED
  BY <1>1 DEF Values, Of

-----------------------------------------------------------------------------
(* Lines that are dropped without harm: what is left is t, and g says where  *)
(* each of its lines stood.  A section goes with all its entries or stays    *)
(* with all of them.                                                         *)

Kept(t, g, i) == \E k \in 1..Len(t) : g[k] = i

Keeps(s, t, g) ==
    /\ g \in [1..Len(t) -> 1..Len(s)]
    /\ \A i, j \in 1..Len(t) : i < j => g[i] < g[j]
    /\ \A i \in 1..Len(t) : t[i] = s[g[i]]
    /\ \A h \in Heads(s) : \A i \in Entries(s, h) : Kept(t, g, i) <=> Kept(t, g, h)

LEMMA KeptHeads ==
    ASSUME NEW L, NEW s \in Seq(L), NEW t \in Seq(L), NEW g, Keeps(s, t, g)
    PROVE  /\ Heads(s) \subseteq 1..Len(s) /\ Heads(t) \subseteq 1..Len(t)
           /\ Len(s) \in Nat /\ Len(t) \in Nat
           /\ \A i \in 1..Len(t) : i \in Heads(t) <=> g[i] \in Heads(s)
           /\ \A i, j \in 1..Len(t) : i < j <=> g[i] < g[j]
           /\ \A i, j \in 1..Len(t) : i = j <=> g[i] = g[j]
<1>1. Len(s) \in Nat /\ Len(t) \in Nat
  OBVIOUS
<1>2. Heads(s) \subseteq 1..Len(s) /\ Heads(t) \subseteq 1..Len(t)
  BY DEF Heads
<1>3. \A i \in 1..Len(t) : i \in Heads(t) <=> g[i] \in Heads(s)
  BY DEF Heads, Keeps
<1>4. ASSUME NEW i \in 1..Len(t), NEW j \in 1..Len(t)
      PROVE  (i < j <=> g[i] < g[j]) /\ (i = j <=> g[i] = g[j])
  <2>1. g[i] \in 1..Len(s) /\ g[j] \in 1..Len(s) /\ (i < j => g[i] < g[j]) /\ (j < i => g[j] < g[i])
    BY DEF Keeps
  <2>2. g[i] \in Nat /\ g[j] \in Nat /\ i \in Nat /\ j \in Nat
    BY <1>1, <2>1
  <2> QED
    BY <2>1, <2>2
<1> QED
  BY <1>1, <1>2, <1>3, <1>4

LEMMA KeptLines ==
    ASSUME NEW L, NEW s \in Seq(L), NEW t \in Seq(L), NEW g, Keeps(s, t, g),
           NEW h \in Heads(t), NEW i \in 1..Len(t), t[i].line = "entry"
    PROVE  In(t, h, i) <=> In(s, g[h], g[i])
<1>1. /\ Heads(s) \subseteq 1..Len(s) /\ Heads(t) \subseteq 1..Len(t)
      /\ Len(s) \in Nat /\ Len(t) \in Nat
      /\ \A k \in 1..Len(t) : k \in Heads(t) <=> g[k] \in Heads(s)
      /\ \A k, j \in 1..Len(t) : k < j <=> g[k] < g[j]
      /\ \A k, j \in 1..Len(t) : k = j <=> g[k] = g[j]
  BY KeptHeads
<1>2. h \in 1..Len(t) /\ g[h] \in Heads(s) /\ g[i] \in 1..Len(s) /\ s[g[i]].line = "entry"
  BY <1>1 DEF Keeps
<1>3. ASSUME In(s, g[h], g[i]) PROVE In(t, h, i)
  <2>1. h <= i
    BY <1>1, <1>2, <1>3 DEF In
  <2>2. ASSUME NEW j \in Heads(t), h < j, j <= i PROVE FALSE
    <3>1. j \in 1..Len(t) /\ g[j] \in Heads(s) /\ g[h] < g[j] /\ (g[j] < g[i] \/ g[j] = g[i])
      BY <1>1, <1>2, <2>2
    <3> QED
      BY <1>1, <1>2, <1>3, <3>1 DEF In
  <2> QED
    BY <1>1, <1>2, <2>1, <2>2 DEF In
<1>4. ASSUME In(t, h, i) PROVE In(s, g[h], g[i])
  <2> DEFINE between == {j \in Heads(s) : g[h] < j /\ j <= g[i]}
  <2>1. g[h] <= g[i]
    <3>1. h < i \/ h = i
      BY <1>1, <1>2, <1>4 DEF In
    <3> QED
      BY <1>1, <1>2, <3>1
  <2>2. ASSUME between # {} PROVE FALSE
    <3>1. between \in SUBSET (0..Len(s))
      BY <1>1
    <3> HIDE DEF between
    <3>2. Max(between) \in between /\ \A y \in between : Max(between) >= y
      BY <1>1, <2>2, <3>1, MaxFacts
    <3> USE DEF between
    <3> DEFINE m == Max(between)
    <3>3. m \in Heads(s) /\ m \in 1..Len(s) /\ g[h] < m /\ m <= g[i]
      BY <1>1, <3>2
    <3>4. \A j \in Heads(s) : ~(m < j /\ j <= g[i])
      <4>1. SUFFICES ASSUME NEW j \in Heads(s), m < j, j <= g[i] PROVE FALSE
        OBVIOUS
      <4>2. j \in between
        BY <1>1, <1>2, <3>3, <4>1
      <4>3. m >= j
        BY <3>2, <4>2
      <4> QED
        BY <1>1, <3>3, <4>1, <4>3
    <3> HIDE DEF m, between
    <3>5. g[i] \in Entries(s, m)
      BY <1>1, <1>2, <3>3, <3>4 DEF In, Entries
    <3>6. Kept(t, g, g[i])
      BY DEF Kept
    <3>7. PICK k \in 1..Len(t) : g[k] = m
      BY <3>3, <3>5, <3>6 DEF Keeps, Kept
    <3>8. k \in Heads(t) /\ h < k /\ (k < i \/ k = i)
      <4>1. k \in Heads(t) /\ h < k
        BY <1>1, <1>2, <3>3, <3>7
      <4>2. m < g[i] \/ m = g[i]
        BY <1>1, <1>2, <3>3
      <4> QED
        BY <1>1, <1>2, <3>7, <4>1, <4>2
    <3> QED
      BY <1>1, <1>4, <3>8 DEF In
  <2> QED
    BY <1>1, <1>2, <2>1, <2>2 DEF In
<1> QED
  BY <1>3, <1>4

LEMMA KeptValues ==
    ASSUME NEW L, NEW s \in Seq(L), NEW t \in Seq(L), NEW g, Keeps(s, t, g),
           NEW h \in Heads(t)
    PROVE  g[h] \in Heads(s) /\ Values(t, h) = Values(s, g[h])
<1>1. /\ Heads(s) \subseteq 1..Len(s) /\ Heads(t) \subseteq 1..Len(t)
      /\ Len(s) \in Nat /\ Len(t) \in Nat
      /\ \A k \in 1..Len(t) : k \in Heads(t) <=> g[k] \in Heads(s)
      /\ \A k, j \in 1..Len(t) : k < j <=> g[k] < g[j]
      /\ \A k, j \in 1..Len(t) : k = j <=> g[k] = g[j]
  BY KeptHeads
<1>2. h \in 1..Len(t) /\ g[h] \in Heads(s)
  BY <1>1
<1>3. \A i \in 1..Len(t) : g[i] \in 1..Len(s) /\ t[i] = s[g[i]]
  BY DEF Keeps
<1>4. \A i \in 1..Len(t) : i \in Entries(t, h) <=> g[i] \in Entries(s, g[h])
  <2>1. ASSUME NEW i \in 1..Len(t), t[i].line = "entry" PROVE In(t, h, i) <=> In(s, g[h], g[i])
    BY <2>1, KeptLines
  <2> QED
    BY <1>3, <2>1 DEF Entries
<1>5. \A j \in Entries(s, g[h]) : Kept(t, g, j)
  <2>1. Kept(t, g, g[h])
    BY <1>2 DEF Kept
  <2> QED
    BY <1>2, <2>1 DEF Keeps
<1>6. {Canonical(t[i].key) : i \in Entries(t, h)} = {Canonical(s[i].key) : i \in Entries(s, g[h])}
  <2>1. ASSUME NEW i \in Entries(t, h)
        PROVE  \E j \in Entries(s, g[h]) : Canonical(t[i].key) = Canonical(s[j].key)
    BY <1>3, <1>4 DEF Entries
  <2>2. ASSUME NEW j \in Entries(s, g[h])
        PROVE  \E i \in Entries(t, h) : Canonical(t[i].key) = Canonical(s[j].key)
    BY <1>3, <1>4, <1>5 DEF Kept
  <2> QED
    BY <2>1, <2>2
<1>7. ASSUME NEW k \in {Canonical(t[i].key) : i \in Entries(t, h)}
      PROVE  t[Max(Of(t, h, k))] = s[Max(Of(s, g[h], k))]
  <2>1. /\ Of(t, h, k) \in SUBSET (0..Len(t)) /\ Of(t, h, k) # {}
        /\ Of(s, g[h], k) \in SUBSET (0..Len(s)) /\ Of(s, g[h], k) # {}
    BY <1>1, <1>6 DEF Of, Entries
  <2>2. /\ Max(Of(t, h, k)) \in Of(t, h, k) /\ \A y \in Of(t, h, k) : Max(Of(t, h, k)) >= y
        /\ Max(Of(s, g[h], k)) \in Of(s, g[h], k)
        /\ \A y \in Of(s, g[h], k) : Max(Of(s, g[h], k)) >= y
    BY <1>1, <2>1, MaxFacts
  <2> DEFINE m == Max(Of(t, h, k))
             n == Max(Of(s, g[h], k))
  <2> HIDE DEF m, n
  <2>3. m \in Of(t, h, k) /\ (\A y \in Of(t, h, k) : m >= y)
        /\ n \in Of(s, g[h], k) /\ (\A y \in Of(s, g[h], k) : n >= y)
    BY <2>2 DEF m, n
  <2>4. m \in 1..Len(t) /\ g[m] \in Of(s, g[h], k)
    BY <1>3, <1>4, <2>3 DEF Of, Entries
  <2>5. PICK i \in 1..Len(t) : g[i] = n /\ i \in Of(t, h, k)
    BY <1>3, <1>4, <1>5, <2>3 DEF Of, Kept
  <2>6. m >= i /\ n >= g[m] /\ n \in 1..Len(s) /\ g[m] \in 1..Len(s)
    BY <1>3, <2>3, <2>4, <2>5
  <2>7. ~(i < m)
    <3>1. i < m => g[i] < g[m]
      BY <1>1, <2>4, <2>5
    <3> QED
      BY <1>1, <2>5, <2>6, <3>1
  <2>8. i = m
    BY <1>1, <2>4, <2>5, <2>6, <2>7
  <2> QED
    BY <1>3, <2>4, <2>5, <2>8 DEF m, n
<1> QED
  <2> DEFINE A == {Canonical(t[i].key) : i \in Entries(t, h)}
             B == {Canonical(s[i].key) : i \in Entries(s, g[h])}
  <2>1. /\ Values(t, h) = [k \in A |-> Plain(t[Max(Of(t, h, k))].value)]
        /\ Values(s, g[h]) = [k \in B |-> Plain(s[Max(Of(s, g[h], k))].value)]
    BY <1>2, ValuesFacts
  <2>2. A = B /\ \A k \in A : t[Max(Of(t, h, k))] = s[Max(Of(s, g[h], k))]
    BY <1>6, <1>7
  <2> HIDE DEF A, B
  <2> QED
    BY <1>2, <2>1, <2>2

-----------------------------------------------------------------------------
(* What a reader makes of the lines that are left                            *)

Names(s) == {Plain(s[h].name) : h \in Heads(s)}
OneEach(s) == \A i, j \in Heads(s) : Plain(s[i].name) = Plain(s[j].name) => i = j
NoText(s) == \A i \in 1..Len(s) : s[i].line = "text" => ~\E h \in Heads(s) : h < i

LEMMA ReadableParts == \A s : Readable(s) <=> OneEach(s) /\ NoText(s)
  BY DEF Readable, OneEach, NoText

LEMMA SectionNames == \A s : DOMAIN Sections(s) = Names(s)
  BY DEF Sections, Names

LEMMA SectionAt ==
    ASSUME NEW s, OneEach(s), NEW h \in Heads(s)
    PROVE  Sections(s)[Plain(s[h].name)] = Values(s, h)
<1> DEFINE n == Plain(s[h].name)
<1>1. n \in {Plain(s[j].name) : j \in Heads(s)}
  OBVIOUS
<1>2. \A j \in Heads(s) : Plain(s[j].name) = n => j = h
  BY DEF OneEach
<1> HIDE DEF n
<1>3. (CHOOSE j \in Heads(s) : Plain(s[j].name) = n) = h
  <2>1. Plain(s[h].name) = n
    BY DEF n
  <2> QED
    BY <1>2, <2>1
<1> QED
  BY <1>1, <1>3 DEF Sections, n

LEMMA KeptSections ==
    ASSUME NEW L, NEW s \in Seq(L), NEW t \in Seq(L), NEW g, Keeps(s, t, g), OneEach(s)
    PROVE  /\ OneEach(t)
           /\ Names(t) = {Plain(s[g[h]].name) : h \in Heads(t)}
           /\ \A n \in Names(t) : n \in Names(s) /\ Sections(t)[n] = Sections(s)[n]
<1>1. \A h \in Heads(t) : /\ h \in 1..Len(t) /\ g[h] \in Heads(s) /\ t[h] = s[g[h]]
                          /\ Values(t, h) = Values(s, g[h])
  <2> SUFFICES ASSUME NEW h \in Heads(t)
               PROVE  /\ h \in 1..Len(t) /\ g[h] \in Heads(s) /\ t[h] = s[g[h]]
                      /\ Values(t, h) = Values(s, g[h])
    OBVIOUS
  <2>1. h \in 1..Len(t)
    BY KeptHeads
  <2>2. t[h] = s[g[h]]
    BY <2>1 DEF Keeps
  <2>3. g[h] \in Heads(s) /\ Values(t, h) = Values(s, g[h])
    BY KeptValues
  <2> QED
    BY <2>1, <2>2, <2>3
<1>2. \A i, j \in Heads(t) : g[i] = g[j] => i = j
  BY KeptHeads
<1>3. OneEach(t)
  BY <1>1, <1>2 DEF OneEach
<1>4. Names(t) = {Plain(s[g[h]].name) : h \in Heads(t)}
  BY <1>1 DEF Names
<1>5. ASSUME NEW n \in Names(t) PROVE n \in Names(s) /\ Sections(t)[n] = Sections(s)[n]
  <2>1. PICK h \in Heads(t) : n = Plain(t[h].name)
    BY DEF Names
  <2>2. n = Plain(s[g[h]].name) /\ g[h] \in Heads(s)
    BY <1>1, <2>1
  <2>3. Sections(t)[n] = Values(t, h) /\ Sections(s)[n] = Values(s, g[h])
    BY <1>3, <2>1, <2>2, SectionAt
  <2> QED
    BY <1>1, <2>2, <2>3 DEF Names
<1> QED
  BY <1>3, <1>4, <1>5

LEMMA KeptReadable ==
    ASSUME NEW L, NEW s \in Seq(L), NEW t \in Seq(L), NEW g, Keeps(s, t, g), Readable(s)
    PROVE  Readable(t)
<1>1. OneEach(t)
  BY ReadableParts, KeptSections
<1>2. ASSUME NEW i \in 1..Len(t), t[i].line = "text", NEW h \in Heads(t), h < i PROVE FALSE
  <2>1. h \in 1..Len(t) /\ g[h] \in Heads(s) /\ g[h] < g[i]
    BY <1>2, KeptHeads
  <2>2. g[i] \in 1..Len(s) /\ s[g[i]].line = "text"
    BY <1>2 DEF Keeps
  <2> QED
    BY <2>1, <2>2, ReadableParts DEF NoText
<1> QED
  BY <1>1, <1>2, ReadableParts DEF NoText

\* Trimmed drops blank lines only.
LEMMA TrimmedKeeps ==
    ASSUME NEW L, NEW s \in Seq(L)
    PROVE  /\ Trimmed(s) \in Seq(L)
           /\ Keeps(s, Trimmed(s), [i \in 1..Len(Trimmed(s)) |-> i])
           /\ Names(Trimmed(s)) = Names(s)
<1> DEFINE T == {0} \cup {i \in 1..Len(s) : s[i].line # "blank"}
           m == Max(T)
           t == Trimmed(s)
           g == [i \in 1..Len(t) |-> i]
<1>1. Len(s) \in Nat /\ Heads(s) \subseteq 1..Len(s)
  BY DEF Heads
<1>2. m \in T /\ \A y \in T : m >= y
  <2>1. T \in SUBSET (0..Len(s)) /\ T # {}
    BY <1>1
  <2> HIDE DEF T
  <2> QED
    BY <1>1, <2>1, MaxFacts
<1> HIDE DEF m
<1>3. m \in 0..Len(s) /\ \A i \in 1..Len(s) : s[i].line # "blank" => i <= m
  BY <1>1, <1>2
<1>4. t = SubSeq(s, 1, m)
  BY DEF Trimmed, m
<1>5. t \in Seq(L) /\ Len(t) = m /\ \A i \in 1..m : t[i] = s[i]
  BY <1>1, <1>3, <1>4
<1> HIDE DEF t
<1>6. \A h \in Heads(s) : \A i \in Entries(s, h) : h \in 1..m /\ i \in 1..m
  <2>1. \A h \in Heads(s) : h \in 1..Len(s) /\ s[h].line # "blank"
    BY DEF Heads
  <2>2. \A h \in Heads(s) : \A i \in Entries(s, h) : i \in 1..Len(s) /\ s[i].line # "blank"
    BY DEF Entries
  <2> QED
    BY <1>1, <1>3, <2>1, <2>2
<1>7. Keeps(s, t, g)
  <2>1. g \in [1..Len(t) -> 1..Len(s)]
    BY <1>1, <1>3, <1>5
  <2>2. \A h \in Heads(s) : \A i \in Entries(s, h) : Kept(t, g, i) /\ Kept(t, g, h)
    BY <1>5, <1>6 DEF Kept
  <2> QED
    BY <1>5, <2>1, <2>2 DEF Keeps
<1>8. Heads(t) = Heads(s) /\ \A h \in Heads(s) : t[h] = s[h]
  BY <1>1, <1>3, <1>5 DEF Heads
<1>9. Names(t) = Names(s)
  BY <1>8 DEF Names
<1> QED
  BY <1>5, <1>7, <1>9 DEF t

\* RemoveSection drops one header and all its entries, and nothing of another
\* section: the lines it gives back hold no entry.
LEMMA RemovedKeeps ==
    ASSUME NEW L, NEW s \in Seq(L), OneEach(s), NEW a \in Heads(s)
    PROVE  LET t == RemoveSection(s, Plain(s[a].name)) IN
           /\ t \in Seq(L)
           /\ \E g : Keeps(s, t, g)
           /\ Names(t) = Names(s) \ {Plain(s[a].name)}
<1> DEFINE name == Plain(s[a].name)
           t == RemoveSection(s, name)
           found == {h \in Heads(s) : Plain(s[h].name) = name}
           T == {i \in a..(Next1(s, a) - 1) : i = a \/ ~Skipped(s[i])}
           b == Max(T)
           head == SubSeq(s, 1, a - 1)
           rest == SubSeq(s, b + 1, Len(s))
           g == [i \in 1..Len(t) |-> IF i < a THEN i ELSE i + (b - a + 1)]
<1>1. Len(s) \in Nat /\ Heads(s) \subseteq 1..Len(s) /\ a \in 1..Len(s)
  BY DEF Heads
<1>2. found = {a}
  BY DEF OneEach
<1>3. Min(found) = a
  <2>1. {a} \in SUBSET Nat /\ {a} # {}
    BY <1>1
  <2>2. Min({a}) \in {a}
    BY <2>1, MinFacts
  <2> QED
    BY <1>2, <2>2
<1>4. /\ Next1(s, a) \in (a + 1)..(Len(s) + 1)
      /\ \A i \in 1..Len(s) : In(s, a, i) <=> i \in a..(Next1(s, a) - 1)
  BY NextFacts
<1>5. b \in T /\ \A y \in T : b >= y
  <2>1. T \in SUBSET (0..Len(s)) /\ a \in T
    BY <1>1, <1>4
  <2> HIDE DEF T
  <2> QED
    BY <1>1, <2>1, MaxFacts
<1>6. /\ t = head \o rest
  BY <1>2, <1>3 DEF RemoveSection
<1> HIDE DEF b
<1>7. /\ b \in a..(Next1(s, a) - 1) /\ b \in 1..Len(s)
      /\ \A i \in (b + 1)..(Next1(s, a) - 1) : Skipped(s[i])
  <2>1. b \in a..(Next1(s, a) - 1) /\ b \in 1..Len(s)
    BY <1>1, <1>4, <1>5
  <2>2. ASSUME NEW i \in (b + 1)..(Next1(s, a) - 1), ~Skipped(s[i]) PROVE FALSE
    <3>1. i \in T
      BY <1>1, <1>4, <2>1, <2>2
    <3>2. b >= i
      BY <1>5, <3>1
    <3> QED
      BY <1>1, <1>4, <2>1, <3>2
  <2> QED
    BY <2>1, <2>2
<1> HIDE DEF t, T, found
<1>8. /\ head \in Seq(L) /\ Len(head) = a - 1 /\ \A i \in 1..(a - 1) : head[i] = s[i]
  BY <1>1
<1>9. /\ rest \in Seq(L) /\ Len(rest) = Len(s) - b
      /\ \A i \in 1..(Len(s) - b) : rest[i] = s[b + i]
  BY <1>1, <1>7, SubSeqProperties
<1> HIDE DEF head, rest
<1>10. /\ t \in Seq(L) /\ Len(t) = Len(s) - (b - a + 1)
       /\ \A i \in 1..Len(t) : t[i] = IF i < a THEN head[i] ELSE rest[i - (a - 1)]
  <2>1. /\ t \in Seq(L) /\ Len(t) = Len(head) + Len(rest)
        /\ \A i \in 1..(Len(head) + Len(rest)) :
             t[i] = IF i <= Len(head) THEN head[i] ELSE rest[i - Len(head)]
    BY <1>6, <1>8, <1>9, ConcatProperties
  <2>2. a \in Nat /\ b \in Nat /\ Len(s) \in Nat /\ a - 1 \in Nat
    BY <1>1, <1>7
  <2>3. (a - 1) + (Len(s) - b) = Len(s) - (b - a + 1)
    BY <2>2
  <2>4. \A i \in Nat : i <= a - 1 <=> i < a
    BY <2>2
  <2> QED
    BY <1>8, <1>9, <2>1, <2>2, <2>3, <2>4
<1>11. g \in [1..Len(t) -> 1..Len(s)]
  BY <1>1, <1>7, <1>10
<1>12. ASSUME NEW i \in 1..Len(t) PROVE t[i] = s[g[i]] /\ g[i] \notin a..b
  <2>1. i \in Nat /\ i <= Len(s) - (b - a + 1)
    BY <1>1, <1>7, <1>10
  <2>2. CASE i < a
    <3>1. i \in 1..(a - 1) /\ g[i] = i
      BY <1>1, <2>1, <2>2
    <3> QED
      BY <1>1, <1>7, <1>8, <1>10, <2>2, <3>1
  <2>3. CASE ~(i < a)
    <3>1. g[i] = i + (b - a + 1) /\ i - (a - 1) \in 1..(Len(s) - b)
      BY <1>1, <1>7, <2>1, <2>3
    <3>2. b + (i - (a - 1)) = g[i] /\ g[i] \notin a..b
      BY <1>1, <1>7, <2>1, <2>3, <3>1
    <3> QED
      BY <1>9, <1>10, <2>3, <3>1, <3>2
  <2> QED
    BY <2>2, <2>3
<1>13. ASSUME NEW i \in 1..Len(s) PROVE Kept(t, g, i) <=> i \notin a..b
  <2>1. ASSUME i \notin a..b PROVE Kept(t, g, i)
    <3> DEFINE j == IF i < a THEN i ELSE i - (b - a + 1)
    <3>1. j \in 1..Len(t) /\ g[j] = i
      BY <1>1, <1>7, <1>10, <2>1
    <3> QED
      BY <3>1 DEF Kept
  <2> QED
    BY <1>12, <2>1 DEF Kept
<1>14. \A i, j \in 1..Len(t) : i < j => g[i] < g[j]
  BY <1>1, <1>7, <1>10
<1>15. \A h \in Heads(s) : h \in a..b <=> h = a
  <2>1. ASSUME NEW h \in Heads(s), h \in a..b, h # a PROVE FALSE
    <3>1. h \in 1..Len(s) /\ a < h /\ h \in a..(Next1(s, a) - 1)
      BY <1>1, <1>4, <1>7, <2>1
    <3>2. In(s, a, h)
      BY <1>4, <3>1
    <3> QED
      BY <1>1, <3>1, <3>2 DEF In
  <2> QED
    BY <1>1, <1>7, <2>1
<1>16. ASSUME NEW h \in Heads(s), NEW i \in Entries(s, h)
       PROVE  Kept(t, g, i) <=> Kept(t, g, h)
  <2>1. h \in 1..Len(s) /\ i \in 1..Len(s) /\ In(s, h, i) /\ s[i].line = "entry" /\ h <= i
    BY <1>1 DEF Entries, In
  <2>2. CASE h = a
    <3>1. i \in a..(Next1(s, a) - 1) /\ ~Skipped(s[i])
      BY <1>4, <2>1, <2>2 DEF Skipped
    <3>2. i \in a..b
      BY <1>1, <1>4, <1>7, <3>1
    <3> QED
      BY <1>13, <1>15, <2>1, <2>2, <3>2
  <2>3. CASE h < a
    <3>1. i < a
      BY <1>1, <2>1, <2>3 DEF In
    <3> QED
      BY <1>1, <1>7, <1>13, <2>1, <2>3, <3>1
  <2>4. CASE a < h
    <3>1. b < h
      BY <1>1, <1>7, <1>15, <2>1, <2>4
    <3> QED
      BY <1>1, <1>7, <1>13, <2>1, <2>4, <3>1
  <2> QED
    BY <1>1, <2>1, <2>2, <2>3, <2>4
<1> HIDE DEF g
<1>17. Keeps(s, t, g)
  BY <1>11, <1>12, <1>14, <1>16 DEF Keeps
<1>18. Names(t) = Names(s) \ {name}
  <2>1. Names(t) = {Plain(s[g[h]].name) : h \in Heads(t)}
    BY <1>10, <1>17, KeptSections
  <2>2. \A h \in Heads(t) : g[h] \in Heads(s) /\ g[h] # a
    BY <1>1, <1>7, <1>10, <1>12, <1>17, KeptHeads
  <2>3. \A h \in Heads(s) : h # a => \E k \in Heads(t) : g[k] = h
    BY <1>1, <1>10, <1>13, <1>15, <1>17, KeptHeads DEF Kept
  <2>4. \A h \in Heads(s) : Plain(s[h].name) = name <=> h = a
    BY DEF OneEach
  <2> HIDE DEF name
  <2>5. ASSUME NEW n \in Names(t) PROVE n \in Names(s) \ {name}
    BY <2>1, <2>2, <2>4 DEF Names
  <2>6. ASSUME NEW n \in Names(s) \ {name} PROVE n \in Names(t)
    <3>1. PICK h \in Heads(s) : n = Plain(s[h].name)
      BY DEF Names
    <3>2. PICK k \in Heads(t) : g[k] = h
      BY <2>3, <2>4, <3>1
    <3> QED
      BY <2>1, <3>1, <3>2
  <2> QED
    BY <2>5, <2>6
<1> QED
  BY <1>10, <1>17, <1>18 DEF t

\* The entries of a new section: each key once, in some order.
LEMMA SetToSeqFacts ==
    ASSUME NEW E, IsFiniteSet(E)
    PROVE  /\ SetToSeq(E) \in Seq(E)
           /\ \A x \in E : \E i \in 1..Len(SetToSeq(E)) : SetToSeq(E)[i] = x
           /\ \A i, j \in 1..Len(SetToSeq(E)) : SetToSeq(E)[i] = SetToSeq(E)[j] => i = j
<1> DEFINE n == Cardinality(E)
           e == SetToSeq(E)
<1>1. n \in Nat
  BY FS_CardinalityType
<1>2. \E f \in [1..n -> E] : IsInjective(f)
  <2>1. ExistsBijection(1..n, E)
    BY FS_CardinalityType
  <2> QED
    BY <2>1 DEF ExistsBijection, Bijection, Injection, IsInjective
<1>3. e \in [1..n -> E] /\ IsInjective(e)
  <2> HIDE DEF n
  <2> QED
    BY <1>2 DEF SetToSeq, n
<1> HIDE DEF n, e
<1>4. e \in Seq(E) /\ Len(e) = n
  BY <1>1, <1>3
<1>5. e \in Surjection(1..n, E)
  <2>1. e \in Injection(1..n, E)
    BY <1>3 DEF Injection, IsInjective
  <2>2. Cardinality(1..n) = n /\ Cardinality(E) = n
    BY <1>1, FS_Interval DEF n
  <2> QED
    BY <2>1, <2>2, FS_Injection
<1>6. \A x \in E : \E i \in 1..n : e[i] = x
  BY <1>5 DEF Surjection
<1>7. \A i, j \in 1..n : e[i] = e[j] => i = j
  BY <1>3 DEF IsInjective
<1> QED
  BY <1>4, <1>6, <1>7 DEF e

Section(r, name, values) ==
    /\ r \in Seq(ToSet(r)) /\ Len(r) >= 2
    /\ r[1] = Blank /\ r[2] = Header(name)
    /\ \A i \in 3..Len(r) : \E k \in DOMAIN values : r[i] = Entry(k, values[k])
    /\ \A k \in DOMAIN values : \E i \in 3..Len(r) : r[i] = Entry(k, values[k])
    /\ \A i, j \in 3..Len(r) : r[i] = r[j] => i = j

LEMMA RenderedFacts ==
    ASSUME NEW name, NEW values, IsFiniteSet(DOMAIN values)
    PROVE  Section(Rendered(name, values), name, values)
<1> DEFINE D == DOMAIN values
           E == {Entry(k, values[k]) : k \in D}
           e == SetToSeq(E)
           r == Rendered(name, values)
           first == <<Blank, Header(name)>>
<1>1. IsFiniteSet(E)
  <2> DEFINE f == [k \in D |-> Entry(k, values[k])]
  <2>1. f \in Surjection(D, E)
    BY DEF Surjection
  <2> QED
    BY <2>1, FS_Surjection
<1> HIDE DEF E
<1>2. /\ e \in Seq(E)
      /\ \A x \in E : \E i \in 1..Len(e) : e[i] = x
      /\ \A i, j \in 1..Len(e) : e[i] = e[j] => i = j
  BY <1>1, SetToSeqFacts
<1>3. r = first \o e
  BY DEF Rendered, E
<1> HIDE DEF e, r
<1>4. /\ first \in Seq({Blank, Header(name)}) /\ Len(first) = 2
      /\ first[1] = Blank /\ first[2] = Header(name)
  OBVIOUS
<1> HIDE DEF first
<1>5. /\ r \in Seq({Blank, Header(name)} \cup E) /\ Len(r) = 2 + Len(e)
      /\ \A i \in 1..(2 + Len(e)) : r[i] = IF i <= 2 THEN first[i] ELSE e[i - 2]
  <2>1. first \in Seq({Blank, Header(name)} \cup E) /\ e \in Seq({Blank, Header(name)} \cup E)
    BY <1>2, <1>4, SeqMonotonic
  <2> DEFINE M == {Blank, Header(name)} \cup E
  <2> HIDE DEF M
  <2>2. first \in Seq(M) /\ e \in Seq(M)
    BY <2>1 DEF M
  <2>3. /\ r \in Seq(M) /\ Len(r) = Len(first) + Len(e)
        /\ \A i \in 1..(Len(first) + Len(e)) :
             r[i] = IF i <= Len(first) THEN first[i] ELSE e[i - Len(first)]
    BY <1>3, <2>2, ConcatProperties
  <2> QED
    BY <1>4, <2>3 DEF M
<1>6. Len(e) \in Nat /\ Len(r) >= 2
  BY <1>2, <1>5
<1>7. r[1] = Blank /\ r[2] = Header(name)
  BY <1>4, <1>5, <1>6
<1>8. \A i \in 3..Len(r) : i - 2 \in 1..Len(e) /\ r[i] = e[i - 2]
  BY <1>5, <1>6
<1>9. \A i \in 3..Len(r) : \E k \in D : r[i] = Entry(k, values[k])
  <2>1. \A j \in 1..Len(e) : e[j] \in E
    BY <1>2
  <2> QED
    BY <1>8, <2>1 DEF E
<1>10. \A k \in D : \E i \in 3..Len(r) : r[i] = Entry(k, values[k])
  <2> SUFFICES ASSUME NEW k \in D PROVE \E i \in 3..Len(r) : r[i] = Entry(k, values[k])
    OBVIOUS
  <2>1. PICK j \in 1..Len(e) : e[j] = Entry(k, values[k])
    BY <1>2 DEF E
  <2>2. j + 2 \in 3..Len(r) /\ r[j + 2] = e[j]
    <3>1. j + 2 \in 3..Len(r) /\ (j + 2) - 2 = j
      BY <1>5, <1>6
    <3> QED
      BY <1>8, <3>1
  <2> QED
    BY <2>1, <2>2
<1>11. \A i, j \in 3..Len(r) : r[i] = r[j] => i = j
  <2> SUFFICES ASSUME NEW i \in 3..Len(r), NEW j \in 3..Len(r), r[i] = r[j] PROVE i = j
    OBVIOUS
  <2>1. i - 2 = j - 2
    <3>1. i - 2 \in 1..Len(e) /\ r[i] = e[i - 2]
      BY <1>8
    <3>2. j - 2 \in 1..Len(e) /\ r[j] = e[j - 2]
      BY <1>8
    <3>3. e[i - 2] = e[j - 2]
      BY <3>1, <3>2
    <3> QED
      BY <1>2, <3>1, <3>2, <3>3
  <2> QED
    BY <1>5, <1>6, <2>1
<1>12. r \in Seq(ToSet(r))
  BY <1>5, <1>6 DEF ToSet
<1>13. Section(r, name, values)
  BY <1>6, <1>7, <1>9, <1>10, <1>11, <1>12 DEF Section
<1> QED
  BY <1>13 DEF r

\* Values a client may write so that they are read back as they are.
Faithful(name, values) ==
    /\ name = Plain(name)
    /\ IsFiniteSet(DOMAIN values) /\ values = [k \in DOMAIN values |-> values[k]]
    /\ \A k \in DOMAIN values : Canonical(k) = k /\ Plain(values[k]) = values[k]

LEMMA LineFacts ==
    /\ Blank.line = "blank"
    /\ \A n : Header(n).line = "head" /\ Header(n).name = n
    /\ \A k, v : Entry(k, v).line = "entry" /\ Entry(k, v).key = k /\ Entry(k, v).value = v
  BY DEF Blank, Header, Entry

\* The lines of u and the new ones behind them.
LEMMA AppendedLines ==
    ASSUME NEW L, NEW u \in Seq(L), NEW name, NEW values, IsFiniteSet(DOMAIN values)
    PROVE  LET t == u \o Rendered(name, values)
               m == Len(u) IN
           /\ t \in Seq(ToSet(t)) /\ m \in Nat /\ Len(t) \in Nat /\ Len(t) >= m + 2
           /\ \A i \in 1..m : t[i] = u[i]
           /\ t[m + 1] = Blank /\ t[m + 2] = Header(name)
           /\ \A i \in (m + 3)..Len(t) : \E k \in DOMAIN values : t[i] = Entry(k, values[k])
           /\ \A k \in DOMAIN values : \E i \in (m + 3)..Len(t) : t[i] = Entry(k, values[k])
           /\ \A i, j \in (m + 3)..Len(t) : t[i] = t[j] => i = j
           /\ Heads(t) = Heads(u) \cup {m + 2}
<1> DEFINE r == Rendered(name, values)
           t == u \o r
           m == Len(u)
           R == ToSet(r)
           D == DOMAIN values
<1>1. /\ r \in Seq(R) /\ Len(r) >= 2
      /\ r[1] = Blank /\ r[2] = Header(name)
      /\ \A i \in 3..Len(r) : \E k \in D : r[i] = Entry(k, values[k])
      /\ \A k \in D : \E i \in 3..Len(r) : r[i] = Entry(k, values[k])
      /\ \A i, j \in 3..Len(r) : r[i] = r[j] => i = j
  <2>1. Section(r, name, values)
    BY RenderedFacts
  <2> HIDE DEF r
  <2> QED
    BY <2>1 DEF Section
<1> HIDE DEF r, R, D
<1>2. /\ t \in Seq(L \cup R) /\ Len(t) = m + Len(r)
      /\ \A i \in 1..(m + Len(r)) : t[i] = IF i <= m THEN u[i] ELSE r[i - m]
  <2> DEFINE M == L \cup R
  <2>1. u \in Seq(M) /\ r \in Seq(M)
    BY <1>1, SeqMonotonic
  <2> HIDE DEF M
  <2>2. t \in Seq(M) /\ Len(t) = m + Len(r)
        /\ \A i \in 1..(m + Len(r)) : t[i] = IF i <= m THEN u[i] ELSE r[i - m]
    BY <2>1, ConcatProperties
  <2> QED
    BY <2>2 DEF M
<1>3. m \in Nat /\ Len(r) \in Nat
  BY <1>1
<1> HIDE DEF t, m
<1>4. Len(t) \in Nat /\ Len(t) >= m + 2 /\ \A i \in 1..m : t[i] = u[i]
  BY <1>1, <1>2, <1>3
<1>5. \A i \in 1..Len(r) : m + i \in 1..Len(t) /\ t[m + i] = r[i]
  <2> SUFFICES ASSUME NEW i \in 1..Len(r) PROVE m + i \in 1..Len(t) /\ t[m + i] = r[i]
    OBVIOUS
  <2>1. m + i \in 1..(m + Len(r)) /\ ~(m + i <= m) /\ (m + i) - m = i
    BY <1>3
  <2> QED
    BY <1>2, <2>1
<1>6. t[m + 1] = Blank /\ t[m + 2] = Header(name)
  <2>1. 1 \in 1..Len(r) /\ 2 \in 1..Len(r)
    BY <1>1, <1>3
  <2> QED
    BY <1>1, <1>5, <2>1
<1>7. \A i \in (m + 3)..Len(t) : i - m \in 3..Len(r) /\ t[i] = r[i - m]
  <2> SUFFICES ASSUME NEW i \in (m + 3)..Len(t) PROVE i - m \in 3..Len(r) /\ t[i] = r[i - m]
    OBVIOUS
  <2>1. i - m \in 3..Len(r) /\ i \in 1..(m + Len(r)) /\ ~(i <= m)
    BY <1>2, <1>3
  <2> QED
    BY <1>2, <2>1
<1>8. \A i \in (m + 3)..Len(t) : \E k \in D : t[i] = Entry(k, values[k])
  BY <1>1, <1>7
<1>9. \A k \in D : \E i \in (m + 3)..Len(t) : t[i] = Entry(k, values[k])
  <2> SUFFICES ASSUME NEW k \in D PROVE \E i \in (m + 3)..Len(t) : t[i] = Entry(k, values[k])
    OBVIOUS
  <2>1. PICK i \in 3..Len(r) : r[i] = Entry(k, values[k])
    BY <1>1
  <2>2. i \in 1..Len(r) /\ m + i \in (m + 3)..Len(t)
    BY <1>2, <1>3
  <2> QED
    BY <1>5, <2>1, <2>2
<1>10. \A i, j \in (m + 3)..Len(t) : t[i] = t[j] => i = j
  <2> SUFFICES ASSUME NEW i \in (m + 3)..Len(t), NEW j \in (m + 3)..Len(t), t[i] = t[j] PROVE i = j
    OBVIOUS
  <2>1. i - m = j - m
    BY <1>1, <1>7
  <2> QED
    BY <1>3, <1>4, <2>1
<1>11. Heads(t) = Heads(u) \cup {m + 2}
  <2>1. \A i \in 1..m : i \in Heads(t) <=> i \in Heads(u)
    BY <1>3, <1>4 DEF Heads, m
  <2>2. m + 1 \notin Heads(t) /\ m + 2 \in Heads(t)
    BY <1>3, <1>4, <1>6, LineFacts DEF Heads
  <2>3. \A i \in (m + 3)..Len(t) : i \notin Heads(t)
    <3>1. \A i \in (m + 3)..Len(t) : t[i].line = "entry"
      BY <1>8, LineFacts
    <3> QED
      BY <3>1 DEF Heads
  <2>4. \A i \in 1..Len(t) : i \in 1..m \/ i = m + 1 \/ i = m + 2 \/ i \in (m + 3)..Len(t)
    BY <1>3, <1>4
  <2>5. Heads(t) \subseteq 1..Len(t) /\ Heads(u) \subseteq 1..m
    BY DEF Heads, m
  <2> QED
    BY <2>1, <2>2, <2>3, <2>4, <2>5
<1>12. t \in Seq(ToSet(t))
  BY <1>2, <1>4 DEF ToSet
<1> QED
  BY <1>3, <1>4, <1>6, <1>8, <1>9, <1>10, <1>11, <1>12 DEF t, m, r, D

LEMMA AppendedSection ==
    ASSUME NEW L, NEW u \in Seq(L), Readable(u),
           NEW name, NEW values, Faithful(name, values), name \notin Names(u)
    PROVE  LET t == u \o Rendered(name, values) IN
           /\ t \in Seq(ToSet(t)) /\ Readable(t)
           /\ Names(t) = Names(u) \cup {name}
           /\ \A n \in Names(u) : Sections(t)[n] = Sections(u)[n]
           /\ Sections(t)[name] = values
<1> DEFINE t == u \o Rendered(name, values)
           m == Len(u)
           D == DOMAIN values
           h == m + 2
           g == [i \in 1..m |-> i]
<1>1. /\ t \in Seq(ToSet(t)) /\ m \in Nat /\ Len(t) \in Nat /\ Len(t) >= m + 2
      /\ \A i \in 1..m : t[i] = u[i]
      /\ t[m + 1] = Blank /\ t[m + 2] = Header(name)
      /\ \A i \in (m + 3)..Len(t) : \E k \in D : t[i] = Entry(k, values[k])
      /\ \A k \in D : \E i \in (m + 3)..Len(t) : t[i] = Entry(k, values[k])
      /\ \A i, j \in (m + 3)..Len(t) : t[i] = t[j] => i = j
      /\ Heads(t) = Heads(u) \cup {m + 2}
  BY AppendedLines DEF Faithful
<1> HIDE DEF t, D
<1>12. \A i \in (m + 3)..Len(t) : t[i].line = "entry"
  BY <1>1, LineFacts
<1>2. Heads(u) \subseteq 1..m /\ h \in Heads(t) /\ Plain(t[h].name) = name /\ h \in Nat
  BY <1>1, LineFacts DEF Heads, Faithful
<1>3. OneEach(t)
  <2>1. \A i \in Heads(u) : Plain(t[i].name) = Plain(u[i].name) /\ Plain(t[i].name) # name
    BY <1>1, <1>2 DEF Names
  <2>2. OneEach(u)
    BY ReadableParts
  <2> QED
    BY <1>1, <1>2, <2>1, <2>2 DEF OneEach
<1>4. NoText(t)
  <2> SUFFICES ASSUME NEW i \in 1..Len(t), t[i].line = "text", NEW j \in Heads(t), j < i PROVE FALSE
    BY DEF NoText
  <2>1. i \in 1..m
    <3>1. i # m + 1 /\ i # m + 2 /\ i \notin (m + 3)..Len(t)
      BY <1>1, <1>12, LineFacts
    <3> QED
      BY <1>1, <3>1
  <2>2. j \in Heads(u)
    BY <1>1, <2>1
  <2> QED
    BY <1>1, <2>1, <2>2, ReadableParts DEF NoText
<1>5. \A i \in 1..Len(t) : Kept(u, g, i) <=> i <= m
  BY <1>1 DEF Kept
<1>6. ASSUME NEW j \in Heads(t), NEW i \in Entries(t, j) PROVE i <= m <=> j <= m
  <2>1. i \in 1..Len(t) /\ j <= i /\ t[i].line = "entry" /\ j \in Nat
        /\ \A k \in Heads(t) : ~(j < k /\ k <= i)
    BY <1>1, <1>2 DEF Entries, In
  <2>2. i # m + 1 /\ i # m + 2
    BY <1>1, <2>1, LineFacts
  <2>3. ~(j < h /\ h <= i)
    BY <1>2, <2>1
  <2> QED
    BY <1>1, <2>1, <2>2, <2>3
<1>7. Keeps(t, u, g)
  <2>1. g \in [1..Len(u) -> 1..Len(t)]
    BY <1>1
  <2>2. \A j \in Heads(t) : \A i \in Entries(t, j) : Kept(u, g, i) <=> Kept(u, g, j)
    <3>1. \A j \in Heads(t) : j \in 1..Len(t)
      BY <1>1, <1>2
    <3>2. \A j \in Heads(t) : \A i \in Entries(t, j) : i \in 1..Len(t)
      BY DEF Entries
    <3> QED
      BY <1>5, <1>6, <3>1, <3>2
  <2>3. \A i \in 1..Len(u) : u[i] = t[g[i]]
    BY <1>1
  <2> QED
    BY <2>1, <2>2, <2>3 DEF Keeps
<1>8. \A n \in Names(u) : n \in Names(t) /\ Sections(t)[n] = Sections(u)[n]
  <2>1. u \in Seq(L \cup ToSet(t)) /\ t \in Seq(L \cup ToSet(t))
    BY <1>1, SeqMonotonic
  <2> DEFINE M == L \cup ToSet(t)
  <2> HIDE DEF M
  <2>2. u \in Seq(M) /\ t \in Seq(M)
    BY <2>1 DEF M
  <2> HIDE DEF g
  <2> QED
    BY <1>3, <1>7, <2>2, KeptSections
<1>9. Names(t) = Names(u) \cup {name}
  <2>1. \A j \in Heads(u) : j \in 1..m /\ t[j] = u[j]
    BY <1>1, <1>2
  <2>2. ASSUME NEW n \in Names(t) PROVE n \in Names(u) \cup {name}
    <3>1. PICK j \in Heads(t) : n = Plain(t[j].name)
      BY DEF Names
    <3> QED
      BY <1>1, <1>2, <2>1, <3>1 DEF Names
  <2>3. name \in Names(t)
    BY <1>2 DEF Names
  <2> QED
    BY <1>8, <2>2, <2>3
<1>10. Values(t, h) = values
  <2>1. Entries(t, h) = (m + 3)..Len(t)
    <3>1. ASSUME NEW i \in Entries(t, h) PROVE i \in (m + 3)..Len(t)
      <4>1. i \in 1..Len(t) /\ h <= i /\ t[i].line = "entry"
        BY <1>1 DEF Entries, In
      <4>2. i # m + 2
        BY <1>1, <4>1, LineFacts
      <4> QED
        BY <1>1, <4>1, <4>2
    <3>2. ASSUME NEW i \in (m + 3)..Len(t) PROVE i \in Entries(t, h)
      <4>1. i \in 1..Len(t) /\ i \in h..Len(t) /\ t[i].line = "entry"
        BY <1>1, <1>12
      <4>2. \A k \in Heads(t) : ~(h < k)
        BY <1>1, <1>2
      <4> QED
        BY <1>2, <4>1, <4>2 DEF Entries, In
    <3> QED
      BY <3>1, <3>2
  <2>2. \A k \in D : Canonical(k) = k /\ Plain(values[k]) = values[k]
    BY DEF Faithful, D
  <2>3. {Canonical(t[i].key) : i \in Entries(t, h)} = D
    <3>1. \A i \in (m + 3)..Len(t) : Canonical(t[i].key) \in D
      BY <1>1, <2>2, LineFacts
    <3>2. \A k \in D : \E i \in (m + 3)..Len(t) : Canonical(t[i].key) = k
      BY <1>1, <2>2, LineFacts
    <3> QED
      BY <2>1, <3>1, <3>2
  <2>4. ASSUME NEW k \in D PROVE Plain(t[Max(Of(t, h, k))].value) = values[k]
    <3>1. PICK i \in (m + 3)..Len(t) : t[i] = Entry(k, values[k])
      BY <1>1
    <3>2. i \in Of(t, h, k)
      BY <2>1, <2>2, <3>1, LineFacts DEF Of
    <3>3. \A j \in Of(t, h, k) : j = i
      <4> SUFFICES ASSUME NEW j \in Of(t, h, k) PROVE j = i
        OBVIOUS
      <4>1. j \in (m + 3)..Len(t) /\ Canonical(t[j].key) = k
        BY <2>1 DEF Of
      <4>2. PICK l \in D : t[j] = Entry(l, values[l])
        BY <1>1, <4>1
      <4>3. l = k
        BY <2>2, <4>1, <4>2, LineFacts
      <4> QED
        BY <1>1, <3>1, <4>1, <4>2, <4>3
    <3>4. Of(t, h, k) \in SUBSET (0..Len(t)) /\ Of(t, h, k) # {}
      <4>1. Of(t, h, k) \subseteq (m + 3)..Len(t)
        BY <2>1 DEF Of
      <4> QED
        BY <1>1, <3>2, <4>1
    <3>5. Max(Of(t, h, k)) \in Of(t, h, k)
      BY <1>1, <3>4, MaxFacts
    <3>6. Max(Of(t, h, k)) = i
      BY <3>3, <3>5
    <3> QED
      BY <2>2, <3>1, <3>6, LineFacts
  <2>5. Values(t, h) = [k \in {Canonical(t[i].key) : i \in Entries(t, h)} |->
                          Plain(t[Max(Of(t, h, k))].value)]
    BY <1>1, <1>2, ValuesFacts
  <2>6. Values(t, h) = [k \in D |-> values[k]]
    BY <2>3, <2>4, <2>5
  <2> QED
    BY <2>6 DEF Faithful, D
<1>11. Sections(t)[name] = values
  BY <1>2, <1>3, <1>10, SectionAt
<1> QED
  BY <1>1, <1>3, <1>4, <1>8, <1>9, <1>11, ReadableParts DEF t

\* The text left when a section is dropped and the end trimmed.
Rest(s, name) == Trimmed(IF name \in DOMAIN Sections(s) THEN RemoveSection(s, name) ELSE s)

LEMMA TrimmedSections ==
    ASSUME NEW L, NEW s \in Seq(L), Readable(s)
    PROVE  /\ Trimmed(s) \in Seq(L) /\ Readable(Trimmed(s)) /\ Names(Trimmed(s)) = Names(s)
           /\ \A n \in Names(s) : Sections(Trimmed(s))[n] = Sections(s)[n]
<1> DEFINE t == Trimmed(s)
           g == [i \in 1..Len(t) |-> i]
<1>1. t \in Seq(L) /\ Keeps(s, t, g) /\ Names(t) = Names(s)
  BY TrimmedKeeps
<1> HIDE DEF t, g
<1>2. Readable(t) /\ \A n \in Names(t) : Sections(t)[n] = Sections(s)[n]
  BY <1>1, KeptReadable, KeptSections, ReadableParts
<1> QED
  BY <1>1, <1>2 DEF t

LEMMA RestFacts ==
    ASSUME NEW L, NEW s \in Seq(L), Readable(s), NEW name
    PROVE  LET u == Rest(s, name) IN
           /\ u \in Seq(L) /\ Readable(u) /\ Names(u) = Names(s) \ {name}
           /\ \A n \in Names(u) : Sections(u)[n] = Sections(s)[n]
<1>1. CASE name \notin Names(s)
  <2>1. Rest(s, name) = Trimmed(s)
    BY <1>1, SectionNames DEF Rest
  <2> QED
    BY <1>1, <2>1, TrimmedSections
<1>2. CASE name \in Names(s)
  <2> DEFINE t == RemoveSection(s, name)
  <2>1. Rest(s, name) = Trimmed(t)
    BY <1>2, SectionNames DEF Rest
  <2>2. PICK a \in Heads(s) : name = Plain(s[a].name)
    BY <1>2 DEF Names
  <2>3. OneEach(s)
    BY ReadableParts
  <2>4. /\ t \in Seq(L) /\ Names(t) = Names(s) \ {name}
        /\ \E g : Keeps(s, t, g)
    BY <2>2, <2>3, RemovedKeeps
  <2> HIDE DEF t
  <2>5. Readable(t) /\ \A n \in Names(t) : Sections(t)[n] = Sections(s)[n]
    BY <2>3, <2>4, KeptReadable, KeptSections
  <2> QED
    BY <2>1, <2>4, <2>5, TrimmedSections
<1> QED
  BY <1>1, <1>2

LEMMA SectionsForm == \A s : Sections(s) = [n \in Names(s) |-> Sections(s)[n]]
  BY DEF Sections, Names

\* Put: the section is there with exactly these values, the others are as they
\* were.
LEMMA PutFacts ==
    ASSUME NEW s, s \in Seq(ToSet(s)), Readable(s), NEW name, NEW values, Faithful(name, values)
    PROVE  LET t == PutSection(s, name, values) IN
           /\ t \in Seq(ToSet(t)) /\ Readable(t)
           /\ Sections(t) = With(Sections(s), name, values)
<1> DEFINE L == ToSet(s)
           u == Rest(s, name)
           t == PutSection(s, name, values)
<1>1. t = u \o Rendered(name, values)
  BY DEF PutSection, Rest
<1> HIDE DEF L, u, t
<1>2. /\ u \in Seq(L) /\ Readable(u) /\ Names(u) = Names(s) \ {name}
      /\ \A n \in Names(u) : Sections(u)[n] = Sections(s)[n]
  BY RestFacts DEF L, u
<1>3. /\ t \in Seq(ToSet(t)) /\ Readable(t)
      /\ Names(t) = Names(u) \cup {name}
      /\ \A n \in Names(u) : Sections(t)[n] = Sections(u)[n]
      /\ Sections(t)[name] = values
  BY <1>1, <1>2, AppendedSection
<1>4. Names(t) = DOMAIN Sections(s) \cup {name}
  BY <1>2, <1>3, SectionNames
<1>5. \A n \in Names(t) : Sections(t)[n] = IF n = name THEN values ELSE Sections(s)[n]
  BY <1>2, <1>3
<1>6. Sections(t) = [n \in DOMAIN Sections(s) \cup {name} |->
                       IF n = name THEN values ELSE Sections(s)[n]]
  <2>1. Sections(t) = [n \in Names(t) |-> Sections(t)[n]]
    BY SectionsForm
  <2> QED
    BY <1>4, <1>5, <2>1
<1> QED
  BY <1>3, <1>6 DEF With, t

\* Delete: the section is gone, the others are as they were.
LEMMA DeleteFacts ==
    ASSUME NEW s, s \in Seq(ToSet(s)), Readable(s), NEW name \in DOMAIN Sections(s)
    PROVE  LET t == DeleteSection(s, name) IN
           /\ t \in Seq(ToSet(t)) /\ Readable(t)
           /\ Sections(t) = Restrict(Sections(s), DOMAIN Sections(s) \ {name})
<1> DEFINE L == ToSet(s)
           t == DeleteSection(s, name)
<1>1. t = Rest(s, name)
  BY DEF DeleteSection, Rest
<1> HIDE DEF L, t
<1>2. /\ t \in Seq(L) /\ Readable(t) /\ Names(t) = Names(s) \ {name}
      /\ \A n \in Names(t) : Sections(t)[n] = Sections(s)[n]
  BY <1>1, RestFacts DEF L
<1>3. t \in Seq(ToSet(t))
  BY <1>2 DEF ToSet
<1>4. Sections(t) = [n \in Names(t) |-> Sections(t)[n]]
  BY SectionsForm
<1> QED
  BY <1>2, <1>3, <1>4, SectionNames DEF Restrict, t

-----------------------------------------------------------------------------
(* config.yaml: what each edit does to what a reader gets.  A document with  *)
(* an empty key keeps it.                                                    *)

Edits(d, e, ask) ==
    /\ Document(e)
    /\ HasNull(d) => HasNull(e)
    /\ ~HasNull(d) => Settings(e) = Asked(ask, Settings(d))

LEMMA SettingsFields ==
    ASSUME NEW d
    PROVE  /\ Settings(d) = [services |-> Settings(d).services, auto |-> Settings(d).auto,
                             preset |-> Settings(d).preset, exe |-> Settings(d).exe]
           /\ Settings(d).services = IF d.services.node = "seq" THEN d.services.items
                                     ELSE DefaultServices
           /\ Settings(d).auto = IF d.router = "map" THEN d.auto.items ELSE <<>>
           /\ Settings(d).preset = IF d.router = "map" /\ d.preset # "absent" THEN d.preset ELSE ""
           /\ Settings(d).exe = IF d.router = "map" /\ d.exe \notin {"absent", ""} THEN d.exe
                                ELSE DefaultExe
  BY DEF Settings, Autostart

LEMMA AskedFields ==
    ASSUME NEW ask, NEW w, w = [services |-> w.services, auto |-> w.auto,
                                preset |-> w.preset, exe |-> w.exe]
    PROVE  /\ ask.do = "enable" => Asked(ask, w) =
                [services |-> w.services,
                 auto |-> IF ask.name \in ToSet(w.auto) THEN w.auto
                          ELSE Append(w.auto, ask.name),
                 preset |-> w.preset, exe |-> w.exe]
           /\ ask.do = "disable" => Asked(ask, w) =
                [services |-> w.services, auto |-> Without(w.auto, {ask.name}),
                 preset |-> w.preset, exe |-> w.exe]
           /\ ask.do = "forget" => Asked(ask, w) =
                [services |-> w.services, auto |-> Without(w.auto, {ask.name}),
                 preset |-> IF w.preset = ask.name THEN "" ELSE w.preset, exe |-> w.exe]
           /\ ask.do = "services" => Asked(ask, w) =
                [services |-> ask.list, auto |-> w.auto, preset |-> w.preset, exe |-> w.exe]
           /\ ask.do = "install" => Asked(ask, w) =
                [services |-> w.services, auto |-> w.auto, preset |-> w.preset,
                 exe |-> IF w.exe \in {DefaultExe, OldExe} THEN Exe ELSE w.exe]
<1>1. CASE ask.do = "enable"
  BY <1>1 DEF Asked
<1>2. CASE ask.do = "disable"
  BY <1>2 DEF Asked
<1>3. CASE ask.do = "forget"
  BY <1>3 DEF Asked
<1>4. CASE ask.do = "services"
  BY <1>4 DEF Asked
<1>5. CASE ask.do = "install"
  BY <1>5 DEF Asked
<1> QED
  BY <1>1, <1>2, <1>3, <1>4, <1>5

LEMMA WithoutNone ==
    ASSUME NEW gone
    PROVE  Without(<<>>, gone) = <<>>
  BY DEF Without, ToSet

\* Two settings are the same when their fields are.
LEMMA SettingsAre ==
    ASSUME NEW e, NEW a, NEW b, NEW c, NEW x,
           Settings(e).services = a, Settings(e).auto = b,
           Settings(e).preset = c, Settings(e).exe = x
    PROVE  Settings(e) = [services |-> a, auto |-> b, preset |-> c, exe |-> x]
  BY SettingsFields

LEMMA RouterMapFields ==
    ASSUME NEW d, Document(d)
    PROVE  RouterMap(d) = [services |-> d.services,
                           router |-> IF d.router = "absent" THEN "map" ELSE d.router,
                           auto |-> d.auto, max |-> d.max, preset |-> d.preset, exe |-> d.exe]
<1>1. CASE d.router = "absent"
  BY <1>1 DEF RouterMap, Document
<1>2. CASE d.router # "absent"
  BY <1>2 DEF RouterMap, Document
<1> QED
  BY <1>1, <1>2

LEMMA AppendNameEdits ==
    ASSUME NEW d, Document(d), NEW name
    PROVE  Edits(d, AppendName(d, name), Change("enable", name))
<1> DEFINE e == AppendName(d, name)
           ask == Change("enable", name)
           r == RouterMap(d)
           more == Append(d.auto.items, name)
<1> HIDE DEF e, ask, r, more
<1>1. ask.do = "enable" /\ ask.name = name
  BY DEF Change, ask
<1>2. r = [services |-> d.services, router |-> IF d.router = "absent" THEN "map" ELSE d.router,
           auto |-> d.auto, max |-> d.max, preset |-> d.preset, exe |-> d.exe]
  BY RouterMapFields DEF r
<1>3. Edits(d, e, ask)
  <2>1. CASE r.router # "map" \/ r.auto.node = "null"
    <3>1. e = d
      BY <2>1 DEF AppendName, r, e
    <3>2. HasNull(d)
      BY <1>2, <2>1 DEF HasNull, Document
    <3> QED
      BY <3>1, <3>2 DEF Edits
  <2>2. CASE r.router = "map" /\ r.auto.node # "null" /\ name \in ToSet(r.auto.items)
    <3>1. e = d
      BY <2>2 DEF AppendName, r, e
    <3>2. d.router = "map"
      BY <1>2, <2>2 DEF Document, ToSet
    <3>3. Settings(d).auto = d.auto.items /\ name \in ToSet(d.auto.items)
      BY <1>2, <2>2, <3>2, SettingsFields
    <3>4. Asked(ask, Settings(d)) = [services |-> Settings(d).services, auto |-> Settings(d).auto,
                                     preset |-> Settings(d).preset, exe |-> Settings(d).exe]
      BY <1>1, <3>3, SettingsFields, AskedFields
    <3>5. Settings(d) = Asked(ask, Settings(d))
      BY <3>4, SettingsFields
    <3> QED
      BY <3>1, <3>5 DEF Edits
  <2>3. CASE r.router = "map" /\ r.auto.node # "null" /\ name \notin ToSet(r.auto.items)
    <3>1. e = [r EXCEPT !.auto = List(Append(@.items, name))]
      BY <2>3 DEF AppendName, r, e
    <3>2. e = [services |-> d.services, router |-> "map", auto |-> List(more),
               max |-> d.max, preset |-> d.preset, exe |-> d.exe]
      BY <1>2, <2>3, <3>1 DEF more
    <3>3. e.services = d.services /\ e.router = "map" /\ e.auto = List(more)
          /\ e.preset = d.preset /\ e.exe = d.exe
      BY <3>2
    <3>4. List(more) = [node |-> "seq", items |-> more]
      BY DEF List
    <3>5. e.auto.node = "seq" /\ e.auto.items = more
      BY <3>3, <3>4
    <3>6. Document(e)
      BY <3>2, <3>3, <3>4, <3>5 DEF Document
    <3>8. HasNull(d) => HasNull(e)
      BY <1>2, <2>3, <3>3, <3>5 DEF HasNull, Document
    <3>9. Settings(e).services = Settings(d).services
      BY <3>3, SettingsFields
    <3>10. d.router \in {"absent", "map"}
      BY <1>2, <2>3
    <3>11. Settings(e).preset = Settings(d).preset /\ Settings(e).exe = Settings(d).exe
      BY <3>3, <3>10, SettingsFields DEF Document
    <3>12. Settings(d).auto = d.auto.items
      BY <3>10, SettingsFields DEF Document
    <3>13. Settings(e).auto = more
      BY <3>3, <3>5, SettingsFields
    <3>14. d.auto = r.auto
      BY <1>2
    <3>15. Asked(ask, Settings(d)) = [services |-> Settings(d).services, auto |-> more,
                                     preset |-> Settings(d).preset, exe |-> Settings(d).exe]
      <4>1. Asked(ask, Settings(d)) =
              [services |-> Settings(d).services,
               auto |-> IF ask.name \in ToSet(Settings(d).auto) THEN Settings(d).auto
                        ELSE Append(Settings(d).auto, ask.name),
               preset |-> Settings(d).preset, exe |-> Settings(d).exe]
        BY <1>1, SettingsFields, AskedFields
      <4>2. ask.name \notin ToSet(Settings(d).auto)
        BY <1>1, <2>3, <3>12, <3>14
      <4>3. Append(Settings(d).auto, ask.name) = more
        BY <1>1, <3>12 DEF more
      <4> QED
        BY <4>1, <4>2, <4>3
    <3>16. Settings(e) = Asked(ask, Settings(d))
      BY <3>9, <3>11, <3>13, <3>15, SettingsAre
    <3> QED
      BY <3>6, <3>8, <3>16 DEF Edits
  <2> QED
    BY <2>1, <2>2, <2>3
<1> QED
  BY <1>3 DEF e, ask


LEMMA RemoveNamesFields ==
    ASSUME NEW d, Document(d), NEW gone
    PROVE  RemoveNames(d, gone) =
             [services |-> d.services, router |-> d.router,
              auto |-> IF d.router = "map"
                       THEN [node |-> d.auto.node, items |-> Without(d.auto.items, gone)]
                       ELSE d.auto,
              max |-> d.max, preset |-> d.preset, exe |-> d.exe]
<1>1. CASE d.router = "map"
  <2>1. RemoveNames(d, gone) = [d EXCEPT !.auto.items = Without(@, gone)]
    BY <1>1 DEF RemoveNames
  <2>2. d.auto = [node |-> d.auto.node, items |-> d.auto.items]
    BY DEF Document
  <2>3. [d.auto EXCEPT !.items = Without(@, gone)]
          = [node |-> d.auto.node, items |-> Without(d.auto.items, gone)]
    BY <2>2
  <2>4. d = [services |-> d.services, router |-> d.router, auto |-> d.auto,
             max |-> d.max, preset |-> d.preset, exe |-> d.exe]
    BY DEF Document
  <2>5. [d EXCEPT !.auto.items = Without(@, gone)]
          = [d EXCEPT !.auto = [d.auto EXCEPT !.items = Without(@, gone)]]
    BY <2>4
  <2> QED
    BY <1>1, <2>1, <2>3, <2>4, <2>5
<1>2. CASE d.router # "map"
  BY <1>2 DEF RemoveNames, Document
<1> QED
  BY <1>1, <1>2

LEMMA RemoveNamesEdits ==
    ASSUME NEW d, Document(d), NEW name
    PROVE  Edits(d, RemoveNames(d, {name}), Change("disable", name))
<1> DEFINE e == RemoveNames(d, {name})
           ask == Change("disable", name)
           less == Without(d.auto.items, {name})
<1>1. ask.do = "disable" /\ ask.name = name
  BY DEF Change
<1>2. e = [services |-> d.services, router |-> d.router,
           auto |-> IF d.router = "map" THEN [node |-> d.auto.node, items |-> less] ELSE d.auto,
           max |-> d.max, preset |-> d.preset, exe |-> d.exe]
  BY RemoveNamesFields
<1>3. d.auto.node # "seq" => less = <<>>
  BY WithoutNone DEF Document
<1> HIDE DEF e, ask, less
<1>4. Settings(d).auto = IF d.router = "map" THEN d.auto.items ELSE <<>>
  BY SettingsFields
<1>5. Edits(d, e, ask)
  <2>1. Asked(ask, Settings(d)) =
          [services |-> Settings(d).services, auto |-> Without(Settings(d).auto, {name}),
           preset |-> Settings(d).preset, exe |-> Settings(d).exe]
    <3>1. Asked(ask, Settings(d)) =
            [services |-> Settings(d).services, auto |-> Without(Settings(d).auto, {ask.name}),
             preset |-> Settings(d).preset, exe |-> Settings(d).exe]
      BY <1>1, SettingsFields, AskedFields
    <3> QED
      BY <1>1, <3>1
  <2>2. e.services = d.services /\ e.router = d.router /\ e.preset = d.preset /\ e.exe = d.exe
    BY <1>2
  <2>3. e.auto.node = d.auto.node
    BY <1>2
  <2>4. d.router = "map" => e.auto.items = less
    BY <1>2
  <2>5. Settings(e).auto = Without(Settings(d).auto, {name})
    <3>1. CASE d.router = "map"
      BY <1>4, <2>2, <2>4, <3>1, SettingsFields DEF less
    <3>2. CASE d.router # "map"
      BY <1>4, <2>2, <3>2, SettingsFields, WithoutNone
    <3> QED
      BY <3>1, <3>2
  <2>6. /\ Settings(e).services = Settings(d).services
        /\ Settings(e).preset = Settings(d).preset /\ Settings(e).exe = Settings(d).exe
    BY <2>2, SettingsFields
  <2>7. Settings(e) = Asked(ask, Settings(d))
    BY <2>1, <2>5, <2>6, SettingsAre
  <2>8. Document(e)
    <3>1. CASE d.router = "map"
      BY <1>2, <1>3, <2>2, <2>3, <2>4, <3>1 DEF Document
    <3>2. CASE d.router # "map"
      BY <1>2, <3>2 DEF Document
    <3> QED
      BY <3>1, <3>2
  <2>9. HasNull(d) => HasNull(e)
    BY <2>2, <2>3 DEF HasNull
  <2> QED
    BY <2>7, <2>8, <2>9 DEF Edits
<1> QED
  BY <1>5 DEF e, ask


LEMMA RemoveReferencesEdits ==
    ASSUME NEW d, Document(d), NEW name
    PROVE  Edits(d, RemovePresetReferences(d, {name}), Change("forget", name))
<1> DEFINE k == RemoveNames(d, {name})
           e == RemovePresetReferences(d, {name})
           ask == Change("forget", name)
           off == Change("disable", name)
           p == IF d.router = "map" /\ d.preset \in {name} THEN "" ELSE d.preset
<1>1. ask.do = "forget" /\ ask.name = name /\ off.do = "disable" /\ off.name = name
  BY DEF Change
<1>2. Edits(d, k, off)
  BY RemoveNamesEdits
<1>3. k.router = d.router /\ k.preset = d.preset /\ k.exe = d.exe
  BY RemoveNamesFields
<1>4. d.router = "map" /\ d.preset \in {name} => e = [k EXCEPT !.preset = ""]
  BY DEF RemovePresetReferences
<1>5. ~(d.router = "map" /\ d.preset \in {name}) => e = k
  BY DEF RemovePresetReferences
<1> HIDE DEF k, e, ask, off
<1>6. e = [services |-> k.services, router |-> k.router, auto |-> k.auto,
           max |-> k.max, preset |-> p, exe |-> k.exe]
  <2>1. k = [services |-> k.services, router |-> k.router, auto |-> k.auto,
             max |-> k.max, preset |-> k.preset, exe |-> k.exe]
    BY <1>2 DEF Edits, Document
  <2>2. CASE d.router = "map" /\ d.preset \in {name}
    BY <2>1, <2>2, <1>3, <1>4
  <2>3. CASE ~(d.router = "map" /\ d.preset \in {name})
    BY <2>1, <2>3, <1>3, <1>5
  <2> QED
    BY <2>2, <2>3
<1>7. /\ e.services = k.services /\ e.router = k.router /\ e.auto = k.auto
      /\ e.preset = p /\ e.exe = k.exe
  BY <1>6
<1>8. Document(e)
  BY <1>2, <1>3, <1>6, <1>7 DEF Edits, Document
<1>9. HasNull(d) => HasNull(e)
  BY <1>2, <1>7 DEF Edits, HasNull
<1>10. Settings(e).preset = IF Settings(d).preset = name THEN "" ELSE Settings(d).preset
  <2>1. Settings(e).preset = IF d.router = "map" /\ p # "absent" THEN p ELSE ""
    BY <1>3, <1>7, SettingsFields
  <2>2. Settings(d).preset = IF d.router = "map" /\ d.preset # "absent" THEN d.preset ELSE ""
    BY SettingsFields
  <2>3. CASE d.router = "map" /\ d.preset = name
    BY <2>1, <2>2, <2>3
  <2>4. CASE d.router = "map" /\ d.preset # name
    <3>1. p = d.preset
      BY <2>4
    <3>2. Settings(e).preset = Settings(d).preset
      BY <2>1, <2>2, <3>1
    <3>3. Settings(d).preset # name \/ name = ""
      BY <2>2, <2>4
    <3> QED
      BY <3>2, <3>3
  <2>5. CASE d.router # "map"
    BY <2>1, <2>2, <2>5
  <2> QED
    BY <2>3, <2>4, <2>5
<1> HIDE DEF p
<1>11. ASSUME ~HasNull(d) PROVE Settings(e) = Asked(ask, Settings(d))
  <2>1. Settings(k) = Asked(off, Settings(d))
    BY <1>2, <1>11 DEF Edits
  <2>2. Asked(off, Settings(d)) =
          [services |-> Settings(d).services, auto |-> Without(Settings(d).auto, {name}),
           preset |-> Settings(d).preset, exe |-> Settings(d).exe]
    <3>1. Asked(off, Settings(d)) =
            [services |-> Settings(d).services, auto |-> Without(Settings(d).auto, {off.name}),
             preset |-> Settings(d).preset, exe |-> Settings(d).exe]
      BY <1>1, SettingsFields, AskedFields
    <3> QED
      BY <1>1, <3>1
  <2>3. Asked(ask, Settings(d)) =
          [services |-> Settings(d).services, auto |-> Without(Settings(d).auto, {name}),
           preset |-> IF Settings(d).preset = name THEN "" ELSE Settings(d).preset,
           exe |-> Settings(d).exe]
    <3>1. Asked(ask, Settings(d)) =
          [services |-> Settings(d).services, auto |-> Without(Settings(d).auto, {ask.name}),
           preset |-> IF Settings(d).preset = ask.name THEN "" ELSE Settings(d).preset,
           exe |-> Settings(d).exe]
      BY <1>1, SettingsFields, AskedFields
    <3> QED
      BY <1>1, <3>1
  <2>4. /\ Settings(k).services = Settings(d).services /\ Settings(k).exe = Settings(d).exe
        /\ Settings(k).auto = Without(Settings(d).auto, {name})
    BY <2>1, <2>2
  <2>5. /\ Settings(e).services = Settings(k).services /\ Settings(e).exe = Settings(k).exe
        /\ Settings(e).auto = Settings(k).auto
    <3>1. Settings(e).services = Settings(k).services
      BY <1>7, SettingsFields
    <3>2. Settings(e).exe = Settings(k).exe
      BY <1>7, SettingsFields
    <3>3. Settings(e).auto = Settings(k).auto
      <4>1. Settings(e).auto = IF e.router = "map" THEN e.auto.items ELSE <<>>
        BY SettingsFields
      <4>2. Settings(k).auto = IF k.router = "map" THEN k.auto.items ELSE <<>>
        BY SettingsFields
      <4> QED
        BY <1>7, <4>1, <4>2, Zenon
    <3> QED
      BY <3>1, <3>2, <3>3
  <2> DEFINE q == IF Settings(d).preset = name THEN "" ELSE Settings(d).preset
  <2>6. Settings(e).preset = q
    BY <1>10
  <2>7. Asked(ask, Settings(d)) =
          [services |-> Settings(d).services, auto |-> Without(Settings(d).auto, {name}),
           preset |-> q, exe |-> Settings(d).exe]
    BY <2>3
  <2> HIDE DEF q
  <2> QED
    BY <2>4, <2>5, <2>6, <2>7, SettingsAre
<1>12. Edits(d, e, ask)
  BY <1>8, <1>9, <1>11 DEF Edits
<1> QED
  BY <1>12 DEF e, ask

LEMMA ServicesEdits ==
    ASSUME NEW d, Document(d), NEW list
    PROVE  Edits(d, SetStartupServices(d, list), [do |-> "services", list |-> list])
<1> DEFINE e == SetStartupServices(d, list)
           ask == [do |-> "services", list |-> list]
<1>1. ask.do = "services" /\ ask.list = list
  OBVIOUS
<1>2. e = [services |-> List(list), router |-> d.router, auto |-> d.auto,
           max |-> d.max, preset |-> d.preset, exe |-> d.exe]
  <2>1. CASE d.services = List(list)
    BY <2>1 DEF SetStartupServices, Document
  <2>2. CASE d.services # List(list)
    BY <2>2 DEF SetStartupServices, Document
  <2> QED
    BY <2>1, <2>2
<1> HIDE DEF e, ask
<1>3. e.services = List(list) /\ e.router = d.router /\ e.auto = d.auto /\ e.preset = d.preset
      /\ e.exe = d.exe
  BY <1>2
<1>4. e.services.node = "seq" /\ e.services.items = list
  BY <1>3 DEF List
<1>5. Document(e)
  BY <1>2, <1>3 DEF Document
<1>6. HasNull(d) => HasNull(e)
  BY <1>3 DEF HasNull
<1>7. /\ Settings(e).services = list /\ Settings(e).auto = Settings(d).auto
      /\ Settings(e).preset = Settings(d).preset /\ Settings(e).exe = Settings(d).exe
  BY <1>3, <1>4, SettingsFields
<1>8. Asked(ask, Settings(d)) = [services |-> list, auto |-> Settings(d).auto,
                                preset |-> Settings(d).preset, exe |-> Settings(d).exe]
  BY <1>1, SettingsFields, AskedFields
<1>9. Settings(e) = Asked(ask, Settings(d))
  BY <1>7, <1>8, SettingsAre
<1>10. Edits(d, e, ask)
  BY <1>5, <1>6, <1>9 DEF Edits
<1> QED
  BY <1>10 DEF e, ask

LEMMA ExecutableEdits ==
    ASSUME NEW d, Document(d), ~Panics(d)
    PROVE  Edits(d, SetRouterExecutable(d, Exe, OldExe), [do |-> "install"])
<1> DEFINE e == SetRouterExecutable(d, Exe, OldExe)
           ask == [do |-> "install"]
           r == RouterMap(d)
           x == IF d.exe \notin {"absent", DefaultExe, OldExe} THEN d.exe ELSE Exe
<1>1. ask.do = "install"
  OBVIOUS
<1>2. d.router \in {"absent", "map"}
  BY DEF Panics, Document
<1>3. r = [services |-> d.services, router |-> "map", auto |-> d.auto, max |-> d.max,
           preset |-> d.preset, exe |-> d.exe]
  BY <1>2, RouterMapFields
<1>4. d.exe \notin {"absent", DefaultExe, OldExe} => e = d /\ d.router = "map"
  <2> HIDE DEF r
  <2>1. r.exe = d.exe
    BY <1>3
  <2> QED
    BY <1>2, <2>1 DEF SetRouterExecutable, Document, r
<1>5. d.exe \in {"absent", DefaultExe, OldExe} => e = [r EXCEPT !.exe = Exe]
  <2>1. r.exe = d.exe
    BY <1>3
  <2> QED
    BY <2>1 DEF SetRouterExecutable
<1>6. d = [services |-> d.services, router |-> d.router, auto |-> d.auto, max |-> d.max,
           preset |-> d.preset, exe |-> d.exe]
  BY DEF Document
<1> HIDE DEF e, ask, r
<1>7. e = [services |-> d.services, router |-> "map", auto |-> d.auto, max |-> d.max,
           preset |-> d.preset, exe |-> x]
  <2>1. CASE d.exe \notin {"absent", DefaultExe, OldExe}
    BY <1>4, <1>6, <2>1
  <2>2. CASE d.exe \in {"absent", DefaultExe, OldExe}
    BY <1>3, <1>5, <2>2
  <2> QED
    BY <2>1, <2>2
<1>8. e.services = d.services /\ e.router = "map" /\ e.auto = d.auto /\ e.preset = d.preset
      /\ e.exe = x
  BY <1>7
<1>9. Document(e)
  BY <1>7, <1>8 DEF Document
<1>10. ASSUME ~HasNull(d) PROVE Settings(e) = Asked(ask, Settings(d))
  <2>1. d.exe = "" => OldExe = ""
    BY <1>10 DEF HasNull
  <2>2. Settings(e).services = Settings(d).services
    BY <1>8, SettingsFields
  <2>3. Settings(e).auto = Settings(d).auto /\ Settings(e).preset = Settings(d).preset
    BY <1>2, <1>8, SettingsFields DEF Document
  <2>4. Exe \notin {"absent", ""} /\ DefaultExe \notin {"absent", ""}
    BY DocumentsAssumption
  <2>5. Settings(d).exe = IF d.exe \in {"absent", ""} THEN DefaultExe ELSE d.exe
    BY <1>2, SettingsFields DEF Document
  <2>6. Settings(e).exe = IF x \in {"absent", ""} THEN DefaultExe ELSE x
    BY <1>8, SettingsFields
  <2>7. Settings(e).exe = IF Settings(d).exe \in {DefaultExe, OldExe} THEN Exe
                          ELSE Settings(d).exe
    BY <2>1, <2>4, <2>5, <2>6
  <2>8. Asked(ask, Settings(d)) =
          [services |-> Settings(d).services, auto |-> Settings(d).auto,
           preset |-> Settings(d).preset,
           exe |-> IF Settings(d).exe \in {DefaultExe, OldExe} THEN Exe ELSE Settings(d).exe]
    BY <1>1, SettingsFields, AskedFields
  <2> QED
    BY <2>2, <2>3, <2>7, <2>8, SettingsAre
<1> HIDE DEF x
<1>11. HasNull(d) => HasNull(e)
  <2>1. d.router # "null"
    BY <1>2
  <2>2. d.exe = "" /\ OldExe # "" => x = ""
    BY DocumentsAssumption DEF x
  <2> QED
    BY <1>8, <2>1, <2>2 DEF HasNull
<1>12. Edits(d, e, ask)
  BY <1>9, <1>10, <1>11 DEF Edits
<1> QED
  BY <1>12 DEF e, ask


-----------------------------------------------------------------------------
(* The inductive invariant: what a process knows of the write it is in       *)

Form(j) == j = [step |-> j.step, file |-> j.file, base |-> j.base, new |-> j.new,
                ask |-> j.ask, by |-> j.by]

\* The document to write is the one that was read, changed as asked.
ConfigJob(j) ==
    /\ Document(j.new) /\ Valid(j.new)
    /\ \/ j.ask.do = "setup" /\ Settings(j.new) = j.ask.all
       \/ j.base # <<>> /\ Edits(j.base[1], j.new, j.ask)

IniJob(j) ==
    /\ j.new \in Seq(ToSet(j.new)) /\ Readable(j.new)
    /\ Sections(j.new) = Asked(j.ask, Sections(Text(j.base)))

JobOK(j, accepted) ==
    /\ j.step \in {"idle", "backup", "rename", "sync"}
    /\ j.step # "idle" => Form(j) /\ j.file \in Files
    /\ j.step \in {"backup", "rename"} =>
         /\ j.file = "config" => ConfigJob(j)
         /\ j.file = "ini" /\ ~accepted => IniJob(j)

Maps ==
    /\ disk = [f \in Files |-> disk[f]]
    /\ want = [f \in Files |-> want[f]]
    /\ raced = [f \in Files |-> raced[f]]
    /\ job = [p \in Processes |-> job[p]]

DiskOK ==
    /\ disk["config"] # <<>> => Document(Doc)
    /\ ~odd => Ini \in Seq(ToSet(Ini))

HeldOK == held # <<>> /\ ~odd => IsFiniteSet(DOMAIN held[1].values)

JobsOK == \A p \in Processes : JobOK(job[p], odd)

IInv == Maps /\ DiskOK /\ HeldOK /\ JobsOK /\ ConfigAsAsked /\ PresetsAsAsked

LEMMA FormStep ==
    ASSUME NEW j, Form(j), NEW s
    PROVE  LET k == [j EXCEPT !.step = s] IN
           /\ Form(k) /\ k.step = s /\ k.file = j.file /\ k.base = j.base
           /\ k.new = j.new /\ k.ask = j.ask
<1> DEFINE k == [j EXCEPT !.step = s]
<1>1. k = [step |-> s, file |-> j.file, base |-> j.base, new |-> j.new, ask |-> j.ask, by |-> j.by]
  BY DEF Form
<1> HIDE DEF k
<1>2. /\ k.step = s /\ k.file = j.file /\ k.base = j.base /\ k.new = j.new
      /\ k.ask = j.ask /\ k.by = j.by
  BY <1>1
<1>3. Form(k)
  BY <1>1, <1>2 DEF Form
<1> QED
  BY <1>2, <1>3 DEF k

LEMMA WriteForm ==
    ASSUME NEW f, NEW new, NEW keep, NEW ask
    PROVE  LET j == Write(f, new, keep, ask) IN
           /\ Form(j) /\ j.step \in {"backup", "rename"} /\ j.file = f /\ j.base = disk[f]
           /\ j.new = new /\ j.ask = ask
<1> DEFINE j == Write(f, new, keep, ask)
<1>1. j = [step |-> FirstStep(keep), file |-> f, base |-> disk[f], new |-> new,
           ask |-> ask, by |-> "store"]
  BY DEF Write
<1> HIDE DEF j
<1>2. /\ j.step = FirstStep(keep) /\ j.file = f /\ j.base = disk[f] /\ j.new = new
      /\ j.ask = ask /\ j.by = "store"
  BY <1>1
<1>3. Form(j)
  BY <1>1, <1>2 DEF Form
<1>4. FirstStep(keep) \in {"backup", "rename"}
  BY DEF FirstStep
<1> QED
  BY <1>2, <1>3, <1>4 DEF j

\* A process goes on with j, or begins it.
LEMMA JobsStep ==
    ASSUME Maps, JobsOK, NEW p \in Processes, NEW j, JobOK(j, odd'), odd => odd',
           job' = [job EXCEPT ![p] = j]
    PROVE  JobsOK' /\ job' = [q \in Processes |-> job'[q]]
<1>1. job' = [q \in Processes |-> IF q = p THEN j ELSE job[q]]
  BY DEF Maps
<1>2. ASSUME NEW q \in Processes PROVE JobOK(job[q], odd')
  BY DEF JobsOK, JobOK
<1>3. \A q \in Processes : job'[q] = IF q = p THEN j ELSE job[q]
  BY <1>1
<1>4. ASSUME NEW q \in Processes PROVE JobOK(job'[q], odd')
  <2>1. CASE q = p
    BY <1>3, <2>1
  <2>2. CASE q # p
    BY <1>2, <1>3, <2>2
  <2> QED
    BY <2>1, <2>2
<1> QED
  BY <1>1, <1>4 DEF JobsOK

LEMMA IdleJob == \A o : JobOK(Idle, o)
  BY DEF JobOK, Idle


LEMMA AskedWhole ==
    ASSUME NEW ask, NEW w
    PROVE  /\ ask.do = "setup" => Asked(ask, w) = ask.all
           /\ ask.do = "delete" => Asked(ask, w) = Restrict(w, DOMAIN w \ {ask.name})
           /\ ask.do = "put" => Asked(ask, w) = With(w, ask.name, ask.values)
<1>1. CASE ask.do = "setup"
  BY <1>1 DEF Asked
<1>2. CASE ask.do = "delete"
  BY <1>2 DEF Asked
<1>3. CASE ask.do = "put"
  BY <1>3 DEF Asked
<1> QED
  BY <1>1, <1>2, <1>3

LEMMA SetupJob ==
    ASSUME NEW f \in Files, NEW force, NEW o
    PROVE  JobOK(SetupWrite(f, force), o)
<1> DEFINE new == IF f = "config" THEN SetupConfig ELSE SetupPresets
           all == IF f = "config" THEN Settings(SetupConfig) ELSE Sections(SetupPresets)
           ask == [do |-> "setup", all |-> all]
           keep == force /\ disk[f] # <<>>
           w == Write(f, new, keep, ask)
           j == SetupWrite(f, force)
<1>1. j = [w EXCEPT !.by = IF force THEN "rerun" ELSE "setup"]
  BY DEF SetupWrite
<1>2. ask.do = "setup" /\ ask.all = all
  OBVIOUS
<1> HIDE DEF new, all, ask, keep, j
<1>3. /\ Form(w) /\ w.step \in {"backup", "rename"} /\ w.file = f /\ w.base = disk[f]
      /\ w.new = new /\ w.ask = ask
  BY WriteForm
<1> HIDE DEF w
<1>4. j = [step |-> w.step, file |-> f, base |-> w.base, new |-> new, ask |-> ask,
           by |-> IF force THEN "rerun" ELSE "setup"]
  BY <1>1, <1>3 DEF Form
<1>5. j.step = w.step /\ j.file = f /\ j.new = new /\ j.ask = ask
  BY <1>4
<1>6. Form(j)
  BY <1>4 DEF Form
<1>7. ASSUME f = "config" PROVE ConfigJob(j)
  <2>1. new = SetupConfig /\ all = Settings(SetupConfig)
    BY <1>7 DEF new, all
  <2> QED
    BY <1>2, <1>5, <2>1, DocumentsAssumption DEF ConfigJob
<1>8. ASSUME f = "ini" PROVE IniJob(j)
  <2>1. new = SetupPresets /\ all = Sections(SetupPresets)
    BY <1>8 DEF new, all
  <2>2. Asked(j.ask, Sections(Text(j.base))) = all
    BY <1>2, <1>5, AskedWhole
  <2> QED
    BY <1>5, <2>1, <2>2, DocumentsAssumption DEF IniJob
<1>9. JobOK(j, o)
  BY <1>3, <1>5, <1>6, <1>7, <1>8 DEF JobOK
<1> QED
  BY <1>9 DEF j

\* An edit of config.yaml: what it starts, or what is there already.
LEMMA ConfigWriteJob ==
    ASSUME NEW new, NEW ask, NEW o, disk["config"] # <<>>, Edits(Doc, new, ask), Valid(new)
    PROVE  JobOK(Write("config", new, TRUE, ask), o)
<1> DEFINE keep == TRUE
           j == Write("config", new, keep, ask)
<1> HIDE DEF keep
<1>1. /\ Form(j) /\ j.step \in {"backup", "rename"} /\ j.file = "config"
      /\ j.base = disk["config"] /\ j.new = new /\ j.ask = ask
  BY WriteForm
<1> HIDE DEF j
<1>2. ConfigJob(j)
  BY <1>1 DEF ConfigJob, Edits, Doc
<1> QED
  BY <1>1, <1>2 DEF JobOK, Files, keep, j

LEMMA IniWriteJob ==
    ASSUME NEW new, NEW ask, NEW o,
           ~o => /\ new \in Seq(ToSet(new)) /\ Readable(new)
                 /\ Sections(new) = Asked(ask, Sections(Ini))
    PROVE  JobOK(Write("ini", new, FALSE, ask), o)
<1> DEFINE keep == FALSE
           j == Write("ini", new, keep, ask)
<1> HIDE DEF keep
<1>1. /\ Form(j) /\ j.step \in {"backup", "rename"} /\ j.file = "ini"
      /\ j.base = disk["ini"] /\ j.new = new /\ j.ask = ask
  BY WriteForm
<1> HIDE DEF j
<1>2. ~o => IniJob(j)
  BY <1>1 DEF IniJob, Ini
<1> QED
  BY <1>1, <1>2 DEF JobOK, Files, keep, j


-----------------------------------------------------------------------------
(* The invariant, step by step *)

\* Only the job of one process changes.
LEMMA JobOnly ==
    ASSUME IInv, UNCHANGED <<disk, held, want, raced, odd>>,
           NEW p \in Processes, NEW j, JobOK(j, odd), job' = [job EXCEPT ![p] = j]
    PROVE  IInv'
<1>1. JobsOK' /\ job' = [q \in Processes |-> job'[q]]
  BY JobsStep DEF IInv
<1>2. Maps' /\ DiskOK' /\ HeldOK' /\ ConfigAsAsked' /\ PresetsAsAsked'
  BY <1>1 DEF IInv, Maps, DiskOK, HeldOK, ConfigAsAsked, PresetsAsAsked, Doc, Ini
<1> QED
  BY <1>1, <1>2 DEF IInv

LEMMA BackupStep ==
    ASSUME IInv, NEW p \in Processes, Backup(p)
    PROVE  IInv'
<1> DEFINE j == job[p]
           k == [j EXCEPT !.step = "rename"]
<1>1. JobOK(j, odd) /\ j.step = "backup"
  BY DEF IInv, JobsOK, Backup
<1>2. job' = [job EXCEPT ![p] = k]
  BY DEF Backup
<1>3. Form(k) /\ k.step = "rename" /\ k.file = j.file /\ k.base = j.base
      /\ k.new = j.new /\ k.ask = j.ask
  BY <1>1, FormStep DEF JobOK
<1> HIDE DEF j, k
<1>4. JobOK(k, odd)
  BY <1>1, <1>3 DEF JobOK, ConfigJob, IniJob
<1> QED
  BY <1>2, <1>4, JobOnly DEF Backup

LEMMA SyncStep ==
    ASSUME IInv, NEW p \in Processes, Sync(p)
    PROVE  IInv'
<1> DEFINE again == job[p].by = "rerun"
           j == IF job[p].by # "store" /\ job[p].file = "config" THEN SetupWrite("ini", again)
                ELSE Idle
<1>1. job' = [job EXCEPT ![p] = j]
  BY DEF Sync
<1> HIDE DEF again
<1>2. JobOK(j, odd)
  BY SetupJob, IdleJob DEF Files
<1> HIDE DEF j
<1> QED
  BY <1>1, <1>2, JobOnly DEF Sync

LEMMA FailStep ==
    ASSUME IInv, NEW p \in Processes, Fail(p)
    PROVE  IInv'
  BY JobOnly, IdleJob DEF Fail

LEMMA SetupStep ==
    ASSUME IInv, NEW force \in BOOLEAN, Setup(force)
    PROVE  IInv'
<1>1. job' = [job EXCEPT !["cli"] = SetupWrite("config", force)]
  BY DEF Setup
<1>2. JobOK(SetupWrite("config", force), odd)
  BY SetupJob DEF Files
<1>3. UNCHANGED <<disk, held, want, raced, odd>>
  BY DEF Setup
<1> QED
  BY <1>1, <1>2, <1>3, JobOnly DEF Processes

LEMMA FiniteImage ==
    ASSUME NEW S, IsFiniteSet(S), NEW f
    PROVE  IsFiniteSet({f[x] : x \in S})
<1> DEFINE T == {f[x] : x \in S}
           g == [x \in S |-> f[x]]
<1>1. g \in Surjection(S, T)
  BY DEF Surjection, Range
<1> QED
  BY <1>1, FS_Surjection

LEMMA SectionFinite ==
    ASSUME NEW s, s \in Seq(ToSet(s)), Readable(s), NEW name \in DOMAIN Sections(s)
    PROVE  IsFiniteSet(DOMAIN Sections(s)[name])
<1>1. PICK h \in Heads(s) : Plain(s[h].name) = name
  BY SectionNames DEF Names
<1> DEFINE f == [i \in Entries(s, h) |-> Canonical(s[i].key)]
           D == {f[i] : i \in Entries(s, h)}
<1>2. IsFiniteSet(Entries(s, h))
  <2>1. Entries(s, h) \subseteq 1..Len(s)
    BY DEF Entries
  <2>2. IsFiniteSet(1..Len(s))
    BY FS_Interval
  <2> QED
    BY <2>1, <2>2, FS_Subset
<1>3. IsFiniteSet(D)
  <2> HIDE DEF f
  <2> QED
    BY <1>2, FiniteImage
<1>4. Sections(s)[name] = Values(s, h)
  BY <1>1, SectionAt, ReadableParts
<1>5. DOMAIN Values(s, h) = {Canonical(s[i].key) : i \in Entries(s, h)}
  <2> DEFINE L == ToSet(s)
  <2>1. s \in Seq(L)
    OBVIOUS
  <2> HIDE DEF L
  <2>2. Values(s, h) = [k \in {Canonical(s[i].key) : i \in Entries(s, h)} |->
                          Plain(s[Max(Of(s, h, k))].value)]
    BY <2>1, ValuesFacts
  <2> QED
    BY <2>2
<1>6. D = {Canonical(s[i].key) : i \in Entries(s, h)}
  OBVIOUS
<1> QED
  BY <1>3, <1>4, <1>5, <1>6

LEMMA ReadStep ==
    ASSUME IInv, NEW name, ReadForApply(name)
    PROVE  IInv'
<1>1. UNCHANGED <<disk, job, want, raced, odd>>
  BY DEF ReadForApply
<1>2. held' # <<>> /\ held'[1].values = Sections(Ini)[name] /\ name \in DOMAIN Sections(Ini)
      /\ Readable(Ini)
  BY DEF ReadForApply
<1>3. ~odd => Ini \in Seq(ToSet(Ini))
  BY DEF IInv, DiskOK
<1> DEFINE s == Ini
<1>4. ~odd => IsFiniteSet(DOMAIN Sections(s)[name])
  <2>1. s = Ini
    OBVIOUS
  <2> HIDE DEF s
  <2> QED
    BY <1>2, <1>3, <2>1, SectionFinite
<1>5. HeldOK'
  BY <1>1, <1>2, <1>4 DEF HeldOK
<1>6. Maps' /\ DiskOK' /\ JobsOK' /\ ConfigAsAsked' /\ PresetsAsAsked'
  BY <1>1 DEF IInv, Maps, DiskOK, JobsOK, ConfigAsAsked, PresetsAsAsked, Doc, Ini
<1> QED
  BY <1>5, <1>6 DEF IInv

\* An edit of config.yaml keeps the invariant if it does what is asked.
LEMMA MutateStep ==
    ASSUME IInv, NEW p \in Processes, NEW new, NEW ask,
           disk["config"] # <<>>, Edits(Doc, new, ask), MutateDocument(p, new, ask)
    PROVE  IInv'
<1>1. CASE new = disk["config"][1]
  <2>1. UNCHANGED <<disk, held, raced, odd, job>> /\ Follow("config", raced["config"], ask)
    BY <1>1 DEF MutateDocument
  <2>2. want' = [f \in Files |-> IF f = "config" /\ ~raced["config"] THEN Asked(ask, want["config"])
                                 ELSE want[f]]
    BY <2>1 DEF Follow, IInv, Maps
  <2>3. want'["config"] = (IF ~raced["config"] THEN Asked(ask, want["config"]) ELSE want["config"])
        /\ want'["ini"] = want["ini"]
    BY <2>2 DEF Files
  <2>4. ~HasNull(Doc) => Settings(Doc) = Asked(ask, Settings(Doc))
    BY <1>1 DEF Edits, Doc
  <2>5. ConfigAsAsked'
    BY <2>1, <2>3, <2>4 DEF IInv, ConfigAsAsked, Doc
  <2>6. Maps'
    BY <2>1, <2>2, <2>3 DEF Maps, IInv
  <2>7. DiskOK' /\ HeldOK' /\ JobsOK' /\ PresetsAsAsked'
    BY <2>1, <2>3 DEF IInv, DiskOK, HeldOK, JobsOK, PresetsAsAsked, Doc, Ini
  <2> QED
    BY <2>5, <2>6, <2>7 DEF IInv
<1>2. CASE new # disk["config"][1]
  <2>1. Valid(new) /\ job' = [job EXCEPT ![p] = Write("config", new, TRUE, ask)]
        /\ UNCHANGED <<disk, held, want, raced, odd>>
    BY <1>2 DEF MutateDocument, Accepts
  <2>2. JobOK(Write("config", new, TRUE, ask), odd)
    BY <2>1, ConfigWriteJob
  <2> QED
    BY <2>1, <2>2, JobOnly
<1> QED
  BY <1>1, <1>2


LEMMA ConfigureStep ==
    ASSUME IInv, Configure
    PROVE  IInv'
<1>1. disk["config"] # <<>> => Document(Doc)
  BY DEF IInv, DiskOK
<1>2. "daemon" \in Processes /\ "cli" \in Processes
  BY DEF Processes
<1>3. ASSUME NEW name, SetPresetAutostart(name, TRUE) PROVE IInv'
  <2>1. disk["config"] # <<>>
        /\ MutateDocument("daemon", AppendName(Doc, name), Change("enable", name))
    BY <1>3 DEF SetPresetAutostart, SetAutostartPreset
  <2>2. Edits(Doc, AppendName(Doc, name), Change("enable", name))
    BY <1>1, <2>1, AppendNameEdits
  <2> QED
    BY <1>2, <2>1, <2>2, MutateStep
<1>4. ASSUME NEW name, SetPresetAutostart(name, FALSE) PROVE IInv'
  <2>1. disk["config"] # <<>>
        /\ MutateDocument("daemon", RemoveNames(Doc, {name}), Change("disable", name))
    BY <1>4 DEF SetPresetAutostart, SetAutostartPreset
  <2>2. Edits(Doc, RemoveNames(Doc, {name}), Change("disable", name))
    BY <1>1, <2>1, RemoveNamesEdits
  <2> QED
    BY <1>2, <2>1, <2>2, MutateStep
<1>5. ASSUME NEW list, SetServices(list) PROVE IInv'
  <2>1. disk["config"] # <<>>
        /\ MutateDocument("daemon", SetStartupServices(Doc, list),
                          [do |-> "services", list |-> list])
    BY <1>5 DEF SetServices
  <2>2. Edits(Doc, SetStartupServices(Doc, list), [do |-> "services", list |-> list])
    BY <1>1, <2>1, ServicesEdits
  <2> QED
    BY <1>2, <2>1, <2>2, MutateStep
<1>6. ASSUME NEW name, RemoveReferences(name) PROVE IInv'
  <2>1. disk["config"] # <<>>
        /\ MutateDocument("daemon", RemovePresetReferences(Doc, {name}), Change("forget", name))
    BY <1>6 DEF RemoveReferences
  <2>2. Edits(Doc, RemovePresetReferences(Doc, {name}), Change("forget", name))
    BY <1>1, <2>1, RemoveReferencesEdits
  <2> QED
    BY <1>2, <2>1, <2>2, MutateStep
<1>7. ASSUME ConfigureInstall PROVE IInv'
  <2>1. disk["config"] # <<>> /\ ~Panics(Doc)
        /\ MutateDocument("cli", SetRouterExecutable(Doc, Exe, OldExe), [do |-> "install"])
    BY <1>7 DEF ConfigureInstall
  <2>2. Edits(Doc, SetRouterExecutable(Doc, Exe, OldExe), [do |-> "install"])
    BY <1>1, <2>1, ExecutableEdits
  <2> QED
    BY <1>2, <2>1, <2>2, MutateStep
<1>8. ASSUME NEW name, NEW enabled \in BOOLEAN, SetPresetAutostart(name, enabled) PROVE IInv'
  BY <1>3, <1>4, <1>8
<1> QED
  BY <1>5, <1>6, <1>7, <1>8 DEF Configure


\* A write that replaced what it read brings what was asked for; another one is a
\* race.
LEMMA RenameStep ==
    ASSUME IInv, NEW p \in Processes, Rename(p)
    PROVE  IInv'
<1> DEFINE j == job[p]
           f == j.file
           k == [j EXCEPT !.step = "sync"]
           lost == raced[f] \/ disk[f] # j.base
<1>1. JobOK(j, odd) /\ j.step = "rename"
  BY DEF IInv, JobsOK, Rename
<1>2. /\ disk' = [disk EXCEPT ![f] = <<j.new>>]
      /\ raced' = [raced EXCEPT ![f] = lost]
      /\ Follow(f, lost, j.ask)
      /\ job' = [job EXCEPT ![p] = k]
      /\ UNCHANGED <<held, odd>>
  BY DEF Rename
<1>3. Form(k) /\ k.step = "sync" /\ k.file = j.file
  BY <1>1, FormStep DEF JobOK
<1>4. Form(j) /\ f \in Files
  BY <1>1 DEF JobOK
<1> HIDE DEF j, f, k
<1>5. JobOK(k, odd)
  BY <1>1, <1>3 DEF JobOK, f
<1>6. JobsOK' /\ job' = [q \in Processes |-> job'[q]]
  BY <1>2, <1>5, JobsStep DEF IInv
<1>7. /\ disk' = [g \in Files |-> IF g = f THEN <<j.new>> ELSE disk[g]]
      /\ raced' = [g \in Files |-> IF g = f THEN lost ELSE raced[g]]
  BY <1>2, <1>4 DEF IInv, Maps
<1> HIDE DEF lost
<1>8. want' = [g \in Files |-> IF g = f /\ ~lost THEN Asked(j.ask, want[f]) ELSE want[g]]
  BY <1>2, <1>4 DEF Follow, IInv, Maps
<1>9. Maps'
  BY <1>6, <1>7, <1>8 DEF Maps
<1>10. HeldOK'
  BY <1>2 DEF HeldOK, IInv
<1>11. CASE f = "config"
  <2>1. ConfigJob(j)
    BY <1>1, <1>11 DEF JobOK, f
  <2>2. disk'["config"] = <<j.new>> /\ disk'["ini"] = disk["ini"] /\ want'["ini"] = want["ini"]
        /\ raced'["ini"] = raced["ini"] /\ raced'["config"] = lost
        /\ want'["config"] = (IF ~lost THEN Asked(j.ask, want["config"]) ELSE want["config"])
    BY <1>7, <1>8, <1>11 DEF Files
  <2>3. Doc' = j.new
    BY <2>2 DEF Doc
  <2>4. DiskOK' /\ PresetsAsAsked'
    BY <1>2, <2>1, <2>2, <2>3 DEF ConfigJob, DiskOK, PresetsAsAsked, Ini, IInv
  <2>5. ASSUME ~lost, ~HasNull(j.new) PROVE Settings(j.new) = Asked(j.ask, want["config"])
    <3>1. disk["config"] = j.base /\ ~raced["config"]
      BY <1>11, <2>5 DEF lost
    <3>2. CASE j.ask.do = "setup" /\ Settings(j.new) = j.ask.all
      BY <3>2, AskedWhole
    <3>3. CASE j.base # <<>> /\ Edits(j.base[1], j.new, j.ask)
      <4>1. ~HasNull(j.base[1]) /\ Settings(j.new) = Asked(j.ask, Settings(j.base[1]))
        BY <2>5, <3>3 DEF Edits
      <4>2. Settings(j.base[1]) = want["config"]
        BY <3>1, <3>3, <4>1 DEF IInv, ConfigAsAsked
      <4> QED
        BY <4>1, <4>2
    <3> QED
      BY <2>1, <3>2, <3>3 DEF ConfigJob
  <2>6. ConfigAsAsked'
    BY <2>2, <2>3, <2>5 DEF ConfigAsAsked, Doc
  <2> QED
    BY <1>6, <1>9, <1>10, <2>4, <2>6 DEF IInv
<1>12. CASE f = "ini"
  <2>1. ~odd => IniJob(j)
    BY <1>1, <1>12 DEF JobOK, f
  <2>2. disk'["ini"] = <<j.new>> /\ disk'["config"] = disk["config"]
        /\ want'["config"] = want["config"]
        /\ raced'["config"] = raced["config"] /\ raced'["ini"] = lost
        /\ want'["ini"] = (IF ~lost THEN Asked(j.ask, want["ini"]) ELSE want["ini"])
    BY <1>7, <1>8, <1>12 DEF Files
  <2>3. Ini' = j.new
    BY <2>2 DEF Ini, Text
  <2>4. DiskOK' /\ ConfigAsAsked'
    BY <1>2, <2>1, <2>2, <2>3 DEF IniJob, DiskOK, ConfigAsAsked, Doc, IInv
  <2>5. ASSUME ~lost, ~odd PROVE Sections(j.new) = Asked(j.ask, want["ini"])
    <3>1. disk["ini"] = j.base /\ ~raced["ini"]
      BY <1>12, <2>5 DEF lost
    <3>2. Sections(Text(j.base)) = want["ini"]
      BY <2>5, <3>1 DEF IInv, PresetsAsAsked, Ini
    <3> QED
      BY <2>1, <2>5, <3>2 DEF IniJob
  <2>6. PresetsAsAsked'
    BY <1>2, <2>2, <2>3, <2>5 DEF PresetsAsAsked
  <2> QED
    BY <1>6, <1>9, <1>10, <2>4, <2>6 DEF IInv
<1> QED
  BY <1>4, <1>11, <1>12 DEF Files

LEMMA HandText ==
    ASSUME NEW file \in HandFiles("ini")
    PROVE  Text(file) \in Seq(ToSet(Text(file)))
<1>1. NewFile \in Seq(ToSet(NewFile))
  BY DEF NewFile, ToSet
<1>2. CASE file = <<>>
  BY <1>1, <1>2 DEF Text
<1>3. CASE file # <<>>
  <2>1. PICK c \in HandPresets : file = <<c>>
    BY <1>3 DEF HandFiles
  <2>2. Text(file) = c /\ c \in Seq(ToSet(c))
    BY <2>1, DocumentsAssumption DEF Text
  <2> QED
    BY <2>2
<1> QED
  BY <1>2, <1>3

LEMMA HandDocument ==
    ASSUME NEW file \in HandFiles("config"), file # <<>>
    PROVE  Document(file[1])
<1>1. PICK c \in HandConfigs : file = <<c>>
  BY DEF HandFiles
<1> QED
  BY <1>1, DocumentsAssumption

LEMMA HandStep ==
    ASSUME IInv, NEW f \in Files, NEW file \in HandFiles(f), HandEdit(f, file)
    PROVE  IInv'
<1>1. UNCHANGED <<job, held, odd>>
  BY DEF HandEdit
<1>2. /\ disk' = [g \in Files |-> IF g = f THEN file ELSE disk[g]]
      /\ want' = [g \in Files |-> IF g = f THEN Read(f, file) ELSE want[g]]
      /\ raced' = [g \in Files |-> IF g = f THEN FALSE ELSE raced[g]]
  BY DEF HandEdit, IInv, Maps
<1>3. Maps' /\ JobsOK' /\ HeldOK'
  BY <1>1, <1>2 DEF IInv, Maps, JobsOK, HeldOK
<1>4. CASE f = "config"
  <2>1. /\ disk'["config"] = file /\ disk'["ini"] = disk["ini"]
        /\ want'["config"] = (IF file = <<>> THEN <<>> ELSE Settings(file[1]))
        /\ want'["ini"] = want["ini"] /\ raced'["ini"] = raced["ini"]
    BY <1>2, <1>4 DEF Files, Read
  <2>2. file # <<>> => Document(file[1])
    BY <1>4, HandDocument
  <2>3. DiskOK' /\ ConfigAsAsked' /\ PresetsAsAsked'
    BY <1>1, <2>1, <2>2 DEF IInv, DiskOK, ConfigAsAsked, PresetsAsAsked, Doc, Ini
  <2> QED
    BY <1>3, <2>3 DEF IInv
<1>5. CASE f = "ini"
  <2>1. /\ disk'["ini"] = file /\ disk'["config"] = disk["config"]
        /\ want'["ini"] = Sections(Text(file))
        /\ want'["config"] = want["config"] /\ raced'["config"] = raced["config"]
    BY <1>2, <1>5 DEF Files, Read
  <2>2. Text(file) \in Seq(ToSet(Text(file)))
    BY <1>5, HandText
  <2>3. DiskOK' /\ ConfigAsAsked' /\ PresetsAsAsked'
    BY <1>1, <2>1, <2>2 DEF IInv, DiskOK, ConfigAsAsked, PresetsAsAsked, Doc, Ini
  <2> QED
    BY <1>3, <2>3 DEF IInv
<1> QED
  BY <1>4, <1>5 DEF Files


\* What Put stores of the values it is given.
Stored(values) == [c \in {Canonical(k) : k \in DOMAIN values} |->
                     values[CHOOSE k \in DOMAIN values : Canonical(k) = c]]

LEMMA StoredFaithful ==
    ASSUME NEW put, ~Odd(put), IsFiniteSet(DOMAIN put.values)
    PROVE  Faithful(put.name, Stored(put.values))
<1> DEFINE D == DOMAIN put.values
           f == [k \in D |-> Canonical(k)]
           v == Stored(put.values)
<1>1. put.name = Plain(put.name) /\ \A k \in D : Plain(put.values[k]) = put.values[k]
  BY DEF Odd
<1>2. DOMAIN v = {Canonical(k) : k \in D} /\ v = [c \in DOMAIN v |-> v[c]]
  BY DEF Stored
<1>3. {f[k] : k \in D} = {Canonical(k) : k \in D}
  OBVIOUS
<1>4. IsFiniteSet(DOMAIN v)
  <2>1. IsFiniteSet({f[k] : k \in D})
    <3> HIDE DEF f
    <3> QED
      BY FiniteImage
  <2> QED
    BY <1>2, <1>3, <2>1
<1>5. ASSUME NEW c \in DOMAIN v PROVE Canonical(c) = c /\ Plain(v[c]) = v[c]
  <2>1. PICK k \in D : Canonical(k) = c
    BY <1>2
  <2>2. Canonical(c) = c
    BY <2>1 DEF Canonical
  <2>3. v[c] = put.values[CHOOSE l \in D : Canonical(l) = c]
    BY <1>2 DEF Stored
  <2>4. (CHOOSE l \in D : Canonical(l) = c) \in D
    BY <2>1
  <2> QED
    BY <1>1, <2>2, <2>3, <2>4
<1> QED
  BY <1>1, <1>2, <1>4, <1>5 DEF Faithful

LEMMA PutJob ==
    ASSUME IInv, NEW put, NEW createOnly, PutPreset(put, createOnly),
           ~odd => IsFiniteSet(DOMAIN put.values)
    PROVE  /\ odd => odd'
           /\ \E j : job' = [job EXCEPT !["daemon"] = j] /\ JobOK(j, odd')
<1> DEFINE v == Stored(put.values)
           ask == [do |-> "put", name |-> put.name, values |-> v]
           new == PutSection(Ini, put.name, v)
           s == Ini
<1>1. job' = [job EXCEPT !["daemon"] = Write("ini", new, FALSE, ask)]
  BY DEF PutPreset, Stored
<1>2. odd' = (odd \/ Odd(put)) /\ Readable(Ini)
  BY DEF PutPreset
<1>3. ask.do = "put" /\ ask.name = put.name /\ ask.values = v
  OBVIOUS
<1>4. ASSUME ~odd' PROVE /\ new \in Seq(ToSet(new)) /\ Readable(new)
                         /\ Sections(new) = Asked(ask, Sections(Ini))
  <2>1. Faithful(put.name, v)
    BY <1>2, <1>4, StoredFaithful
  <2>2. s \in Seq(ToSet(s)) /\ Readable(s)
    BY <1>2, <1>4 DEF IInv, DiskOK
  <2>3. Asked(ask, Sections(Ini)) = With(Sections(Ini), put.name, v)
    <3> HIDE DEF ask, v
    <3> QED
      BY <1>3, AskedWhole
  <2>4. new = PutSection(s, put.name, v)
    OBVIOUS
  <2> HIDE DEF new, v, ask
  <2>5. /\ new \in Seq(ToSet(new)) /\ Readable(new)
        /\ Sections(new) = With(Sections(s), put.name, v)
    <3> HIDE DEF s
    <3> QED
      BY <2>1, <2>2, <2>4, PutFacts
  <2> QED
    BY <2>3, <2>5
<1> HIDE DEF new, ask
<1>5. JobOK(Write("ini", new, FALSE, ask), odd')
  BY <1>4, IniWriteJob
<1> QED
  BY <1>1, <1>2, <1>5

LEMMA PutStep ==
    ASSUME IInv, NEW put \in Puts, NEW createOnly, Put(put, createOnly)
    PROVE  IInv'
<1>1. UNCHANGED <<disk, held, edits, want, raced>> /\ PutPreset(put, createOnly)
  BY DEF Put
<1>2. PICK j : job' = [job EXCEPT !["daemon"] = j] /\ JobOK(j, odd') /\ (odd => odd')
  BY <1>1, PutJob, DocumentsAssumption
<1>3. JobsOK' /\ job' = [q \in Processes |-> job'[q]]
  BY <1>2, JobsStep DEF IInv, Processes
<1>4. Maps' /\ DiskOK' /\ HeldOK' /\ ConfigAsAsked' /\ PresetsAsAsked'
  BY <1>1, <1>2, <1>3 DEF IInv, Maps, DiskOK, HeldOK, ConfigAsAsked, PresetsAsAsked, Doc, Ini
<1> QED
  BY <1>3, <1>4 DEF IInv

LEMMA ApplyStep ==
    ASSUME IInv, Apply
    PROVE  IInv'
<1> DEFINE keys == (DOMAIN held[1].values \ {"models-dir"}) \cup {"model"}
           values == [k \in keys |-> IF k = "model" THEN Path ELSE held[1].values[k]]
           put == [name |-> held[1].name, values |-> values]
<1>1. /\ PutPreset(put, FALSE) /\ held # <<>> /\ held' = <<>> /\ UNCHANGED <<disk, want>>
      /\ raced' = [raced EXCEPT !["ini"] =
                     @ \/ (/\ held[1].name \in DOMAIN want["ini"]
                           /\ want["ini"][held[1].name] # held[1].values)]
  BY DEF Apply
<1>2. DOMAIN put.values = keys
  OBVIOUS
<1>3. ~odd => IsFiniteSet(DOMAIN put.values)
  BY <1>1, <1>2, FS_Union, FS_Singleton, FS_Difference DEF IInv, HeldOK
<1> HIDE DEF put
<1>4. PICK j : job' = [job EXCEPT !["daemon"] = j] /\ JobOK(j, odd') /\ (odd => odd')
  BY <1>1, <1>3, PutJob
<1>5. JobsOK' /\ job' = [q \in Processes |-> job'[q]]
  BY <1>4, JobsStep DEF IInv, Processes
<1>6. raced' = [f \in Files |-> raced'[f]] /\ raced'["config"] = raced["config"]
      /\ (~raced'["ini"] => ~raced["ini"])
  BY <1>1 DEF IInv, Maps, Files
<1>7. Maps' /\ DiskOK' /\ HeldOK' /\ ConfigAsAsked' /\ PresetsAsAsked'
  BY <1>1, <1>4, <1>5, <1>6
     DEF IInv, Maps, DiskOK, HeldOK, ConfigAsAsked, PresetsAsAsked, Doc, Ini
<1> QED
  BY <1>5, <1>7 DEF IInv

LEMMA DeleteStep ==
    ASSUME IInv, NEW name, Delete(name)
    PROVE  IInv'
<1> DEFINE ask == Change("delete", name)
           new == DeleteSection(Ini, name)
           s == Ini
<1>1. /\ job' = [job EXCEPT !["daemon"] = Write("ini", new, FALSE, ask)]
      /\ Readable(Ini) /\ name \in DOMAIN Sections(Ini)
      /\ UNCHANGED <<disk, held, edits, want, raced, odd>>
  BY DEF Delete
<1>2. ask.do = "delete" /\ ask.name = name
  BY DEF Change
<1>3. ASSUME ~odd PROVE /\ new \in Seq(ToSet(new)) /\ Readable(new)
                        /\ Sections(new) = Asked(ask, Sections(Ini))
  <2>1. s \in Seq(ToSet(s)) /\ Readable(s) /\ name \in DOMAIN Sections(s)
    BY <1>1, <1>3 DEF IInv, DiskOK
  <2>2. Asked(ask, Sections(Ini)) = Restrict(Sections(Ini), DOMAIN Sections(Ini) \ {name})
    <3> HIDE DEF ask
    <3> QED
      BY <1>2, AskedWhole
  <2>3. new = DeleteSection(s, name)
    OBVIOUS
  <2> HIDE DEF new, ask
  <2>4. /\ new \in Seq(ToSet(new)) /\ Readable(new)
        /\ Sections(new) = Restrict(Sections(s), DOMAIN Sections(s) \ {name})
    <3> HIDE DEF s
    <3> QED
      BY <2>1, <2>3, DeleteFacts
  <2> QED
    BY <2>2, <2>4
<1> HIDE DEF new, ask
<1>4. JobOK(Write("ini", new, FALSE, ask), odd)
  BY <1>3, IniWriteJob
<1> QED
  BY <1>1, <1>4, JobOnly DEF Processes


LEMMA InitInv ==
    ASSUME Init
    PROVE  IInv
<1>1. PICK c \in HandFiles("config"), i \in HandFiles("ini") :
        /\ disk = [f \in Files |-> IF f = "config" THEN c ELSE i]
        /\ want = [f \in Files |-> IF f = "config" THEN Read(f, c) ELSE Read(f, i)]
  BY DEF Init
<1>2. /\ job = [p \in Processes |-> Idle] /\ held = <<>>
      /\ raced = [f \in Files |-> FALSE] /\ odd = FALSE
  BY DEF Init
<1>3. disk["config"] = c /\ disk["ini"] = i /\ want["config"] = Read("config", c)
      /\ want["ini"] = Read("ini", i)
  BY <1>1 DEF Files
<1>4. Maps
  BY <1>1, <1>2 DEF Maps
<1>5. JobsOK /\ HeldOK
  BY <1>2, IdleJob DEF JobsOK, HeldOK
<1>6. c # <<>> => Document(c[1])
  BY HandDocument
<1>7. Text(i) \in Seq(ToSet(Text(i)))
  BY HandText
<1>8. DiskOK
  BY <1>3, <1>6, <1>7 DEF DiskOK, Doc, Ini
<1>9. ConfigAsAsked /\ PresetsAsAsked
  BY <1>3 DEF ConfigAsAsked, PresetsAsAsked, Ini, Read
<1> QED
  BY <1>4, <1>5, <1>8, <1>9 DEF IInv

LEMMA InvStep ==
    IInv /\ [Next]_vars => IInv'
<1> SUFFICES ASSUME IInv, [Next]_vars PROVE IInv'
  OBVIOUS
<1>1. CASE UNCHANGED vars
  BY <1>1 DEF vars, IInv, Maps, DiskOK, HeldOK, JobsOK, ConfigAsAsked, PresetsAsAsked, Doc, Ini
<1>2. CASE Next
  <2>1. ASSUME NEW p \in Processes, Step(p) \/ Fail(p) PROVE IInv'
    BY <2>1, BackupStep, RenameStep, SyncStep, FailStep DEF Step
  <2>2. CASE Configure
    BY <2>2, ConfigureStep
  <2>3. CASE Preset
    BY <2>3, PutStep, DeleteStep, ReadStep, ApplyStep DEF Preset
  <2>4. ASSUME NEW force \in BOOLEAN, Setup(force) PROVE IInv'
    BY <2>4, SetupStep
  <2>5. ASSUME NEW f \in Files, NEW file \in HandFiles(f), HandEdit(f, file) PROVE IInv'
    BY <2>5, HandStep
  <2> QED
    BY <1>2, <2>1, <2>2, <2>3, <2>4, <2>5 DEF Next
<1> QED
  BY <1>1, <1>2

-----------------------------------------------------------------------------
(* Theorems *)

\* IInv holds in every reachable state: each write a process is in the middle of is
\* the text it read, changed exactly as asked.
THEOREM IInvHolds ==
    Spec => []IInv
<1>1. Init => IInv
  BY InitInv
<1> QED
  BY <1>1, InvStep, PTL DEF Spec

\* A reader of config.yaml gets what all accepted changes together ask for, whatever
\* the order of the daemon, of commands and of the user's editor, until a write
\* replaces a version it has not read; an update is lost in no other way.
THEOREM ConfigAsAskedHolds ==
    Spec => []ConfigAsAsked
<1>1. IInv => ConfigAsAsked
  BY DEF IInv
<1> QED
  BY <1>1, IInvHolds, PTL

\* A reader of models.ini gets the Presets as they were last put, of any names and
\* values that need no quoting, wherever their sections and comments are.
THEOREM PresetsAsAskedHolds ==
    Spec => []PresetsAsAsked
<1>1. IInv => PresetsAsAsked
  BY DEF IInv
<1> QED
  BY <1>1, IInvHolds, PTL

\* No write of the program makes a file unreadable that it could read.
THEOREM NeverSpoiledHolds ==
    Spec => NeverSpoiled
<1>1. ASSUME IInv, NEW p \in Processes, Rename(p), NEW f \in Files, Whole(f, disk[f]), ~odd
      PROVE  Whole(f, disk'[f])
  <2> DEFINE j == job[p]
             g == j.file
  <2>1. JobOK(j, odd) /\ j.step = "rename" /\ disk' = [disk EXCEPT ![g] = <<j.new>>]
    BY <1>1 DEF IInv, JobsOK, Rename
  <2>2. g \in Files
    BY <2>1 DEF JobOK
  <2>3. disk' = [h \in Files |-> IF h = g THEN <<j.new>> ELSE disk[h]]
    BY <1>1, <2>1, <2>2 DEF IInv, Maps
  <2>4. CASE f = g
    <3>1. disk'[f] = <<j.new>>
      BY <2>3, <2>4
    <3>2. /\ f = "config" => Valid(j.new)
          /\ f = "ini" => Readable(j.new)
      BY <1>1, <2>1, <2>4 DEF JobOK, ConfigJob, IniJob
    <3> QED
      BY <3>1, <3>2 DEF Whole, Files
  <2>5. CASE f # g
    BY <1>1, <2>3, <2>5
  <2> QED
    BY <2>4, <2>5
<1>2. IInv /\ [Next]_vars =>
        [\A p \in Processes : Rename(p) =>
           \A f \in Files : Whole(f, disk[f]) /\ ~odd => Whole(f, disk'[f])]_vars
  BY <1>1
<1> QED
  BY <1>2, IInvHolds, PTL DEF Spec, NeverSpoiled

=============================================================================
