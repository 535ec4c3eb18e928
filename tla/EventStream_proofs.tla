------------------------ MODULE EventStream_proofs ------------------------
(***************************************************************************)
(* Proofs about EventStream, for every number of watchers, every limit of  *)
(* the ring and every capacity of a channel.                               *)
(***************************************************************************)
EXTENDS EventStream, TLAPS

-----------------------------------------------------------------------------
(* Sequences of events *)

Increasing(s) == \A i, j \in 1..Len(s) : i < j => s[i] < s[j]
Before(s, t) == \A m \in Elems(s), n \in Elems(t) : m < n

LEMMA AppendFacts ==
    ASSUME NEW s \in Seq(Nat), NEW n \in Nat
    PROVE  /\ Append(s, n) \in Seq(Nat) /\ Len(Append(s, n)) = Len(s) + 1
           /\ Append(s, n)[Len(s) + 1] = n
           /\ \A i \in 1..Len(s) : Append(s, n)[i] = s[i]
           /\ Elems(Append(s, n)) = Elems(s) \cup {n}
           /\ Newest(Append(s, n)) = n
           /\ (Increasing(s) /\ \A m \in Elems(s) : m < n) => Increasing(Append(s, n))
<1>1. /\ Append(s, n) \in Seq(Nat) /\ Len(Append(s, n)) = Len(s) + 1
      /\ Append(s, n)[Len(s) + 1] = n
      /\ \A i \in 1..Len(s) : Append(s, n)[i] = s[i]
  OBVIOUS
<1>2. Len(s) \in Nat /\ \A i \in 1..(Len(s) + 1) : i \in 1..Len(s) \/ i = Len(s) + 1
  OBVIOUS
<1>3. Elems(Append(s, n)) = Elems(s) \cup {n}
  BY <1>1, <1>2 DEF Elems
<1>4. Newest(Append(s, n)) = n
  BY <1>1 DEF Newest
<1>5. ASSUME Increasing(s), \A m \in Elems(s) : m < n
      PROVE  Increasing(Append(s, n))
  BY <1>1, <1>2, <1>5 DEF Increasing, Elems
<1> QED
  BY <1>1, <1>3, <1>4, <1>5

LEMMA AppendAt ==
    ASSUME NEW s \in Seq(Nat), NEW n \in Nat, NEW t, t = Append(s, n)
    PROVE  /\ t \in Seq(Nat) /\ Len(t) = Len(s) + 1 /\ t[Len(s) + 1] = n
           /\ \A i \in 1..Len(s) : t[i] = s[i]
           /\ t # <<>>
<1>1. Len(<<>>) = 0 /\ Len(s) \in Nat
  OBVIOUS
<1>2. /\ t \in Seq(Nat) /\ Len(t) = Len(s) + 1 /\ t[Len(s) + 1] = n
      /\ \A i \in 1..Len(s) : t[i] = s[i]
  BY AppendFacts
<1> QED
  BY <1>1, <1>2

LEMMA TailFacts ==
    ASSUME NEW s \in Seq(Nat), s # <<>>
    PROVE  /\ Head(s) \in Nat /\ Tail(s) \in Seq(Nat) /\ Len(Tail(s)) = Len(s) - 1
           /\ Elems(s) = {Head(s)} \cup Elems(Tail(s))
           /\ Increasing(s) => /\ Increasing(Tail(s))
                               /\ \A n \in Elems(Tail(s)) : Head(s) < n
<1>1. /\ Head(s) \in Nat /\ Tail(s) \in Seq(Nat) /\ Len(Tail(s)) = Len(s) - 1
      /\ Len(s) \in Nat \ {0} /\ Head(s) = s[1]
      /\ \A i \in 1..(Len(s) - 1) : Tail(s)[i] = s[i + 1]
  OBVIOUS
<1>2. Elems(s) \subseteq {Head(s)} \cup Elems(Tail(s))
  <2> SUFFICES ASSUME NEW i \in 1..Len(s), i # 1 PROVE s[i] \in Elems(Tail(s))
    BY <1>1 DEF Elems
  <2>1. i - 1 \in 1..Len(Tail(s)) /\ Tail(s)[i - 1] = s[i]
    BY <1>1
  <2> QED
    BY <2>1 DEF Elems
<1>3. {Head(s)} \cup Elems(Tail(s)) \subseteq Elems(s)
  BY <1>1 DEF Elems
<1>4. ASSUME Increasing(s)
      PROVE  Increasing(Tail(s)) /\ \A n \in Elems(Tail(s)) : Head(s) < n
  BY <1>1, <1>4 DEF Increasing, Elems
<1> QED
  BY <1>1, <1>2, <1>3, <1>4

\* The end of a sequence after its i-th element.
LEMMA SuffixFacts ==
    ASSUME NEW s \in Seq(Nat), NEW i \in 1..Len(s)
    PROVE  LET t == SubSeq(s, i + 1, Len(s))
           IN  /\ t \in Seq(Nat)
               /\ Elems(t) = {s[j] : j \in (i + 1)..Len(s)}
               /\ Increasing(s) => Increasing(t)
<1> DEFINE t == SubSeq(s, i + 1, Len(s))
<1>1. /\ t \in Seq(Nat) /\ Len(t) = Len(s) - i /\ Len(s) \in Nat
      /\ \A k \in 1..(Len(s) - i) : t[k] = s[i + k]
  OBVIOUS
<1>2. Elems(t) \subseteq {s[j] : j \in (i + 1)..Len(s)}
  BY <1>1 DEF Elems
<1>3. {s[j] : j \in (i + 1)..Len(s)} \subseteq Elems(t)
  <2> SUFFICES ASSUME NEW j \in (i + 1)..Len(s) PROVE s[j] \in Elems(t)
    OBVIOUS
  <2>1. j - i \in 1..Len(t) /\ t[j - i] = s[j]
    BY <1>1
  <2> QED
    BY <2>1 DEF Elems
<1>4. Increasing(s) => Increasing(t)
  BY <1>1 DEF Increasing
<1> QED
  BY <1>1, <1>2, <1>3, <1>4

LEMMA NewestFacts ==
    ASSUME NEW s \in Seq(Nat)
    PROVE  /\ Newest(s) \in Nat
           /\ s # <<>> => Newest(s) \in Elems(s)
           /\ Increasing(s) => \A m \in Elems(s) : m <= Newest(s)
<1>1. CASE s = <<>>
  BY <1>1 DEF Newest, Elems
<1>2. CASE s # <<>>
  <2>1. Len(s) \in 1..Len(s) /\ Newest(s) = s[Len(s)] /\ \A i \in 1..Len(s) : s[i] \in Nat
    BY <1>2 DEF Newest
  <2>2. Increasing(s) => \A i \in 1..Len(s) : s[i] <= s[Len(s)]
    BY <2>1 DEF Increasing
  <2> QED
    BY <2>1, <2>2 DEF Elems
<1> QED
  BY <1>1, <1>2

-----------------------------------------------------------------------------
(* The invariant *)

\* The ring holds the newest events of this daemon without a gap.
RingOK ==
    /\ recorded - Len(ring) >= base
    /\ \A i \in 1..Len(ring) : ring[i] = recorded - Len(ring) + i

\* What a client received, its backlog and its channel follow each other, and
\* its ID is that of the last event it received, unless an earlier daemon gave it.
WatcherOK(w) ==
    /\ stream[w] = "off" => todo[w] = <<>> /\ chan[w] = <<>>
    /\ Increasing(got[w]) /\ Increasing(todo[w]) /\ Increasing(chan[w])
    /\ Before(got[w], todo[w]) /\ Before(got[w], chan[w]) /\ Before(todo[w], chan[w])
    /\ Elems(todo[w]) \cup Elems(chan[w]) \subseteq (base + 1)..recorded
    /\ Elems(got[w]) \subseteq 1..recorded
    /\ got[w] = <<>> => after[w] = 0
    /\ got[w] # <<>> => Newest(got[w]) <= base \/ after[w] = Newest(got[w]) - base

\* A connected client has, will get or lost every event; one that left, those up
\* to the last it received.
CoverOK(w) ==
    ~crossed[w] =>
      /\ stream[w] # "off" =>
           1..recorded \subseteq Elems(got[w]) \cup Elems(todo[w]) \cup Elems(chan[w]) \cup lost[w]
      /\ stream[w] = "off" => 1..Newest(got[w]) \subseteq Elems(got[w]) \cup lost[w]

SInv ==
    /\ TypeOK /\ RingOK
    /\ \A w \in Watchers : WatcherOK(w) /\ CoverOK(w)

\* The backlog of a new stream begins after what the client has, and leaves out
\* nothing of the ring unless the client's ID is an earlier daemon's.
LEMMA BacklogFacts ==
    ASSUME TypeOK, RingOK, NEW w \in Watchers, WatcherOK(w)
    PROVE  LET t == EventsAfter(after[w])
           IN  /\ t \in Seq(Nat) /\ Increasing(t)
               /\ Elems(t) \subseteq (base + 1)..recorded
               /\ Before(got[w], t)
               /\ got[w] = <<>> \/ Newest(got[w]) > base =>
                    \A n \in Elems(ring) : n > Newest(got[w]) => n \in Elems(t)
<1> DEFINE t == EventsAfter(after[w])
<1>1. /\ recorded \in Nat /\ base \in Nat /\ ring \in Seq(Nat) /\ Len(ring) \in Nat
      /\ got[w] \in Seq(Nat) /\ after[w] \in Nat
  BY DEF TypeOK
<1>2. Increasing(ring) /\ Elems(ring) \subseteq (base + 1)..recorded
  BY <1>1 DEF RingOK, Increasing, Elems
<1>3. /\ Newest(got[w]) \in Nat
      /\ got[w] # <<>> => Newest(got[w]) \in 1..recorded
      /\ \A m \in Elems(got[w]) : m <= Newest(got[w]) /\ m \in Nat
  BY <1>1, NewestFacts DEF WatcherOK
<1>4. CASE \E i \in 1..Len(ring) : ID(ring[i]) = after[w]
  <2>1. PICK i \in 1..Len(ring) : ID(ring[i]) = after[w] /\ t = SubSeq(ring, i + 1, Len(ring))
    BY <1>4 DEF EventsAfter
  <2>2. /\ t \in Seq(Nat) /\ Increasing(t)
        /\ Elems(t) = {ring[j] : j \in (i + 1)..Len(ring)}
    BY <1>1, <1>2, <2>1, SuffixFacts
  <2>3. got[w] # <<>> /\ ring[i] \in (base + 1)..recorded /\ ring[i] = base + after[w]
    <3>1. ring[i] \in (base + 1)..recorded
      BY <1>2, <2>1 DEF Elems
    <3>2. ring[i] = base + after[w]
      <4>1. ring[i] - base = after[w]
        BY <2>1 DEF ID
      <4>2. ring[i] \in Nat /\ base \in Nat
        BY <1>1, <3>1
      <4> QED
        BY <4>1, <4>2
    <3>3. after[w] # 0
      BY <1>1, <3>1, <3>2
    <3> QED
      BY <3>1, <3>2, <3>3 DEF WatcherOK
  <2>4. ASSUME NEW n \in Elems(t) PROVE n \in Elems(ring) /\ n > ring[i]
    <3>1. PICK j \in (i + 1)..Len(ring) : n = ring[j]
      BY <2>2
    <3>2. j \in 1..Len(ring) /\ i < j
      BY <1>1
    <3>3. ring[i] < ring[j]
      BY <1>2, <3>2 DEF Increasing
    <3> QED
      BY <1>1, <3>1, <3>2, <3>3 DEF Elems
  <2>5. Elems(t) \subseteq (base + 1)..recorded
    BY <1>2, <2>4
  <2>6. Newest(got[w]) <= base \/ Newest(got[w]) = ring[i]
    BY <1>1, <1>3, <2>3 DEF WatcherOK
  <2>7. Before(got[w], t)
    <3> SUFFICES ASSUME NEW m \in Elems(got[w]), NEW n \in Elems(t) PROVE m < n
      BY DEF Before
    <3>1. m <= Newest(got[w]) /\ n > ring[i] /\ n \in Nat /\ m \in Nat /\ n > base
      BY <1>1, <1>3, <2>4, <2>5
    <3> QED
      BY <1>1, <1>3, <2>3, <2>6, <3>1
  <2>8. ASSUME Newest(got[w]) > base, NEW n \in Elems(ring), n > Newest(got[w])
        PROVE  n \in Elems(t)
    <3>1. PICK j \in 1..Len(ring) : n = ring[j]
      BY DEF Elems
    <3>2. ring[i] = Newest(got[w])
      BY <1>1, <1>3, <2>6, <2>8
    <3>3. j > i
      BY <1>1, <2>8, <3>1, <3>2 DEF RingOK
    <3> QED
      BY <1>1, <2>2, <3>1, <3>3
  <2> QED
    BY <2>2, <2>3, <2>5, <2>7, <2>8
<1>5. CASE ~\E i \in 1..Len(ring) : ID(ring[i]) = after[w]
  <2>1. t = ring
    BY <1>5 DEF EventsAfter
  <2>2. ASSUME got[w] # <<>>, NEW n \in Elems(ring) PROVE Newest(got[w]) < n
    <3>1. CASE Newest(got[w]) <= base
      BY <1>1, <1>2, <1>3, <3>1
    <3>2. CASE Newest(got[w]) > base
      <4>1. after[w] = Newest(got[w]) - base
        BY <1>1, <1>3, <2>2, <3>2 DEF WatcherOK
      <4>2. \A i \in 1..Len(ring) : ring[i] # Newest(got[w])
        BY <1>5, <4>1 DEF ID
      <4>3. Newest(got[w]) <= recorded - Len(ring)
        <5> SUFFICES ASSUME Newest(got[w]) > recorded - Len(ring) PROVE FALSE
          BY <1>1, <1>3
        <5> DEFINE i == Newest(got[w]) - (recorded - Len(ring))
        <5>1. i \in 1..Len(ring)
          BY <1>1, <1>3, <2>2
        <5>2. ring[i] = Newest(got[w])
          BY <1>1, <1>3, <5>1 DEF RingOK
        <5> QED
          BY <4>2, <5>1, <5>2
      <4>4. PICK j \in 1..Len(ring) : n = ring[j]
        BY DEF Elems
      <4>5. n = recorded - Len(ring) + j
        BY <1>1, <4>4 DEF RingOK
      <4> QED
        BY <1>1, <1>3, <4>3, <4>4, <4>5
    <3> QED
      BY <1>1, <1>3, <3>1, <3>2
  <2>3. Before(got[w], t)
    <3> SUFFICES ASSUME NEW m \in Elems(got[w]), NEW n \in Elems(ring) PROVE m < n
      BY <2>1 DEF Before
    <3>1. got[w] # <<>>
      BY <1>1 DEF Elems
    <3> QED
      BY <1>1, <1>2, <1>3, <2>2, <3>1
  <2> QED
    BY <1>1, <1>2, <2>1, <2>3
<1> QED
  BY <1>4, <1>5

-----------------------------------------------------------------------------
(* Every step keeps it *)

\* Record, seen by one watcher.
LEMMA RecordWatcher ==
    ASSUME SInv, TypeOK', Record, NEW w \in Watchers
    PROVE  WatcherOK(w)' /\ CoverOK(w)'
<1> DEFINE n == recorded + 1
<1>1. /\ recorded \in Nat /\ base \in 0..recorded /\ n \in Nat /\ recorded' = n
      /\ got[w] \in Seq(Nat) /\ todo[w] \in Seq(Nat) /\ chan[w] \in Seq(Nat)
      /\ Newest(got[w]) \in Nat
  BY NewestFacts DEF SInv, TypeOK, Record
<1>2. /\ UNCHANGED <<base, stream, todo, got, after, crossed>>
      /\ chan'[w] = Offer(w, n)
      /\ lost'[w] = IF stream[w] # "off" /\ Len(chan[w]) = ChanCap THEN lost[w] \cup {n} ELSE lost[w]
  BY DEF Record, SInv, TypeOK
<1>3. CASE chan'[w] = chan[w]
  <2>1. stream[w] # "off" => n \in lost'[w] /\ lost[w] \subseteq lost'[w]
    <3>1. stream[w] # "off" => Len(chan[w]) = ChanCap
      <4>1. Len(chan[w]) <= ChanCap /\ Len(chan[w]) \in Nat /\ ChanCap \in Nat
        BY StreamAssumption DEF SInv, TypeOK, StreamAssumption
      <4>2. stream[w] # "off" /\ Len(chan[w]) < ChanCap => chan'[w] = Append(chan[w], n)
        BY <1>2 DEF Offer
      <4>3. Append(chan[w], n) # chan[w]
        BY <1>1, AppendFacts
      <4> QED
        BY <1>3, <4>1, <4>2, <4>3
    <3> QED
      BY <1>2, <3>1
  <2>2. WatcherOK(w)'
    <3>1. (base + 1)..recorded \subseteq (base + 1)..n /\ 1..recorded \subseteq 1..n
      BY <1>1
    <3> QED
      BY <1>1, <1>2, <1>3, <3>1 DEF SInv, WatcherOK
  <2>3. CoverOK(w)'
    BY <1>1, <1>2, <1>3, <2>1 DEF SInv, CoverOK
  <2> QED
    BY <2>2, <2>3
<1>4. CASE chan'[w] # chan[w]
  <2>1. stream[w] # "off" /\ chan'[w] = Append(chan[w], n) /\ lost[w] \subseteq lost'[w]
    BY <1>2, <1>4 DEF Offer
  <2>2. /\ Elems(chan'[w]) = Elems(chan[w]) \cup {n}
        /\ Increasing(chan[w]) /\ (\A m \in Elems(chan[w]) : m < n) => Increasing(chan'[w])
    <3>1. chan[w] \in Seq(Nat) /\ n \in Nat
      BY <1>1 DEF SInv, TypeOK
    <3> DEFINE s == chan[w]
    <3>2. chan'[w] = Append(s, n)
      BY <2>1
    <3> HIDE DEF s, n
    <3>3. Elems(Append(s, n)) = Elems(s) \cup {n}
      BY <3>1, AppendFacts DEF s
    <3>4. Increasing(s) /\ (\A m \in Elems(s) : m < n) => Increasing(Append(s, n))
      BY <3>1, AppendFacts DEF s
    <3> QED
      BY <3>2, <3>3, <3>4 DEF s
  <2>3. /\ \A m \in Elems(chan[w]) \cup Elems(todo[w]) : m \in (base + 1)..recorded
        /\ \A m \in Elems(got[w]) : m \in 1..recorded
    BY DEF SInv, WatcherOK
  <2>4. Increasing(chan'[w])
    BY <1>1, <2>2, <2>3 DEF SInv, WatcherOK
  <2>5. WatcherOK(w)'
    <3>1. /\ Before(got[w], chan[w]) /\ Before(todo[w], chan[w]) /\ Before(got[w], todo[w])
          /\ Increasing(got[w]) /\ Increasing(todo[w])
      BY DEF SInv, WatcherOK
    <3>2. Before(got[w], chan'[w]) /\ Before(todo[w], chan'[w])
      BY <1>1, <2>2, <2>3, <3>1 DEF Before
    <3>3. /\ Elems(todo[w]) \cup Elems(chan'[w]) \subseteq (base + 1)..n
          /\ Elems(got[w]) \subseteq 1..n
      BY <1>1, <2>2, <2>3
    <3> QED
      BY <1>1, <1>2, <2>1, <2>4, <3>1, <3>2, <3>3 DEF SInv, WatcherOK
  <2>6. CoverOK(w)'
    <3> SUFFICES ASSUME ~crossed'[w]
                 PROVE  1..n \subseteq Elems(got[w]) \cup Elems(todo[w]) \cup Elems(chan'[w]) \cup lost'[w]
      BY <1>1, <1>2, <2>1 DEF CoverOK
    <3>1. 1..recorded \subseteq Elems(got[w]) \cup Elems(todo[w]) \cup Elems(chan[w]) \cup lost[w]
      BY <1>2, <2>1 DEF SInv, CoverOK
    <3>2. 1..n = 1..recorded \cup {n}
      BY <1>1
    <3> QED
      BY <2>1, <2>2, <3>1, <3>2
  <2> QED
    BY <2>5, <2>6
<1> QED
  BY <1>3, <1>4

\* Watch, seen by the client that connects.
LEMMA WatchWatcher ==
    ASSUME SInv, NEW w \in Watchers, Watch(w)
    PROVE  /\ todo'[w] \in Seq(Nat)
           /\ WatcherOK(w)' /\ CoverOK(w)'
<1> DEFINE t == EventsAfter(after[w])
<1>1. /\ recorded \in Nat /\ base \in 0..recorded /\ got[w] \in Seq(Nat)
      /\ Newest(got[w]) \in Nat
  BY NewestFacts DEF SInv, TypeOK
<1>2. /\ UNCHANGED <<recorded, base, got, after, chan>> /\ stream[w] = "off" /\ stream'[w] = "live"
      /\ todo'[w] = t /\ chan[w] = <<>>
      /\ lost'[w] = lost[w] \cup {n \in 1..recorded : n > Newest(got[w]) /\ n \notin Elems(ring)}
      /\ crossed'[w] = (crossed[w] \/ (got[w] # <<>> /\ Newest(got[w]) <= base))
  BY DEF Watch, store, SInv, TypeOK, WatcherOK
<1>3. /\ t \in Seq(Nat) /\ Increasing(t) /\ Elems(t) \subseteq (base + 1)..recorded
      /\ Before(got[w], t)
      /\ got[w] = <<>> \/ Newest(got[w]) > base =>
            \A n \in Elems(ring) : n > Newest(got[w]) => n \in Elems(t)
  BY BacklogFacts DEF SInv
<1>4. Elems(chan[w]) = {}
  BY <1>2 DEF Elems
<1>5. WatcherOK(w)'
  BY <1>1, <1>2, <1>3, <1>4 DEF SInv, WatcherOK, Before
<1>6. ASSUME ~crossed'[w], NEW n \in 1..recorded
      PROVE  n \in Elems(got[w]) \cup Elems(t) \cup lost'[w]
  <2>1. CASE n <= Newest(got[w])
    <3>1. n \in 1..Newest(got[w])
      BY <1>1, <2>1
    <3>2. 1..Newest(got[w]) \subseteq Elems(got[w]) \cup lost[w]
      BY <1>2, <1>6 DEF SInv, CoverOK
    <3> QED
      BY <1>2, <3>1, <3>2
  <2>2. CASE n > Newest(got[w]) /\ n \in Elems(ring)
    <3>1. ~(got[w] # <<>> /\ Newest(got[w]) <= base)
      BY <1>2, <1>6, Zenon
    <3>2. got[w] = <<>> \/ Newest(got[w]) > base
      BY <1>1, <3>1
    <3> QED
      BY <1>3, <2>2, <3>2
  <2>3. CASE n > Newest(got[w]) /\ n \notin Elems(ring)
    BY <1>2, <2>3
  <2> QED
    BY <1>1, <2>1, <2>2, <2>3
<1>7. CoverOK(w)'
  BY <1>1, <1>2, <1>6 DEF CoverOK
<1> QED
  BY <1>2, <1>3, <1>5, <1>7

\* Send, seen by the client that receives.
LEMMA SendWatcher ==
    ASSUME SInv, NEW w \in Watchers, Send(w)
    PROVE  /\ got'[w] \in Seq(Nat) /\ after'[w] \in Nat
           /\ todo'[w] \in Seq(Nat) /\ chan'[w] \in Seq(Nat) /\ Len(chan'[w]) <= Len(chan[w])
           /\ WatcherOK(w)' /\ CoverOK(w)'
<1>1. /\ recorded \in Nat /\ base \in 0..recorded
      /\ got[w] \in Seq(Nat) /\ todo[w] \in Seq(Nat) /\ chan[w] \in Seq(Nat)
      /\ UNCHANGED <<recorded, base, lost, crossed, stream>> /\ stream[w] = "live"
      /\ got \in [Watchers -> Seq(Nat)] /\ after \in [Watchers -> Nat]
      /\ todo \in [Watchers -> Seq(Nat)] /\ chan \in [Watchers -> Seq(Nat)]
  BY DEF SInv, TypeOK, Send, SendBacklog, SendLive, store
<1>2. PICK n \in Nat :
        /\ n \in Elems(todo[w]) \cup Elems(chan[w])
        /\ got'[w] = Append(got[w], n) /\ after'[w] = n - base
        /\ Elems(todo[w]) \cup Elems(chan[w])
             = {n} \cup Elems(todo'[w]) \cup Elems(chan'[w])
        /\ \A m \in Elems(todo'[w]) \cup Elems(chan'[w]) : n < m
        /\ Increasing(todo'[w]) /\ Increasing(chan'[w]) /\ Before(todo'[w], chan'[w])
        /\ todo'[w] \in Seq(Nat) /\ chan'[w] \in Seq(Nat) /\ Len(chan'[w]) <= Len(chan[w])
  <2>1. CASE SendBacklog(w)
    <3>1. /\ todo[w] # <<>> /\ todo'[w] = Tail(todo[w]) /\ chan' = chan
          /\ got'[w] = Append(got[w], Head(todo[w])) /\ after'[w] = Head(todo[w]) - base
      BY <1>1, <2>1 DEF SendBacklog, Deliver, ID
    <3>2. /\ Head(todo[w]) \in Nat /\ Tail(todo[w]) \in Seq(Nat)
          /\ Elems(todo[w]) = {Head(todo[w])} \cup Elems(Tail(todo[w]))
          /\ Increasing(Tail(todo[w])) /\ \A m \in Elems(Tail(todo[w])) : Head(todo[w]) < m
      BY <1>1, <3>1, TailFacts DEF SInv, WatcherOK
    <3>3. Before(todo[w], chan[w]) /\ Increasing(chan[w])
      BY DEF SInv, WatcherOK
    <3>4. Before(todo'[w], chan'[w]) /\ \A m \in Elems(chan[w]) : Head(todo[w]) < m
      BY <3>1, <3>2, <3>3 DEF Before
    <3>5. Len(chan'[w]) <= Len(chan[w])
      BY <1>1, <3>1
    <3> QED
      BY <1>1, <3>1, <3>2, <3>3, <3>4, <3>5
  <2>2. CASE SendLive(w)
    <3>1. /\ chan[w] # <<>> /\ chan'[w] = Tail(chan[w]) /\ todo' = todo /\ todo[w] = <<>>
          /\ got'[w] = Append(got[w], Head(chan[w])) /\ after'[w] = Head(chan[w]) - base
      BY <1>1, <2>2 DEF SendLive, Deliver, ID
    <3>2. /\ Head(chan[w]) \in Nat /\ Tail(chan[w]) \in Seq(Nat)
          /\ Len(Tail(chan[w])) = Len(chan[w]) - 1
          /\ Elems(chan[w]) = {Head(chan[w])} \cup Elems(Tail(chan[w]))
          /\ Increasing(Tail(chan[w])) /\ \A m \in Elems(Tail(chan[w])) : Head(chan[w]) < m
      BY <1>1, <3>1, TailFacts DEF SInv, WatcherOK
    <3>3. Elems(todo[w]) = {} /\ Increasing(todo[w])
      BY <3>1 DEF Elems, SInv, WatcherOK
    <3>4. Before(todo'[w], chan'[w])
      BY <3>1, <3>3 DEF Before
    <3>5. Len(chan'[w]) <= Len(chan[w])
      BY <1>1, <3>1, <3>2
    <3> QED
      BY <1>1, <3>1, <3>2, <3>3, <3>4, <3>5
  <2> QED
    BY <2>1, <2>2 DEF Send
<1>3. /\ n \in (base + 1)..recorded /\ \A m \in Elems(got[w]) : m < n
  BY <1>2 DEF SInv, WatcherOK, Before
<1>4. /\ got'[w] \in Seq(Nat) /\ Elems(got'[w]) = Elems(got[w]) \cup {n}
      /\ Newest(got'[w]) = n /\ Increasing(got'[w]) /\ got'[w] # <<>>
  <2>1. Increasing(got[w])
    BY DEF SInv, WatcherOK
  <2>2. got[w] \in Seq(Nat) /\ got'[w] = Append(got[w], n)
    BY <1>1, <1>2
  <2> DEFINE t == got'[w]
             s == got[w]
  <2>3. t # <<>>
    <3>1. s \in Seq(Nat) /\ t = Append(s, n)
      BY <2>2
    <3> HIDE DEF t, s
    <3> QED
      BY <3>1, AppendAt
  <2> QED
    BY <1>1, <1>2, <1>3, <2>1, <2>3, AppendFacts
<1>5. Elems(todo'[w]) \cup Elems(chan'[w]) \subseteq (base + 1)..recorded
  BY <1>2 DEF SInv, WatcherOK
<1>6. Before(got'[w], todo'[w]) /\ Before(got'[w], chan'[w])
  BY <1>2, <1>4 DEF SInv, WatcherOK, Before
<1>7. Elems(got'[w]) \subseteq 1..recorded
  BY <1>1, <1>3, <1>4 DEF SInv, WatcherOK
<1>8. WatcherOK(w)'
  BY <1>1, <1>2, <1>4, <1>5, <1>6, <1>7 DEF WatcherOK
<1>9. CoverOK(w)'
  BY <1>1, <1>2, <1>4 DEF SInv, CoverOK
<1>10. after'[w] \in Nat
  BY <1>1, <1>2, <1>3
<1> QED
  BY <1>2, <1>4, <1>8, <1>9, <1>10

\* The other watchers, and every watcher in the steps that only end streams.
LEMMA UntouchedWatcher ==
    ASSUME SInv, NEW v \in Watchers,
           UNCHANGED <<recorded, base, stream[v], todo[v], chan[v], got[v], after[v], lost[v], crossed[v]>>
    PROVE  WatcherOK(v)' /\ CoverOK(v)'
BY DEF SInv, WatcherOK, CoverOK

LEMMA EndedWatcher ==
    ASSUME SInv, NEW v \in Watchers, recorded' = recorded, base' \in {base, recorded},
           UNCHANGED <<got[v], after[v], lost[v], crossed[v]>>,
           stream'[v] = "off", todo'[v] = <<>>, chan'[v] = <<>>
    PROVE  WatcherOK(v)' /\ CoverOK(v)'
<1>1. /\ got[v] \in Seq(Nat) /\ recorded \in Nat /\ base \in 0..recorded
      /\ Newest(got[v]) \in Nat
      /\ got[v] # <<>> => Newest(got[v]) \in Elems(got[v])
      /\ \A m \in Elems(got[v]) : m <= Newest(got[v])
  BY NewestFacts DEF SInv, TypeOK, WatcherOK
<1>2. Elems(<<>>) = {} /\ Increasing(<<>>)
  BY DEF Elems, Increasing
<1>3. got[v] # <<>> => Newest(got[v]) \in 1..recorded
  BY <1>1 DEF SInv, WatcherOK
<1>4. WatcherOK(v)'
  BY <1>1, <1>2, <1>3 DEF SInv, WatcherOK, Before
<1>5. ASSUME ~crossed[v] PROVE 1..Newest(got[v]) \subseteq Elems(got[v]) \cup lost[v]
  <2>1. CASE stream[v] = "off"
    BY <1>5, <2>1 DEF SInv, CoverOK
  <2>2. CASE stream[v] # "off"
    <3> SUFFICES ASSUME NEW n \in 1..Newest(got[v]) PROVE n \in Elems(got[v]) \cup lost[v]
      OBVIOUS
    <3>1. got[v] # <<>> /\ n \in 1..recorded /\ n <= Newest(got[v])
      BY <1>1, <1>3 DEF Newest
    <3>2. n \notin Elems(todo[v]) \cup Elems(chan[v])
      <4>1. \A m \in Elems(todo[v]) \cup Elems(chan[v]) : Newest(got[v]) < m
        BY <1>1, <3>1 DEF SInv, WatcherOK, Before
      <4> QED
        BY <1>1, <3>1, <4>1
    <3> QED
      BY <1>5, <2>2, <3>1, <3>2 DEF SInv, CoverOK
  <2> QED
    BY <2>1, <2>2
<1>6. CoverOK(v)'
  BY <1>5 DEF CoverOK
<1> QED
  BY <1>4, <1>6

LEMMA InitSInv ==
    Init => SInv
<1> SUFFICES ASSUME Init PROVE SInv
  OBVIOUS
<1> USE DEF Init
<1>1. Elems(<<>>) = {} /\ Increasing(<<>>) /\ Newest(<<>>) = 0
  BY DEF Elems, Increasing, Newest
<1>2. <<>> \in Seq(Nat) /\ Len(<<>>) = 0
  OBVIOUS
<1>3. TypeOK
  BY <1>2, StreamAssumption DEF StreamAssumption, TypeOK
<1>4. RingOK
  BY <1>2 DEF RingOK
<1>5. ASSUME NEW w \in Watchers PROVE WatcherOK(w) /\ CoverOK(w)
  BY <1>1 DEF WatcherOK, CoverOK, Before
<1> QED
  BY <1>3, <1>4, <1>5 DEF SInv

LEMMA RecordStore ==
    ASSUME SInv, Record
    PROVE  TypeOK' /\ RingOK'
<1> DEFINE n == recorded + 1
<1>1. /\ recorded \in Nat /\ base \in 0..recorded /\ n \in Nat /\ recorded' = n
      /\ UNCHANGED <<base, boots, stream, todo, got, after, crossed>>
      /\ ring \in Seq(Nat) /\ Len(ring) \in Nat /\ Len(ring) <= Limit /\ ring' = Kept(n)
      /\ Limit \in Nat \ {0} /\ ChanCap \in Nat
  BY StreamAssumption DEF StreamAssumption, SInv, TypeOK, Record
<1>2. ASSUME NEW w \in Watchers
      PROVE  chan'[w] \in Seq(Nat) /\ Len(chan'[w]) <= ChanCap
  <2>1. chan[w] \in Seq(Nat) /\ Len(chan[w]) \in Nat /\ Len(chan[w]) <= ChanCap
    BY DEF SInv, TypeOK
  <2>2. Append(chan[w], n) \in Seq(Nat) /\ Len(Append(chan[w], n)) = Len(chan[w]) + 1
    BY <1>1, <2>1, AppendFacts
  <2> QED
    BY <1>1, <2>1, <2>2 DEF Record, Offer
<1>3. chan' \in [Watchers -> Seq(Nat)]
  BY <1>2 DEF Record
<1>4. lost' \in [Watchers -> SUBSET Nat]
  BY <1>1 DEF SInv, TypeOK, Record
<1>7. n \in Nat
  BY <1>1
<1>5. /\ ring' \in Seq(Nat) /\ Len(ring') <= Limit
      /\ RingOK'
  <2>1. recorded - Len(ring) >= base /\ \A i \in 1..Len(ring) : ring[i] = recorded - Len(ring) + i
    BY DEF SInv, RingOK
  <2>2. CASE Len(ring) = Limit
    <3>1. ring # <<>> /\ Limit \in 1..Limit
      BY <1>1, <2>2
    <3>2. /\ Tail(ring) \in Seq(Nat) /\ Len(Tail(ring)) = Limit - 1
          /\ \A i \in 1..(Limit - 1) : Tail(ring)[i] = ring[i + 1]
      BY <1>1, <2>2, <3>1
    <3>3. ring' = Append(Tail(ring), n)
      BY <1>1, <2>2 DEF Kept
    <3>4. /\ ring' \in Seq(Nat) /\ Len(ring') = Limit /\ ring'[Limit] = n
          /\ \A i \in 1..(Limit - 1) : ring'[i] = Tail(ring)[i]
      <4>1. /\ ring' \in Seq(Nat) /\ Len(ring') = Len(Tail(ring)) + 1
            /\ ring'[Len(Tail(ring)) + 1] = n
            /\ \A i \in 1..Len(Tail(ring)) : ring'[i] = Tail(ring)[i]
        BY <3>2, <3>3, <1>7, AppendAt
      <4>2. Len(Tail(ring)) = Limit - 1 /\ Len(Tail(ring)) + 1 = Limit
        BY <1>1, <3>2
      <4>3. ring'[Limit] = n /\ Len(ring') = Limit
        BY <4>1, <4>2
      <4>4. \A i \in 1..(Limit - 1) : ring'[i] = Tail(ring)[i]
        BY <4>1, <4>2
      <4> QED
        BY <4>1, <4>3, <4>4
    <3>5. ASSUME NEW i \in 1..Limit PROVE ring'[i] = n - Limit + i
      <4>1. CASE i = Limit
        BY <1>1, <3>4, <4>1
      <4>2. CASE i # Limit
        <5>1. i \in 1..(Limit - 1) /\ i + 1 \in 1..Len(ring)
          BY <1>1, <2>2, <4>2
        <5>2. ring'[i] = ring[i + 1]
          BY <3>2, <3>4, <5>1
        <5>3. ring[i + 1] = recorded - Limit + (i + 1)
          BY <2>1, <2>2, <5>1
        <5> QED
          BY <1>1, <5>1, <5>2, <5>3
      <4> QED
        BY <4>1, <4>2
    <3>6. n - Limit >= base
      BY <1>1, <2>1, <2>2
    <3> QED
      BY <1>1, <3>4, <3>5, <3>6 DEF RingOK
  <2>3. CASE Len(ring) # Limit
    <3> DEFINE k == Len(ring) + 1
    <3>1. ring' = Append(ring, n)
      BY <1>1, <2>3 DEF Kept
    <3>2. /\ ring' \in Seq(Nat) /\ Len(ring') = k /\ ring'[k] = n
          /\ \A i \in 1..Len(ring) : ring'[i] = ring[i]
      BY <1>1, <1>7, <3>1, AppendAt
    <3>3. ASSUME NEW i \in 1..k PROVE ring'[i] = n - k + i
      <4>1. n - k = recorded - Len(ring)
        BY <1>1
      <4>2. CASE i = k
        BY <1>1, <3>2, <4>2
      <4>3. CASE i # k
        <5>1. i \in 1..Len(ring)
          BY <1>1, <4>3
        <5> QED
          BY <2>1, <3>2, <4>1, <5>1
      <4> QED
        BY <4>2, <4>3
    <3>4. n - k >= base /\ k <= Limit
      BY <1>1, <2>1, <2>3
    <3> QED
      BY <1>1, <3>2, <3>3, <3>4 DEF RingOK
  <2> QED
    BY <2>2, <2>3
<1>6. /\ recorded' \in Nat /\ base' \in 0..recorded' /\ boots' \in Nat
      /\ stream' \in [Watchers -> {"off", "live", "gone"}]
      /\ todo' \in [Watchers -> Seq(Nat)] /\ got' \in [Watchers -> Seq(Nat)]
      /\ after' \in [Watchers -> Nat] /\ crossed' \in [Watchers -> BOOLEAN]
  BY <1>1 DEF SInv, TypeOK
<1> QED
  BY <1>2, <1>3, <1>4, <1>5, <1>6 DEF TypeOK

LEMMA SInvStep ==
    ASSUME SInv, [Next]_vars
    PROVE  SInv'
<1> USE DEF store, client
<1>1. CASE Record
  BY <1>1, RecordStore, RecordWatcher DEF SInv
<1>2. CASE Restart
  <2>1. /\ UNCHANGED <<recorded, got, after, lost, crossed>>
        /\ base' = recorded /\ boots' = boots + 1 /\ ring' = <<>>
        /\ stream' = [v \in Watchers |-> "off"] /\ todo' = [v \in Watchers |-> <<>>]
        /\ chan' = [v \in Watchers |-> <<>>]
    BY <1>2 DEF Restart
  <2>2. <<>> \in Seq(Nat) /\ Len(<<>>) = 0 /\ ChanCap \in Nat /\ Limit \in Nat
    BY StreamAssumption DEF StreamAssumption
  <2>3. TypeOK'
    BY <2>1, <2>2 DEF SInv, TypeOK
  <2>4. RingOK'
    BY <2>1, <2>2 DEF SInv, TypeOK, RingOK
  <2>5. \A v \in Watchers : WatcherOK(v)' /\ CoverOK(v)'
    BY <2>1, EndedWatcher
  <2> QED
    BY <2>3, <2>4, <2>5 DEF SInv
<1>3. ASSUME NEW w \in Watchers, Watch(w)
      PROVE  SInv'
  <2>1. todo'[w] \in Seq(Nat) /\ WatcherOK(w)' /\ CoverOK(w)'
    BY <1>3, WatchWatcher
  <2>2. /\ UNCHANGED <<recorded, base, boots, ring, chan, got, after>>
        /\ todo' = [todo EXCEPT ![w] = todo'[w]]
        /\ stream' = [stream EXCEPT ![w] = "live"]
        /\ lost' = [lost EXCEPT ![w] = @ \cup
              {n \in 1..recorded : n > Newest(got[w]) /\ n \notin Elems(ring)}]
    BY <1>3 DEF Watch, SInv, TypeOK
  <2>3. crossed' \in [Watchers -> BOOLEAN]
    BY <1>3, Zenon DEF Watch, SInv, TypeOK
  <2>4. lost' \in [Watchers -> SUBSET Nat]
    BY <2>2 DEF SInv, TypeOK
  <2>5. TypeOK'
    BY <2>1, <2>2, <2>3, <2>4 DEF SInv, TypeOK
  <2>6. ASSUME NEW v \in Watchers \ {w} PROVE WatcherOK(v)' /\ CoverOK(v)'
    BY <1>3, <2>2, UntouchedWatcher DEF Watch, SInv, TypeOK
  <2> QED
    BY <2>1, <2>2, <2>5, <2>6 DEF SInv, RingOK
<1>4. ASSUME NEW w \in Watchers, Send(w)
      PROVE  SInv'
  <2>1. /\ got'[w] \in Seq(Nat) /\ after'[w] \in Nat
        /\ todo'[w] \in Seq(Nat) /\ chan'[w] \in Seq(Nat) /\ Len(chan'[w]) <= Len(chan[w])
        /\ WatcherOK(w)' /\ CoverOK(w)'
    BY <1>4, SendWatcher
  <2>2. /\ UNCHANGED <<recorded, base, boots, ring, stream, lost, crossed>>
        /\ got' = [got EXCEPT ![w] = got'[w]] /\ after' = [after EXCEPT ![w] = after'[w]]
        /\ todo' = [todo EXCEPT ![w] = todo'[w]] /\ chan' = [chan EXCEPT ![w] = chan'[w]]
    BY <1>4 DEF Send, SendBacklog, SendLive, Deliver, SInv, TypeOK
  <2>3. \A v \in Watchers : Len(chan'[v]) <= ChanCap
    <3>1. ASSUME NEW v \in Watchers
          PROVE  Len(chan[v]) \in Nat /\ Len(chan[v]) <= ChanCap /\ ChanCap \in Nat
      BY StreamAssumption DEF StreamAssumption, SInv, TypeOK
    <3>2. Len(chan'[w]) \in Nat
      BY <2>1
    <3>3. \A v \in Watchers \ {w} : chan'[v] = chan[v]
      BY <2>2 DEF SInv, TypeOK
    <3>4. ASSUME NEW v \in Watchers PROVE Len(chan'[v]) <= ChanCap
      <4>1. CASE v = w
        BY <2>1, <3>1, <3>2, <4>1
      <4>2. CASE v # w
        BY <3>1, <3>3, <4>2
      <4> QED
        BY <4>1, <4>2
    <3> QED
      BY <3>4
  <2>4. TypeOK'
    BY <2>1, <2>2, <2>3 DEF SInv, TypeOK
  <2>5. ASSUME NEW v \in Watchers \ {w} PROVE WatcherOK(v)' /\ CoverOK(v)'
    BY <2>2, UntouchedWatcher DEF SInv, TypeOK
  <2> QED
    BY <2>1, <2>2, <2>4, <2>5 DEF SInv, RingOK
<1>5. ASSUME NEW w \in Watchers, Leave(w)
      PROVE  SInv'
  <2>1. /\ UNCHANGED <<recorded, base, boots, ring, todo, chan, got, after, lost, crossed>>
        /\ stream[w] = "live" /\ stream' = [stream EXCEPT ![w] = "gone"]
    BY <1>5 DEF Leave
  <2>2. stream'[w] = "gone" /\ \A v \in Watchers \ {w} : stream'[v] = stream[v]
    BY <2>1 DEF SInv, TypeOK
  <2>3. TypeOK' /\ RingOK'
    BY <2>1 DEF SInv, TypeOK, RingOK
  <2>4. ASSUME NEW v \in Watchers PROVE WatcherOK(v)' /\ CoverOK(v)'
    <3>1. CASE v = w
      BY <2>1, <2>2, <3>1 DEF SInv, WatcherOK, CoverOK
    <3>2. CASE v # w
      BY <2>1, <2>2, <3>2, UntouchedWatcher
    <3> QED
      BY <3>1, <3>2
  <2> QED
    BY <2>3, <2>4 DEF SInv
<1>6. ASSUME NEW w \in Watchers, Unsubscribe(w)
      PROVE  SInv'
  <2>1. /\ UNCHANGED <<recorded, base, boots, ring, got, after, lost, crossed>>
        /\ stream' = [stream EXCEPT ![w] = "off"] /\ todo' = [todo EXCEPT ![w] = <<>>]
        /\ chan' = [chan EXCEPT ![w] = <<>>]
    BY <1>6 DEF Unsubscribe
  <2>2. <<>> \in Seq(Nat) /\ Len(<<>>) = 0 /\ ChanCap \in Nat
    BY StreamAssumption DEF StreamAssumption
  <2>3. TypeOK' /\ RingOK'
    BY <2>1, <2>2 DEF SInv, TypeOK, RingOK
  <2>4. ASSUME NEW v \in Watchers PROVE WatcherOK(v)' /\ CoverOK(v)'
    <3>1. CASE v = w
      BY <2>1, <3>1, EndedWatcher DEF SInv, TypeOK
    <3>2. CASE v # w
      BY <2>1, <3>2, UntouchedWatcher DEF SInv, TypeOK
    <3> QED
      BY <3>1, <3>2
  <2> QED
    BY <2>3, <2>4 DEF SInv
<1>7. CASE UNCHANGED vars
  BY <1>7 DEF vars, SInv, TypeOK, RingOK, WatcherOK, CoverOK
<1> QED
  BY <1>1, <1>2, <1>3, <1>4, <1>5, <1>6, <1>7 DEF Next

\* Ring, backlog and channel stay in their ranges and follow one another,
\* whatever the watchers, limits, restarts and reconnections.
THEOREM StreamInductive == Spec => []SInv
<1>1. SInv /\ [Next]_vars => SInv'
  BY SInvStep
<1> QED
  BY <1>1, InitSInv, PTL DEF Spec

\* A client receives events in the order they were recorded and none twice, over
\* all its connections and all daemons.
THEOREM OrderedHolds == Spec => []Ordered
<1>1. SInv => Ordered
  BY DEF SInv, WatcherOK, Increasing, Ordered
<1> QED
  BY <1>1, StreamInductive, PTL

\* A client that never named an ID of an earlier daemon misses no event before
\* the last it received but those a full channel or the ring dropped.
THEOREM NoSilentGapHolds == Spec => []NoSilentGap
<1>1. ASSUME SInv, NEW w \in Watchers, ~crossed[w], NEW n \in 1..Newest(got[w])
      PROVE  n \in Elems(got[w]) \cup lost[w]
  <2>1. /\ got[w] \in Seq(Nat) /\ Newest(got[w]) \in Nat /\ recorded \in Nat
        /\ got[w] # <<>> => Newest(got[w]) \in Elems(got[w])
    BY <1>1, NewestFacts DEF SInv, TypeOK
  <2>2. got[w] # <<>> /\ n <= Newest(got[w])
    BY <1>1, <2>1 DEF Newest
  <2>3. n \in 1..recorded
    BY <1>1, <2>1, <2>2 DEF SInv, WatcherOK
  <2>4. CASE stream[w] = "off"
    BY <1>1, <2>4 DEF SInv, CoverOK
  <2>5. CASE stream[w] # "off"
    <3>1. \A m \in Elems(todo[w]) \cup Elems(chan[w]) : Newest(got[w]) < m /\ m \in Nat
      BY <1>1, <2>1, <2>2 DEF SInv, TypeOK, WatcherOK, Before
    <3>2. n \notin Elems(todo[w]) \cup Elems(chan[w])
      BY <2>1, <2>2, <3>1
    <3> QED
      BY <1>1, <2>3, <2>5, <3>2 DEF SInv, CoverOK
  <2> QED
    BY <2>4, <2>5
<1>2. SInv => NoSilentGap
  BY <1>1 DEF NoSilentGap
<1> QED
  BY <1>2, StreamInductive, PTL
=============================================================================
