------------------------------ MODULE EventStream ------------------------------
(***************************************************************************)
(* The store of audit events (core/control/events.go) and the two RPCs     *)
(* that read it (core/rpc/events_rpc.go).  The store keeps the newest      *)
(* Limit events, numbers them from 1 at every start of the daemon, and     *)
(* pushes each into the channel of every subscriber that has room.  A      *)
(* watcher first gets what the ring holds after the ID it names, then its  *)
(* channel.                                                                *)
(*                                                                         *)
(* Events are numbered over all starts of the daemon, so that two can be   *)
(* compared; the ID the code gives to event n is n - base.                 *)
(***************************************************************************)
EXTENDS Naturals, Sequences

CONSTANTS Watchers,   \* clients of WatchEvents, each with one stream at a time
          Limit,      \* DefaultEventLimit: 200
          ChanCap,    \* room in a subscriber's channel: 100
          MaxEvents,  \* bound: events recorded
          MaxBoots    \* bound: starts of the daemon

ASSUME StreamAssumption ==
    /\ Limit \in Nat \ {0} /\ ChanCap \in Nat \ {0}
    /\ MaxEvents \in Nat /\ MaxBoots \in Nat

VARIABLES recorded,  \* events recorded so far; s.nextID is recorded - base
          base,      \* events recorded by earlier daemons
          boots,     \* starts of the daemon
          ring,      \* s.events
          stream,    \* "off", "live", or "gone": the client left, its handler has not seen it
          todo,      \* the backlog the handler has still to send
          chan,      \* the subscriber's channel
          got,       \* what the client received, over all its streams
          after,     \* ID of the last event it received, 0 for none
          \* history
          lost,      \* what the client may miss: its channel was full, or the ring forgot it
          crossed    \* the client named an ID of an earlier daemon

store == <<recorded, base, boots, ring>>
client == <<got, after, lost, crossed>>
vars == <<store, stream, todo, chan, client>>

Elems(s) == {s[i] : i \in 1..Len(s)}
Newest(s) == IF s = <<>> THEN 0 ELSE s[Len(s)]
ID(n) == n - base

Init ==
    /\ recorded = 0 /\ base = 0 /\ boots = 1 /\ ring = <<>>
    /\ stream = [w \in Watchers |-> "off"]
    /\ todo = [w \in Watchers |-> <<>>]
    /\ chan = [w \in Watchers |-> <<>>]
    /\ got = [w \in Watchers |-> <<>>]
    /\ after = [w \in Watchers |-> 0]
    /\ lost = [w \in Watchers |-> {}]
    /\ crossed = [w \in Watchers |-> FALSE]

----------------------------------------------------------------------------
(* The store *)

\* Record appends and forgets the oldest event over the limit.
Kept(n) == IF Len(ring) = Limit THEN Append(Tail(ring), n) ELSE Append(ring, n)

\* Once the ring is full Record returns before it publishes.
MutOffer(w, n) ==
    IF stream[w] # "off" /\ Len(chan[w]) < ChanCap /\ Len(ring) < Limit
    THEN Append(chan[w], n) ELSE chan[w]

\* ... and offers the event to every subscriber; a full channel is passed over.
Offer(w, n) ==
    IF stream[w] # "off" /\ Len(chan[w]) < ChanCap THEN Append(chan[w], n) ELSE chan[w]

Record ==
    /\ recorded < MaxEvents
    /\ recorded' = recorded + 1
    /\ ring' = Kept(recorded + 1)
    /\ chan' = [w \in Watchers |-> Offer(w, recorded + 1)]
    /\ lost' = [w \in Watchers |->
                  IF stream[w] # "off" /\ Len(chan[w]) = ChanCap
                  THEN lost[w] \cup {recorded + 1} ELSE lost[w]]
    /\ UNCHANGED <<base, boots, stream, todo, got, after, crossed>>

\* A new daemon starts with an empty store; every stream of the old one ends.
Restart ==
    /\ boots < MaxBoots
    /\ boots' = boots + 1 /\ base' = recorded /\ ring' = <<>>
    /\ stream' = [w \in Watchers |-> "off"]
    /\ todo' = [w \in Watchers |-> <<>>]
    /\ chan' = [w \in Watchers |-> <<>>]
    /\ UNCHANGED <<recorded, client>>

----------------------------------------------------------------------------
(* WatchEvents *)

\* The event of that ID is sent once more.
MutEventsAfterAgain(id) ==
    IF \E i \in 1..Len(ring) : ID(ring[i]) = id
    THEN LET i == CHOOSE i \in 1..Len(ring) : ID(ring[i]) = id
         IN SubSeq(ring, i, Len(ring))
    ELSE ring
\* An ID that is no longer in the ring is answered with nothing.
MutEventsAfterUnknown(id) ==
    IF id = 0 THEN ring
    ELSE LET at == {i \in 1..Len(ring) : ID(ring[i]) = id}
         IN IF at = {} THEN <<>> ELSE SubSeq(ring, (CHOOSE i \in at : TRUE) + 1, Len(ring))

\* eventsAfter: what follows the event of that ID, everything when there is none.
EventsAfter(id) ==
    IF \E i \in 1..Len(ring) : ID(ring[i]) = id
    THEN LET i == CHOOSE i \in 1..Len(ring) : ID(ring[i]) = id
         IN SubSeq(ring, i + 1, Len(ring))
    ELSE ring

\* SubscribeAndList makes the channel and copies the ring under the mutex.
Watch(w) ==
    /\ stream[w] = "off"
    /\ stream' = [stream EXCEPT ![w] = "live"]
    /\ todo' = [todo EXCEPT ![w] = EventsAfter(after[w])]
    /\ lost' = [lost EXCEPT ![w] = @ \cup
                  {n \in 1..recorded : n > Newest(got[w]) /\ n \notin Elems(ring)}]
    /\ crossed' = [crossed EXCEPT ![w] = @ \/ (got[w] # <<>> /\ Newest(got[w]) <= base)]
    /\ UNCHANGED <<store, chan, got, after>>

Deliver(w, n) ==
    /\ got' = [got EXCEPT ![w] = Append(@, n)]
    /\ after' = [after EXCEPT ![w] = ID(n)]

SendBacklog(w) ==
    /\ stream[w] = "live" /\ todo[w] # <<>>
    /\ Deliver(w, Head(todo[w]))
    /\ todo' = [todo EXCEPT ![w] = Tail(@)]
    /\ UNCHANGED <<store, stream, chan, lost, crossed>>

SendLive(w) ==
    /\ stream[w] = "live" /\ todo[w] = <<>> /\ chan[w] # <<>>
    /\ Deliver(w, Head(chan[w]))
    /\ chan' = [chan EXCEPT ![w] = Tail(@)]
    /\ UNCHANGED <<store, stream, todo, lost, crossed>>

\* The client leaves, or its connection breaks.
Leave(w) ==
    /\ stream[w] = "live"
    /\ stream' = [stream EXCEPT ![w] = "gone"]
    /\ UNCHANGED <<store, todo, chan, client>>

\* The handler meets the error of Send or the end of the context and unsubscribes.
Unsubscribe(w) ==
    /\ stream[w] = "gone"
    /\ stream' = [stream EXCEPT ![w] = "off"]
    /\ todo' = [todo EXCEPT ![w] = <<>>]
    /\ chan' = [chan EXCEPT ![w] = <<>>]
    /\ UNCHANGED <<store, client>>

Send(w) == SendBacklog(w) \/ SendLive(w)

Next ==
    \/ Record
    \/ Restart
    \/ \E w \in Watchers : Watch(w) \/ Send(w) \/ Leave(w) \/ Unsubscribe(w)

Spec == Init /\ [][Next]_vars

\* A handler whose client reads goes on sending.
FairSpec == Spec /\ \A w \in Watchers : WF_vars(Send(w)) /\ WF_vars(Unsubscribe(w))

----------------------------------------------------------------------------
(* Properties *)

\* The ring and the channels stay within their limits.
TypeOK ==
    /\ recorded \in Nat /\ base \in 0..recorded /\ boots \in Nat
    /\ ring \in Seq(Nat) /\ Len(ring) <= Limit
    /\ stream \in [Watchers -> {"off", "live", "gone"}]
    /\ todo \in [Watchers -> Seq(Nat)]
    /\ chan \in [Watchers -> Seq(Nat)]
    /\ \A w \in Watchers : Len(chan[w]) <= ChanCap
    /\ got \in [Watchers -> Seq(Nat)]
    /\ after \in [Watchers -> Nat]
    /\ lost \in [Watchers -> SUBSET Nat]
    /\ crossed \in [Watchers -> BOOLEAN]

\* Whatever connections a client made, what it received is in the order of
\* recording and holds no event twice: backlog, channel and after_id fit together.
Ordered == \A w \in Watchers :
    \A i, j \in 1..Len(got[w]) : i < j => got[w][i] < got[w][j]

\* A client that never named an ID of an earlier daemon misses, between two
\* events it received, only what a full channel or the ring dropped.
NoSilentGap == \A w \in Watchers : ~crossed[w] =>
    \A n \in 1..Newest(got[w]) :
        n \in Elems(got[w]) \cup lost[w]

\* An event recorded while a client is connected and reading reaches it.
Delivered == \A w \in Watchers, n \in 1..MaxEvents :
    (stream[w] = "live" /\ recorded = n /\ n > base /\ ~crossed[w])
      ~> (n \in Elems(got[w]) \cup lost[w] \/ stream[w] # "live")
================================================================================
