------------------------- MODULE SyncSessionProofs -------------------------
(***************************************************************************)
(* The peer sessions keep their types, a block holds in the sessions that  *)
(* run, and bodies name only groups of both ends, for every topology of    *)
(* links, every seed and every bound.                                      *)
(***************************************************************************)
EXTENDS SyncSession, NaturalsInduction, WellFoundedInduction, TLAPS

USE SessionAssumption, EventsAssumption DEF GroupOfAssumption, MaxSeqAssumption

-----------------------------------------------------------------------------
(***************************************************************************)
(* Least and greatest numbers.                                             *)
(***************************************************************************)

(* Every set of naturals that is not empty has a least member. *)
LEMMA LeastNumber ==
    ASSUME NEW S \in SUBSET Nat, S # {}
    PROVE  \E h \in S : \A k \in S : h <= k
<1>1. \E h \in S : \A k \in S : ~(<<k, h>> \in OpToRel(<, Nat))
  BY WFMin, NatLessThanWellFounded, Zenon
<1>2. PICK h \in S : \A k \in S : ~(<<k, h>> \in OpToRel(<, Nat))
  BY <1>1
<1>3. ASSUME NEW k \in S PROVE h <= k
  <2>1. ~(<<k, h>> \in OpToRel(<, Nat))
    BY <1>2
  <2>2. ~(k < h)
    BY <2>1 DEF OpToRel
  <2> QED
    BY <2>2
<1> QED
  BY <1>3

(* A set of numbers up to a bound that is not empty has a greatest member. *)
LEMMA GreatestNumber ==
    ASSUME NEW B \in Nat, NEW S \in SUBSET (0..B), S # {}
    PROVE  Max(S) \in S /\ \A k \in S : k <= Max(S)
<1> DEFINE T == {B - k : k \in S}
<1>1. T \in SUBSET Nat /\ T # {}
  <2>1. \A k \in S : B - k \in Nat
    OBVIOUS
  <2> QED
    BY <2>1
<1>2. PICK t \in T : \A u \in T : t <= u
  BY <1>1, LeastNumber
<1>3. PICK h \in S : t = B - h
  OBVIOUS
<1>4. ASSUME NEW k \in S PROVE h >= k
  <2>1. t <= B - k
    BY <1>2
  <2> QED
    BY <1>3, <2>1
<1>5. \E x \in S : \A y \in S : x >= y
  BY <1>4
<1> QED
  BY <1>5 DEF Max

(* The contiguous head of a set of numbers is what its definition says. *)
LEMMA HeadOfNumbers ==
    ASSUME NEW S \in SUBSET (1..MaxSeq)
    PROVE  /\ ContiguousHead(S) \in 0..MaxSeq
           /\ 1..ContiguousHead(S) \subseteq S
<1> DEFINE T == {h \in 0..MaxSeq : h + 1 \notin S}
<1>1. T \in SUBSET Nat /\ MaxSeq \in T
  BY DEF BoundsAssumption
<1>2. PICK h \in T : \A k \in T : h <= k
  BY <1>1, LeastNumber
<1>3. 1..h \subseteq S
  <2> SUFFICES ASSUME NEW i \in 1..h PROVE i \in S
    OBVIOUS
  <2>1. i - 1 \in 0..MaxSeq /\ i - 1 < h
    BY DEF BoundsAssumption
  <2>2. i - 1 \notin T
    BY <1>2, <2>1
  <2> QED
    BY <2>1, <2>2
<1>4. \E k \in 0..MaxSeq : 1..k \subseteq S /\ k + 1 \notin S
  BY <1>2, <1>3
<1> QED
  BY <1>4 DEF ContiguousHead

-----------------------------------------------------------------------------
(***************************************************************************)
(* Types of the pieces a step is made of.                                  *)
(***************************************************************************)

(* The two ends of a link are different endpoints at known nodes. *)
LEMMA EndpointFacts ==
    ASSUME NEW e \in Endpoint
    PROVE  /\ Peer(e) \in Endpoint /\ Peer(e) # e /\ Peer(Peer(e)) = e
           /\ Home(e) \in Node /\ Far(e) \in Node /\ Far(e) = Home(Peer(e))
<1>1. PICK l \in Link, s \in Side : e = <<l, s>>
  BY DEF Endpoint
<1>2. Peer(e) = <<l, IF s = "dial" THEN "accept" ELSE "dial">>
  BY <1>1 DEF Peer
<1>3. Peer(e) \in Endpoint /\ Peer(e) # e /\ Peer(Peer(e)) = e
  BY <1>1, <1>2 DEF Peer, Endpoint, Side
<1>4. \A d \in Endpoint : Home(d) \in Node
  BY DEF Home, Endpoint, LinksAssumption
<1> QED
  BY <1>3, <1>4 DEF Far

LEMMA FreshType ==
    ASSUME NEW phase \in Running \cup Ended
    PROVE  Fresh(phase) \in Session
<1>1. NoHeads \in Heads
  BY DEF NoHeads, Heads, BoundsAssumption
<1> QED
  BY <1>1 DEF Fresh, Session

LEMMA PushType ==
    ASSUME NEW V, NEW q \in Seq(V), NEW v \in V, NEW cap \in Nat \ {0}
    PROVE  Push(q, v, cap) \in Seq(V)
<1>1. CASE Len(q) < cap
  BY <1>1 DEF Push
<1>2. CASE ~(Len(q) < cap)
  <2>1. q # <<>>
    BY <1>2
  <2> QED
    BY <1>2, <2>1 DEF Push
<1> QED
  BY <1>1, <1>2

LEMMA SeqsInType ==
    ASSUME NEW S \in SUBSET Event, NEW g, NEW a
    PROVE  SeqsIn(S, g, a) \in SUBSET (1..MaxSeq)
  BY DEF SeqsIn, Event

LEMMA InventoriesType ==
    ASSUME TypeOK, NEW n \in Node, NEW gs
    PROVE  Inventories(n, gs) \in Heads
<1>1. \A g, a : ContiguousHead(SeqsIn(events[n], g, a)) \in 0..MaxSeq
  BY SeqsInType, HeadOfNumbers DEF TypeOK
<1> QED
  BY <1>1 DEF Inventories, Heads, BoundsAssumption

LEMMA MissingRangesType ==
    ASSUME NEW local \in Heads, NEW remote \in Heads
    PROVE  MissingRanges(local, remote) \in SUBSET RangeRequest
<1> SUFFICES ASSUME NEW k \in Group \X Node, remote[k] > local[k]
             PROVE  [group |-> k[1], author |-> k[2], first |-> local[k] + 1,
                     last |-> remote[k]] \in RangeRequest
  BY DEF MissingRanges
<1>1. local[k] \in 0..MaxSeq /\ remote[k] \in 0..MaxSeq
  BY DEF Heads
<1> QED
  BY <1>1 DEF RangeRequest, BoundsAssumption

(* A batch is part of the store, and within the range that was asked for. *)
LEMMA EventsRangeType ==
    ASSUME TypeOK, NEW n \in Node, NEW r \in RangeRequest
    PROVE  /\ EventsRange(n, r) \subseteq events[n]
           /\ \A x \in EventsRange(n, r) :
                 x \in Event /\ x.seq \in r.first..r.last /\ x.seq \in 1..MaxSeq
  BY DEF EventsRange, TypeOK, Event

-----------------------------------------------------------------------------
(***************************************************************************)
(* Every step keeps the types.                                             *)
(***************************************************************************)

LEMMA EndType ==
    ASSUME TypeOK, NEW e \in Endpoint, NEW why \in Ended, End(e, why)
    PROVE  TypeOK'
<1>1. Peer(e) \in Endpoint /\ Peer(e) # e
  BY EndpointFacts
<1>2. Fresh(why) \in Session /\ Fresh("lost") \in Session
  BY FreshType DEF Ended
<1>3. sess' \in [Endpoint -> Session]
  BY <1>1, <1>2 DEF End, TypeOK
<1>4. /\ wire' \in [Endpoint -> Seq(Frame)]
      /\ liveQ' \in [Endpoint -> Seq(Event)]
      /\ metaQ' \in [Endpoint -> Seq(Channel)]
  <2>1. \A V : <<>> \in Seq(V)
    OBVIOUS
  <2>2. wire' \in [Endpoint -> Seq(Frame)]
    BY <1>1, <2>1 DEF End, TypeOK
  <2>3. liveQ' \in [Endpoint -> Seq(Event)]
    BY <1>1, <2>1 DEF End, TypeOK
  <2>4. metaQ' \in [Endpoint -> Seq(Channel)]
    BY <1>1, <2>1 DEF End, TypeOK
  <2> QED
    BY <2>2, <2>3, <2>4
<1> QED
  BY <1>3, <1>4 DEF End, TypeOK, stores

LEMMA ReplyType ==
    ASSUME TypeOK, NEW e \in Endpoint, wire[Peer(e)] # <<>>,
           NEW s \in Session, NEW frames \in Seq(Frame), Reply(e, s, frames)
    PROVE  sess' \in [Endpoint -> Session] /\ wire' \in [Endpoint -> Seq(Frame)]
<1>1. Peer(e) \in Endpoint /\ Peer(e) # e
  BY EndpointFacts
<1>2. Tail(wire[Peer(e)]) \in Seq(Frame) /\ wire[e] \o frames \in Seq(Frame)
  BY <1>1 DEF TypeOK
<1> QED
  BY <1>1, <1>2 DEF Reply, TypeOK

LEMMA PublishEventType ==
    ASSUME TypeOK, NEW n \in Node, NEW x \in Event, PublishEvent(n, x)
    PROVE  liveQ' \in [Endpoint -> Seq(Event)]
<1>1. \A e \in Endpoint : Push(liveQ[e], x, LiveCap) \in Seq(Event)
  BY PushType DEF TypeOK, BoundsAssumption
<1> QED
  BY <1>1 DEF PublishEvent, TypeOK

LEMMA PublishChannelType ==
    ASSUME TypeOK, NEW n \in Node, NEW c \in Channel, PublishChannel(n, c)
    PROVE  metaQ' \in [Endpoint -> Seq(Channel)]
<1>1. \A e \in Endpoint : Push(metaQ[e], c, MetaCap) \in Seq(Channel)
  BY PushType DEF TypeOK, BoundsAssumption
<1> QED
  BY <1>1 DEF PublishChannel, TypeOK

(* What insert_remote_event can refuse an event for. *)
LEMMA VerdictType ==
    ASSUME NEW n, NEW x
    PROVE  Verdict(n, x) \in Refusals \cup {"ok"}
  BY DEF Verdict, Refusals

LEMMA InitType == Init => TypeOK
<1> SUFFICES ASSUME Init PROVE TypeOK
  OBVIOUS
<1>1. Fresh("idle") \in Session
  BY FreshType DEF Ended
<1>2. events \in [Node -> SUBSET Event]
  BY DEF Init, SeedAssumption
<1> QED
  BY <1>1, <1>2 DEF Init, TypeOK, GroupsAssumption

-----------------------------------------------------------------------------
(* The handshake and inventory handlers. *)
LEMMA EarlyHandlerTypes ==
    ASSUME TypeOK, NEW e \in Endpoint, wire[Peer(e)] # <<>>, NEW f \in Frame,
           \/ f.kind = "hello" /\ ReceiveHello(e, f)
           \/ f.kind = "proofs" /\ ReceiveProofs(e, f)
           \/ f.kind = "channels" /\ ReceiveChannels(e, f)
           \/ f.kind = "inventories" /\ ReceiveInventories(e, f)
           \/ f.kind = "requests" /\ ReceiveRequests(e, f)
           \/ f.kind = "done" /\ ReceiveDone(e, f)
    PROVE  TypeOK'
<1> DEFINE n == Home(e)
<1>1. n \in Node /\ Far(e) \in Node /\ sess[e] \in Session /\ groups[n] \in SUBSET Group
  BY EndpointFacts DEF TypeOK
<1>2. {"self", "blocked", "no_group", "group"} \subseteq Ended
  BY DEF Ended, Refusals
<1>3. CASE f.kind = "hello" /\ ReceiveHello(e, f)
  <2> DEFINE s == [sess[e] EXCEPT !.phase = "proofs", !.shared = groups[n]]
             r == [kind |-> "proofs", groups |-> groups[n]]
  <2>1. CASE End(e, "self") \/ End(e, "blocked")
    BY <1>2, <2>1, EndType
  <2>2. CASE Reply(e, s, <<r>>) /\ UNCHANGED <<stores, queues>>
    <3>1. s \in Session
      BY <1>1 DEF Session, Running, Handshake
    <3>2. r \in Frame
      BY <1>1 DEF Frame
    <3> HIDE DEF s, r
    <3>3. sess' \in [Endpoint -> Session] /\ wire' \in [Endpoint -> Seq(Frame)]
      <4>1. <<r>> \in Seq(Frame)
        BY <3>2
      <4> QED
        BY <2>2, <3>1, <4>1, ReplyType
    <3> QED
      BY <2>2, <3>3 DEF TypeOK, stores, queues
  <2> QED
    BY <1>3, <2>1, <2>2 DEF ReceiveHello
<1>4. CASE f.kind = "proofs" /\ ReceiveProofs(e, f)
  <2> DEFINE shared == sess[e].shared \cap f.groups
             known == {c \in chans[n] : GroupOf[c] \in shared}
             s == [sess[e] EXCEPT !.phase = "channels", !.shared = shared]
             r == [kind |-> "channels", channels |-> known]
  <2>1. CASE End(e, "no_group")
    BY <1>2, <2>1, EndType
  <2>2. CASE Reply(e, s, <<r>>) /\ UNCHANGED <<stores, queues>>
    <3>1. s \in Session
      BY <1>1 DEF Session, Running, Syncing
    <3>2. r \in Frame
      BY <1>1 DEF Frame, TypeOK
    <3> HIDE DEF s, r
    <3>3. sess' \in [Endpoint -> Session] /\ wire' \in [Endpoint -> Seq(Frame)]
      <4>1. <<r>> \in Seq(Frame)
        BY <3>2
      <4> QED
        BY <2>2, <3>1, <4>1, ReplyType
    <3> QED
      BY <2>2, <3>3 DEF TypeOK, stores, queues
  <2> QED
    BY <1>4, <2>1, <2>2 DEF ReceiveProofs
<1>5. CASE f.kind = "channels" /\ ReceiveChannels(e, f)
  <2> DEFINE mine == Inventories(n, sess[e].shared)
             s == [sess[e] EXCEPT !.phase = "inventories", !.mine = mine]
             r == [kind |-> "inventories", heads |-> mine]
  <2>1. CASE End(e, "group")
    BY <1>2, <2>1, EndType
  <2>2. CASE /\ Reply(e, s, <<r>>)
             /\ chans' = [chans EXCEPT ![n] = @ \cup f.channels]
             /\ UNCHANGED <<groups, events, blocked, queues>>
    <3>1. mine \in Heads
      BY <1>1, InventoriesType
    <3>2. s \in Session
      BY <1>1, <3>1 DEF Session, Running, Syncing
    <3>3. r \in Frame
      BY <3>1 DEF Frame
    <3>4. f.channels \in SUBSET Channel
      BY <1>5 DEF Frame
    <3> HIDE DEF s, r
    <3>5. sess' \in [Endpoint -> Session] /\ wire' \in [Endpoint -> Seq(Frame)]
      <4>1. <<r>> \in Seq(Frame)
        BY <3>3
      <4> QED
        BY <2>2, <3>2, <4>1, ReplyType
    <3> QED
      BY <1>1, <2>2, <3>4, <3>5 DEF TypeOK, queues
  <2> QED
    BY <1>5, <2>1, <2>2 DEF ReceiveChannels
<1>6. CASE f.kind = "inventories" /\ ReceiveInventories(e, f)
  <2> DEFINE theirs == [k \in Group \X Node |->
                          IF k[1] \in sess[e].shared THEN f.heads[k] ELSE 0]
             s == [sess[e] EXCEPT !.phase = "requests", !.mine = NoHeads,
                                  !.theirs = theirs]
             r == [kind |-> "requests", ranges |-> MissingRanges(sess[e].mine, theirs)]
  <2>1. f.heads \in Heads
    BY <1>6 DEF Frame
  <2>2. theirs \in Heads /\ NoHeads \in Heads /\ sess[e].mine \in Heads
    BY <1>1, <2>1 DEF Heads, NoHeads, Session, BoundsAssumption
  <2> HIDE DEF theirs
  <2>3. s \in Session
    BY <1>1, <2>2 DEF Session, Running, Syncing
  <2>4. r \in Frame
    BY <2>2, MissingRangesType DEF Frame
  <2>5. Reply(e, s, <<r>>) /\ UNCHANGED <<stores, queues>>
    BY <1>6 DEF ReceiveInventories, theirs
  <2> HIDE DEF s, r
  <2>6. sess' \in [Endpoint -> Session] /\ wire' \in [Endpoint -> Seq(Frame)]
    <3>1. <<r>> \in Seq(Frame)
      BY <2>4
    <3> QED
      BY <2>3, <2>5, <3>1, ReplyType
  <2> QED
    BY <2>5, <2>6 DEF TypeOK, stores, queues
<1>7. CASE f.kind = "requests" /\ ReceiveRequests(e, f)
  <2> DEFINE s == [sess[e] EXCEPT !.phase = "sending", !.todo = f.ranges]
  <2>1. f.ranges \in SUBSET RangeRequest
    BY <1>7 DEF Frame
  <2>2. s \in Session
    BY <1>1, <2>1 DEF Session, Running, Syncing
  <2>3. Reply(e, s, <<>>) /\ UNCHANGED <<stores, queues>>
    BY <1>7 DEF ReceiveRequests
  <2> HIDE DEF s
  <2>4. sess' \in [Endpoint -> Session] /\ wire' \in [Endpoint -> Seq(Frame)]
    <3>1. <<>> \in Seq(Frame)
      OBVIOUS
    <3> QED
      BY <2>2, <2>3, <3>1, ReplyType
  <2> QED
    BY <2>3, <2>4 DEF TypeOK, stores, queues
<1>8. CASE f.kind = "done" /\ ReceiveDone(e, f)
  <2> DEFINE s == [sess[e] EXCEPT !.phase = "live"]
  <2>1. s \in Session
    BY <1>1 DEF Session, Running
  <2>2. Reply(e, s, <<>>) /\ UNCHANGED <<stores, queues>>
    BY <1>8 DEF ReceiveDone
  <2> HIDE DEF s
  <2>3. sess' \in [Endpoint -> Session] /\ wire' \in [Endpoint -> Seq(Frame)]
    <3>1. <<>> \in Seq(Frame)
      OBVIOUS
    <3> QED
      BY <2>1, <2>2, <3>1, ReplyType
  <2> QED
    BY <2>2, <2>3 DEF TypeOK, stores, queues
<1> QED
  BY <1>3, <1>4, <1>5, <1>6, <1>7, <1>8

(* The event ReceiveBatch inserts is one of the batch's. *)
LEMMA EarliestOfBatch ==
    ASSUME NEW S \in SUBSET Event, S # {}
    PROVE  (CHOOSE y \in S : \A z \in S : y.seq <= z.seq) \in S
<1> DEFINE T == {y.seq : y \in S}
<1>1. T \in SUBSET Nat /\ T # {}
  BY DEF Event
<1>2. PICK h \in T : \A k \in T : h <= k
  BY <1>1, LeastNumber
<1>3. PICK y \in S : y.seq = h
  OBVIOUS
<1>4. \A z \in S : y.seq <= z.seq
  BY <1>2, <1>3
<1> QED
  BY <1>4

(* The handlers of events and channels. *)
LEMMA LateHandlerTypes ==
    ASSUME TypeOK, NEW e \in Endpoint, wire[Peer(e)] # <<>>, NEW f \in Frame,
           \/ f.kind = "batch" /\ ReceiveBatch(e, f)
           \/ f.kind = "live" /\ ReceiveLive(e, f)
           \/ f.kind = "upsert" /\ ReceiveUpsert(e, f)
    PROVE  TypeOK'
<1> DEFINE n == Home(e)
<1>1. n \in Node /\ Peer(e) \in Endpoint /\ sess[e] \in Session
  BY EndpointFacts DEF TypeOK
<1>2. Refusals \subseteq Ended
  BY DEF Ended
<1>3. \A x : Verdict(n, x) # "ok" => Verdict(n, x) \in Ended
  BY <1>2, VerdictType
<1>4. CASE f.kind = "batch" /\ ReceiveBatch(e, f)
  <2> DEFINE x == CHOOSE y \in f.events : \A z \in f.events : y.seq <= z.seq
             rest == f.events \ {x}
             r == [kind |-> "batch", events |-> rest]
  <2>1. f.events \in SUBSET Event /\ f.events # {}
    BY <1>4 DEF Frame
  <2>2. x \in Event
    BY <2>1, EarliestOfBatch
  <2>3. CASE Verdict(n, x) # "ok" /\ End(e, Verdict(n, x))
    BY <1>3, <2>3, EndType
  <2>4. CASE /\ events' = [events EXCEPT ![n] = @ \cup {x}]
             /\ wire' = [wire EXCEPT ![Peer(e)] =
                    IF rest = {} THEN Tail(@) ELSE <<r>> \o Tail(@)]
             /\ UNCHANGED <<groups, chans, blocked, sess, queues>>
    <3>1. rest # {} => r \in Frame
      BY <2>1 DEF Frame
    <3>2. Tail(wire[Peer(e)]) \in Seq(Frame)
      BY <1>1 DEF TypeOK
    <3>3. rest # {} => <<r>> \o Tail(wire[Peer(e)]) \in Seq(Frame)
      BY <3>1, <3>2
    <3> HIDE DEF r, rest, x
    <3>4. wire' \in [Endpoint -> Seq(Frame)]
      BY <2>4, <1>1, <3>2, <3>3 DEF TypeOK
    <3>5. events' \in [Node -> SUBSET Event]
      BY <1>1, <2>2, <2>4 DEF TypeOK
    <3> QED
      BY <2>4, <3>4, <3>5 DEF TypeOK, queues
  <2> QED
    BY <1>4, <2>3, <2>4 DEF ReceiveBatch
<1>5. CASE f.kind = "live" /\ ReceiveLive(e, f)
  <2> DEFINE x == f.event
  <2>1. x \in Event
    BY <1>5 DEF Frame
  <2>2. CASE End(e, "group")
    BY <2>2, EndType DEF Ended, Refusals
  <2>3. CASE Verdict(n, x) # "ok" /\ End(e, Verdict(n, x))
    BY <1>3, <2>3, EndType
  <2>4. CASE /\ Reply(e, sess[e], <<>>)
             /\ events' = [events EXCEPT ![n] = @ \cup {x}]
             /\ IF x \in events[n] THEN UNCHANGED liveQ ELSE PublishEvent(n, x)
             /\ UNCHANGED <<groups, chans, blocked, metaQ>>
    <3>1. sess' \in [Endpoint -> Session] /\ wire' \in [Endpoint -> Seq(Frame)]
      <4>1. <<>> \in Seq(Frame)
        OBVIOUS
      <4> QED
        BY <1>1, <2>4, <4>1, ReplyType
    <3>2. liveQ' \in [Endpoint -> Seq(Event)]
      BY <1>1, <2>1, <2>4, PublishEventType DEF TypeOK
    <3>3. events' \in [Node -> SUBSET Event]
      BY <1>1, <2>1, <2>4 DEF TypeOK
    <3> QED
      BY <2>4, <3>1, <3>2, <3>3 DEF TypeOK
  <2> QED
    BY <1>5, <2>2, <2>3, <2>4 DEF ReceiveLive
<1>6. CASE f.kind = "upsert" /\ ReceiveUpsert(e, f)
  <2> DEFINE c == f.channel
  <2>1. c \in Channel
    BY <1>6 DEF Frame
  <2>2. CASE End(e, "group")
    BY <2>2, EndType DEF Ended, Refusals
  <2>3. CASE /\ Reply(e, sess[e], <<>>)
             /\ chans' = [chans EXCEPT ![n] = @ \cup {c}]
             /\ IF c \in chans[n] THEN UNCHANGED metaQ ELSE PublishChannel(n, c)
             /\ UNCHANGED <<groups, events, blocked, liveQ>>
    <3>1. sess' \in [Endpoint -> Session] /\ wire' \in [Endpoint -> Seq(Frame)]
      <4>1. <<>> \in Seq(Frame)
        OBVIOUS
      <4> QED
        BY <1>1, <2>3, <4>1, ReplyType
    <3>2. metaQ' \in [Endpoint -> Seq(Channel)]
      BY <1>1, <2>1, <2>3, PublishChannelType DEF TypeOK
    <3>3. chans' \in [Node -> SUBSET Channel]
      BY <1>1, <2>1, <2>3 DEF TypeOK
    <3> QED
      BY <2>3, <3>1, <3>2, <3>3 DEF TypeOK
  <2> QED
    BY <1>6, <2>2, <2>3 DEF ReceiveUpsert
<1> QED
  BY <1>4, <1>5, <1>6

LEMMA ReceiveType ==
    ASSUME TypeOK, NEW e \in Endpoint, Receive(e)
    PROVE  TypeOK'
<1> DEFINE f == Head(wire[Peer(e)])
<1>1. wire[Peer(e)] # <<>> /\ f \in Frame
  BY EndpointFacts DEF Receive, TypeOK
<1>2. CASE f.kind \in Accepts(sess[e].phase) /\ Handle(e, f)
  <2> HIDE DEF f
  <2>1. f.kind \in {"hello", "proofs", "channels", "inventories", "requests",
                     "batch", "done", "live", "upsert"}
    BY <1>1 DEF Frame
  <2> QED
    BY <1>1, <1>2, <2>1, EarlyHandlerTypes, LateHandlerTypes DEF Handle
<1>3. CASE End(e, "record")
  BY <1>3, EndType DEF Ended
<1> QED
  BY <1>2, <1>3 DEF Receive

-----------------------------------------------------------------------------
LEMMA SendBatchType ==
    ASSUME TypeOK, NEW e \in Endpoint, SendBatch(e)
    PROVE  TypeOK'
<1>1. PICK r \in sess[e].todo :
          IF r.group \notin sess[e].shared THEN End(e, "group")
          ELSE IF r.first = 0 \/ r.first > r.last THEN End(e, "range")
          ELSE SendRange(e, r)
  BY DEF SendBatch
<1>2. CASE End(e, "group") \/ End(e, "range")
  BY <1>2, EndType DEF Ended, Refusals
<1>3. CASE SendRange(e, r)
  <2> DEFINE batch == EventsRange(Home(e), r)
             last == Max({x.seq : x \in batch})
             rest == IF batch = {} \/ last >= r.last THEN {}
                     ELSE {[r EXCEPT !.first = last + 1]}
             frame == [kind |-> "batch", events |-> batch]
  <2>1. /\ Home(e) \in Node /\ sess[e] \in Session /\ r \in RangeRequest
        /\ MaxSeq \in Nat
    BY EndpointFacts DEF TypeOK, Session, BoundsAssumption
  <2>2. batch \in SUBSET Event /\ \A x \in batch : x.seq \in 1..MaxSeq
    BY <2>1, EventsRangeType
  <2>3. batch # {} => last \in 1..MaxSeq
    <3> DEFINE S == {x.seq : x \in batch}
    <3> HIDE DEF batch
    <3>1. S \in SUBSET (0..MaxSeq) /\ (batch # {} => S # {})
      BY <2>2
    <3>2. batch # {} => Max(S) \in S
      BY <2>1, <3>1, GreatestNumber
    <3> QED
      BY <2>2, <3>2
  <2>4. rest \in SUBSET RangeRequest
    <3> HIDE DEF batch, last
    <3>1. CASE rest = {}
      BY <3>1
    <3>2. CASE batch # {} /\ ~(last >= r.last)
      <4>1. last + 1 \in 1..MaxSeq
        BY <2>1, <2>3, <3>2 DEF RangeRequest
      <4> QED
        BY <2>1, <4>1 DEF RangeRequest
    <3> QED
      BY <3>1, <3>2
  <2>5. batch # {} => frame \in Frame
    <3> HIDE DEF batch
    <3> QED
      BY <2>2 DEF Frame
  <2>6. /\ sess' = [sess EXCEPT ![e].todo = (@ \ {r}) \cup rest]
        /\ wire' = [wire EXCEPT ![e] = IF batch = {} THEN @ ELSE Append(@, frame)]
        /\ UNCHANGED <<stores, queues>>
    BY <1>3 DEF SendRange
  <2> HIDE DEF batch, last, rest, frame
  <2>7. sess' \in [Endpoint -> Session]
    <3>1. [sess[e] EXCEPT !.todo = (@ \ {r}) \cup rest] \in Session
      BY <2>1, <2>4 DEF Session
    <3> QED
      BY <2>6, <3>1 DEF TypeOK
  <2>8. wire' \in [Endpoint -> Seq(Frame)]
    BY <2>5, <2>6 DEF TypeOK
  <2> QED
    BY <2>6, <2>7, <2>8 DEF TypeOK, stores, queues
<1> QED
  BY <1>1, <1>2, <1>3

LEMMA OwnAccordTypes ==
    ASSUME TypeOK, NEW e \in Endpoint,
           FinishSending(e) \/ ForwardLive(e) \/ ForwardMeta(e)
    PROVE  TypeOK'
<1>1. CASE FinishSending(e)
  <2>1. [kind |-> "done"] \in Frame
    BY DEF Frame
  <2>2. [sess[e] EXCEPT !.phase = "receiving"] \in Session
    BY DEF TypeOK, Session, Running, Syncing
  <2>3. sess' \in [Endpoint -> Session]
    BY <1>1, <2>2 DEF FinishSending, TypeOK
  <2>4. wire' \in [Endpoint -> Seq(Frame)]
    BY <1>1, <2>1 DEF FinishSending, TypeOK
  <2> QED
    BY <1>1, <2>3, <2>4 DEF FinishSending, TypeOK, stores, queues
<1>2. CASE ForwardLive(e)
  <2> DEFINE x == Head(liveQ[e])
             frame == [kind |-> "live", event |-> x]
  <2>1. x \in Event /\ Tail(liveQ[e]) \in Seq(Event)
    BY <1>2 DEF ForwardLive, TypeOK
  <2>2. frame \in Frame
    BY <2>1 DEF Frame
  <2>3. wire'[e] \in Seq(Frame) /\ wire' = [wire EXCEPT ![e] = wire'[e]]
    <3>1. Append(wire[e], frame) \in Seq(Frame)
      BY <2>2 DEF TypeOK
    <3> QED
      BY <1>2, <3>1 DEF ForwardLive, TypeOK
  <2>4. liveQ' \in [Endpoint -> Seq(Event)]
    BY <1>2, <2>1 DEF ForwardLive, TypeOK
  <2> QED
    BY <1>2, <2>3, <2>4 DEF ForwardLive, TypeOK, stores
<1>3. CASE ForwardMeta(e)
  <2> DEFINE c == Head(metaQ[e])
             frame == [kind |-> "upsert", channel |-> c]
  <2>1. c \in Channel /\ Tail(metaQ[e]) \in Seq(Channel)
    BY <1>3 DEF ForwardMeta, TypeOK
  <2>2. frame \in Frame
    BY <2>1 DEF Frame
  <2>3. wire'[e] \in Seq(Frame) /\ wire' = [wire EXCEPT ![e] = wire'[e]]
    <3>1. Append(wire[e], frame) \in Seq(Frame)
      BY <2>2 DEF TypeOK
    <3> QED
      BY <1>3, <3>1 DEF ForwardMeta, TypeOK
  <2>4. metaQ' \in [Endpoint -> Seq(Channel)]
    BY <1>3, <2>1 DEF ForwardMeta, TypeOK
  <2> QED
    BY <1>3, <2>3, <2>4 DEF ForwardMeta, TypeOK, stores
<1> QED
  BY <1>1, <1>2, <1>3

LEMMA LinkTypes ==
    ASSUME TypeOK, NEW l \in Link, Open(l) \/ Drop(l)
    PROVE  TypeOK'
<1>1. CASE Open(l)
  <2>1. Fresh("hello") \in Session
    BY FreshType DEF Running, Handshake
  <2>2. <<[kind |-> "hello"]>> \in Seq(Frame)
    BY DEF Frame
  <2>3. sess' \in [Endpoint -> Session]
    BY <1>1, <2>1 DEF Open, TypeOK
  <2>4. wire' \in [Endpoint -> Seq(Frame)]
    BY <1>1, <2>2 DEF Open, TypeOK
  <2> QED
    BY <1>1, <2>3, <2>4 DEF Open, TypeOK, stores, queues
<1>2. CASE Drop(l)
  <2>1. <<l, "dial">> \in Endpoint
    BY DEF Endpoint, Side
  <2> QED
    BY <1>2, <2>1, EndType DEF Drop, Ended
<1> QED
  BY <1>1, <1>2

LEMMA NextSequenceType ==
    ASSUME TypeOK, NEW n \in Node, NEW g
    PROVE  NextSequence(n, g) \in Nat \ {0}
<1> DEFINE S == SeqsIn(events[n], g, n) \cup {0}
<1>1. MaxSeq \in Nat /\ S \in SUBSET (0..MaxSeq) /\ S # {}
  BY SeqsInType DEF TypeOK, BoundsAssumption
<1>2. Max(S) \in S
  BY <1>1, GreatestNumber
<1> QED
  BY <1>1, <1>2 DEF NextSequence

LEMMA UserTypes ==
    ASSUME TypeOK, NEW n \in Node, User(n)
    PROVE  TypeOK'
<1>1. ASSUME NEW c \in Channel, SendMessage(n, c) PROVE TypeOK'
  <2> DEFINE x == [author |-> n, seq |-> NextSequence(n, GroupOf[c]), chan |-> c]
  <2>1. x.seq <= MaxSeq /\ x.seq \in Nat \ {0} /\ MaxSeq \in Nat
    BY <1>1, NextSequenceType DEF SendMessage, BoundsAssumption
  <2>2. x \in Event
    BY <2>1 DEF Event
  <2>3. /\ events' = [events EXCEPT ![n] = @ \cup {x}]
        /\ PublishEvent(n, x)
        /\ UNCHANGED <<groups, chans, blocked, sess, wire, metaQ>>
    BY <1>1 DEF SendMessage
  <2> HIDE DEF x
  <2>4. liveQ' \in [Endpoint -> Seq(Event)]
    BY <2>2, <2>3, PublishEventType
  <2>5. events' \in [Node -> SUBSET Event]
    BY <2>2, <2>3 DEF TypeOK
  <2> QED
    BY <2>3, <2>4, <2>5 DEF TypeOK
<1>2. ASSUME NEW c \in Channel, CreateChannel(n, c) PROVE TypeOK'
  <2>1. metaQ' \in [Endpoint -> Seq(Channel)]
    BY <1>2, PublishChannelType DEF CreateChannel
  <2> QED
    BY <1>2, <2>1 DEF CreateChannel, TypeOK
<1>3. ASSUME NEW m \in Node, NEW g \in Group, ImportInvite(n, m, g) PROVE TypeOK'
  <2> DEFINE offered == {c \in chans[m] : GroupOf[c] = g}
  <2>1. offered \in SUBSET Channel
    BY DEF TypeOK
  <2>2. /\ groups' = [groups EXCEPT ![n] = @ \cup {g}]
        /\ chans' = [chans EXCEPT ![n] = @ \cup offered]
        /\ UNCHANGED <<events, blocked, sess, wire, queues>>
    BY <1>3 DEF ImportInvite
  <2> HIDE DEF offered
  <2>3. groups' \in [Node -> SUBSET Group] /\ chans' \in [Node -> SUBSET Channel]
    BY <2>1, <2>2 DEF TypeOK
  <2> QED
    BY <2>2, <2>3 DEF TypeOK, queues
<1>4. ASSUME NEW c \in Channel, CreateGroup(n, c) PROVE TypeOK'
  <2>1. GroupOf[c] \in Group
    BY DEF GroupsAssumption
  <2>2. groups' \in [Node -> SUBSET Group] /\ chans' \in [Node -> SUBSET Channel]
    BY <1>4, <2>1 DEF CreateGroup, TypeOK
  <2> QED
    BY <1>4, <2>2 DEF CreateGroup, TypeOK, queues
<1>5. ASSUME NEW p \in Node, BlockPeer(n, p) \/ UnblockPeer(n, p) PROVE TypeOK'
  <2>1. UNCHANGED <<groups, chans, events, sess, wire, queues>>
    BY <1>5 DEF BlockPeer, UnblockPeer
  <2>2. blocked' \in [Node -> SUBSET Node]
    <3>1. CASE BlockPeer(n, p)
      BY <3>1 DEF BlockPeer, TypeOK
    <3>2. CASE UnblockPeer(n, p)
      BY <3>2 DEF UnblockPeer, TypeOK
    <3> QED
      BY <1>5, <3>1, <3>2
  <2> QED
    BY <2>1, <2>2 DEF TypeOK, queues
<1> QED
  BY <1>1, <1>2, <1>3, <1>4, <1>5 DEF User

LEMMA NextType == TypeOK /\ [Next]_vars => TypeOK'
<1> SUFFICES ASSUME TypeOK, [Next]_vars PROVE TypeOK'
  OBVIOUS
<1>1. ASSUME NEW l \in Link, Open(l) \/ Drop(l) PROVE TypeOK'
  BY <1>1, LinkTypes
<1>2. ASSUME NEW e \in Endpoint, Run(e) PROVE TypeOK'
  BY <1>2, ReceiveType, SendBatchType, OwnAccordTypes DEF Run
<1>3. ASSUME NEW n \in Node, User(n) PROVE TypeOK'
  BY <1>3, UserTypes
<1>4. CASE UNCHANGED vars
  BY <1>4 DEF vars, TypeOK
<1> QED
  BY <1>1, <1>2, <1>3, <1>4 DEF Next

(* The variables keep their types: every frame on a wire, every event stored or
   queued and every session's locals are of the kinds the code's types allow. *)
THEOREM TypeCorrect == Spec => []TypeOK
  BY InitType, NextType, PTL DEF Spec

-----------------------------------------------------------------------------
(***************************************************************************)
(* Blocking.                                                               *)
(***************************************************************************)

(* What a node adds to its store it wrote itself, or found to be acceptable. *)
AddsAccepted ==
    \A n \in Node : \A x \in events'[n] \ events[n] :
        x.author = n \/ Verdict(n, x) = "ok"

NobodyBlocksItself == \A n \in Node : blocked[n] \subseteq {p \in Node : <<n, p>> \in Blockable}

LEMMA SameEventsAdd == UNCHANGED events => AddsAccepted
  BY DEF AddsAccepted

LEMMA ReceiveAdds ==
    ASSUME TypeOK, NEW e \in Endpoint, Receive(e)
    PROVE  AddsAccepted
<1> DEFINE n == Home(e)
           f == Head(wire[Peer(e)])
<1>1. n \in Node /\ f \in Frame
  BY EndpointFacts DEF Receive, TypeOK
<1>2. CASE UNCHANGED events
  BY <1>2, SameEventsAdd
<1>3. CASE \E x : Verdict(n, x) = "ok" /\ events' = [events EXCEPT ![n] = @ \cup {x}]
  BY <1>1, <1>3 DEF AddsAccepted, TypeOK
<1>4. ASSUME NEW why, End(e, why) PROVE UNCHANGED events
  BY <1>4 DEF End, stores
<1>5. CASE Handle(e, f)
  <2> HIDE DEF f
  <2>1. f.kind \in {"hello", "proofs", "channels", "inventories", "requests",
                     "batch", "done", "live", "upsert"}
    BY <1>1 DEF Frame
  <2>2. CASE f.kind \in {"hello", "proofs", "channels"}
    BY <1>2, <1>4, <1>5, <2>2 DEF Handle, ReceiveHello, ReceiveProofs,
       ReceiveChannels, stores
  <2>3. CASE f.kind \in {"inventories", "requests", "done", "upsert"}
    BY <1>2, <1>4, <1>5, <2>3 DEF Handle, ReceiveInventories, ReceiveRequests,
       ReceiveDone, ReceiveUpsert, stores
  <2>4. CASE f.kind = "batch"
    BY <1>2, <1>3, <1>4, <1>5, <2>4 DEF Handle, ReceiveBatch
  <2>5. CASE f.kind = "live"
    BY <1>2, <1>3, <1>4, <1>5, <2>5 DEF Handle, ReceiveLive
  <2> QED
    BY <2>1, <2>2, <2>3, <2>4, <2>5
<1> QED
  BY <1>2, <1>4, <1>5 DEF Receive

LEMMA NextAdds ==
    ASSUME TypeOK, [Next]_vars
    PROVE  AddsAccepted
<1>1. ASSUME NEW e \in Endpoint, NEW why, End(e, why) PROVE UNCHANGED events
  BY <1>1 DEF End, stores
<1>2. ASSUME NEW l \in Link, Open(l) \/ Drop(l) PROVE AddsAccepted
  <2>1. <<l, "dial">> \in Endpoint
    BY DEF Endpoint, Side
  <2> QED
    BY <1>1, <1>2, <2>1, SameEventsAdd DEF Open, Drop, stores
<1>3. ASSUME NEW e \in Endpoint, Run(e) PROVE AddsAccepted
  <2>1. CASE Receive(e)
    BY <2>1, ReceiveAdds
  <2>2. CASE ~Receive(e)
    BY <1>1, <1>3, <2>2, SameEventsAdd DEF Run, SendBatch, SendRange, FinishSending,
       ForwardLive, ForwardMeta, stores
  <2> QED
    BY <2>1, <2>2
<1>4. ASSUME NEW n \in Node, User(n) PROVE AddsAccepted
  <2>1. ASSUME NEW c \in Channel, SendMessage(n, c) PROVE AddsAccepted
    <3>1. \E x : x.author = n /\ events' = [events EXCEPT ![n] = @ \cup {x}]
      BY <2>1 DEF SendMessage
    <3> QED
      BY <3>1 DEF AddsAccepted, TypeOK
  <2>2. CASE UNCHANGED events
    BY <2>2, SameEventsAdd
  <2> QED
    BY <1>4, <2>1, <2>2 DEF User, CreateChannel, CreateGroup, ImportInvite, BlockPeer,
       UnblockPeer, queues
<1>5. CASE UNCHANGED vars
  BY <1>5, SameEventsAdd DEF vars
<1> QED
  BY <1>2, <1>3, <1>4, <1>5 DEF Next

LEMMA InitNobody == Init => NobodyBlocksItself
  BY DEF Init, NobodyBlocksItself

LEMMA NextNobody ==
    ASSUME TypeOK, NobodyBlocksItself, [Next]_vars
    PROVE  NobodyBlocksItself'
<1>1. CASE UNCHANGED blocked
  BY <1>1 DEF NobodyBlocksItself
<1>2. ASSUME NEW n \in Node, NEW p \in Node, BlockPeer(n, p) PROVE NobodyBlocksItself'
  BY <1>2 DEF BlockPeer, NobodyBlocksItself, TypeOK
<1>3. ASSUME NEW n \in Node, NEW p \in Node, UnblockPeer(n, p) PROVE NobodyBlocksItself'
  BY <1>3 DEF UnblockPeer, NobodyBlocksItself, TypeOK
<1>4. ASSUME NEW l \in Link, Open(l) \/ Drop(l) PROVE UNCHANGED blocked
  BY <1>4 DEF Open, Drop, End, stores
<1>5. ASSUME NEW e \in Endpoint, Run(e) PROVE UNCHANGED blocked
  <2>1. ASSUME NEW why, End(e, why) PROVE UNCHANGED blocked
    BY <2>1 DEF End, stores
  <2>2. ASSUME NEW f \in Frame, Handle(e, f) PROVE UNCHANGED blocked
    <3>1. f.kind \in {"hello", "proofs", "channels", "inventories", "requests",
                       "batch", "done", "live", "upsert"}
      BY DEF Frame
    <3>2. CASE f.kind \in {"hello", "proofs", "channels", "inventories", "requests"}
      BY <2>1, <2>2, <3>2 DEF Handle, ReceiveHello, ReceiveProofs, ReceiveChannels,
         ReceiveInventories, ReceiveRequests, stores
    <3>3. CASE f.kind \in {"batch", "done", "live", "upsert"}
      BY <2>1, <2>2, <3>3 DEF Handle, ReceiveBatch, ReceiveDone, ReceiveLive,
         ReceiveUpsert, stores
    <3> QED
      BY <3>1, <3>2, <3>3
  <2>3. CASE Receive(e)
    <3>1. Head(wire[Peer(e)]) \in Frame
      BY <2>3, EndpointFacts DEF Receive, TypeOK
    <3> QED
      BY <2>1, <2>2, <2>3, <3>1 DEF Receive
  <2>4. CASE ~Receive(e)
    BY <1>5, <2>1, <2>4 DEF Run, SendBatch, SendRange, FinishSending,
       ForwardLive, ForwardMeta, stores
  <2> QED
    BY <2>3, <2>4
<1>6. ASSUME NEW n \in Node, User(n) PROVE NobodyBlocksItself'
  BY <1>1, <1>2, <1>3, <1>6 DEF User, SendMessage, CreateChannel, CreateGroup,
     ImportInvite
<1> QED
  BY <1>1, <1>4, <1>5, <1>6 DEF Next, vars

(* No session stores an event of an author its node has blocked, whenever the
   block came: the check is made at every insert, not at the handshake only. *)
THEOREM BlocksHold == Spec => BlockHolds
<1> DEFINE I == TypeOK /\ NobodyBlocksItself
           A == \A n \in Node : \A x \in events'[n] \ events[n] : x.author \notin blocked[n]
<1>1. Init => I
  BY InitType, InitNobody
<1>2. I /\ [Next]_vars => I'
  BY NextType, NextNobody
<1>3. I /\ [Next]_vars => A
  <2> SUFFICES ASSUME I, [Next]_vars, NEW n \in Node, NEW x \in events'[n] \ events[n]
               PROVE  x.author \notin blocked[n]
    OBVIOUS
  <2>1. x.author = n \/ Verdict(n, x) = "ok"
    BY NextAdds DEF AddsAccepted
  <2>2. n \notin blocked[n]
    BY DEF NobodyBlocksItself, GroupsAssumption
  <2> QED
    BY <2>1, <2>2 DEF Verdict
<1> HIDE DEF I, A
<1>4. I /\ [Next]_vars => [A]_vars
  BY <1>3
<1>5. Spec => [][A]_vars
  BY <1>1, <1>2, <1>4, PTL DEF Spec
<1> QED
  BY <1>5 DEF A, BlockHolds

-----------------------------------------------------------------------------
LEMMA SeqMonotone ==
    ASSUME NEW S, NEW T, S \subseteq T, NEW q \in Seq(S)
    PROVE  q \in Seq(T)
  OBVIOUS

LEMMA ConcatType ==
    ASSUME NEW T, NEW q \in Seq(T), NEW r \in Seq(T)
    PROVE  q \o r \in Seq(T)
  OBVIOUS

LEMMA TailType ==
    ASSUME NEW T, NEW q \in Seq(T), q # <<>>
    PROVE  Tail(q) \in Seq(T)
  OBVIOUS

(***************************************************************************)
(* Confinement.  A session shares no group its own node is not in, and     *)
(* none the peer's node is not in once the proofs are exchanged; a frame   *)
(* fits a wire when its body names only groups of both ends, and its       *)
(* proofs only groups of its sender.                                       *)
(***************************************************************************)
BodyGroups(f) == IF f.kind = "proofs" THEN {} ELSE GroupsIn(f)

Fit(e) ==
    {f \in Frame : /\ BodyGroups(f) \subseteq groups[Home(e)] \cap groups[Far(e)]
                   /\ f.kind = "proofs" => f.groups \subseteq groups[Home(e)]}

Shares(e, s) ==
    /\ s.shared \subseteq groups[Home(e)]
    /\ s.phase # "proofs" => s.shared \subseteq groups[Far(e)]

WiresFit == \A e \in Endpoint : wire[e] \in Seq(Fit(e))
SharesFit == \A e \in Endpoint : Shares(e, sess[e])
ConfinedInv == WiresFit /\ SharesFit

(* What fits goes on fitting while nodes only join groups. *)
LEMMA JoiningKeepsFit ==
    ASSUME ConfinedInv, UNCHANGED <<sess, wire>>,
           \A n \in Node : groups[n] \subseteq groups'[n]
    PROVE  ConfinedInv'
<1>1. ASSUME NEW e \in Endpoint PROVE wire[e] \in Seq(Fit(e)')
  <2>1. Fit(e) \subseteq Fit(e)'
    BY EndpointFacts DEF Fit
  <2>2. wire[e] \in Seq(Fit(e))
    BY DEF ConfinedInv, WiresFit
  <2> QED
    BY <2>1, <2>2, SeqMonotone
<1>2. ASSUME NEW e \in Endpoint PROVE Shares(e, sess[e])'
  BY EndpointFacts DEF ConfinedInv, SharesFit, Shares
<1> QED
  BY <1>1, <1>2 DEF ConfinedInv, WiresFit, SharesFit

LEMMA SameGroupsSameFit ==
    ASSUME UNCHANGED groups, NEW e \in Endpoint
    PROVE  Fit(e)' = Fit(e) /\ (Shares(e, sess[e])' <=> Shares(e, sess'[e]))
  BY DEF Fit, Shares

(* Nothing is missing of a log the peer has nothing of. *)
LEMMA MissingRangesBehind ==
    ASSUME NEW local \in Heads, NEW remote \in Heads, NEW r \in MissingRanges(local, remote)
    PROVE  \E k \in Group \X Node : remote[k] # 0 /\ r.group = k[1]
<1>1. PICK k \in Group \X Node : remote[k] > local[k] /\ r.group = k[1]
  BY DEF MissingRanges
<1>2. local[k] \in Nat /\ remote[k] \in Nat
  BY DEF Heads, BoundsAssumption
<1> QED
  BY <1>1, <1>2

LEMMA FreshShares == \A e, phase : Shares(e, Fresh(phase))
  BY DEF Shares, Fresh

LEMMA EndConfines ==
    ASSUME TypeOK, ConfinedInv, NEW e \in Endpoint, NEW why, End(e, why)
    PROVE  ConfinedInv'
<1>1. UNCHANGED groups
  BY DEF End, stores
<1>2. \A V : <<>> \in Seq(V)
  OBVIOUS
<1>3. ASSUME NEW d \in Endpoint PROVE wire'[d] = wire[d] \/ wire'[d] = <<>>
  BY DEF End, TypeOK
<1>4. ASSUME NEW d \in Endpoint PROVE sess'[d] = sess[d] \/ \E phase : sess'[d] = Fresh(phase)
  BY DEF End, TypeOK
<1>5. WiresFit'
  BY <1>1, <1>2, <1>3, SameGroupsSameFit DEF WiresFit, ConfinedInv
<1>6. SharesFit'
  BY <1>1, <1>4, SameGroupsSameFit, FreshShares DEF SharesFit, ConfinedInv
<1> QED
  BY <1>5, <1>6 DEF ConfinedInv

LEMMA ReplyConfines ==
    ASSUME TypeOK, ConfinedInv, UNCHANGED groups, NEW e \in Endpoint, wire[Peer(e)] # <<>>,
           NEW s, Shares(e, s), NEW frames \in Seq(Fit(e)), Reply(e, s, frames)
    PROVE  ConfinedInv'
<1>1. Peer(e) \in Endpoint /\ Peer(e) # e
  BY EndpointFacts
<1> DEFINE OK(d) == wire'[d] \in Seq(Fit(d))
<1>2. \A d \in Endpoint : wire[d] \in Seq(Fit(d))
  BY DEF ConfinedInv, WiresFit
<1>3. OK(e)
  <2>1. wire'[e] = wire[e] \o frames
    BY <1>1 DEF Reply, TypeOK
  <2>2. wire[e] \o frames \in Seq(Fit(e))
    BY <1>2, ConcatType, Zenon
  <2> QED
    BY <2>1, <2>2, Zenon
<1>4. OK(Peer(e))
  <2>1. wire'[Peer(e)] = Tail(wire[Peer(e)])
    BY <1>1 DEF Reply, TypeOK
  <2>2. Tail(wire[Peer(e)]) \in Seq(Fit(Peer(e)))
    BY <1>1, <1>2, TailType, Zenon
  <2> QED
    BY <2>1, <2>2, Zenon
<1>5. \A d \in Endpoint \ {e, Peer(e)} : OK(d)
  BY <1>2 DEF Reply, TypeOK
<1> HIDE DEF OK
<1>6. \A d \in Endpoint : OK(d)
  BY <1>3, <1>4, <1>5
<1>7. WiresFit'
  BY <1>6, SameGroupsSameFit DEF WiresFit, OK
<1>8. \A d \in Endpoint : sess'[d] = IF d = e THEN s ELSE sess[d]
  BY DEF Reply, TypeOK
<1>9. SharesFit'
  BY <1>8, SameGroupsSameFit DEF SharesFit, ConfinedInv
<1> QED
  BY <1>7, <1>9 DEF ConfinedInv

(* The head of the peer's wire fits it. *)
LEMMA HeadFits ==
    ASSUME ConfinedInv, NEW e \in Endpoint, wire[Peer(e)] # <<>>
    PROVE  /\ Head(wire[Peer(e)]) \in Frame
           /\ BodyGroups(Head(wire[Peer(e)])) \subseteq groups[Home(e)] \cap groups[Far(e)]
           /\ Head(wire[Peer(e)]).kind = "proofs" =>
                Head(wire[Peer(e)]).groups \subseteq groups[Far(e)]
<1>1. Peer(e) \in Endpoint /\ Home(Peer(e)) = Far(e) /\ Far(Peer(e)) = Home(e)
  BY EndpointFacts
<1>2. wire[Peer(e)] \in Seq(Fit(Peer(e)))
  BY <1>1 DEF ConfinedInv, WiresFit
<1>3. Head(wire[Peer(e)]) \in Fit(Peer(e))
  BY <1>2
<1> QED
  BY <1>1, <1>3 DEF Fit

LEMMA EarlyHandlersConfine ==
    ASSUME TypeOK, ConfinedInv, NEW e \in Endpoint, wire[Peer(e)] # <<>>, NEW f,
           f = Head(wire[Peer(e)]), f.kind \in Accepts(sess[e].phase), Handle(e, f),
           f.kind \in {"hello", "proofs", "channels", "inventories", "requests", "done"}
    PROVE  ConfinedInv'
<1> DEFINE n == Home(e)
           both == groups[n] \cap groups[Far(e)]
<1>1. n \in Node /\ Far(e) \in Node /\ f \in Frame /\ sess[e] \in Session
  BY HeadFits, EndpointFacts DEF TypeOK
<1>2. Shares(e, sess[e])
  BY DEF ConfinedInv, SharesFit
<1>3. \A m \in Fit(e) : <<m>> \in Seq(Fit(e))
  OBVIOUS
<1>4. <<>> \in Seq(Fit(e))
  OBVIOUS
<1>5. CASE \E why : End(e, why)
  BY <1>5, EndConfines
<1>6. CASE f.kind = "hello"
  <2> DEFINE s == [sess[e] EXCEPT !.phase = "proofs", !.shared = groups[n]]
             m == [kind |-> "proofs", groups |-> groups[n]]
  <2>1. m \in Fit(e)
    BY <1>1 DEF Fit, Frame, BodyGroups, GroupsIn, TypeOK
  <2>2. Shares(e, s)
    BY <1>1 DEF Shares, Session
  <2> HIDE DEF s, m
  <2>3. CASE Reply(e, s, <<m>>) /\ UNCHANGED groups
    BY <1>3, <2>1, <2>2, <2>3, ReplyConfines
  <2> QED
    BY <1>5, <1>6, <2>3 DEF Handle, ReceiveHello, stores, s, m
<1>7. CASE f.kind = "proofs"
  <2> DEFINE shared == sess[e].shared \cap f.groups
             known == {c \in chans[n] : GroupOf[c] \in shared}
             s == [sess[e] EXCEPT !.phase = "channels", !.shared = shared]
             m == [kind |-> "channels", channels |-> known]
  <2>1. shared \subseteq both
    BY <1>2, <1>7, HeadFits DEF Shares
  <2>2. m \in Fit(e)
    <3>1. m \in Frame
      BY <1>1 DEF Frame, TypeOK
    <3>2. BodyGroups(m) \subseteq both
      BY <2>1 DEF BodyGroups, GroupsIn
    <3> QED
      BY <3>1, <3>2 DEF Fit
  <2>3. Shares(e, s)
    BY <1>1, <2>1 DEF Shares, Session
  <2> HIDE DEF s, m
  <2>4. CASE Reply(e, s, <<m>>) /\ UNCHANGED groups
    BY <1>3, <2>2, <2>3, <2>4, ReplyConfines
  <2> QED
    BY <1>5, <1>7, <2>4 DEF Handle, ReceiveProofs, stores, s, m
<1>8. CASE f.kind \in {"channels", "inventories", "requests", "done"}
  <2>1. sess[e].phase # "proofs"
    BY <1>8 DEF Accepts
  <2>2. sess[e].shared \subseteq both
    BY <1>2, <2>1 DEF Shares
  <2>3. CASE f.kind = "channels"
    <3> DEFINE mine == Inventories(n, sess[e].shared)
               s == [sess[e] EXCEPT !.phase = "inventories", !.mine = mine]
               m == [kind |-> "inventories", heads |-> mine]
    <3>1. mine \in Heads
      BY <1>1, InventoriesType DEF Session
    <3>2. \A k \in Group \X Node : mine[k] > 0 => k[1] \in sess[e].shared
      BY DEF Inventories
    <3> HIDE DEF mine
    <3>3. m \in Fit(e)
      <4>1. m \in Frame
        BY <3>1 DEF Frame
      <4>2. BodyGroups(m) \subseteq both
        BY <2>2, <3>2 DEF BodyGroups, GroupsIn
      <4> QED
        BY <4>1, <4>2 DEF Fit
    <3>4. Shares(e, s)
      BY <1>1, <2>2 DEF Shares, Session
    <3> HIDE DEF s, m
    <3>5. CASE Reply(e, s, <<m>>) /\ UNCHANGED groups
      BY <1>3, <3>3, <3>4, <3>5, ReplyConfines
    <3> QED
      BY <1>5, <2>3, <3>5 DEF Handle, ReceiveChannels, s, m, mine
  <2>4. CASE f.kind = "inventories"
    <3> DEFINE theirs == [k \in Group \X Node |->
                            IF k[1] \in sess[e].shared THEN f.heads[k] ELSE 0]
               ranges == MissingRanges(sess[e].mine, theirs)
               s == [sess[e] EXCEPT !.phase = "requests", !.mine = NoHeads,
                                    !.theirs = theirs]
               m == [kind |-> "requests", ranges |-> ranges]
    <3>1. f.heads \in Heads /\ sess[e].mine \in Heads
      BY <1>1, <2>4 DEF Frame, Session
    <3>2. theirs \in Heads
      BY <3>1 DEF Heads, BoundsAssumption
    <3>3. ranges \in SUBSET RangeRequest
      BY <3>1, <3>2, MissingRangesType
    <3>4. ASSUME NEW r \in ranges PROVE r.group \in sess[e].shared
      <4> HIDE DEF theirs
      <4>1. PICK k \in Group \X Node : theirs[k] # 0 /\ r.group = k[1]
        BY <3>1, <3>2, MissingRangesBehind
      <4> QED
        BY <4>1 DEF theirs
    <3> HIDE DEF ranges
    <3>5. m \in Fit(e)
      <4>1. m \in Frame
        BY <3>3 DEF Frame
      <4>2. BodyGroups(m) \subseteq both
        BY <2>2, <3>4 DEF BodyGroups, GroupsIn
      <4> QED
        BY <4>1, <4>2 DEF Fit
    <3>6. Shares(e, s)
      BY <1>1, <2>2 DEF Shares, Session
    <3> HIDE DEF s, m
    <3>7. Reply(e, s, <<m>>) /\ UNCHANGED groups
      BY <2>4 DEF Handle, ReceiveInventories, stores, s, m, ranges
    <3> QED
      BY <1>3, <3>5, <3>6, <3>7, ReplyConfines
  <2>5. CASE f.kind = "requests"
    <3> DEFINE s == [sess[e] EXCEPT !.phase = "sending", !.todo = f.ranges]
    <3>1. Shares(e, s)
      BY <1>1, <2>2 DEF Shares, Session
    <3>2. Reply(e, s, <<>>) /\ UNCHANGED groups
      BY <2>5 DEF Handle, ReceiveRequests, stores
    <3> HIDE DEF s
    <3> QED
      BY <1>4, <3>1, <3>2, ReplyConfines
  <2>6. CASE f.kind = "done"
    <3> DEFINE s == [sess[e] EXCEPT !.phase = "live"]
    <3>1. Shares(e, s)
      BY <1>1, <2>2 DEF Shares, Session
    <3>2. Reply(e, s, <<>>) /\ UNCHANGED groups
      BY <2>6 DEF Handle, ReceiveDone, stores
    <3> HIDE DEF s
    <3> QED
      BY <1>4, <3>1, <3>2, ReplyConfines
  <2> QED
    BY <1>8, <2>3, <2>4, <2>5, <2>6
<1> QED
  BY <1>6, <1>7, <1>8

(* What is left of a batch names no group the batch does not name. *)
LEMMA BatchConfines ==
    ASSUME TypeOK, ConfinedInv, NEW e \in Endpoint, wire[Peer(e)] # <<>>, NEW f,
           f = Head(wire[Peer(e)]), f.kind = "batch", Handle(e, f)
    PROVE  ConfinedInv'
<1> DEFINE n == Home(e)
           p == Peer(e)
           x == CHOOSE y \in f.events : \A z \in f.events : y.seq <= z.seq
           rest == f.events \ {x}
           m == [kind |-> "batch", events |-> rest]
           left == IF rest = {} THEN Tail(wire[p]) ELSE <<m>> \o Tail(wire[p])
<1>1. p \in Endpoint /\ Home(p) = Far(e) /\ Far(p) = n
  BY EndpointFacts
<1>2. wire[p] \in Seq(Fit(p))
  BY <1>1 DEF ConfinedInv, WiresFit
<1>3. Tail(wire[p]) \in Seq(Fit(p))
  BY <1>2, TailType, Zenon
<1>4. rest # {} => m \in Fit(p)
  <2> HAVE rest # {}
  <2>1. f.events \in SUBSET Event /\ f \in Frame
    BY HeadFits DEF Frame
  <2>2. m \in Frame
    BY <2>1 DEF Frame
  <2>3. BodyGroups(m) \subseteq BodyGroups(f)
    BY DEF BodyGroups, GroupsIn
  <2>4. BodyGroups(m) \subseteq groups[Home(p)] \cap groups[Far(p)]
    BY <1>1, <2>3, HeadFits
  <2> QED
    BY <2>2, <2>4 DEF Fit
<1>5. left \in Seq(Fit(p))
  <2>1. CASE rest = {}
    BY <1>3, <2>1
  <2>2. CASE rest # {}
    <3>1. <<m>> \in Seq(Fit(p))
      BY <1>4, <2>2
    <3>2. <<m>> \o Tail(wire[p]) \in Seq(Fit(p))
      BY <1>3, <3>1, ConcatType, Zenon
    <3> QED
      BY <2>2, <3>2, Zenon
  <2> QED
    BY <2>1, <2>2
<1> HIDE DEF left
<1>6. CASE wire' = [wire EXCEPT ![p] = left] /\ UNCHANGED <<sess, groups>>
  <2>1. ASSUME NEW d \in Endpoint PROVE wire'[d] \in Seq(Fit(d))
    <3>1. wire'[d] = IF d = p THEN left ELSE wire[d]
      BY <1>6 DEF TypeOK
    <3> QED
      BY <1>5, <3>1 DEF ConfinedInv, WiresFit
  <2>2. WiresFit'
    BY <1>6, <2>1, SameGroupsSameFit DEF WiresFit
  <2>3. SharesFit'
    BY <1>6, SameGroupsSameFit DEF SharesFit, ConfinedInv
  <2> QED
    BY <2>2, <2>3 DEF ConfinedInv
<1> QED
  BY <1>6, EndConfines DEF Handle, ReceiveBatch, left

LEMMA LateHandlersConfine ==
    ASSUME TypeOK, ConfinedInv, NEW e \in Endpoint, wire[Peer(e)] # <<>>, NEW f,
           f = Head(wire[Peer(e)]), f.kind \in {"live", "upsert"}, Handle(e, f)
    PROVE  ConfinedInv'
<1>1. CASE \E why : End(e, why)
  BY <1>1, EndConfines
<1>2. CASE Reply(e, sess[e], <<>>) /\ UNCHANGED groups
  <2>1. Shares(e, sess[e])
    BY DEF ConfinedInv, SharesFit
  <2>2. <<>> \in Seq(Fit(e))
    OBVIOUS
  <2> QED
    BY <1>2, <2>1, <2>2, ReplyConfines
<1> QED
  BY <1>1, <1>2 DEF Handle, ReceiveLive, ReceiveUpsert

LEMMA ReceiveConfines ==
    ASSUME TypeOK, ConfinedInv, NEW e \in Endpoint, Receive(e)
    PROVE  ConfinedInv'
<1> DEFINE f == Head(wire[Peer(e)])
<1>1. wire[Peer(e)] # <<>>
  BY DEF Receive
<1>2. f \in Frame
  BY <1>1, HeadFits
<1>3. f.kind \in {"hello", "proofs", "channels", "inventories", "requests",
                  "batch", "done", "live", "upsert"}
  BY <1>2 DEF Frame
<1> HIDE DEF f
<1>4. CASE End(e, "record")
  BY <1>4, EndConfines
<1>5. CASE f.kind \in Accepts(sess[e].phase) /\ Handle(e, f)
  BY <1>1, <1>3, <1>5, EarlyHandlersConfine, BatchConfines, LateHandlersConfine DEF f
<1> QED
  BY <1>4, <1>5 DEF Receive, f

LEMMA AppendConfines ==
    ASSUME TypeOK, ConfinedInv, UNCHANGED groups, NEW e \in Endpoint,
           NEW s, Shares(e, s), sess' = [sess EXCEPT ![e] = s],
           NEW m \in Fit(e), wire' \in {wire, [wire EXCEPT ![e] = Append(@, m)]}
    PROVE  ConfinedInv'
<1>1. ASSUME NEW d \in Endpoint PROVE wire'[d] \in Seq(Fit(d))
  <2>1. wire[d] \in Seq(Fit(d))
    BY DEF ConfinedInv, WiresFit
  <2>2. wire'[d] = wire[d] \/ (d = e /\ wire'[d] = Append(wire[d], m))
    <3>1. CASE wire' = wire
      BY <3>1
    <3>2. CASE wire' = [wire EXCEPT ![e] = Append(@, m)]
      BY <3>2 DEF TypeOK
    <3> QED
      BY <3>1, <3>2
  <2>3. d = e => Append(wire[d], m) \in Seq(Fit(d))
    BY <2>1
  <2> QED
    BY <2>1, <2>2, <2>3
<1>2. WiresFit'
  BY <1>1, SameGroupsSameFit DEF WiresFit
<1>3. \A d \in Endpoint : sess'[d] = IF d = e THEN s ELSE sess[d]
  BY DEF TypeOK
<1>4. SharesFit'
  BY <1>3, SameGroupsSameFit DEF SharesFit, ConfinedInv
<1> QED
  BY <1>2, <1>4 DEF ConfinedInv

LEMMA OwnAccordConfines ==
    ASSUME TypeOK, ConfinedInv, NEW e \in Endpoint,
           SendBatch(e) \/ FinishSending(e) \/ ForwardLive(e) \/ ForwardMeta(e)
    PROVE  ConfinedInv'
<1> DEFINE both == groups[Home(e)] \cap groups[Far(e)]
<1>1. sess[e].phase \in {"sending", "live"} /\ sess[e] \in Session
  BY DEF SendBatch, FinishSending, ForwardLive, ForwardMeta, TypeOK
<1>2. sess[e].shared \subseteq both
  BY <1>1 DEF ConfinedInv, SharesFit, Shares
<1>3. Shares(e, sess[e]) /\ Home(e) \in Node
  BY EndpointFacts DEF ConfinedInv, SharesFit
<1>4. sess = [sess EXCEPT ![e] = sess[e]]
  BY DEF TypeOK
<1>5. [kind |-> "done"] \in Fit(e)
  BY DEF Fit, Frame, BodyGroups, GroupsIn
<1>6. ASSUME NEW r \in sess[e].todo, r.group \in sess[e].shared, SendRange(e, r)
      PROVE  ConfinedInv'
  <2> DEFINE batch == EventsRange(Home(e), r)
             last == Max({x.seq : x \in batch})
             rest == IF batch = {} \/ last >= r.last THEN {}
                     ELSE {[r EXCEPT !.first = last + 1]}
             s == [sess[e] EXCEPT !.todo = (@ \ {r}) \cup rest]
             m == [kind |-> "batch", events |-> batch]
  <2>1. r \in RangeRequest
    BY <1>1 DEF Session
  <2>2. batch \in SUBSET Event
    BY <1>3, <2>1, EventsRangeType
  <2>3. \A x \in batch : GroupOfEvent(x) = r.group
    BY DEF EventsRange
  <2> HIDE DEF batch, rest
  <2>4. batch # {} => m \in Fit(e)
    <3> HAVE batch # {}
    <3>1. m \in Frame
      BY <2>2 DEF Frame
    <3>2. BodyGroups(m) \subseteq both
      BY <1>2, <1>6, <2>3 DEF BodyGroups, GroupsIn
    <3> QED
      BY <3>1, <3>2 DEF Fit
  <2>5. Shares(e, s)
    BY <1>1, <1>2 DEF Shares, Session
  <2>6. sess' = [sess EXCEPT ![e] = s] /\ UNCHANGED groups
    BY <1>6, <1>1 DEF SendRange, stores, batch, rest, TypeOK
  <2>7. wire' = wire \/ (batch # {} /\ wire' = [wire EXCEPT ![e] = Append(@, m)])
    <3>1. wire' = [wire EXCEPT ![e] = IF batch = {} THEN @ ELSE Append(@, m)]
      BY <1>6 DEF SendRange, batch
    <3> HIDE DEF m
    <3>2. CASE batch = {}
      BY <3>1, <3>2 DEF TypeOK
    <3>3. CASE batch # {}
      BY <3>1, <3>3
    <3> QED
      BY <3>2, <3>3
  <2> HIDE DEF s, m
  <2> QED
    BY <1>5, <2>4, <2>5, <2>6, <2>7, AppendConfines
<1>7. CASE SendBatch(e)
  BY <1>6, <1>7, EndConfines DEF SendBatch
<1>8. CASE FinishSending(e)
  <2> DEFINE s == [sess[e] EXCEPT !.phase = "receiving"]
  <2>1. Shares(e, s)
    BY <1>1, <1>2 DEF Shares, Session
  <2>2. sess' = [sess EXCEPT ![e] = s] /\ UNCHANGED groups
    BY <1>8, <1>1 DEF FinishSending, stores, TypeOK
  <2>3. wire' = [wire EXCEPT ![e] = Append(@, [kind |-> "done"])]
    BY <1>8 DEF FinishSending
  <2> HIDE DEF s
  <2> QED
    BY <1>5, <2>1, <2>2, <2>3, AppendConfines
<1>9. CASE ForwardLive(e)
  <2> DEFINE x == Head(liveQ[e])
             m == [kind |-> "live", event |-> x]
  <2>1. x \in Event
    BY <1>9 DEF ForwardLive, TypeOK
  <2>2. GroupOfEvent(x) \in sess[e].shared => m \in Fit(e)
    <3> HAVE GroupOfEvent(x) \in sess[e].shared
    <3>1. m \in Frame
      BY <2>1 DEF Frame
    <3>2. BodyGroups(m) \subseteq both
      BY <1>2 DEF BodyGroups, GroupsIn
    <3> QED
      BY <3>1, <3>2 DEF Fit
  <2>3. UNCHANGED <<sess, groups>>
    BY <1>9 DEF ForwardLive, stores
  <2>4. \/ wire' = wire
        \/ GroupOfEvent(x) \in sess[e].shared /\ wire' = [wire EXCEPT ![e] = Append(@, m)]
    BY <1>9 DEF ForwardLive, TypeOK
  <2> HIDE DEF m, x
  <2> QED
    BY <1>3, <1>4, <1>5, <2>2, <2>3, <2>4, AppendConfines
<1>10. CASE ForwardMeta(e)
  <2> DEFINE c == Head(metaQ[e])
             m == [kind |-> "upsert", channel |-> c]
  <2>1. c \in Channel
    BY <1>10 DEF ForwardMeta, TypeOK
  <2>2. GroupOf[c] \in sess[e].shared => m \in Fit(e)
    <3> HAVE GroupOf[c] \in sess[e].shared
    <3>1. m \in Frame
      BY <2>1 DEF Frame
    <3>2. BodyGroups(m) \subseteq both
      BY <1>2 DEF BodyGroups, GroupsIn
    <3> QED
      BY <3>1, <3>2 DEF Fit
  <2>3. UNCHANGED <<sess, groups>>
    BY <1>10 DEF ForwardMeta, stores
  <2>4. \/ wire' = wire
        \/ GroupOf[c] \in sess[e].shared /\ wire' = [wire EXCEPT ![e] = Append(@, m)]
    BY <1>10 DEF ForwardMeta, TypeOK
  <2> HIDE DEF m, c
  <2> QED
    BY <1>3, <1>4, <1>5, <2>2, <2>3, <2>4, AppendConfines
<1> QED
  BY <1>7, <1>8, <1>9, <1>10

LEMMA OpenConfines ==
    ASSUME TypeOK, ConfinedInv, NEW l \in Link, Open(l)
    PROVE  ConfinedInv'
<1>1. UNCHANGED groups
  BY DEF Open, stores
<1>2. ASSUME NEW d \in Endpoint PROVE wire'[d] \in Seq(Fit(d))
  <2>1. wire[d] \in Seq(Fit(d))
    BY DEF ConfinedInv, WiresFit
  <2>2. [kind |-> "hello"] \in Fit(d)
    BY DEF Fit, Frame, BodyGroups, GroupsIn
  <2>3. <<[kind |-> "hello"]>> \in Seq(Fit(d))
    BY <2>2
  <2>4. wire'[d] = wire[d] \/ wire'[d] = <<[kind |-> "hello"]>>
    BY DEF Open
  <2> QED
    BY <2>1, <2>3, <2>4
<1>3. ASSUME NEW d \in Endpoint PROVE Shares(d, sess'[d])
  BY FreshShares DEF Open, ConfinedInv, SharesFit
<1> QED
  BY <1>1, <1>2, <1>3, SameGroupsSameFit DEF ConfinedInv, WiresFit, SharesFit

LEMMA UserConfines ==
    ASSUME TypeOK, ConfinedInv, NEW n \in Node, User(n)
    PROVE  ConfinedInv'
<1>1. UNCHANGED <<sess, wire>>
  BY DEF User, SendMessage, CreateChannel, CreateGroup, ImportInvite, BlockPeer, UnblockPeer
<1>2. \/ UNCHANGED groups
      \/ \E g : groups' = [groups EXCEPT ![n] = @ \cup {g}]
  BY DEF User, SendMessage, CreateChannel, CreateGroup, ImportInvite, BlockPeer,
     UnblockPeer
<1>3. \A m \in Node : groups[m] \subseteq groups'[m]
  BY <1>2 DEF TypeOK
<1> QED
  BY <1>1, <1>3, JoiningKeepsFit

LEMMA InitConfined == Init => ConfinedInv
<1> SUFFICES ASSUME Init PROVE ConfinedInv
  OBVIOUS
<1>1. \A V : <<>> \in Seq(V)
  OBVIOUS
<1> QED
  BY <1>1, FreshShares DEF Init, ConfinedInv, WiresFit, SharesFit

LEMMA NextConfines == TypeOK /\ ConfinedInv /\ [Next]_vars => ConfinedInv'
<1> SUFFICES ASSUME TypeOK, ConfinedInv, [Next]_vars PROVE ConfinedInv'
  OBVIOUS
<1>1. ASSUME NEW l \in Link, Open(l) PROVE ConfinedInv'
  BY <1>1, OpenConfines
<1>2. ASSUME NEW l \in Link, Drop(l) PROVE ConfinedInv'
  <2>1. <<l, "dial">> \in Endpoint
    BY DEF Endpoint, Side
  <2> QED
    BY <1>2, <2>1, EndConfines DEF Drop
<1>3. ASSUME NEW e \in Endpoint, Run(e) PROVE ConfinedInv'
  BY <1>3, ReceiveConfines, OwnAccordConfines DEF Run
<1>4. ASSUME NEW n \in Node, User(n) PROVE ConfinedInv'
  BY <1>4, UserConfines
<1>5. CASE UNCHANGED vars
  BY <1>5, JoiningKeepsFit DEF vars
<1> QED
  BY <1>1, <1>2, <1>3, <1>4, <1>5 DEF Next
=============================================================================
