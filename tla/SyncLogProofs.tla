--------------------------- MODULE SyncLogProofs ---------------------------
(***************************************************************************)
(* The stores the sessions replicate implement the abstract log, for every *)
(* topology of links, every seed and every bound: a session copies only    *)
(* what some store holds, because frames and live queues carry nothing     *)
(* their sender has not stored, and a user adds the next number only.      *)
(***************************************************************************)
EXTENDS SyncSessionProofs

LogProofs == INSTANCE EventLogProofs WITH log <- events

USE SessionAssumption, EventsAssumption DEF GroupOfAssumption, MaxSeqAssumption

IInv == TypeOK /\ Log!LogInv /\ InFlight

(* Stores only grow. *)
Grow == \A n \in Node : events[n] \subseteq events'[n]

WiresBacked == \A e \in Endpoint : wire[e] \in Seq(Backed(events[Home(e)]))
QueuesBacked == \A e \in Endpoint : liveQ[e] \in Seq(events[Home(e)])

-----------------------------------------------------------------------------
LEMMA BackedMonotone ==
    ASSUME NEW S, NEW T, S \subseteq T
    PROVE  Backed(S) \subseteq Backed(T)
  BY DEF Backed

(* What was backed stays backed while the stores grow. *)
LEMMA GrowKeeps ==
    ASSUME InFlight, Grow, NEW e \in Endpoint
    PROVE  /\ wire[e] \in Seq(Backed(events'[Home(e)]))
           /\ liveQ[e] \in Seq(events'[Home(e)])
<1>1. events[Home(e)] \subseteq events'[Home(e)]
  BY EndpointFacts DEF Grow
<1>2. Backed(events[Home(e)]) \subseteq Backed(events'[Home(e)])
  BY <1>1, BackedMonotone
<1>3. wire[e] \in Seq(Backed(events[Home(e)])) /\ liveQ[e] \in Seq(events[Home(e)])
  BY DEF InFlight
<1> QED
  BY <1>1, <1>2, <1>3, SeqMonotone

LEMMA GrowsByOne ==
    ASSUME TypeOK, NEW n \in Node, NEW x,
           events' = [events EXCEPT ![n] = @ \cup {x}]
    PROVE  Grow /\ x \in events'[n]
  BY DEF Grow, TypeOK

LEMMA SameEventsGrow == UNCHANGED events => Grow
  BY DEF Grow

LEMMA EndKeeps ==
    ASSUME TypeOK, InFlight, NEW e \in Endpoint, NEW why, End(e, why)
    PROVE  InFlight' /\ UNCHANGED events
<1>1. UNCHANGED events
  BY DEF End, stores
<1>2. \A V : <<>> \in Seq(V)
  OBVIOUS
<1>3. ASSUME NEW d \in Endpoint PROVE wire'[d] = wire[d] \/ wire'[d] = <<>>
  BY DEF End, TypeOK
<1>4. ASSUME NEW d \in Endpoint PROVE liveQ'[d] = liveQ[d] \/ liveQ'[d] = <<>>
  BY DEF End, TypeOK
<1>5. InFlight'
  BY <1>1, <1>2, <1>3, <1>4 DEF InFlight
<1> QED
  BY <1>1, <1>5

LEMMA ReplyKeeps ==
    ASSUME TypeOK, InFlight, Grow, NEW e \in Endpoint, wire[Peer(e)] # <<>>,
           NEW s, NEW frames \in Seq(Backed(events'[Home(e)])), Reply(e, s, frames)
    PROVE  WiresBacked'
<1>1. Peer(e) \in Endpoint /\ Peer(e) # e
  BY EndpointFacts
<1> DEFINE OK(d) == wire'[d] \in Seq(Backed(events'[Home(d)]))
<1>2. \A d \in Endpoint : wire[d] \in Seq(Backed(events'[Home(d)]))
  BY GrowKeeps
<1>3. OK(e)
  <2>1. wire'[e] = wire[e] \o frames
    BY <1>1 DEF Reply, TypeOK
  <2>2. wire[e] \in Seq(Backed(events'[Home(e)]))
    BY <1>2
  <2>3. wire[e] \o frames \in Seq(Backed(events'[Home(e)]))
    BY <2>2, ConcatType, Zenon
  <2> QED
    BY <2>1, <2>3, Zenon
<1>4. OK(Peer(e))
  <2>1. wire'[Peer(e)] = Tail(wire[Peer(e)])
    BY <1>1 DEF Reply, TypeOK
  <2>2. wire[Peer(e)] \in Seq(Backed(events'[Home(Peer(e))]))
    BY <1>1, <1>2
  <2>3. Tail(wire[Peer(e)]) \in Seq(Backed(events'[Home(Peer(e))]))
    BY <2>2, TailType, Zenon
  <2> QED
    BY <2>1, <2>3, Zenon
<1>5. \A d \in Endpoint \ {e, Peer(e)} : OK(d)
  BY <1>2 DEF Reply, TypeOK
<1> HIDE DEF OK
<1>6. \A d \in Endpoint : OK(d)
  BY <1>3, <1>4, <1>5
<1> QED
  BY <1>6 DEF WiresBacked, OK

LEMMA PublishKeepsQueues ==
    ASSUME TypeOK, InFlight, Grow, NEW n \in Node, NEW x \in events'[n],
           PublishEvent(n, x)
    PROVE  QueuesBacked'
<1>1. SUFFICES ASSUME NEW d \in Endpoint
               PROVE  liveQ'[d] \in Seq(events'[Home(d)])
  BY DEF QueuesBacked
<1>2. liveQ[d] \in Seq(events'[Home(d)])
  BY GrowKeeps
<1>3. CASE Subscribed(d, n)
  <2>1. liveQ'[d] = Push(liveQ[d], x, LiveCap) /\ Home(d) = n
    BY <1>3 DEF PublishEvent, Subscribed
  <2>2. liveQ[d] \in Seq(events'[n])
    BY <1>2, <2>1, Zenon
  <2>3. LiveCap \in Nat \ {0}
    BY DEF BoundsAssumption
  <2>4. Push(liveQ[d], x, LiveCap) \in Seq(events'[n])
    BY <2>2, <2>3, PushType, Zenon
  <2> QED
    BY <2>1, <2>4, Zenon
<1>4. CASE ~Subscribed(d, n)
  BY <1>2, <1>4 DEF PublishEvent
<1> QED
  BY <1>3, <1>4

LEMMA SameQueuesKeep ==
    ASSUME InFlight, Grow, UNCHANGED liveQ
    PROVE  QueuesBacked'
  BY GrowKeeps DEF QueuesBacked

LEMMA SameWiresKeep ==
    ASSUME InFlight, Grow, UNCHANGED wire
    PROVE  WiresBacked'
  BY GrowKeeps DEF WiresBacked

LEMMA BothBacked == WiresBacked' /\ QueuesBacked' => InFlight'
  BY DEF InFlight, WiresBacked, QueuesBacked

-----------------------------------------------------------------------------
(***************************************************************************)
(* Each step keeps frames and queues backed, and is a step of the log.     *)
(***************************************************************************)
Step == InFlight' /\ [Log!Next]_events

LEMMA EndSteps ==
    ASSUME TypeOK, InFlight, NEW e \in Endpoint, NEW why, End(e, why)
    PROVE  Step
  BY EndKeeps DEF Step

(* A frame that carries no event is sent, or none. *)
LEMMA SilentReplySteps ==
    ASSUME TypeOK, InFlight, NEW e \in Endpoint, wire[Peer(e)] # <<>>,
           NEW s, Reply(e, s, <<>>), UNCHANGED events, UNCHANGED liveQ
    PROVE  Step
<1>1. Grow
  BY SameEventsGrow
<1>2. <<>> \in Seq(Backed(events'[Home(e)]))
  OBVIOUS
<1>3. WiresBacked'
  BY <1>1, <1>2, ReplyKeeps
<1> QED
  BY <1>1, <1>3, SameQueuesKeep, BothBacked DEF Step

LEMMA PlainReplySteps ==
    ASSUME TypeOK, TypeOK', InFlight, NEW e \in Endpoint, wire[Peer(e)] # <<>>,
           NEW s, NEW r, r.kind \notin {"batch", "live"}, Reply(e, s, <<r>>),
           UNCHANGED events, UNCHANGED liveQ
    PROVE  Step
<1>1. r \in Frame
  <2>1. wire'[e] = wire[e] \o <<r>> /\ wire[e] \in Seq(Frame) /\ wire'[e] \in Seq(Frame)
    BY EndpointFacts DEF Reply, TypeOK
  <2>2. r = wire'[e][Len(wire[e]) + 1] /\ Len(wire[e]) + 1 \in DOMAIN wire'[e]
    BY <2>1
  <2> QED
    BY <2>1, <2>2
<1>2. Carried(r) = {}
  BY DEF Carried
<1>3. r \in Backed(events'[Home(e)])
  BY <1>1, <1>2 DEF Backed
<1>4. Grow
  BY SameEventsGrow
<1>5. <<r>> \in Seq(Backed(events'[Home(e)]))
  BY <1>3
<1>6. WiresBacked'
  BY <1>4, <1>5, ReplyKeeps
<1> QED
  BY <1>4, <1>6, SameQueuesKeep, BothBacked DEF Step

(* The handshake and inventory handlers. *)
LEMMA EarlyHandlerSteps ==
    ASSUME TypeOK, TypeOK', InFlight, NEW e \in Endpoint, wire[Peer(e)] # <<>>,
           NEW f \in Frame,
           \/ ReceiveHello(e, f) \/ ReceiveProofs(e, f) \/ ReceiveChannels(e, f)
           \/ ReceiveInventories(e, f) \/ ReceiveRequests(e, f) \/ ReceiveDone(e, f)
    PROVE  Step
<1>1. ASSUME ReceiveHello(e, f) PROVE Step
  BY <1>1, EndSteps, PlainReplySteps DEF ReceiveHello, stores, queues
<1>2. ASSUME ReceiveProofs(e, f) PROVE Step
  BY <1>2, EndSteps, PlainReplySteps DEF ReceiveProofs, stores, queues
<1>3. ASSUME ReceiveChannels(e, f) PROVE Step
  BY <1>3, EndSteps, PlainReplySteps DEF ReceiveChannels, queues
<1>4. ASSUME ReceiveInventories(e, f) PROVE Step
  BY <1>4, PlainReplySteps DEF ReceiveInventories, stores, queues
<1>5. ASSUME ReceiveRequests(e, f) PROVE Step
  BY <1>5, SilentReplySteps DEF ReceiveRequests, stores, queues
<1>6. ASSUME ReceiveDone(e, f) PROVE Step
  BY <1>6, SilentReplySteps DEF ReceiveDone, stores, queues
<1> QED
  BY <1>1, <1>2, <1>3, <1>4, <1>5, <1>6

(* Storing an event that the peer's frame carries is learning it. *)
LEMMA LearnSteps ==
    ASSUME TypeOK, NEW n \in Node, NEW m \in Node, NEW x \in events[m],
           events' = [events EXCEPT ![n] = @ \cup {x}]
    PROVE  Log!Next
  BY DEF Log!Next, Log!Learn

(* The head of the peer's wire is backed by the peer's store. *)
LEMMA HeadBacked ==
    ASSUME TypeOK, InFlight, NEW e \in Endpoint, wire[Peer(e)] # <<>>
    PROVE  /\ Head(wire[Peer(e)]) \in Frame
           /\ Carried(Head(wire[Peer(e)])) \subseteq events[Far(e)]
<1>1. wire[Peer(e)] \in Seq(Backed(events[Far(e)]))
  BY EndpointFacts DEF InFlight
<1>2. Head(wire[Peer(e)]) \in Backed(events[Far(e)])
  BY <1>1
<1> QED
  BY <1>2 DEF Backed

LEMMA BatchSteps ==
    ASSUME TypeOK, InFlight, NEW e \in Endpoint, wire[Peer(e)] # <<>>,
           NEW f, f = Head(wire[Peer(e)]), f.kind = "batch", ReceiveBatch(e, f)
    PROVE  Step
<1> DEFINE n == Home(e)
           p == Peer(e)
           x == CHOOSE y \in f.events : \A z \in f.events : y.seq <= z.seq
           rest == f.events \ {x}
           r == [kind |-> "batch", events |-> rest]
<1>1. n \in Node /\ Far(e) \in Node /\ p \in Endpoint /\ Home(p) = Far(e)
  BY EndpointFacts
<1>2. f \in Frame /\ Carried(f) \subseteq events[Far(e)]
  BY HeadBacked
<1>3. f.events \in SUBSET Event /\ f.events # {} /\ f.events \subseteq events[Far(e)]
  BY <1>2 DEF Frame, Carried
<1>4. x \in f.events
  BY <1>3, EarliestOfBatch
<1>5. CASE \E why : End(e, why)
  BY <1>5, EndSteps
<1>6. CASE /\ events' = [events EXCEPT ![n] = @ \cup {x}]
           /\ wire' = [wire EXCEPT ![p] = IF rest = {} THEN Tail(@) ELSE <<r>> \o Tail(@)]
           /\ UNCHANGED liveQ
  <2>1. rest # {} => r \in Frame /\ Carried(r) \subseteq events[Far(e)]
    BY <1>3 DEF Frame, Carried
  <2>2. Grow
    BY <1>1, <1>6, GrowsByOne
  <2>3. events[Far(e)] \subseteq events'[Far(e)]
    BY <1>1, <2>2 DEF Grow
  <2>4. rest # {} => r \in Backed(events'[Home(p)])
    BY <1>1, <2>1, <2>3 DEF Backed
  <2>5. wire[p] \in Seq(Backed(events'[Home(p)]))
    BY <1>1, <2>2, GrowKeeps
  <2> DEFINE B == Backed(events'[Home(p)])
  <2>6. Tail(wire[p]) \in Seq(B)
    BY <2>5, TailType, Zenon
  <2>7. rest # {} => <<r>> \o Tail(wire[p]) \in Seq(B)
    <3>1. rest # {} => <<r>> \in Seq(B)
      BY <2>4
    <3> QED
      BY <2>6, <3>1, ConcatType, Zenon
  <2>8. wire'[p] \in Seq(B)
    <3>1. wire'[p] = IF rest = {} THEN Tail(wire[p]) ELSE <<r>> \o Tail(wire[p])
      BY <1>1, <1>6 DEF TypeOK
    <3> HIDE DEF rest, r, B
    <3> QED
      BY <2>6, <2>7, <3>1
  <2>9. \A d \in Endpoint : d # p => wire'[d] = wire[d]
    BY <1>6 DEF TypeOK
  <2>10. WiresBacked'
    BY <2>2, <2>8, <2>9, GrowKeeps DEF WiresBacked
  <2>11. Log!Next
    BY <1>1, <1>3, <1>4, <1>6, LearnSteps
  <2> QED
    BY <1>6, <2>2, <2>10, <2>11, SameQueuesKeep, BothBacked DEF Step
<1> QED
  BY <1>5, <1>6 DEF ReceiveBatch, queues

LEMMA LiveSteps ==
    ASSUME TypeOK, InFlight, NEW e \in Endpoint, wire[Peer(e)] # <<>>,
           NEW f, f = Head(wire[Peer(e)]), f.kind = "live", ReceiveLive(e, f)
    PROVE  Step
<1> DEFINE n == Home(e)
           x == f.event
<1>1. n \in Node /\ Far(e) \in Node
  BY EndpointFacts
<1>2. x \in events[Far(e)]
  BY HeadBacked DEF Carried
<1>3. CASE \E why : End(e, why)
  BY <1>3, EndSteps
<1>4. CASE /\ Reply(e, sess[e], <<>>)
           /\ events' = [events EXCEPT ![n] = @ \cup {x}]
           /\ UNCHANGED liveQ \/ PublishEvent(n, x)
  <2>1. Grow /\ x \in events'[n]
    BY <1>1, <1>4, GrowsByOne
  <2>2. <<>> \in Seq(Backed(events'[n]))
    OBVIOUS
  <2>3. WiresBacked'
    BY <1>4, <2>1, <2>2, ReplyKeeps
  <2>4. QueuesBacked'
    BY <1>1, <1>4, <2>1, SameQueuesKeep, PublishKeepsQueues
  <2>5. Log!Next
    BY <1>1, <1>2, <1>4, LearnSteps
  <2> QED
    BY <2>3, <2>4, <2>5, BothBacked DEF Step
<1> QED
  BY <1>3, <1>4 DEF ReceiveLive

LEMMA UpsertSteps ==
    ASSUME TypeOK, InFlight, NEW e \in Endpoint, wire[Peer(e)] # <<>>, NEW f,
           ReceiveUpsert(e, f)
    PROVE  Step
  BY EndSteps, SilentReplySteps DEF ReceiveUpsert

LEMMA ReceiveSteps ==
    ASSUME TypeOK, TypeOK', InFlight, NEW e \in Endpoint, Receive(e)
    PROVE  Step
<1> DEFINE f == Head(wire[Peer(e)])
<1>1. wire[Peer(e)] # <<>> /\ f \in Frame
  BY HeadBacked DEF Receive
<1>2. CASE Handle(e, f)
  <2> HIDE DEF f
  <2>1. f.kind \in {"hello", "proofs", "channels", "inventories", "requests",
                     "batch", "done", "live", "upsert"}
    BY <1>1 DEF Frame
  <2>2. CASE f.kind \in {"batch", "live", "upsert"}
    BY <1>1, <1>2, <2>2, BatchSteps, LiveSteps, UpsertSteps DEF Handle, f
  <2>3. CASE f.kind \notin {"batch", "live", "upsert"}
    BY <1>1, <1>2, <2>1, <2>3, EarlyHandlerSteps DEF Handle
  <2> QED
    BY <2>2, <2>3
<1>3. CASE End(e, "record")
  BY <1>3, EndSteps
<1> QED
  BY <1>2, <1>3 DEF Receive

-----------------------------------------------------------------------------
(* A frame that e's own store backs, put on e's wire, or nothing. *)
LEMMA AppendSteps ==
    ASSUME TypeOK, InFlight, NEW e \in Endpoint, NEW r \in Backed(events[Home(e)]),
           \/ UNCHANGED wire
           \/ wire' = [wire EXCEPT ![e] = Append(@, r)],
           UNCHANGED events, QueuesBacked'
    PROVE  Step
<1>1. Grow
  BY SameEventsGrow
<1>2. CASE UNCHANGED wire
  BY <1>1, <1>2, SameWiresKeep, BothBacked DEF Step
<1>3. CASE wire' = [wire EXCEPT ![e] = Append(@, r)]
  <2>1. wire[e] \in Seq(Backed(events[Home(e)]))
    BY DEF InFlight
  <2> DEFINE B == Backed(events[Home(e)])
  <2>2. Append(wire[e], r) \in Seq(B)
    BY <2>1
  <2>3. wire'[e] \in Seq(B) /\ \A d \in Endpoint : d # e => wire'[d] = wire[d]
    BY <1>3, <2>2 DEF TypeOK
  <2>4. WiresBacked'
    BY <2>3 DEF WiresBacked, InFlight
  <2> QED
    BY <2>4, BothBacked DEF Step
<1> QED
  BY <1>2, <1>3

(* A batch is read from the sender's store. *)
LEMMA SendBatchSteps ==
    ASSUME TypeOK, InFlight, NEW e \in Endpoint, SendBatch(e)
    PROVE  Step
<1>1. PICK r \in sess[e].todo :
          IF r.group \notin sess[e].shared THEN End(e, "group")
          ELSE IF r.first = 0 \/ r.first > r.last THEN End(e, "range")
          ELSE SendRange(e, r)
  BY DEF SendBatch
<1>2. CASE \E why : End(e, why)
  BY <1>2, EndSteps
<1>3. CASE SendRange(e, r)
  <2> DEFINE batch == EventsRange(Home(e), r)
             m == [kind |-> "batch", events |-> batch]
  <2>1. Home(e) \in Node /\ r \in RangeRequest
    BY EndpointFacts DEF TypeOK, Session
  <2>2. batch \subseteq events[Home(e)] /\ batch \in SUBSET Event
    BY <2>1, EventsRangeType
  <2>3. /\ wire' = [wire EXCEPT ![e] = IF batch = {} THEN @ ELSE Append(@, m)]
        /\ UNCHANGED events /\ UNCHANGED liveQ
    BY <1>3 DEF SendRange, stores, queues
  <2>4. QueuesBacked'
    BY <2>3, SameEventsGrow, SameQueuesKeep
  <2>5. CASE batch = {}
    <3>1. UNCHANGED wire
      BY <2>3, <2>5 DEF TypeOK
    <3> QED
      BY <2>3, <2>4, <3>1, SameEventsGrow, SameWiresKeep, BothBacked DEF Step
  <2>6. CASE batch # {}
    <3>1. m \in Backed(events[Home(e)])
      BY <2>2, <2>6 DEF Backed, Frame, Carried
    <3>2. wire' = [wire EXCEPT ![e] = Append(@, m)]
      BY <2>3, <2>6
    <3> HIDE DEF m
    <3> QED
      BY <2>3, <2>4, <3>1, <3>2, AppendSteps
  <2> QED
    BY <2>5, <2>6
<1> QED
  BY <1>1, <1>2, <1>3

LEMMA OwnAccordSteps ==
    ASSUME TypeOK, InFlight, NEW e \in Endpoint,
           FinishSending(e) \/ ForwardLive(e) \/ ForwardMeta(e)
    PROVE  Step
<1>1. UNCHANGED events /\ Grow
  BY SameEventsGrow DEF FinishSending, ForwardLive, ForwardMeta, stores
<1>2. CASE FinishSending(e)
  <2> DEFINE m == [kind |-> "done"]
  <2>1. m \in Backed(events[Home(e)])
    BY DEF Backed, Frame, Carried
  <2>2. wire' = [wire EXCEPT ![e] = Append(@, m)] /\ UNCHANGED liveQ
    BY <1>2 DEF FinishSending, queues
  <2> HIDE DEF m
  <2> QED
    BY <1>1, <2>1, <2>2, SameQueuesKeep, AppendSteps
<1>3. CASE ForwardLive(e)
  <2> DEFINE x == Head(liveQ[e])
             m == [kind |-> "live", event |-> x]
  <2>1. liveQ[e] \in Seq(events[Home(e)]) /\ liveQ[e] # <<>>
    BY <1>3 DEF ForwardLive, InFlight
  <2>2. x \in events[Home(e)] /\ x \in Event
    BY <2>1, EndpointFacts DEF TypeOK
  <2>3. m \in Backed(events[Home(e)])
    BY <2>2 DEF Backed, Frame, Carried
  <2>4. wire' = [wire EXCEPT ![e] = Append(@, m)] \/ UNCHANGED wire
    BY <1>3 DEF ForwardLive, TypeOK
  <2>5. Tail(liveQ[e]) \in Seq(events[Home(e)])
    BY <2>1, TailType, Zenon
  <2>6. QueuesBacked'
    BY <1>1, <1>3, <2>5 DEF ForwardLive, QueuesBacked, InFlight, TypeOK
  <2> HIDE DEF m
  <2> QED
    BY <1>1, <2>3, <2>4, <2>6, AppendSteps
<1>4. CASE ForwardMeta(e)
  <2> DEFINE c == Head(metaQ[e])
             m == [kind |-> "upsert", channel |-> c]
  <2>1. c \in Channel
    BY <1>4 DEF ForwardMeta, TypeOK
  <2>2. m \in Backed(events[Home(e)])
    BY <2>1 DEF Backed, Frame, Carried
  <2>3. wire' = [wire EXCEPT ![e] = Append(@, m)] \/ UNCHANGED wire
    BY <1>4 DEF ForwardMeta, TypeOK
  <2>4. QueuesBacked'
    BY <1>1, <1>4, SameQueuesKeep DEF ForwardMeta
  <2> HIDE DEF m
  <2> QED
    BY <1>1, <2>2, <2>3, <2>4, AppendSteps
<1> QED
  BY <1>2, <1>3, <1>4

-----------------------------------------------------------------------------
LEMMA LinkSteps ==
    ASSUME TypeOK, InFlight, NEW l \in Link, Open(l) \/ Drop(l)
    PROVE  Step
<1>1. CASE Open(l)
  <2>1. UNCHANGED events /\ UNCHANGED liveQ /\ Grow
    BY <1>1, SameEventsGrow DEF Open, stores, queues
  <2>2. [kind |-> "hello"] \in Frame /\ Carried([kind |-> "hello"]) = {}
    BY DEF Frame, Carried
  <2>3. \A e \in Endpoint : <<[kind |-> "hello"]>> \in Seq(Backed(events'[Home(e)]))
    <3> SUFFICES ASSUME NEW e \in Endpoint
                 PROVE  <<[kind |-> "hello"]>> \in Seq(Backed(events'[Home(e)]))
      OBVIOUS
    <3>1. [kind |-> "hello"] \in Backed(events'[Home(e)])
      BY <2>2 DEF Backed
    <3> QED
      BY <3>1
  <2>4. WiresBacked'
    BY <1>1, <2>1, <2>3, GrowKeeps DEF Open, WiresBacked
  <2> QED
    BY <2>1, <2>4, SameQueuesKeep, BothBacked DEF Step
<1>2. CASE Drop(l)
  <2>1. <<l, "dial">> \in Endpoint
    BY DEF Endpoint, Side
  <2> QED
    BY <1>2, <2>1, EndSteps DEF Drop
<1> QED
  BY <1>1, <1>2

(* The author's next number is one past all it wrote in the group. *)
LEMMA NextSequenceFollows ==
    ASSUME TypeOK, Log!LogInv, NEW n \in Node, NEW g \in Group
    PROVE  SeqsIn(events[n], g, n) = 1..(NextSequence(n, g) - 1)
<1>1. PICK k \in 0..MaxSeq : SeqsIn(events[n], g, n) = 1..k
  BY DEF Log!LogInv, Log!OwnLogsGapless, Log!SeqsIn, SeqsIn
<1> DEFINE S == SeqsIn(events[n], g, n) \cup {0}
<1>2. S = 0..k /\ S \in SUBSET (0..MaxSeq) /\ S # {} /\ MaxSeq \in Nat
  BY <1>1 DEF BoundsAssumption
<1>3. Max(S) \in S /\ \A i \in S : i <= Max(S)
  BY <1>2, GreatestNumber
<1>4. Max(S) = k
  <2> HIDE DEF S
  <2> QED
    BY <1>2, <1>3
<1>5. NextSequence(n, g) = k + 1
  BY <1>4 DEF NextSequence
<1> QED
  BY <1>1, <1>5

LEMMA UserSteps ==
    ASSUME TypeOK, Log!LogInv, InFlight, NEW n \in Node, User(n)
    PROVE  Step
<1>1. ASSUME NEW c \in Channel, SendMessage(n, c) PROVE Step
  <2> DEFINE s == NextSequence(n, GroupOf[c])
             x == [author |-> n, seq |-> s, chan |-> c]
  <2>1. /\ s <= MaxSeq
        /\ events' = [events EXCEPT ![n] = @ \cup {x}]
        /\ PublishEvent(n, x) /\ UNCHANGED wire
    BY <1>1 DEF SendMessage
  <2>2. GroupOf[c] \in Group
    BY DEF GroupsAssumption
  <2>3. s \in 1..MaxSeq
    BY <2>1, <2>2, NextSequenceType DEF BoundsAssumption
  <2>4. Log!Publish(n, c, s)
    BY <2>1, <2>2, NextSequenceFollows DEF Log!Publish, Log!SeqsIn, SeqsIn
  <2>5. Log!Next
    BY <2>3, <2>4 DEF Log!Next
  <2> HIDE DEF x, s
  <2>6. Grow /\ x \in events'[n]
    BY <2>1, GrowsByOne
  <2>7. QueuesBacked' /\ WiresBacked'
    BY <2>1, <2>6, PublishKeepsQueues, SameWiresKeep
  <2> QED
    BY <2>5, <2>7, BothBacked DEF Step
<1>2. CASE UNCHANGED events /\ UNCHANGED wire /\ UNCHANGED liveQ
  BY <1>2 DEF Step, InFlight
<1>3. ASSUME NEW c \in Channel, CreateChannel(n, c) PROVE Step
  BY <1>2, <1>3 DEF CreateChannel
<1>4. ASSUME NEW m \in Node, NEW g \in Group, ImportInvite(n, m, g) PROVE Step
  BY <1>2, <1>4 DEF ImportInvite, queues
<1>5. ASSUME NEW c \in Channel, CreateGroup(n, c) PROVE Step
  BY <1>2, <1>5 DEF CreateGroup, queues
<1>6. ASSUME NEW p \in Node, BlockPeer(n, p) \/ UnblockPeer(n, p) PROVE Step
  BY <1>2, <1>6 DEF BlockPeer, UnblockPeer, queues
<1> QED
  BY <1>1, <1>3, <1>4, <1>5, <1>6 DEF User

(* Every step of the system is a step of the abstract log, or leaves it alone. *)
LEMMA NextSteps ==
    ASSUME TypeOK, TypeOK', Log!LogInv, InFlight, [Next]_vars
    PROVE  Step
<1>1. ASSUME NEW l \in Link, Open(l) \/ Drop(l) PROVE Step
  BY <1>1, LinkSteps
<1>2. ASSUME NEW e \in Endpoint, Run(e) PROVE Step
  BY <1>2, ReceiveSteps, SendBatchSteps, OwnAccordSteps DEF Run
<1>3. ASSUME NEW n \in Node, User(n) PROVE Step
  BY <1>3, UserSteps
<1>4. CASE UNCHANGED vars
  BY <1>4 DEF vars, Step, InFlight
<1> QED
  BY <1>1, <1>2, <1>3, <1>4 DEF Next

-----------------------------------------------------------------------------
(* The abstract module and its proofs are two instances of the same formulas. *)
LEMMA SameLog ==
    /\ Log!LogInv <=> LogProofs!LogInv
    /\ [Log!Next]_events <=> [LogProofs!Next]_events
    /\ Log!Agreement <=> LogProofs!Agreement
<1>1. Log!LogInv <=> LogProofs!LogInv
  BY Zenon DEF Log!LogInv, Log!AuthorsHold, Log!OwnKeysUnique, Log!OwnLogsGapless,
     Log!SeqsIn, Log!Key, Log!Event,
     LogProofs!LogInv, LogProofs!AuthorsHold, LogProofs!OwnKeysUnique,
     LogProofs!OwnLogsGapless, LogProofs!SeqsIn, LogProofs!Key, LogProofs!Event
<1>2. [Log!Next]_events <=> [LogProofs!Next]_events
  BY Zenon DEF Log!Next, Log!Publish, Log!Learn, Log!SeqsIn,
     LogProofs!Next, LogProofs!Publish, LogProofs!Learn, LogProofs!SeqsIn
<1>3. Log!Agreement <=> LogProofs!Agreement
  BY Zenon DEF Log!Agreement, Log!Key, LogProofs!Agreement, LogProofs!Key
<1> QED
  BY <1>1, <1>2, <1>3

(* So the lemmas proved of the abstract log hold of the stores. *)
LEMMA AbstractAssumption == LogProofs!EventsAssumption
  BY DEF LogProofs!EventsAssumption, LogProofs!GroupOfAssumption,
     LogProofs!MaxSeqAssumption, LogProofs!SeedAssumption, SeedAssumption,
     LogProofs!AuthorsHold, AuthorsHold, LogProofs!OwnKeysUnique, OwnKeysUnique,
     LogProofs!OwnLogsGapless, OwnLogsGapless, LogProofs!SeqsIn, SeqsIn,
     LogProofs!Key, Key, LogProofs!Event, Event

LEMMA StoresKeepLogInv == Log!LogInv /\ [Log!Next]_events => Log!LogInv'
<1>1. LogProofs!LogInv /\ [LogProofs!Next]_events => LogProofs!LogInv'
  BY AbstractAssumption, LogProofs!NextLogInv
<1> QED
  BY <1>1, SameLog, PTL

LEMMA LogInvLogsAgree == Log!LogInv => LogsAgree
<1>1. LogProofs!LogInv => LogProofs!Agreement
  BY AbstractAssumption, LogProofs!LogInvAgreement
<1> QED
  BY <1>1, SameLog DEF LogsAgree

LEMMA InitIInv == Init => IInv
<1> SUFFICES ASSUME Init PROVE IInv
  OBVIOUS
<1>1. \A V : <<>> \in Seq(V)
  OBVIOUS
<1>2. InFlight
  BY <1>1 DEF Init, InFlight
<1>3. Log!LogInv
  <2>1. events = SeedEvents
    BY DEF Init
  <2>2. events \in [Node -> SUBSET Log!Event]
    BY <2>1 DEF SeedAssumption, Event, Log!Event
  <2>3. Log!AuthorsHold(events)
    BY <2>1 DEF SeedAssumption, AuthorsHold, Log!AuthorsHold
  <2>4. Log!OwnKeysUnique(events)
    BY <2>1 DEF SeedAssumption, OwnKeysUnique, Log!OwnKeysUnique, Key, Log!Key
  <2>5. Log!OwnLogsGapless(events)
    BY <2>1, Zenon DEF SeedAssumption, OwnLogsGapless, Log!OwnLogsGapless, SeqsIn, Log!SeqsIn
  <2> QED
    BY <2>2, <2>3, <2>4, <2>5 DEF Log!LogInv
<1> QED
  BY <1>2, <1>3, InitType DEF IInv

LEMMA NextIInv == IInv /\ [Next]_vars => IInv' /\ [Log!Next]_events
<1> SUFFICES ASSUME IInv, [Next]_vars PROVE IInv' /\ [Log!Next]_events
  OBVIOUS
<1>1. TypeOK'
  BY NextType DEF IInv
<1>2. InFlight' /\ [Log!Next]_events
  BY <1>1, NextSteps DEF IInv, Step
<1>3. Log!LogInv'
  BY <1>2, StoresKeepLogInv DEF IInv
<1> QED
  BY <1>1, <1>2, <1>3 DEF IInv

LEMMA SpecIInv == Spec => []IInv
  BY InitIInv, NextIInv, PTL DEF Spec

(* Nothing is on a wire or in a live queue that its sender's store does not
   hold: what a session announces it can send again after a restart. *)
THEOREM OnlyStoredIsSent == Spec => []InFlight
<1>1. IInv => InFlight
  BY DEF IInv
<1> QED
  BY <1>1, SpecIInv, PTL

(* Two stores never hold different events under one (group, author, number),
   whatever sessions, relays, losses, joins and blocks did to them. *)
THEOREM StoresAgree == Spec => []LogsAgree
<1>1. IInv => LogsAgree
  BY LogInvLogsAgree DEF IInv
<1> QED
  BY <1>1, SpecIInv, PTL

(* The sessions and the stores implement the abstract log: the initial stores are
   an initial log, and every step publishes an author's next event, copies an
   event some store holds, or leaves the logs alone. *)
THEOREM Implements == Spec => LogSpec
<1>1. Init => Log!Init
  BY DEF Init, Log!Init
<1>2. IInv /\ [Next]_vars => [Log!Next]_events
  BY NextIInv
<1> QED
  BY <1>1, <1>2, SpecIInv, PTL DEF Spec, LogSpec, Log!Spec
=============================================================================
