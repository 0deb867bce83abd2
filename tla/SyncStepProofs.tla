--------------------------- MODULE SyncStepProofs ---------------------------
(***************************************************************************)
(* The two ends of a connection stay in step, and a finished sync has      *)
(* brought all the peer announced, for every topology of links, every seed *)
(* and every bound.                                                        *)
(***************************************************************************)
EXTENDS SyncLogProofs, FiniteSetTheorems

USE SessionAssumption, EventsAssumption DEF GroupOfAssumption, MaxSeqAssumption

-----------------------------------------------------------------------------
(***************************************************************************)
(* The order of the protocol.  Every record has a place in it; batches,    *)
(* and what the live loop sends, may repeat, the others come once.  A      *)
(* session in some phase has sent what comes up to Sent of it, and what it *)
(* has still to read begins at Due of it.                                  *)
(***************************************************************************)
Place(kind) ==
    CASE kind = "hello" -> 1
      [] kind = "proofs" -> 2
      [] kind = "channels" -> 3
      [] kind = "inventories" -> 4
      [] kind = "requests" -> 5
      [] kind = "batch" -> 6
      [] kind = "done" -> 7
      [] OTHER -> 8

Sent(phase) ==
    CASE phase = "hello" -> 1
      [] phase = "proofs" -> 2
      [] phase = "channels" -> 3
      [] phase = "inventories" -> 4
      [] phase = "requests" -> 5
      [] phase = "sending" -> 6
      [] phase = "receiving" -> 7
      [] OTHER -> 8

Due(phase) ==
    CASE phase = "hello" -> 1
      [] phase = "proofs" -> 2
      [] phase = "channels" -> 3
      [] phase = "inventories" -> 4
      [] phase = "requests" -> 5
      [] phase \in {"sending", "receiving"} -> 6
      [] OTHER -> 8

Repeated == {6, 8}
Single == {1, 2, 3, 4, 5, 7}

(* What is on a wire whose writer has sent up to the place sent and whose reader
   waits for the place due: all that is between them, in order. *)
InOrder(w, sent, due) ==
    /\ due <= sent + 1
    /\ \A i \in DOMAIN w : Place(w[i].kind) \in due..sent
    /\ \A i, j \in DOMAIN w : i < j =>
          \/ Place(w[i].kind) < Place(w[j].kind)
          \/ Place(w[i].kind) = Place(w[j].kind) /\ Place(w[i].kind) \in Repeated
    /\ \A k \in Single : k \in due..sent => \E i \in DOMAIN w : Place(w[i].kind) = k

(* Two ends run together, with what is in order between them, or not at all. *)
Paired(e) ==
    IF sess[e].phase \in Running
    THEN /\ sess[Peer(e)].phase \in Running
         /\ InOrder(wire[e], Sent(sess[e].phase), Due(sess[Peer(e)].phase))
    ELSE sess[Peer(e)].phase \notin Running /\ wire[e] = <<>>

InStep == \A e \in Endpoint : Paired(e)

-----------------------------------------------------------------------------
LEMMA PlaceType ==
    /\ \A kind : Place(kind) \in 1..8
    /\ \A f \in Frame : Place(f.kind) = 8 => f.kind \in {"live", "upsert"}
<1>1. \A kind : Place(kind) \in 1..8
  BY DEF Place
<1>2. ASSUME NEW f \in Frame, Place(f.kind) = 8 PROVE f.kind \in {"live", "upsert"}
  <2>1. f.kind \in {"hello", "proofs", "channels", "inventories", "requests",
                    "batch", "done", "live", "upsert"}
    BY DEF Frame
  <2> QED
    BY <1>2, <2>1 DEF Place
<1> QED
  BY <1>1, <1>2

LEMMA PhaseType ==
    ASSUME NEW phase \in Running
    PROVE  Sent(phase) \in 1..8 /\ Due(phase) \in (1..8) \ {7}
  BY DEF Sent, Due, Running, Handshake, Syncing

LEMMA PlacesGrow ==
    ASSUME NEW w, NEW s, NEW d, InOrder(w, s, d), NEW i \in DOMAIN w, NEW j \in DOMAIN w, i < j
    PROVE  \/ Place(w[i].kind) < Place(w[j].kind)
           \/ Place(w[i].kind) = Place(w[j].kind) /\ Place(w[i].kind) \in Repeated
  BY DEF InOrder

(* The writer sends the record of the next place, or one more of a place that
   repeats. *)
LEMMA SendingKeepsOrder ==
    ASSUME NEW w \in Seq(Frame), NEW s \in 1..8, NEW d \in 1..8, InOrder(w, s, d),
           NEW m \in Frame, NEW t \in 1..8, Place(m.kind) = t, d <= t,
           t = s + 1 \/ (t = s /\ t \in Repeated)
    PROVE  InOrder(Append(w, m), t, d)
<1> DEFINE v == Append(w, m)
           n == Len(w)
<1>1. /\ v \in Seq(Frame) /\ n \in Nat /\ DOMAIN v = 1..n + 1 /\ DOMAIN w = 1..n
      /\ v[n + 1] = m /\ \A i \in 1..n : v[i] = w[i]
  OBVIOUS
<1> HIDE DEF v, n
<1>2. \A i \in 1..n + 1 : i = n + 1 \/ i \in 1..n
  BY <1>1
<1>3. \A i \in 1..n : Place(w[i].kind) \in d..s
  BY <1>1 DEF InOrder
<1>4. \A i \in DOMAIN v : Place(v[i].kind) \in d..t
  BY <1>1, <1>2, <1>3
<1>5. ASSUME NEW i \in DOMAIN v, NEW j \in DOMAIN v, i < j
      PROVE  \/ Place(v[i].kind) < Place(v[j].kind)
             \/ Place(v[i].kind) = Place(v[j].kind) /\ Place(v[i].kind) \in Repeated
  <2>1. i \in 1..n /\ v[i] = w[i]
    BY <1>1, <1>5
  <2>2. CASE j \in 1..n
    BY <1>1, <1>5, <2>1, <2>2 DEF InOrder
  <2>3. CASE j = n + 1
    BY <1>1, <1>3, <2>1, <2>3
  <2> QED
    BY <1>1, <1>2, <2>2, <2>3
<1>6. ASSUME NEW k \in Single, k \in d..t PROVE \E i \in DOMAIN v : Place(v[i].kind) = k
  <2>1. CASE k = t
    BY <1>1, <2>1
  <2>2. CASE k \in d..s
    <3>1. PICK i \in 1..n : Place(w[i].kind) = k
      BY <1>1, <2>2 DEF InOrder
    <3> QED
      BY <1>1, <3>1
  <2> QED
    BY <1>6, <2>1, <2>2
<1>7. d <= t + 1
  OBVIOUS
<1>8. InOrder(v, t, d)
  BY Zenon, <1>4, <1>5, <1>6, <1>7 DEF InOrder
<1> QED
  BY <1>8 DEF v

(* The writer goes past a place that may be left empty. *)
LEMMA SkippingKeepsOrder ==
    ASSUME NEW w \in Seq(Frame), NEW s \in 1..8, NEW d \in 1..8, InOrder(w, s, d),
           s + 1 \in Repeated
    PROVE  InOrder(w, s + 1, d)
<1>1. \A k \in Single : k \in d..s + 1 => k \in d..s
  BY DEF Single, Repeated
<1>2. \A i \in DOMAIN w : Place(w[i].kind) \in d..s + 1
  <2> TAKE i \in DOMAIN w
  <2>1. Place(w[i].kind) \in d..s
    BY DEF InOrder
  <2> QED
    BY <2>1
<1>3. d <= (s + 1) + 1
  BY DEF InOrder
<1> QED
  BY <1>1, <1>2, <1>3 DEF InOrder

(* The reader takes the first record, and waits for the next place when that
   record comes once. *)
LEMMA ReadingKeepsOrder ==
    ASSUME NEW w \in Seq(Frame), w # <<>>, NEW s \in 1..8, NEW d \in 1..8, InOrder(w, s, d),
           NEW u \in 1..8,
           LET h == Place(Head(w).kind) IN u = IF h \in Single THEN h + 1 ELSE d
    PROVE  InOrder(Tail(w), s, u)
<1> DEFINE v == Tail(w)
           n == Len(w)
           h == Place(Head(w).kind)
<1>1. /\ v \in Seq(Frame) /\ n \in Nat \ {0} /\ DOMAIN v = 1..n - 1 /\ DOMAIN w = 1..n
      /\ Head(w) = w[1] /\ \A i \in 1..n - 1 : v[i] = w[i + 1]
  OBVIOUS
<1>2. h = Place(w[1].kind) /\ h \in d..s
  BY <1>1 DEF InOrder
<1>3. u = IF h \in Single THEN h + 1 ELSE d
  OBVIOUS
<1> HIDE DEF v, n, h
<1>4. \A i \in 1..n - 1 : i + 1 \in 1..n /\ 1 < i + 1
  BY <1>1
<1>5. u <= s + 1
  BY <1>2, <1>3 DEF InOrder
<1>6. ASSUME NEW i \in DOMAIN v PROVE Place(v[i].kind) \in u..s
  <2>1. Place(v[i].kind) = Place(w[i + 1].kind) /\ i + 1 \in 1..n /\ 1 < i + 1
    BY <1>1, <1>4
  <2>2. Place(w[i + 1].kind) \in d..s
    BY <1>1, <2>1 DEF InOrder
  <2>3. h < Place(w[i + 1].kind) \/ h \in Repeated
    <3>1. 1 \in DOMAIN w /\ i + 1 \in DOMAIN w
      BY <1>1, <2>1
    <3> QED
      BY <1>2, <2>1, <3>1, PlacesGrow
  <2>4. CASE h \in Single
    <3>1. h < Place(w[i + 1].kind)
      BY <2>3, <2>4 DEF Single, Repeated
    <3> QED
      BY <1>2, <1>3, <2>1, <2>2, <2>4, <3>1
  <2>5. CASE h \notin Single
    BY <1>3, <2>1, <2>2, <2>5
  <2> QED
    BY <2>4, <2>5
<1>7. ASSUME NEW i \in DOMAIN v, NEW j \in DOMAIN v, i < j
      PROVE  \/ Place(v[i].kind) < Place(v[j].kind)
             \/ Place(v[i].kind) = Place(v[j].kind) /\ Place(v[i].kind) \in Repeated
  <2>1. i + 1 \in DOMAIN w /\ j + 1 \in DOMAIN w /\ i + 1 < j + 1
    BY <1>1, <1>4, <1>7
  <2> QED
    BY <1>1, <2>1 DEF InOrder
<1>8. ASSUME NEW k \in Single, k \in u..s PROVE \E i \in DOMAIN v : Place(v[i].kind) = k
  <2>1. k \in d..s /\ k # h
    BY <1>2, <1>3, <1>8 DEF Single
  <2>2. PICK i \in 1..n : Place(w[i].kind) = k
    BY <1>1, <2>1 DEF InOrder
  <2>3. i # 1 /\ i - 1 \in 1..n - 1
    BY <1>1, <1>2, <2>1, <2>2
  <2>4. v[i - 1] = w[(i - 1) + 1] /\ (i - 1) + 1 = i
    BY <1>1, <2>3
  <2> QED
    BY <1>1, <2>2, <2>3, <2>4
<1> QED
  BY <1>5, <1>6, <1>7, <1>8 DEF InOrder, v

(* The reader takes a part of the first record. *)
LEMMA TrimmingKeepsOrder ==
    ASSUME NEW w \in Seq(Frame), w # <<>>, NEW s \in 1..8, NEW d \in 1..8, InOrder(w, s, d),
           NEW m \in Frame, m.kind = Head(w).kind
    PROVE  InOrder(<<m>> \o Tail(w), s, d)
<1> DEFINE v == <<m>> \o Tail(w)
<1>1. v \in Seq(Frame) /\ DOMAIN v = DOMAIN w /\ \A i \in DOMAIN w : v[i].kind = w[i].kind
  OBVIOUS
<1> HIDE DEF v
<1> QED
  BY <1>1 DEF InOrder, v

(* The first record is the one the reader waits for. *)
LEMMA HeadIsDue ==
    ASSUME NEW w \in Seq(Frame), w # <<>>, NEW s \in 1..8, NEW d \in (1..8) \ {7},
           InOrder(w, s, d)
    PROVE  LET h == Place(Head(w).kind) IN h = d \/ (d = 6 /\ h = 7)
<1> DEFINE h == Place(Head(w).kind)
<1>1. 1 \in DOMAIN w /\ h = Place(w[1].kind) /\ h \in d..s
  BY DEF InOrder
<1>2. \A i \in DOMAIN w : h <= Place(w[i].kind)
  <2> TAKE i \in DOMAIN w
  <2>1. i = 1 \/ 1 < i
    OBVIOUS
  <2>2. Place(w[i].kind) \in 1..8 /\ h \in 1..8
    BY PlaceType
  <2> QED
    BY <1>1, <2>1, <2>2 DEF InOrder
<1> HIDE DEF h
<1>3. ASSUME NEW k \in Single, k \in d..s PROVE h <= k
  BY <1>2, <1>3 DEF InOrder
<1>4. CASE d \in Single
  BY <1>1, <1>3, <1>4
<1>5. CASE d = 6
  BY <1>1, <1>3, <1>5 DEF Single
<1>6. CASE d = 8
  BY <1>1, <1>6
<1> QED
  BY <1>4, <1>5, <1>6 DEF Single, h

-----------------------------------------------------------------------------
(***************************************************************************)
(* What a step changes.  An exchange at e gives it new locals, leaves w on *)
(* its own wire and v on its peer's.                                       *)
(***************************************************************************)
Exchange(e, s, w, v) ==
    /\ sess' = [sess EXCEPT ![e] = s]
    /\ wire' = [wire EXCEPT ![Peer(e)] = v, ![e] = w]

LEMMA ExchangeFacts ==
    ASSUME TypeOK, NEW e \in Endpoint, NEW s, NEW w, NEW v, Exchange(e, s, w, v)
    PROVE  /\ sess'[e] = s /\ sess'[Peer(e)] = sess[Peer(e)]
           /\ wire'[e] = w /\ wire'[Peer(e)] = v
           /\ \A d \in Endpoint \ {e, Peer(e)} :
                /\ sess'[d] = sess[d] /\ wire'[d] = wire[d]
                /\ Peer(d) \in Endpoint \ {e, Peer(e)}
<1>1. Peer(e) \in Endpoint /\ Peer(e) # e /\ Peer(Peer(e)) = e
  BY EndpointFacts
<1>2. /\ sess'[e] = s /\ sess'[Peer(e)] = sess[Peer(e)]
      /\ wire'[e] = w /\ wire'[Peer(e)] = v
  BY <1>1 DEF Exchange, TypeOK
<1>3. ASSUME NEW d \in Endpoint \ {e, Peer(e)}
      PROVE  sess'[d] = sess[d] /\ wire'[d] = wire[d] /\ Peer(d) \in Endpoint \ {e, Peer(e)}
  <2>1. Peer(d) \in Endpoint /\ Peer(Peer(d)) = d
    BY EndpointFacts
  <2>2. sess'[d] = sess[d] /\ wire'[d] = wire[d]
    BY <1>1 DEF Exchange, TypeOK
  <2> QED
    BY <1>1, <2>1, <2>2
<1> QED
  BY <1>2, <1>3

LEMMA ReplyExchanges ==
    ASSUME TypeOK, NEW e \in Endpoint, NEW s, NEW frames, Reply(e, s, frames)
    PROVE  Exchange(e, s, wire[e] \o frames, Tail(wire[Peer(e)]))
  BY EndpointFacts DEF Reply, Exchange, TypeOK

(* The end of a session at both of its ends. *)
LEMMA EndFacts ==
    ASSUME TypeOK, NEW e \in Endpoint, NEW why, End(e, why)
    PROVE  /\ sess'[e] = Fresh(why)
           /\ sess'[Peer(e)] = IF sess[Peer(e)].phase \in Running THEN Fresh("lost")
                               ELSE sess[Peer(e)]
           /\ wire'[e] = <<>> /\ wire'[Peer(e)] = <<>>
           /\ \A d \in Endpoint \ {e, Peer(e)} :
                /\ sess'[d] = sess[d] /\ wire'[d] = wire[d]
                /\ Peer(d) \in Endpoint \ {e, Peer(e)}
           /\ UNCHANGED events
<1>1. Peer(e) \in Endpoint /\ Peer(e) # e /\ Peer(Peer(e)) = e
  BY EndpointFacts
<1>2. /\ sess'[e] = Fresh(why)
      /\ sess'[Peer(e)] = IF sess[Peer(e)].phase \in Running THEN Fresh("lost")
                          ELSE sess[Peer(e)]
      /\ wire'[e] = <<>> /\ wire'[Peer(e)] = <<>> /\ UNCHANGED events
  BY <1>1 DEF End, TypeOK, stores
<1>3. ASSUME NEW d \in Endpoint \ {e, Peer(e)}
      PROVE  sess'[d] = sess[d] /\ wire'[d] = wire[d] /\ Peer(d) \in Endpoint \ {e, Peer(e)}
  <2>1. Peer(d) \in Endpoint /\ Peer(Peer(d)) = d
    BY EndpointFacts
  <2>2. sess'[d] = sess[d] /\ wire'[d] = wire[d]
    BY <1>1 DEF End, TypeOK
  <2> QED
    BY <1>1, <2>1, <2>2
<1> QED
  BY <1>2, <1>3

(* A record that is on a wire after a step is a frame. *)
LEMMA SentIsFrame ==
    ASSUME TypeOK, TypeOK', NEW e \in Endpoint, NEW m, wire'[e] = wire[e] \o <<m>>
    PROVE  m \in Frame /\ wire'[e] = Append(wire[e], m)
<1>1. wire[e] \in Seq(Frame) /\ wire'[e] \in Seq(Frame)
  BY DEF TypeOK
<1>2. m = wire'[e][Len(wire[e]) + 1] /\ Len(wire[e]) + 1 \in DOMAIN wire'[e]
  BY <1>1
<1> QED
  BY <1>1, <1>2

-----------------------------------------------------------------------------
(***************************************************************************)
(* The ends stay in step.                                                  *)
(***************************************************************************)

LEMMA ExchangeStaysInStep ==
    ASSUME TypeOK, InStep, NEW e \in Endpoint, NEW s, NEW w, NEW v, Exchange(e, s, w, v),
           s.phase \in Running, sess[Peer(e)].phase \in Running,
           InOrder(w, Sent(s.phase), Due(sess[Peer(e)].phase)),
           InOrder(v, Sent(sess[Peer(e)].phase), Due(s.phase))
    PROVE  InStep'
<1>1. Peer(e) \in Endpoint /\ Peer(Peer(e)) = e
  BY EndpointFacts
<1>2. Paired(e)' /\ Paired(Peer(e))'
  BY <1>1, ExchangeFacts DEF Paired
<1>3. ASSUME NEW d \in Endpoint \ {e, Peer(e)} PROVE Paired(d)'
  BY <1>3, ExchangeFacts DEF Paired, InStep
<1> QED
  BY <1>2, <1>3 DEF InStep

LEMMA EndStaysInStep ==
    ASSUME TypeOK, InStep, NEW e \in Endpoint, NEW why \in Ended, End(e, why)
    PROVE  InStep'
<1>1. Peer(e) \in Endpoint /\ Peer(Peer(e)) = e
  BY EndpointFacts
<1>2. Fresh(why).phase \notin Running /\ Fresh("lost").phase \notin Running
  BY DEF Fresh, Ended, Refusals, Running, Handshake, Syncing
<1>3. sess'[e].phase \notin Running /\ sess'[Peer(e)].phase \notin Running
  BY <1>2, EndFacts
<1>4. Paired(e)' /\ Paired(Peer(e))'
  BY <1>1, <1>3, EndFacts DEF Paired
<1>5. ASSUME NEW d \in Endpoint \ {e, Peer(e)} PROVE Paired(d)'
  BY <1>5, EndFacts DEF Paired, InStep
<1> QED
  BY <1>4, <1>5 DEF InStep

(* The record a session reads is one its phase accepts. *)
LEMMA HeadIsAccepted ==
    ASSUME TypeOK, InStep, NEW e \in Endpoint,
           sess[e].phase \in Running \ {"sending"}, wire[Peer(e)] # <<>>
    PROVE  /\ Head(wire[Peer(e)]) \in Frame
           /\ Head(wire[Peer(e)]).kind \in Accepts(sess[e].phase)
<1> DEFINE p == Peer(e)
           f == Head(wire[p])
<1>1. p \in Endpoint /\ Peer(p) = e /\ wire[p] \in Seq(Frame)
  BY EndpointFacts DEF TypeOK
<1>2. f \in Frame
  BY <1>1
<1>3. sess[p].phase \in Running /\ InOrder(wire[p], Sent(sess[p].phase), Due(sess[e].phase))
  BY <1>1 DEF InStep, Paired
<1>4. Place(f.kind) = Due(sess[e].phase) \/ (Due(sess[e].phase) = 6 /\ Place(f.kind) = 7)
  BY <1>1, <1>3, PhaseType, HeadIsDue
<1> HIDE DEF f, p
<1>5. f.kind \in {"hello", "proofs", "channels", "inventories", "requests",
                  "batch", "done", "live", "upsert"}
  BY <1>2 DEF Frame
<1>6. f.kind \in Accepts(sess[e].phase)
  BY <1>4, <1>5 DEF Place, Due, Accepts, Running, Handshake, Syncing
<1> QED
  BY <1>2, <1>6 DEF f, p

(* A session that takes the first record of its peer's wire, sends the record of
   its new phase if there is one, and waits for what comes next. *)
LEMMA ReplyStaysInStep ==
    ASSUME TypeOK, TypeOK', InStep, NEW e \in Endpoint, wire[Peer(e)] # <<>>,
           sess[e].phase \in Running, NEW s, s.phase \in Running,
           LET h == Place(Head(wire[Peer(e)]).kind)
           IN  Due(s.phase) = IF h \in Single THEN h + 1 ELSE Due(sess[e].phase),
           \/ /\ Reply(e, s, <<>>)
              /\ \/ s.phase = sess[e].phase
                 \/ Sent(s.phase) = Sent(sess[e].phase) + 1 /\ Sent(s.phase) \in Repeated
           \/ \E m : /\ Reply(e, s, <<m>>)
                     /\ Place(m.kind) = Sent(s.phase)
                     /\ Sent(s.phase) = Sent(sess[e].phase) + 1
    PROVE  InStep'
<1> DEFINE p == Peer(e)
           sent == Sent(sess[e].phase)
           due == Due(sess[p].phase)
<1>1. p \in Endpoint /\ p # e /\ Peer(p) = e /\ wire[p] \in Seq(Frame) /\ wire[e] \in Seq(Frame)
  BY EndpointFacts DEF TypeOK
<1>2. sess[p].phase \in Running /\ InOrder(wire[e], sent, due)
  BY DEF InStep, Paired
<1>3. InOrder(wire[p], Sent(sess[p].phase), Due(sess[e].phase))
  BY <1>1 DEF InStep, Paired
<1>4. sent \in 1..8 /\ due \in 1..8 /\ Sent(s.phase) \in 1..8 /\ due <= sent + 1
  BY <1>2, PhaseType DEF InOrder
<1>5. InOrder(Tail(wire[p]), Sent(sess[p].phase), Due(s.phase))
  BY <1>1, <1>2, <1>3, PhaseType, ReadingKeepsOrder
<1> HIDE DEF sent, due, p
<1>6. CASE /\ Reply(e, s, <<>>)
           /\ \/ s.phase = sess[e].phase
              \/ Sent(s.phase) = sent + 1 /\ Sent(s.phase) \in Repeated
  <2>1. Exchange(e, s, wire[e], Tail(wire[p]))
    <3>1. wire[e] \o <<>> = wire[e]
      BY <1>1
    <3> QED
      BY <1>6, <3>1, ReplyExchanges DEF p
  <2>2. InOrder(wire[e], Sent(s.phase), due)
    BY <1>1, <1>2, <1>4, <1>6, SkippingKeepsOrder DEF sent
  <2> QED
    BY <1>2, <1>5, <2>1, <2>2, ExchangeStaysInStep DEF p, due
<1>7. ASSUME NEW m, Reply(e, s, <<m>>), Place(m.kind) = Sent(s.phase),
             Sent(s.phase) = sent + 1
      PROVE  InStep'
  <2>1. Exchange(e, s, wire[e] \o <<m>>, Tail(wire[p]))
    BY <1>7, ReplyExchanges DEF p
  <2>2. wire'[e] = wire[e] \o <<m>>
    BY <1>1, <2>1 DEF Exchange, TypeOK, p
  <2>3. m \in Frame /\ wire[e] \o <<m>> = Append(wire[e], m)
    BY <2>2, SentIsFrame
  <2>4. InOrder(Append(wire[e], m), Sent(s.phase), due)
    BY <1>1, <1>2, <1>4, <1>7, <2>3, SendingKeepsOrder
  <2> QED
    BY <1>2, <1>5, <2>1, <2>3, <2>4, ExchangeStaysInStep DEF p, due
<1> QED
  BY <1>6, <1>7 DEF sent, p

LEMMA HandlersStayInStep ==
    ASSUME TypeOK, TypeOK', InStep, NEW e \in Endpoint, wire[Peer(e)] # <<>>,
           sess[e].phase \in Running, NEW f, f = Head(wire[Peer(e)]), f.kind # "batch",
           f.kind \in Accepts(sess[e].phase), Handle(e, f)
    PROVE  InStep'
<1>1. sess[e] \in Session /\ f \in Frame
  BY EndpointFacts DEF TypeOK
<1>2. CASE \E why \in Ended : End(e, why)
  BY <1>2, EndStaysInStep
<1>3. ASSUME NEW s, Reply(e, s, <<>>), s.phase = sess[e].phase, Place(f.kind) \in Repeated
      PROVE  InStep'
  <2>1. Place(f.kind) \notin Single
    BY <1>3 DEF Repeated, Single
  <2>2. Due(s.phase) = Due(sess[e].phase)
    BY <1>3
  <2> QED
    BY <1>3, <2>1, <2>2, ReplyStaysInStep
<1>4. ASSUME NEW s, NEW m, Reply(e, s, <<m>>), s.phase \in Running,
             Place(f.kind) \in Single, Due(s.phase) = Place(f.kind) + 1,
             Place(m.kind) = Sent(s.phase), Sent(s.phase) = Sent(sess[e].phase) + 1
      PROVE  InStep'
  BY <1>4, ReplyStaysInStep
<1>5. ASSUME NEW s, Reply(e, s, <<>>), s.phase \in Running,
             Place(f.kind) \in Single, Due(s.phase) = Place(f.kind) + 1,
             Sent(s.phase) \in Repeated, Sent(s.phase) = Sent(sess[e].phase) + 1
      PROVE  InStep'
  BY <1>5, ReplyStaysInStep
<1>6. CASE f.kind = "hello" /\ ReceiveHello(e, f)
  <2> DEFINE s == [sess[e] EXCEPT !.phase = "proofs", !.shared = groups[Home(e)]]
             m == [kind |-> "proofs", groups |-> groups[Home(e)]]
  <2>1. s.phase = "proofs" /\ m.kind = "proofs" /\ sess[e].phase = "hello"
    BY <1>1, <1>6 DEF Session, Accepts, Running, Handshake, Syncing
  <2>2. Reply(e, s, <<m>>) \/ \E why \in Ended : End(e, why)
    BY <1>6 DEF ReceiveHello, Ended
  <2> HIDE DEF s, m
  <2> QED
    BY <1>2, <1>4, <1>6, <2>1, <2>2 DEF Place, Sent, Due, Single, Running, Handshake
<1>7. CASE f.kind = "proofs" /\ ReceiveProofs(e, f)
  <2> DEFINE shared == sess[e].shared \cap f.groups
             known == {c \in chans[Home(e)] : GroupOf[c] \in shared}
             s == [sess[e] EXCEPT !.phase = "channels", !.shared = shared]
             m == [kind |-> "channels", channels |-> known]
  <2>1. s.phase = "channels" /\ m.kind = "channels" /\ sess[e].phase = "proofs"
    BY <1>1, <1>7 DEF Session, Accepts, Running, Handshake, Syncing
  <2>2. Reply(e, s, <<m>>) \/ \E why \in Ended : End(e, why)
    BY <1>7 DEF ReceiveProofs, Ended
  <2> HIDE DEF s, m
  <2> QED
    BY <1>2, <1>4, <1>7, <2>1, <2>2 DEF Place, Sent, Due, Single, Running, Syncing
<1>8. CASE f.kind = "channels" /\ ReceiveChannels(e, f)
  <2> DEFINE mine == Inventories(Home(e), sess[e].shared)
             s == [sess[e] EXCEPT !.phase = "inventories", !.mine = mine]
             m == [kind |-> "inventories", heads |-> mine]
  <2>1. s.phase = "inventories" /\ m.kind = "inventories" /\ sess[e].phase = "channels"
    BY <1>1, <1>8 DEF Session, Accepts, Running, Handshake, Syncing
  <2>2. Reply(e, s, <<m>>) \/ \E why \in Ended : End(e, why)
    BY <1>8 DEF ReceiveChannels, Ended, Refusals
  <2> HIDE DEF s, m
  <2> QED
    BY <1>2, <1>4, <1>8, <2>1, <2>2 DEF Place, Sent, Due, Single, Running, Syncing
<1>9. CASE f.kind = "inventories" /\ ReceiveInventories(e, f)
  <2> DEFINE theirs == [k \in Group \X Node |->
                          IF k[1] \in sess[e].shared THEN f.heads[k] ELSE 0]
             s == [sess[e] EXCEPT !.phase = "requests", !.mine = NoHeads, !.theirs = theirs]
             m == [kind |-> "requests", ranges |-> MissingRanges(sess[e].mine, theirs)]
  <2>1. s.phase = "requests" /\ m.kind = "requests" /\ sess[e].phase = "inventories"
    BY <1>1, <1>9 DEF Session, Accepts, Running, Handshake, Syncing
  <2>2. Reply(e, s, <<m>>)
    BY <1>9 DEF ReceiveInventories
  <2> HIDE DEF s, m
  <2> QED
    BY <1>4, <1>9, <2>1, <2>2 DEF Place, Sent, Due, Single, Running, Syncing
<1>10. CASE f.kind = "requests" /\ ReceiveRequests(e, f)
  <2> DEFINE s == [sess[e] EXCEPT !.phase = "sending", !.todo = f.ranges]
  <2>1. s.phase = "sending" /\ sess[e].phase = "requests"
    BY <1>1, <1>10 DEF Session, Accepts, Running, Handshake, Syncing
  <2>2. Reply(e, s, <<>>)
    BY <1>10 DEF ReceiveRequests
  <2> HIDE DEF s
  <2> QED
    BY <1>5, <1>10, <2>1, <2>2 DEF Place, Sent, Due, Single, Repeated, Running, Syncing
<1>11. CASE f.kind = "done" /\ ReceiveDone(e, f)
  <2> DEFINE s == [sess[e] EXCEPT !.phase = "live"]
  <2>1. s.phase = "live" /\ sess[e].phase = "receiving"
    BY <1>1, <1>11 DEF Session, Accepts, Running, Handshake, Syncing
  <2>2. Reply(e, s, <<>>)
    BY <1>11 DEF ReceiveDone
  <2> HIDE DEF s
  <2> QED
    BY <1>5, <1>11, <2>1, <2>2 DEF Place, Sent, Due, Single, Repeated, Running
<1>12. CASE f.kind \in {"live", "upsert"}
  <2>1. Reply(e, sess[e], <<>>) \/ \E why \in Ended : End(e, why)
    BY <1>12, VerdictType DEF Handle, ReceiveLive, ReceiveUpsert, Ended, Refusals
  <2> QED
    BY <1>2, <1>3, <1>12, <2>1 DEF Place, Repeated
<1>13. f.kind \in {"hello", "proofs", "channels", "inventories", "requests",
                   "done", "live", "upsert"}
  BY <1>1 DEF Frame
<1> QED
  BY <1>6, <1>7, <1>8, <1>9, <1>10, <1>11, <1>12, <1>13 DEF Handle

(* What a batch's handler leaves of the peer's wire when it stores an event. *)
Rest(events_) == events_ \ {CHOOSE y \in events_ : \A z \in events_ : y.seq <= z.seq}
LeftOfBatch(e) ==
    LET w == wire[Peer(e)]
        rest == Rest(Head(w).events)
    IN  IF rest = {} THEN Tail(w) ELSE <<[kind |-> "batch", events |-> rest]>> \o Tail(w)

LEMMA BatchExchanges ==
    ASSUME TypeOK, NEW e \in Endpoint, NEW f, f = Head(wire[Peer(e)]), ReceiveBatch(e, f)
    PROVE  \/ \E why \in Refusals : End(e, why)
           \/ Exchange(e, sess[e], wire[e], LeftOfBatch(e))
<1> DEFINE x == CHOOSE y \in f.events : \A z \in f.events : y.seq <= z.seq
           v == LeftOfBatch(e)
<1>1. CASE Verdict(Home(e), x) # "ok" /\ End(e, Verdict(Home(e), x))
  BY <1>1, VerdictType
<1>2. CASE wire' = [wire EXCEPT ![Peer(e)] = v] /\ UNCHANGED sess
  <2> HIDE DEF v
  <2>1. sess' = [sess EXCEPT ![e] = sess[e]]
    BY <1>2 DEF TypeOK
  <2>2. wire' = [wire EXCEPT ![Peer(e)] = v, ![e] = wire[e]]
    BY <1>2, EndpointFacts DEF TypeOK
  <2> QED
    BY <2>1, <2>2 DEF Exchange, v
<1> QED
  BY <1>1, <1>2 DEF ReceiveBatch, LeftOfBatch, Rest

LEMMA BatchStaysInStep ==
    ASSUME TypeOK, InStep, NEW e \in Endpoint, wire[Peer(e)] # <<>>,
           sess[e].phase \in Running, NEW f, f = Head(wire[Peer(e)]), f.kind = "batch",
           ReceiveBatch(e, f)
    PROVE  InStep'
<1> DEFINE p == Peer(e)
           rest == Rest(f.events)
           m == [kind |-> "batch", events |-> rest]
<1>1. p \in Endpoint /\ Peer(p) = e /\ wire[p] \in Seq(Frame) /\ f \in Frame
  BY EndpointFacts DEF TypeOK
<1>2. sess[p].phase \in Running /\ InOrder(wire[p], Sent(sess[p].phase), Due(sess[e].phase))
  BY <1>1 DEF InStep, Paired
<1>3. InOrder(wire[e], Sent(sess[e].phase), Due(sess[p].phase))
  BY DEF InStep, Paired
<1>4. Sent(sess[p].phase) \in 1..8 /\ Due(sess[e].phase) \in 1..8
  BY <1>2, PhaseType
<1>5. Place(f.kind) \notin Single
  BY DEF Place, Single
<1>6. InOrder(Tail(wire[p]), Sent(sess[p].phase), Due(sess[e].phase))
  BY <1>1, <1>2, <1>4, <1>5, ReadingKeepsOrder
<1>7. rest # {} => InOrder(<<m>> \o Tail(wire[p]), Sent(sess[p].phase), Due(sess[e].phase))
  <2> HAVE rest # {}
  <2>1. m \in Frame /\ m.kind = Head(wire[p]).kind
    BY <1>1 DEF Frame, Rest
  <2> HIDE DEF m
  <2> QED
    BY <1>1, <1>2, <1>4, <2>1, TrimmingKeepsOrder
<1>8. InOrder(LeftOfBatch(e), Sent(sess[p].phase), Due(sess[e].phase))
  BY <1>6, <1>7 DEF LeftOfBatch
<1>9. CASE \E why \in Refusals : End(e, why)
  BY <1>9, EndStaysInStep DEF Ended
<1>10. CASE Exchange(e, sess[e], wire[e], LeftOfBatch(e))
  BY <1>2, <1>3, <1>8, <1>10, ExchangeStaysInStep
<1> QED
  BY <1>9, <1>10, BatchExchanges

LEMMA ReceiveStaysInStep ==
    ASSUME TypeOK, TypeOK', InStep, NEW e \in Endpoint, Receive(e)
    PROVE  InStep'
<1> DEFINE f == Head(wire[Peer(e)])
<1>1. sess[e].phase \in Running \ {"sending"} /\ wire[Peer(e)] # <<>>
  BY DEF Receive
<1>2. f.kind \in Accepts(sess[e].phase)
  BY <1>1, HeadIsAccepted
<1>3. Handle(e, f)
  BY <1>2 DEF Receive
<1> HIDE DEF f
<1>4. CASE f.kind = "batch"
  BY <1>1, <1>3, <1>4, BatchStaysInStep DEF Handle, f
<1>5. CASE f.kind # "batch"
  BY <1>1, <1>2, <1>3, <1>5, HandlersStayInStep DEF f
<1> QED
  BY <1>4, <1>5

(* A session that sends a record of the place it is at, or of the next, or goes
   there without sending, and reads nothing. *)
LEMMA SendStaysInStep ==
    ASSUME TypeOK, InStep, NEW e \in Endpoint, sess[e].phase \in Running,
           NEW s, s.phase \in Running, Due(s.phase) = Due(sess[e].phase),
           sess' = [sess EXCEPT ![e] = s], NEW m \in Frame,
           \/ UNCHANGED wire /\ Sent(s.phase) = Sent(sess[e].phase)
           \/ /\ wire' = [wire EXCEPT ![e] = Append(@, m)]
              /\ Place(m.kind) = Sent(s.phase)
              /\ \/ Sent(s.phase) = Sent(sess[e].phase) + 1
                 \/ Sent(s.phase) = Sent(sess[e].phase) /\ Sent(s.phase) \in Repeated
    PROVE  InStep'
<1> DEFINE p == Peer(e)
           sent == Sent(sess[e].phase)
           due == Due(sess[p].phase)
<1>1. p \in Endpoint /\ p # e /\ Peer(p) = e /\ wire[e] \in Seq(Frame)
  BY EndpointFacts DEF TypeOK
<1>2. sess[p].phase \in Running /\ InOrder(wire[e], sent, due)
  BY DEF InStep, Paired
<1>3. InOrder(wire[p], Sent(sess[p].phase), Due(s.phase))
  BY <1>1 DEF InStep, Paired
<1>4. sent \in 1..8 /\ due \in (1..8) \ {7} /\ due <= sent + 1 /\ Sent(s.phase) \in 1..8
  BY <1>2, PhaseType DEF InOrder
<1> HIDE DEF sent, due
<1>5. CASE UNCHANGED wire /\ Sent(s.phase) = sent
  <2>1. Exchange(e, s, wire[e], wire[p])
    BY <1>1, <1>5 DEF Exchange, TypeOK
  <2> QED
    BY <1>2, <1>3, <1>5, <2>1, ExchangeStaysInStep DEF due
<1>6. ASSUME wire' = [wire EXCEPT ![e] = Append(@, m)],
             Place(m.kind) = Sent(s.phase),
             Sent(s.phase) = sent + 1 \/ (Sent(s.phase) = sent /\ Sent(s.phase) \in Repeated)
      PROVE  InStep'
  <2>1. Exchange(e, s, Append(wire[e], m), wire[p])
    BY <1>1, <1>6 DEF Exchange, TypeOK
  <2>2. due <= Sent(s.phase)
    BY <1>4, <1>6 DEF Repeated
  <2>3. InOrder(Append(wire[e], m), Sent(s.phase), due)
    BY <1>1, <1>2, <1>4, <1>6, <2>2, SendingKeepsOrder
  <2> QED
    BY <1>2, <1>3, <2>1, <2>3, ExchangeStaysInStep DEF due
<1> QED
  BY <1>5, <1>6 DEF sent

LEMMA OwnAccordStaysInStep ==
    ASSUME TypeOK, InStep, NEW e \in Endpoint,
           SendBatch(e) \/ FinishSending(e) \/ ForwardLive(e) \/ ForwardMeta(e)
    PROVE  InStep'
<1>1. sess[e] \in Session /\ Home(e) \in Node /\ sess = [sess EXCEPT ![e] = sess[e]]
  BY EndpointFacts DEF TypeOK
<1>2. CASE End(e, "group") \/ End(e, "range")
  BY <1>2, EndStaysInStep DEF Ended, Refusals
<1>3. ASSUME NEW r \in sess[e].todo, sess[e].phase = "sending", SendRange(e, r) PROVE InStep'
  <2> DEFINE batch == EventsRange(Home(e), r)
             s == sess'[e]
             m == [kind |-> "batch", events |-> batch]
  <2>1. \E todo : sess' = [sess EXCEPT ![e].todo = todo]
    BY <1>3 DEF SendRange
  <2>2. sess' = [sess EXCEPT ![e] = s] /\ s.phase = "sending"
    BY <1>1, <1>3, <2>1 DEF TypeOK, Session
  <2>3. wire' = [wire EXCEPT ![e] = IF batch = {} THEN @ ELSE Append(@, m)]
    BY <1>3 DEF SendRange
  <2>4. batch \in SUBSET Event
    BY <1>1, EventsRangeType DEF Session
  <2> HIDE DEF batch, s
  <2>5. batch # {} => m \in Frame /\ Place(m.kind) = 6
    BY <2>4 DEF Frame, Place
  <2> HIDE DEF m
  <2>6. Sent("sending") = 6 /\ 6 \in Repeated /\ "sending" \in Running
    BY DEF Sent, Repeated, Running, Syncing
  <2>7. CASE batch = {}
    <3>1. UNCHANGED wire
      BY <2>3, <2>7 DEF TypeOK
    <3>2. [kind |-> "done"] \in Frame
      BY DEF Frame
    <3> QED
      BY <1>3, <2>2, <2>6, <3>1, <3>2, SendStaysInStep
  <2>8. CASE batch # {}
    <3>1. wire' = [wire EXCEPT ![e] = Append(@, m)]
      BY <2>3, <2>8
    <3> QED
      BY <1>3, <2>2, <2>5, <2>6, <2>8, <3>1, SendStaysInStep
  <2> QED
    BY <2>7, <2>8
<1>4. CASE SendBatch(e)
  BY <1>2, <1>3, <1>4 DEF SendBatch
<1>5. CASE FinishSending(e)
  <2> DEFINE s == [sess[e] EXCEPT !.phase = "receiving"]
             m == [kind |-> "done"]
  <2>1. s.phase = "receiving" /\ sess[e].phase = "sending"
    BY <1>1, <1>5 DEF Session, FinishSending
  <2>2. m \in Frame /\ Place(m.kind) = 7
    BY DEF Frame, Place
  <2>3. sess' = [sess EXCEPT ![e] = s] /\ wire' = [wire EXCEPT ![e] = Append(@, m)]
    BY <1>5 DEF FinishSending
  <2> HIDE DEF s, m
  <2>4. /\ Sent(s.phase) = 7 /\ Sent(s.phase) = Sent(sess[e].phase) + 1
        /\ Due(s.phase) = Due(sess[e].phase)
        /\ sess[e].phase \in Running /\ s.phase \in Running
    BY <2>1 DEF Sent, Due, Running, Syncing
  <2>5. Place(m.kind) = Sent(s.phase)
    BY <2>2, <2>4
  <2> QED
    BY <2>2, <2>3, <2>4, <2>5, SendStaysInStep, Zenon
<1>6. ASSUME sess[e].phase = "live", UNCHANGED sess, NEW m \in Frame,
             m.kind \in {"live", "upsert"},
             UNCHANGED wire \/ wire' = [wire EXCEPT ![e] = Append(@, m)]
      PROVE  InStep'
  <2>1. /\ Place(m.kind) = 8 /\ Sent(sess[e].phase) = 8 /\ 8 \in Repeated
        /\ sess[e].phase \in Running
    BY <1>6 DEF Place, Sent, Repeated, Running
  <2>2. sess' = [sess EXCEPT ![e] = sess[e]] /\ Place(m.kind) = Sent(sess[e].phase)
    BY <1>1, <1>6, <2>1
  <2> QED
    BY <1>6, <2>1, <2>2, SendStaysInStep, Zenon
<1>7. CASE ForwardLive(e)
  <2> DEFINE m == [kind |-> "live", event |-> Head(liveQ[e])]
  <2>1. Head(liveQ[e]) \in Event
    BY <1>7 DEF ForwardLive, TypeOK
  <2>2. m \in Frame /\ m.kind = "live"
    BY <2>1 DEF Frame
  <2>3. /\ sess[e].phase = "live" /\ UNCHANGED sess
        /\ UNCHANGED wire \/ wire' = [wire EXCEPT ![e] = Append(@, m)]
    BY <1>7 DEF ForwardLive, TypeOK
  <2> HIDE DEF m
  <2> QED
    BY <1>6, <2>2, <2>3
<1>8. CASE ForwardMeta(e)
  <2> DEFINE m == [kind |-> "upsert", channel |-> Head(metaQ[e])]
  <2>1. Head(metaQ[e]) \in Channel
    BY <1>8 DEF ForwardMeta, TypeOK
  <2>2. m \in Frame /\ m.kind = "upsert"
    BY <2>1 DEF Frame
  <2>3. /\ sess[e].phase = "live" /\ UNCHANGED sess
        /\ UNCHANGED wire \/ wire' = [wire EXCEPT ![e] = Append(@, m)]
    BY <1>8 DEF ForwardMeta, TypeOK
  <2> HIDE DEF m
  <2> QED
    BY <1>6, <2>2, <2>3
<1> QED
  BY <1>4, <1>5, <1>7, <1>8

LEMMA OpenStaysInStep ==
    ASSUME TypeOK, InStep, NEW l \in Link, Open(l)
    PROVE  InStep'
<1> DEFINE hello == <<[kind |-> "hello"]>>
<1>1. InOrder(hello, 1, 1)
  <2>1. DOMAIN hello = {1} /\ hello[1].kind = "hello" /\ Place("hello") = 1
    BY DEF Place
  <2> HIDE DEF hello
  <2>2. \A k \in Single : k \in 1..1 => k = 1
    BY DEF Single
  <2> QED
    BY <2>1, <2>2 DEF InOrder
<1> HIDE DEF hello
<1>2. Sent("hello") = 1 /\ Due("hello") = 1 /\ "hello" \in Running
  BY DEF Sent, Due, Running, Handshake
<1>3. ASSUME NEW d \in Endpoint PROVE Peer(d)[1] = d[1] /\ Peer(d) \in Endpoint
  BY EndpointFacts DEF Peer
<1>4. ASSUME NEW d \in Endpoint
      PROVE  /\ d[1] = l => sess'[d].phase = "hello" /\ wire'[d] = hello
             /\ d[1] # l => sess'[d] = sess[d] /\ wire'[d] = wire[d]
  BY DEF Open, Fresh, hello
<1>5. ASSUME NEW d \in Endpoint PROVE Paired(d)'
  <2>1. CASE d[1] = l
    BY <1>1, <1>2, <1>3, <1>4, <2>1 DEF Paired
  <2>2. CASE d[1] # l
    BY <1>3, <1>4, <2>2 DEF Paired, InStep
  <2> QED
    BY <2>1, <2>2
<1> QED
  BY <1>5 DEF InStep

LEMMA InitInStep == Init => InStep
  BY EndpointFacts DEF Init, InStep, Paired, Fresh, Running, Handshake, Syncing

LEMMA NextStaysInStep ==
    ASSUME TypeOK, TypeOK', InStep, [Next]_vars
    PROVE  InStep'
<1>1. ASSUME NEW l \in Link, Open(l) PROVE InStep'
  BY <1>1, OpenStaysInStep
<1>2. ASSUME NEW l \in Link, Drop(l) PROVE InStep'
  <2>1. <<l, "dial">> \in Endpoint /\ "lost" \in Ended
    BY DEF Endpoint, Side, Ended
  <2> QED
    BY <1>2, <2>1, EndStaysInStep DEF Drop
<1>3. ASSUME NEW e \in Endpoint, Run(e) PROVE InStep'
  BY <1>3, ReceiveStaysInStep, OwnAccordStaysInStep DEF Run
<1>4. CASE UNCHANGED <<sess, wire>>
  BY <1>4 DEF InStep, Paired
<1>5. ASSUME NEW n \in Node, User(n) PROVE UNCHANGED <<sess, wire>>
  BY <1>5 DEF User, SendMessage, CreateChannel, CreateGroup, ImportInvite, BlockPeer,
     UnblockPeer
<1> QED
  BY <1>1, <1>2, <1>3, <1>4, <1>5 DEF Next, vars

-----------------------------------------------------------------------------
(***************************************************************************)
(* What the two ends know of each other.  Below, s is the session of one   *)
(* end, t that of the other, and w is on the way from s to t.              *)
(***************************************************************************)
Settled == Running \ Handshake

(* Ranges and records a session of the groups S may ask for and send. *)
Sound(S) == {r \in RangeRequest : r.group \in S /\ r.first <= r.last}
Within(S) == {f \in Frame : /\ BodyGroups(f) \subseteq S
                            /\ f.kind = "requests" => f.ranges \subseteq Sound(S)}

(* The proofs on the way are those of all the groups its sender shared at first;
   the sender that has read the other's proofs has cut its groups down by them. *)
ProofsAgree(s, t, w) ==
    \A i \in DOMAIN w : w[i].kind = "proofs" =>
        IF s.phase = "proofs" THEN w[i].groups = s.shared
        ELSE s.shared = t.shared \cap w[i].groups

SharedAgree(s, t) == s.phase \in Settled /\ t.phase \in Settled => s.shared = t.shared

BodiesAgree(s, w) ==
    /\ w \in Seq(Within(s.shared))
    /\ s.todo \subseteq Sound(s.shared)
    /\ s.phase # "sending" => s.todo = {}

Agree(s, t, w) == ProofsAgree(s, t, w) /\ SharedAgree(s, t) /\ BodiesAgree(s, w)

SessionsAgree == \A e \in Endpoint : Agree(sess[e], sess[Peer(e)], wire[e])

Faults == {"record", "range", "group", "equivocation"}
Agreed == SessionsAgree /\ EndsInStep

-----------------------------------------------------------------------------
LEMMA ExchangeAgrees ==
    ASSUME TypeOK, Agreed, NEW e \in Endpoint, NEW s, NEW w, NEW v, Exchange(e, s, w, v),
           s.phase \in Running, Agree(s, sess[Peer(e)], w), Agree(sess[Peer(e)], s, v)
    PROVE  Agreed'
<1>1. Peer(e) \in Endpoint /\ Peer(Peer(e)) = e
  BY EndpointFacts
<1>2. /\ Agree(sess'[e], sess'[Peer(e)], wire'[e])
      /\ Agree(sess'[Peer(e)], sess'[Peer(Peer(e))], wire'[Peer(e)])
  BY <1>1, ExchangeFacts
<1>3. ASSUME NEW d \in Endpoint \ {e, Peer(e)}
      PROVE  Agree(sess'[d], sess'[Peer(d)], wire'[d])
  BY <1>3, ExchangeFacts DEF Agreed, SessionsAgree
<1>4. SessionsAgree'
  BY <1>2, <1>3 DEF SessionsAgree
<1>5. s.phase \notin Faults
  BY DEF Faults, Running, Handshake, Syncing
<1>6. EndsInStep'
  BY <1>5, ExchangeFacts DEF Agreed, EndsInStep, Faults
<1> QED
  BY <1>4, <1>6 DEF Agreed

LEMMA EndAgrees ==
    ASSUME TypeOK, Agreed, NEW e \in Endpoint, NEW why \in Ended \ Faults, End(e, why)
    PROVE  Agreed'
<1>1. Peer(e) \in Endpoint /\ Peer(Peer(e)) = e
  BY EndpointFacts
<1>2. why \notin Settled /\ "lost" \notin Settled /\ "lost" \notin Faults /\ why # "sending"
  BY DEF Settled, Running, Handshake, Syncing, Ended, Refusals, Faults
<1>3. ASSUME NEW t, NEW phase \in {why, "lost"} PROVE Agree(Fresh(phase), t, <<>>)
  BY <1>2, <1>3 DEF Agree, Fresh, ProofsAgree, SharedAgree, BodiesAgree
<1>4. Agree(sess[Peer(e)], Fresh(why), <<>>)
  BY <1>1, <1>2 DEF Agreed, SessionsAgree, Agree, Fresh, ProofsAgree, SharedAgree, BodiesAgree
<1>5. /\ Agree(sess'[e], sess'[Peer(e)], wire'[e])
      /\ Agree(sess'[Peer(e)], sess'[Peer(Peer(e))], wire'[Peer(e)])
  BY <1>1, <1>3, <1>4, EndFacts
<1>6. ASSUME NEW d \in Endpoint \ {e, Peer(e)}
      PROVE  Agree(sess'[d], sess'[Peer(d)], wire'[d])
  BY <1>6, EndFacts DEF Agreed, SessionsAgree
<1>7. SessionsAgree'
  BY <1>5, <1>6 DEF SessionsAgree
<1>8. ASSUME NEW d \in Endpoint PROVE sess'[d].phase \notin Faults
  <2>1. sess[d].phase \notin Faults /\ sess[Peer(e)].phase \notin Faults
    BY <1>1 DEF Agreed, EndsInStep, Faults
  <2>2. Fresh(why).phase \notin Faults /\ Fresh("lost").phase \notin Faults
    BY <1>2 DEF Fresh
  <2>3. d \in {e, Peer(e)} \/ d \in Endpoint \ {e, Peer(e)}
    OBVIOUS
  <2> QED
    BY <2>1, <2>2, <2>3, EndFacts
<1> QED
  BY <1>7, <1>8 DEF Agreed, EndsInStep, Faults

-----------------------------------------------------------------------------
(* Records that may be added to a wire, or left out of it. *)
SameProofs(v, w) ==
    \A i \in DOMAIN v : v[i].kind = "proofs" => \E j \in DOMAIN w : w[j] = v[i]

LEMMA AppendedBodies ==
    ASSUME NEW S, NEW w \in Seq(Within(S)), NEW m \in Within(S), m.kind # "proofs"
    PROVE  Append(w, m) \in Seq(Within(S)) /\ SameProofs(Append(w, m), w)
<1> DEFINE v == Append(w, m)
           n == Len(w)
<1>1. /\ v \in Seq(Within(S)) /\ n \in Nat /\ DOMAIN v = 1..n + 1 /\ DOMAIN w = 1..n
      /\ v[n + 1] = m /\ \A i \in 1..n : v[i] = w[i]
  OBVIOUS
<1> HIDE DEF v, n
<1>2. \A i \in 1..n + 1 : i = n + 1 \/ i \in 1..n
  BY <1>1
<1>3. SameProofs(v, w)
  BY <1>1, <1>2 DEF SameProofs
<1> QED
  BY <1>1, <1>3 DEF v

LEMMA RemainingBodies ==
    ASSUME NEW S, NEW w \in Seq(Within(S)), w # <<>>
    PROVE  Tail(w) \in Seq(Within(S)) /\ SameProofs(Tail(w), w)
<1> DEFINE v == Tail(w)
           n == Len(w)
<1>1. /\ v \in Seq(Within(S)) /\ n \in Nat \ {0} /\ DOMAIN v = 1..n - 1 /\ DOMAIN w = 1..n
      /\ \A i \in 1..n - 1 : v[i] = w[i + 1]
  OBVIOUS
<1> HIDE DEF v, n
<1>2. \A i \in 1..n - 1 : i + 1 \in 1..n
  BY <1>1
<1>3. SameProofs(v, w)
  BY <1>1, <1>2 DEF SameProofs
<1> QED
  BY <1>1, <1>3 DEF v

LEMMA TrimmedBodies ==
    ASSUME NEW S, NEW w \in Seq(Within(S)), w # <<>>, NEW m \in Within(S),
           m.kind = "batch"
    PROVE  <<m>> \o Tail(w) \in Seq(Within(S)) /\ SameProofs(<<m>> \o Tail(w), w)
<1> DEFINE v == <<m>> \o Tail(w)
           n == Len(w)
<1>1. /\ v \in Seq(Within(S)) /\ n \in Nat \ {0} /\ DOMAIN v = 1..n /\ DOMAIN w = 1..n
      /\ v[1] = m /\ \A i \in 2..n : v[i] = w[i]
  <2>1. \A i \in 2..n : v[i] = w[i]
    <3> TAKE i \in 2..n
    <3>1. v[i] = Tail(w)[i - 1] /\ Tail(w)[i - 1] = w[(i - 1) + 1] /\ (i - 1) + 1 = i
      OBVIOUS
    <3> QED
      BY <3>1
  <2> QED
    BY <2>1
<1> HIDE DEF v, n
<1>2. \A i \in 1..n : i = 1 \/ i \in 2..n
  BY <1>1
<1>3. SameProofs(v, w)
  BY <1>1, <1>2 DEF SameProofs
<1> QED
  BY <1>1, <1>3 DEF v

LEMMA SameBodies == \A w : SameProofs(w, w)
  BY DEF SameProofs

(* Records that reveal nothing are within any groups. *)
LEMMA EarlyBodies ==
    ASSUME NEW S, NEW w \in Seq(Frame), \A i \in DOMAIN w : Place(w[i].kind) <= 2
    PROVE  w \in Seq(Within(S))
<1>1. ASSUME NEW i \in DOMAIN w PROVE w[i] \in Within(S)
  <2>1. w[i] \in Frame /\ w[i].kind \in {"hello", "proofs"}
    <3>1. w[i] \in Frame
      OBVIOUS
    <3>2. w[i].kind \in {"hello", "proofs", "channels", "inventories", "requests",
                         "batch", "done", "live", "upsert"}
      BY <3>1 DEF Frame
    <3> QED
      BY <3>1, <3>2 DEF Place
  <2> QED
    BY <2>1 DEF Within, BodyGroups, GroupsIn
<1> QED
  BY <1>1

(* Once it has read the other's proofs, a session keeps its groups, and sends and
   asks within them. *)
LEMMA SettledAgrees ==
    ASSUME TypeOK, Agreed, NEW e \in Endpoint, NEW s, NEW w, NEW v, Exchange(e, s, w, v),
           sess[e].phase \in Settled, s.phase \in Settled, s.shared = sess[e].shared,
           BodiesAgree(s, w), SameProofs(w, wire[e]),
           v \in Seq(Within(sess[Peer(e)].shared)), SameProofs(v, wire[Peer(e)])
    PROVE  Agreed'
<1> DEFINE p == Peer(e)
<1>1. p \in Endpoint /\ Peer(p) = e
  BY EndpointFacts
<1>2. Agree(sess[e], sess[p], wire[e]) /\ Agree(sess[p], sess[e], wire[p])
  BY <1>1 DEF Agreed, SessionsAgree
<1>3. s.phase # "proofs" /\ sess[e].phase # "proofs" /\ s.phase \in Running
  BY DEF Settled, Handshake
<1>4. ProofsAgree(s, sess[p], w)
  BY <1>2, <1>3 DEF Agree, ProofsAgree, SameProofs
<1>5. ProofsAgree(sess[p], s, v)
  BY <1>2, <1>3 DEF Agree, ProofsAgree, SameProofs
<1>6. Agree(s, sess[p], w)
  BY <1>2, <1>4 DEF Agree, SharedAgree
<1>7. Agree(sess[p], s, v)
  BY <1>2, <1>5 DEF Agree, SharedAgree, BodiesAgree
<1> QED
  BY <1>3, <1>6, <1>7, ExchangeAgrees

-----------------------------------------------------------------------------
(***************************************************************************)
(* Each step keeps the two ends agreed, and ends no session for a fault.   *)
(***************************************************************************)
AgreeInv == TypeOK /\ InStep /\ Agreed

(* From the channels on, what a session reads is within its own groups. *)
LEMMA HeadShared ==
    ASSUME AgreeInv, NEW e \in Endpoint, sess[e].phase \in Running \ {"sending"},
           wire[Peer(e)] # <<>>, NEW f, f = Head(wire[Peer(e)]), Place(f.kind) >= 3
    PROVE  /\ sess[e].phase \in Settled /\ sess[Peer(e)].phase \in Settled
           /\ sess[Peer(e)].shared = sess[e].shared
           /\ f \in Within(sess[e].shared)
<1> DEFINE p == Peer(e)
<1>1. p \in Endpoint /\ Peer(p) = e /\ wire[p] \in Seq(Frame)
  BY EndpointFacts DEF AgreeInv, TypeOK
<1>2. sess[p].phase \in Running /\ InOrder(wire[p], Sent(sess[p].phase), Due(sess[e].phase))
  BY <1>1 DEF AgreeInv, InStep, Paired
<1>3. 1 \in DOMAIN wire[p] /\ f = wire[p][1]
  BY <1>1
<1>4. Place(f.kind) <= Sent(sess[p].phase)
  <2>1. Place(f.kind) \in Due(sess[e].phase)..Sent(sess[p].phase)
    BY <1>2, <1>3 DEF InOrder
  <2> QED
    BY <1>2, <2>1, PhaseType
<1>5. sess[p].phase \in Settled
  BY <1>2, <1>4, PlaceType DEF Sent, Settled, Running, Handshake
<1>6. f.kind \in Accepts(sess[e].phase)
  BY HeadIsAccepted DEF AgreeInv
<1>7. sess[e].phase \in Settled
  BY <1>6 DEF Accepts, Place, Settled, Handshake
<1>8. Agree(sess[p], sess[e], wire[p])
  BY <1>1 DEF AgreeInv, Agreed, SessionsAgree
<1>9. sess[p].shared = sess[e].shared
  BY <1>5, <1>7, <1>8 DEF Agree, SharedAgree
<1>10. f \in Within(sess[p].shared)
  BY <1>3, <1>8 DEF Agree, BodiesAgree
<1> QED
  BY <1>5, <1>7, <1>9, <1>10

(* Two ends that have not read the proofs have none, or all, still to read. *)
LEMMA HandshakeFacts ==
    ASSUME AgreeInv, NEW e \in Endpoint, sess[e].phase \in Handshake
    PROVE  /\ sess[Peer(e)].phase \in Running
           /\ \A i \in DOMAIN wire[e] : Place(wire[e][i].kind) <= 2
           /\ sess[e].phase = "hello" =>
                /\ \A i \in DOMAIN wire[e] : wire[e][i].kind # "proofs"
                /\ sess[Peer(e)].phase \in Handshake
<1> DEFINE p == Peer(e)
<1>1. p \in Endpoint /\ Peer(p) = e /\ sess[e].phase \in Running
  BY EndpointFacts DEF Running
<1>2. sess[p].phase \in Running /\ InOrder(wire[e], Sent(sess[e].phase), Due(sess[p].phase))
  BY <1>1 DEF AgreeInv, InStep, Paired
<1>3. Sent(sess[e].phase) = IF sess[e].phase = "hello" THEN 1 ELSE 2
  BY DEF Handshake, Sent
<1>4. Due(sess[p].phase) <= Sent(sess[e].phase) + 1
  BY <1>2 DEF InOrder
<1>5. \A i \in DOMAIN wire[e] : Place(wire[e][i].kind) <= Sent(sess[e].phase)
  <2> TAKE i \in DOMAIN wire[e]
  <2>1. Place(wire[e][i].kind) \in Due(sess[p].phase)..Sent(sess[e].phase)
    BY <1>2 DEF InOrder
  <2> QED
    BY <1>2, <2>1, PhaseType
<1>6. Place("proofs") = 2
  BY DEF Place
<1>7. \A i \in DOMAIN wire[e] : Place(wire[e][i].kind) <= 2
  <2> TAKE i \in DOMAIN wire[e]
  <2> QED
    BY <1>3, <1>5, PlaceType
<1>8. sess[e].phase = "hello" => \A i \in DOMAIN wire[e] : wire[e][i].kind # "proofs"
  BY <1>3, <1>5, <1>6
<1>9. sess[e].phase = "hello" => sess[p].phase \in Handshake
  BY <1>2, <1>3, <1>4 DEF Due, Running, Handshake, Syncing
<1> QED
  BY <1>2, <1>7, <1>8, <1>9

(* A session that reads a record and sends one. *)
LEMMA ReplySends ==
    ASSUME TypeOK, TypeOK', NEW e \in Endpoint, NEW s, NEW m, Reply(e, s, <<m>>)
    PROVE  m \in Frame /\ Exchange(e, s, Append(wire[e], m), Tail(wire[Peer(e)]))
<1>1. Exchange(e, s, wire[e] \o <<m>>, Tail(wire[Peer(e)]))
  BY ReplyExchanges
<1>2. wire'[e] = wire[e] \o <<m>>
  BY <1>1, EndpointFacts DEF Exchange, TypeOK
<1>3. m \in Frame /\ wire[e] \o <<m>> = Append(wire[e], m)
  BY <1>2, SentIsFrame
<1> QED
  BY <1>1, <1>3

LEMMA HelloAgrees ==
    ASSUME AgreeInv, TypeOK', NEW e \in Endpoint, wire[Peer(e)] # <<>>,
           NEW f, f = Head(wire[Peer(e)]), f.kind = "hello",
           sess[e].phase = "hello", ReceiveHello(e, f)
    PROVE  Agreed'
<1> DEFINE p == Peer(e)
           s == [sess[e] EXCEPT !.phase = "proofs", !.shared = groups[Home(e)]]
           m == [kind |-> "proofs", groups |-> groups[Home(e)]]
           w == Append(wire[e], m)
           v == Tail(wire[p])
<1>1. /\ p \in Endpoint /\ Peer(p) = e /\ p # e
      /\ sess[e] \in Session /\ wire[e] \in Seq(Frame)
  BY EndpointFacts DEF AgreeInv, TypeOK
<1>2. CASE End(e, "self") \/ End(e, "blocked")
  BY <1>2, EndAgrees DEF AgreeInv, Ended, Faults
<1>3. CASE Reply(e, s, <<m>>)
  <2>3. m \in Frame /\ Exchange(e, s, w, v)
    <3> HIDE DEF m, s
    <3> QED
      BY <1>3, ReplySends DEF AgreeInv
  <2>4. /\ s.phase = "proofs" /\ s.shared = groups[Home(e)] /\ s.todo = sess[e].todo
        /\ m.kind = "proofs" /\ m.groups = s.shared
    BY <1>1 DEF Session
  <2>5. /\ \A i \in DOMAIN wire[e] : wire[e][i].kind # "proofs" /\ Place(wire[e][i].kind) <= 2
        /\ sess[p].phase \in Handshake
    BY HandshakeFacts DEF Handshake
  <2>6. Agree(sess[e], sess[p], wire[e]) /\ Agree(sess[p], sess[e], wire[p])
    BY <1>1 DEF AgreeInv, Agreed, SessionsAgree
  <2>7. /\ DOMAIN w = 1..Len(wire[e]) + 1 /\ w[Len(wire[e]) + 1] = m /\ w \in Seq(Frame)
        /\ \A i \in 1..Len(wire[e]) : w[i] = wire[e][i] /\ i \in DOMAIN wire[e]
        /\ Len(wire[e]) \in Nat
    <3> HIDE DEF m
    <3> QED
      BY <1>1, <2>3
  <2> HIDE DEF s, m, w
  <2>8. \A i \in DOMAIN w : w[i].kind = "proofs" => w[i] = m
    BY <2>5, <2>7
  <2>9. \A i \in DOMAIN w : Place(w[i].kind) <= 2
    <3>1. Place(m.kind) = 2
      BY <2>4 DEF Place
    <3> QED
      BY <2>5, <2>7, <3>1
  <2>10. w \in Seq(Within(s.shared))
    BY <2>7, <2>9, EarlyBodies
  <2>11. Agree(s, sess[p], w)
    <3>1. s.todo = {} /\ s.phase \notin Settled
      BY <2>4, <2>6 DEF Agree, BodiesAgree, Settled, Handshake
    <3> QED
      BY <2>4, <2>8, <2>10, <3>1 DEF Agree, ProofsAgree, SharedAgree, BodiesAgree
  <2>12. v \in Seq(Within(sess[p].shared)) /\ SameProofs(v, wire[p])
    BY <2>6, RemainingBodies DEF Agree, BodiesAgree
  <2>13. ProofsAgree(sess[p], s, v)
    <3>1. sess[p].phase = "hello" => \A i \in DOMAIN wire[p] : wire[p][i].kind # "proofs"
      BY <1>1, <2>5, HandshakeFacts
    <3> QED
      BY <2>5, <2>6, <2>12, <3>1 DEF Agree, ProofsAgree, SameProofs, Handshake
  <2>14. Agree(sess[p], s, v)
    BY <2>5, <2>6, <2>12, <2>13 DEF Agree, SharedAgree, BodiesAgree, Settled
  <2> QED
    BY <2>3, <2>4, <2>11, <2>14, ExchangeAgrees DEF AgreeInv, Running, Handshake
<1> QED
  BY <1>2, <1>3 DEF ReceiveHello

LEMMA ProofsHandlerAgrees ==
    ASSUME AgreeInv, TypeOK', NEW e \in Endpoint, wire[Peer(e)] # <<>>,
           NEW f, f = Head(wire[Peer(e)]), f.kind = "proofs",
           sess[e].phase = "proofs", ReceiveProofs(e, f)
    PROVE  Agreed'
<1> DEFINE p == Peer(e)
           shared == sess[e].shared \cap f.groups
           known == {c \in chans[Home(e)] : GroupOf[c] \in shared}
           s == [sess[e] EXCEPT !.phase = "channels", !.shared = shared]
           m == [kind |-> "channels", channels |-> known]
           w == Append(wire[e], m)
           v == Tail(wire[p])
<1>1. /\ p \in Endpoint /\ Peer(p) = e /\ p # e
      /\ sess[e] \in Session /\ wire[e] \in Seq(Frame) /\ wire[p] \in Seq(Frame)
  BY EndpointFacts DEF AgreeInv, TypeOK
<1>2. CASE End(e, "no_group")
  BY <1>2, EndAgrees DEF AgreeInv, Ended, Faults
<1>3. CASE Reply(e, s, <<m>>)
  <2>3. m \in Frame /\ Exchange(e, s, w, v)
    <3> HIDE DEF m, s
    <3> QED
      BY <1>3, ReplySends DEF AgreeInv
  <2>4. s.phase = "channels" /\ s.shared = shared /\ s.todo = sess[e].todo
    BY <1>1 DEF Session
  <2>5. m.kind = "channels" /\ BodyGroups(m) \subseteq shared
    BY DEF BodyGroups, GroupsIn
  <2>6. m \in Within(shared)
    BY <2>3, <2>5 DEF Within
  <2>7. /\ \A i \in DOMAIN wire[e] : Place(wire[e][i].kind) <= 2
        /\ sess[p].phase \in Running
    BY HandshakeFacts DEF Handshake
  <2>8. Agree(sess[e], sess[p], wire[e]) /\ Agree(sess[p], sess[e], wire[p])
    BY <1>1 DEF AgreeInv, Agreed, SessionsAgree
  <2> HIDE DEF m, s, shared
  <2>9. wire[e] \in Seq(Within(shared))
    BY <1>1, <2>7, EarlyBodies
  <2>10. w \in Seq(Within(shared)) /\ SameProofs(w, wire[e])
    BY <2>5, <2>6, <2>9, AppendedBodies
  <2>11. v \in Seq(Within(sess[p].shared))
    BY <2>8, RemainingBodies DEF Agree, BodiesAgree
  <2>12. \A i \in DOMAIN v : v[i].kind # "proofs"
    <3>1. InOrder(wire[p], Sent(sess[p].phase), Due(sess[e].phase))
      BY <1>1, <2>7 DEF AgreeInv, InStep, Paired
    <3>2. Place(f.kind) = 2 /\ 2 \in Single /\ Place("proofs") = 2
      BY DEF Place, Single
    <3>3. Sent(sess[p].phase) \in 1..8 /\ Due(sess[e].phase) \in 1..8
      BY <2>7, PhaseType DEF Running, Handshake
    <3>4. InOrder(v, Sent(sess[p].phase), 3)
      BY <1>1, <3>1, <3>2, <3>3, ReadingKeepsOrder
    <3> QED
      BY <3>2, <3>3, <3>4 DEF InOrder
  <2>13. 1 \in DOMAIN wire[p] /\ f = wire[p][1]
    BY <1>1
  <2>14. IF sess[p].phase = "proofs" THEN f.groups = sess[p].shared
         ELSE sess[p].shared = sess[e].shared \cap f.groups
    BY <2>8, <2>13 DEF Agree, ProofsAgree
  <2>15. shared = sess[p].shared \cap sess[e].shared
    BY <2>14 DEF shared
  <2>16. ProofsAgree(s, sess[p], w)
    BY <2>4, <2>8, <2>10, <2>15 DEF Agree, ProofsAgree, SameProofs
  <2>17. sess[p].phase \in Settled => sess[p].shared = shared
    BY <2>14 DEF shared, Settled, Handshake
  <2>18. Agree(s, sess[p], w)
    <3>1. s.todo = {}
      BY <2>4, <2>8 DEF Agree, BodiesAgree
    <3> QED
      BY <2>4, <2>10, <2>16, <2>17, <3>1 DEF Agree, SharedAgree, BodiesAgree
  <2>19. Agree(sess[p], s, v)
    BY <2>4, <2>8, <2>11, <2>12, <2>17 DEF Agree, ProofsAgree, SharedAgree, BodiesAgree
  <2> QED
    BY <2>3, <2>4, <2>18, <2>19, ExchangeAgrees DEF AgreeInv, Running, Syncing
<1> QED
  BY <1>2, <1>3 DEF ReceiveProofs

(* Past the handshake a session may send a record of its groups, or none, for the
   record it reads. *)
LEMMA SettledReplyAgrees ==
    ASSUME AgreeInv, TypeOK', NEW e \in Endpoint, wire[Peer(e)] # <<>>,
           sess[e].phase \in Settled, NEW s, s.phase \in Settled,
           s.shared = sess[e].shared, s.todo \subseteq Sound(s.shared),
           s.phase # "sending" => s.todo = {},
           \/ Reply(e, s, <<>>)
           \/ \E m : /\ Reply(e, s, <<m>>) /\ m.kind # "proofs"
                     /\ m \in Frame => m \in Within(s.shared)
    PROVE  Agreed'
<1> DEFINE v == Tail(wire[Peer(e)])
<1>1. wire[e] \in Seq(Within(s.shared))
  BY DEF AgreeInv, Agreed, SessionsAgree, Agree, BodiesAgree
<1>2. Peer(e) \in Endpoint
  BY EndpointFacts
<1>3. v \in Seq(Within(sess[Peer(e)].shared)) /\ SameProofs(v, wire[Peer(e)])
  BY <1>2, RemainingBodies DEF AgreeInv, Agreed, SessionsAgree, Agree, BodiesAgree
<1>4. CASE Reply(e, s, <<>>)
  <2>1. Exchange(e, s, wire[e], v)
    <3>1. wire[e] \o <<>> = wire[e]
      BY DEF AgreeInv, TypeOK
    <3> QED
      BY <1>4, <3>1, ReplyExchanges DEF AgreeInv
  <2> QED
    BY <1>1, <1>3, <2>1, SameBodies, SettledAgrees DEF AgreeInv, BodiesAgree
<1>5. ASSUME NEW m, Reply(e, s, <<m>>), m.kind # "proofs",
             m \in Frame => m \in Within(s.shared)
      PROVE  Agreed'
  <2>1. m \in Within(s.shared) /\ Exchange(e, s, Append(wire[e], m), v)
    BY <1>5, ReplySends DEF AgreeInv
  <2>2. /\ Append(wire[e], m) \in Seq(Within(s.shared))
        /\ SameProofs(Append(wire[e], m), wire[e])
    BY <1>1, <1>5, <2>1, AppendedBodies
  <2> QED
    BY <1>3, <2>1, <2>2, SettledAgrees DEF AgreeInv, BodiesAgree
<1> QED
  BY <1>4, <1>5

(* What is missing lies past the own head, in the logs the peer has. *)
LEMMA MissingRangesSound ==
    ASSUME NEW local \in Heads, NEW remote \in Heads, NEW S,
           \A k \in Group \X Node : remote[k] # 0 => k[1] \in S
    PROVE  MissingRanges(local, remote) \subseteq Sound(S)
<1> SUFFICES ASSUME NEW r \in MissingRanges(local, remote) PROVE r \in Sound(S)
  OBVIOUS
<1>1. PICK k \in Group \X Node :
          /\ remote[k] > local[k]
          /\ r = [group |-> k[1], author |-> k[2], first |-> local[k] + 1, last |-> remote[k]]
  BY DEF MissingRanges
<1>2. local[k] \in Nat /\ remote[k] \in Nat
  BY DEF Heads, BoundsAssumption
<1>3. r \in RangeRequest
  BY MissingRangesType
<1>4. r.group = k[1] /\ r.first = local[k] + 1 /\ r.last = remote[k]
  BY <1>1
<1> HIDE DEF RangeRequest
<1> QED
  BY <1>1, <1>2, <1>3, <1>4 DEF Sound

LEMMA SettledHandlersAgree ==
    ASSUME AgreeInv, TypeOK', NEW e \in Endpoint, wire[Peer(e)] # <<>>,
           sess[e].phase \in Settled \ {"sending"}, NEW f, f = Head(wire[Peer(e)]),
           f.kind \in {"channels", "inventories", "requests", "done"},
           f.kind \in Accepts(sess[e].phase), Handle(e, f)
    PROVE  Agreed'
<1> DEFINE S == sess[e].shared
<1>1. sess[e] \in Session /\ Home(e) \in Node
  BY EndpointFacts DEF AgreeInv, TypeOK
<1>2. f \in Within(S)
  BY HeadShared DEF Place, Settled
<1>3. sess[e].todo = {} /\ f \in Frame /\ BodyGroups(f) \subseteq S
  BY <1>2 DEF AgreeInv, Agreed, SessionsAgree, Agree, BodiesAgree, Within
<1>4. CASE f.kind = "channels"
  <2> DEFINE mine == Inventories(Home(e), S)
             s == [sess[e] EXCEPT !.phase = "inventories", !.mine = mine]
             m == [kind |-> "inventories", heads |-> mine]
  <2>1. s.phase = "inventories" /\ s.shared = S /\ s.todo = {}
    BY <1>1, <1>3 DEF Session
  <2>2. m.kind = "inventories" /\ BodyGroups(m) \subseteq S
    <3>1. \A k \in Group \X Node : mine[k] > 0 => k[1] \in S
      BY DEF Inventories
    <3> HIDE DEF mine
    <3> QED
      BY <3>1 DEF BodyGroups, GroupsIn
  <2>3. ~\E c \in f.channels : GroupOf[c] \notin S
    BY <1>3, <1>4 DEF BodyGroups, GroupsIn
  <2>4. Reply(e, s, <<m>>)
    BY <1>4, <2>3 DEF Handle, ReceiveChannels
  <2> HIDE DEF s, m
  <2>5. m \in Frame => m \in Within(S)
    BY <2>2 DEF Within
  <2> QED
    BY <2>1, <2>2, <2>4, <2>5, SettledReplyAgrees DEF Settled, Running, Syncing, Handshake
<1>5. CASE f.kind = "inventories"
  <2> DEFINE theirs == [k \in Group \X Node |-> IF k[1] \in S THEN f.heads[k] ELSE 0]
             ranges == MissingRanges(sess[e].mine, theirs)
             s == [sess[e] EXCEPT !.phase = "requests", !.mine = NoHeads, !.theirs = theirs]
             m == [kind |-> "requests", ranges |-> ranges]
  <2>1. s.phase = "requests" /\ s.shared = S /\ s.todo = {}
    BY <1>1, <1>3 DEF Session
  <2>2. ranges \subseteq Sound(S)
    <3>1. f.heads \in Heads /\ sess[e].mine \in Heads
      BY <1>1, <1>3, <1>5 DEF Frame, Session
    <3>2. theirs \in Heads /\ \A k \in Group \X Node : theirs[k] # 0 => k[1] \in S
      BY <3>1 DEF Heads, BoundsAssumption
    <3> HIDE DEF theirs
    <3> QED
      BY <3>1, <3>2, MissingRangesSound
  <2>3. Reply(e, s, <<m>>)
    BY <1>5 DEF Handle, ReceiveInventories
  <2> HIDE DEF s, ranges
  <2>4. m.kind = "requests" /\ BodyGroups(m) \subseteq S
    BY <2>2 DEF BodyGroups, GroupsIn, Sound
  <2>5. m \in Frame => m \in Within(S)
    BY <2>2, <2>4 DEF Within
  <2> HIDE DEF m
  <2> QED
    BY <2>1, <2>3, <2>4, <2>5, SettledReplyAgrees DEF Settled, Running, Syncing, Handshake
<1>6. CASE f.kind = "requests"
  <2> DEFINE s == [sess[e] EXCEPT !.phase = "sending", !.todo = f.ranges]
  <2>1. s.phase = "sending" /\ s.shared = S /\ s.todo = f.ranges
    BY <1>1 DEF Session
  <2>2. s.todo \subseteq Sound(S)
    BY <1>2, <1>6, <2>1 DEF Within
  <2>3. Reply(e, s, <<>>)
    BY <1>6 DEF Handle, ReceiveRequests
  <2> HIDE DEF s
  <2> QED
    BY <2>1, <2>2, <2>3, SettledReplyAgrees DEF Settled, Running, Syncing, Handshake
<1>7. CASE f.kind = "done"
  <2> DEFINE s == [sess[e] EXCEPT !.phase = "live"]
  <2>1. s.phase = "live" /\ s.shared = S /\ s.todo = {}
    BY <1>1, <1>3 DEF Session
  <2>2. Reply(e, s, <<>>)
    BY <1>7 DEF Handle, ReceiveDone
  <2> HIDE DEF s
  <2> QED
    BY <2>1, <2>2, SettledReplyAgrees DEF Settled, Running, Handshake
<1> QED
  BY <1>4, <1>5, <1>6, <1>7

(* The store accepts an event of the two nodes' groups that the peer's store
   holds, or refuses it for its author or its channel only. *)
LEMMA VerdictOnSharedEvent ==
    ASSUME IInv, ConfinedInv, NEW e \in Endpoint, wire[Peer(e)] # <<>>,
           NEW f, f = Head(wire[Peer(e)]), NEW x \in Carried(f),
           f.kind \in {"batch", "live"}
    PROVE  Verdict(Home(e), x) \in {"ok", "author_blocked", "unknown_channel"}
<1>1. Home(e) \in Node /\ Far(e) \in Node
  BY EndpointFacts
<1>2. x \in events[Far(e)]
  BY HeadBacked DEF IInv
<1>3. GroupOfEvent(x) \in groups[Home(e)]
  <2>1. GroupOfEvent(x) \in BodyGroups(f)
    BY DEF Carried, BodyGroups, GroupsIn
  <2> QED
    BY <2>1, HeadFits
<1>4. ASSUME NEW y \in events[Home(e)], Key(y) = Key(x) PROVE y = x
  <2>1. LogsAgree
    BY LogInvLogsAgree DEF IInv
  <2> QED
    BY <1>1, <1>2, <1>4, <2>1 DEF LogsAgree, Log!Agreement, Log!Key, Key
<1> QED
  BY <1>3, <1>4 DEF Verdict

LEMMA BatchAgrees ==
    ASSUME AgreeInv, IInv, ConfinedInv, NEW e \in Endpoint, wire[Peer(e)] # <<>>,
           sess[e].phase = "receiving", NEW f, f = Head(wire[Peer(e)]), f.kind = "batch",
           ReceiveBatch(e, f)
    PROVE  Agreed'
<1> DEFINE p == Peer(e)
           x == CHOOSE y \in f.events : \A z \in f.events : y.seq <= z.seq
           rest == Rest(f.events)
           m == [kind |-> "batch", events |-> rest]
<1>1. /\ sess[p].phase \in Settled /\ sess[e].phase \in Settled
      /\ f \in Within(sess[p].shared) /\ p \in Endpoint
  BY HeadShared, EndpointFacts DEF Place, Running, Syncing
<1>2. f \in Frame /\ f.events \in SUBSET Event /\ f.events # {}
  BY <1>1 DEF Within, Frame
<1>3. Verdict(Home(e), x) \in {"ok", "author_blocked", "unknown_channel"}
  <2>1. x \in Carried(f)
    BY <1>2, EarliestOfBatch DEF Carried
  <2> HIDE DEF x
  <2> QED
    BY <2>1, VerdictOnSharedEvent
<1>4. CASE End(e, Verdict(Home(e), x)) /\ Verdict(Home(e), x) # "ok"
  <2>1. Verdict(Home(e), x) \in Ended \ Faults
    BY <1>3, <1>4 DEF Ended, Refusals, Faults
  <2> QED
    BY <1>4, <2>1, EndAgrees DEF AgreeInv
<1>5. CASE Exchange(e, sess[e], wire[e], LeftOfBatch(e))
  <2>1. wire[p] \in Seq(Within(sess[p].shared)) /\ BodiesAgree(sess[e], wire[e])
    BY <1>1 DEF AgreeInv, Agreed, SessionsAgree, Agree, BodiesAgree
  <2>2. rest # {} => m \in Within(sess[p].shared) /\ m.kind = "batch"
    <3> HAVE rest # {}
    <3>1. m \in Frame /\ m.kind = "batch" /\ rest \subseteq f.events
      BY <1>2 DEF Frame, Rest
    <3>2. BodyGroups(m) \subseteq BodyGroups(f)
      BY <3>1 DEF BodyGroups, GroupsIn
    <3> QED
      BY <1>1, <3>1, <3>2 DEF Within
  <2> HIDE DEF m, rest
  <2>3. /\ Tail(wire[p]) \in Seq(Within(sess[p].shared))
        /\ SameProofs(Tail(wire[p]), wire[p])
    BY <2>1, RemainingBodies
  <2>4. rest # {} => /\ <<m>> \o Tail(wire[p]) \in Seq(Within(sess[p].shared))
                     /\ SameProofs(<<m>> \o Tail(wire[p]), wire[p])
    BY <2>1, <2>2, TrimmedBodies
  <2>5. /\ LeftOfBatch(e) \in Seq(Within(sess[p].shared))
        /\ SameProofs(LeftOfBatch(e), wire[p])
    BY <2>3, <2>4 DEF LeftOfBatch, m, rest
  <2> QED
    BY <1>1, <1>5, <2>1, <2>5, SameBodies, SettledAgrees DEF AgreeInv
<1>6. CASE Verdict(Home(e), x) = "ok"
  <2>1. wire' = [wire EXCEPT ![p] = LeftOfBatch(e)] /\ UNCHANGED sess
    BY <1>6 DEF ReceiveBatch, LeftOfBatch, Rest
  <2>2. sess' = [sess EXCEPT ![e] = sess[e]]
    BY <2>1 DEF AgreeInv, TypeOK
  <2>3. wire' = [wire EXCEPT ![p] = LeftOfBatch(e), ![e] = wire[e]]
    BY <2>1, EndpointFacts DEF AgreeInv, TypeOK
  <2> QED
    BY <1>5, <2>2, <2>3 DEF Exchange
<1> QED
  BY <1>4, <1>6 DEF ReceiveBatch

LEMMA LiveHandlersAgree ==
    ASSUME AgreeInv, IInv, ConfinedInv, TypeOK', NEW e \in Endpoint, wire[Peer(e)] # <<>>,
           sess[e].phase = "live", NEW f, f = Head(wire[Peer(e)]),
           f.kind \in {"live", "upsert"}, Handle(e, f)
    PROVE  Agreed'
<1>1. sess[e].phase \in Settled /\ f \in Within(sess[e].shared)
  BY HeadShared DEF Place, Running
<1>2. BodyGroups(f) \subseteq sess[e].shared
  BY <1>1 DEF Within
<1>3. CASE Reply(e, sess[e], <<>>)
  <2>1. BodiesAgree(sess[e], wire[e])
    BY DEF AgreeInv, Agreed, SessionsAgree, Agree
  <2> QED
    BY <1>1, <1>3, <2>1, SettledReplyAgrees DEF BodiesAgree
<1>4. CASE f.kind = "upsert"
  <2>1. GroupOf[f.channel] \in sess[e].shared
    BY <1>2, <1>4 DEF BodyGroups, GroupsIn
  <2> QED
    BY <1>3, <1>4, <2>1 DEF Handle, ReceiveUpsert
<1>5. CASE f.kind = "live"
  <2>1. GroupOfEvent(f.event) \in sess[e].shared
    BY <1>2, <1>5 DEF BodyGroups, GroupsIn
  <2>2. Verdict(Home(e), f.event) \in {"ok", "author_blocked", "unknown_channel"}
    BY <1>5, VerdictOnSharedEvent DEF Carried
  <2>3. CASE End(e, Verdict(Home(e), f.event)) /\ Verdict(Home(e), f.event) # "ok"
    <3>1. Verdict(Home(e), f.event) \in Ended \ Faults
      BY <2>2, <2>3 DEF Ended, Refusals, Faults
    <3> QED
      BY <2>3, <3>1, EndAgrees DEF AgreeInv
  <2> QED
    BY <1>3, <1>5, <2>1, <2>3 DEF Handle, ReceiveLive
<1> QED
  BY <1>4, <1>5

LEMMA ReceiveAgrees ==
    ASSUME AgreeInv, IInv, ConfinedInv, TypeOK', NEW e \in Endpoint, Receive(e)
    PROVE  Agreed'
<1> DEFINE f == Head(wire[Peer(e)])
<1>1. sess[e].phase \in Running \ {"sending"} /\ wire[Peer(e)] # <<>>
  BY DEF Receive
<1>2. f \in Frame /\ f.kind \in Accepts(sess[e].phase)
  BY <1>1, HeadIsAccepted DEF AgreeInv
<1>3. Handle(e, f)
  BY <1>2 DEF Receive
<1> HIDE DEF f
<1>4. f.kind \in {"hello", "proofs", "channels", "inventories", "requests",
                  "batch", "done", "live", "upsert"}
  BY <1>2 DEF Frame
<1>5. CASE f.kind = "hello"
  <2>1. sess[e].phase = "hello"
    BY <1>1, <1>2, <1>5 DEF Accepts, Running, Handshake, Syncing
  <2> QED
    BY <1>1, <1>3, <1>5, <2>1, HelloAgrees DEF f, Handle
<1>6. CASE f.kind = "proofs"
  <2>1. sess[e].phase = "proofs"
    BY <1>1, <1>2, <1>6 DEF Accepts, Running, Handshake, Syncing
  <2> QED
    BY <1>1, <1>3, <1>6, <2>1, ProofsHandlerAgrees DEF f, Handle
<1>7. CASE f.kind \in {"channels", "inventories", "requests", "done"}
  <2>1. sess[e].phase \in Settled \ {"sending"}
    BY <1>1, <1>2, <1>7 DEF Accepts, Settled, Running, Handshake, Syncing
  <2> QED
    BY <1>1, <1>2, <1>3, <1>7, <2>1, SettledHandlersAgree DEF f
<1>8. CASE f.kind = "batch"
  <2>1. sess[e].phase = "receiving"
    BY <1>1, <1>2, <1>8 DEF Accepts, Running, Handshake, Syncing
  <2> QED
    BY <1>1, <1>3, <1>8, <2>1, BatchAgrees DEF f, Handle
<1>9. CASE f.kind \in {"live", "upsert"}
  <2>1. sess[e].phase = "live"
    BY <1>1, <1>2, <1>9 DEF Accepts, Running, Handshake, Syncing
  <2> QED
    BY <1>1, <1>3, <1>9, <2>1, LiveHandlersAgree DEF f
<1> QED
  BY <1>4, <1>5, <1>6, <1>7, <1>8, <1>9

(* Past the handshake a session may send a record of its groups of its own accord. *)
LEMMA SettledSendAgrees ==
    ASSUME AgreeInv, NEW e \in Endpoint, sess[e].phase \in Settled,
           NEW s, s.phase \in Settled, s.shared = sess[e].shared,
           s.todo \subseteq Sound(s.shared), s.phase # "sending" => s.todo = {},
           sess' = [sess EXCEPT ![e] = s],
           NEW m \in Within(s.shared), m.kind # "proofs",
           UNCHANGED wire \/ wire' = [wire EXCEPT ![e] = Append(@, m)]
    PROVE  Agreed'
<1> DEFINE p == Peer(e)
<1>1. p \in Endpoint /\ p # e
  BY EndpointFacts
<1>2. wire[e] \in Seq(Within(s.shared)) /\ wire[p] \in Seq(Within(sess[p].shared))
  BY <1>1 DEF AgreeInv, Agreed, SessionsAgree, Agree, BodiesAgree
<1>3. CASE UNCHANGED wire
  <2>1. Exchange(e, s, wire[e], wire[p])
    BY <1>1, <1>3 DEF Exchange, AgreeInv, TypeOK
  <2> QED
    BY <1>2, <2>1, SameBodies, SettledAgrees DEF AgreeInv, BodiesAgree
<1>4. CASE wire' = [wire EXCEPT ![e] = Append(@, m)]
  <2>1. Exchange(e, s, Append(wire[e], m), wire[p])
    BY <1>1, <1>4 DEF Exchange, AgreeInv, TypeOK
  <2>2. /\ Append(wire[e], m) \in Seq(Within(s.shared))
        /\ SameProofs(Append(wire[e], m), wire[e])
    BY <1>2, AppendedBodies
  <2> QED
    BY <1>2, <2>1, <2>2, SameBodies, SettledAgrees DEF AgreeInv, BodiesAgree
<1> QED
  BY <1>3, <1>4

(* What is left of a range after a batch is a range too. *)
LEMMA RestIsSound ==
    ASSUME TypeOK, NEW n \in Node, NEW S, NEW r \in Sound(S),
           EventsRange(n, r) # {}, ~(Max({x.seq : x \in EventsRange(n, r)}) >= r.last)
    PROVE  [r EXCEPT !.first = Max({x.seq : x \in EventsRange(n, r)}) + 1] \in Sound(S)
<1> DEFINE batch == EventsRange(n, r)
           T == {x.seq : x \in batch}
           q == [r EXCEPT !.first = Max(T) + 1]
<1>1. r \in RangeRequest /\ r.group \in S
  BY DEF Sound
<1>2. MaxSeq \in Nat /\ r.first \in 1..MaxSeq /\ r.last \in 1..MaxSeq
  BY <1>1 DEF RangeRequest
<1>3. batch # {} /\ \A x \in batch : x.seq \in 1..MaxSeq
  BY <1>1, EventsRangeType
<1>4. T \in SUBSET (0..MaxSeq) /\ T # {}
  <2> HIDE DEF batch
  <2> QED
    BY <1>2, <1>3
<1>5. Max(T) \in 1..MaxSeq
  <2>1. Max(T) \in T
    BY <1>2, <1>4, GreatestNumber
  <2> QED
    BY <1>3, <2>1
<1> HIDE DEF T
<1>6. Max(T) + 1 \in 1..MaxSeq /\ Max(T) + 1 <= r.last
  BY <1>2, <1>5 DEF T
<1>7. q \in RangeRequest /\ q.group = r.group /\ q.first = Max(T) + 1 /\ q.last = r.last
  BY <1>1, <1>6 DEF RangeRequest
<1>8. q \in Sound(S)
  BY <1>1, <1>6, <1>7 DEF Sound
<1> QED
  BY <1>8 DEF T

LEMMA SendBatchAgrees ==
    ASSUME AgreeInv, NEW e \in Endpoint, SendBatch(e)
    PROVE  Agreed'
<1>1. /\ sess[e] \in Session /\ Home(e) \in Node /\ sess[e].phase = "sending"
      /\ sess[e].todo \subseteq Sound(sess[e].shared)
  BY EndpointFacts
     DEF SendBatch, AgreeInv, TypeOK, Agreed, SessionsAgree, Agree, BodiesAgree
<1>2. PICK r \in sess[e].todo :
          IF r.group \notin sess[e].shared THEN End(e, "group")
          ELSE IF r.first = 0 \/ r.first > r.last THEN End(e, "range")
          ELSE SendRange(e, r)
  BY DEF SendBatch
<1>3. r \in Sound(sess[e].shared) /\ r.group \in sess[e].shared
  BY <1>1 DEF Sound
<1>4. r \in RangeRequest /\ ~(r.first = 0 \/ r.first > r.last)
  <2>1. r \in RangeRequest /\ r.first <= r.last
    BY <1>3 DEF Sound
  <2> QED
    BY <2>1 DEF RangeRequest
<1>5. SendRange(e, r)
  BY <1>2, <1>3, <1>4
<1> DEFINE batch == EventsRange(Home(e), r)
           last == Max({x.seq : x \in batch})
           rest == IF batch = {} \/ last >= r.last THEN {} ELSE {[r EXCEPT !.first = last + 1]}
           s == [sess[e] EXCEPT !.todo = (@ \ {r}) \cup rest]
           m == [kind |-> "batch", events |-> batch]
<1>6. rest \subseteq Sound(sess[e].shared)
  BY <1>1, <1>3, RestIsSound DEF AgreeInv
<1>7. sess' = [sess EXCEPT ![e].todo = (@ \ {r}) \cup rest]
  BY <1>5 DEF SendRange
<1>8. wire' = [wire EXCEPT ![e] = IF batch = {} THEN @ ELSE Append(@, m)]
  BY <1>5 DEF SendRange
<1>9. batch \in SUBSET Event /\ \A x \in batch : GroupOfEvent(x) = r.group
  <2>1. batch \in SUBSET Event
    BY <1>1, <1>4, EventsRangeType DEF AgreeInv
  <2> QED
    BY <2>1 DEF EventsRange
<1> HIDE DEF batch, rest
<1>10. /\ sess' = [sess EXCEPT ![e] = s] /\ s.phase = "sending"
       /\ s.shared = sess[e].shared /\ s.todo = (sess[e].todo \ {r}) \cup rest
  BY <1>1, <1>7 DEF AgreeInv, TypeOK, Session
<1>11. s.todo \subseteq Sound(s.shared)
  BY <1>1, <1>6, <1>10
<1> HIDE DEF s
<1>12. s.phase \in Settled /\ sess[e].phase \in Settled
  BY <1>1, <1>10 DEF Settled, Running, Syncing, Handshake
<1>13. CASE batch = {}
  <2>1. UNCHANGED wire
    BY <1>8, <1>13 DEF AgreeInv, TypeOK
  <2>2. [kind |-> "done"] \in Within(s.shared)
    BY DEF Within, Frame, BodyGroups, GroupsIn
  <2> QED
    BY <1>10, <1>11, <1>12, <2>1, <2>2, SettledSendAgrees
<1>14. CASE batch # {}
  <2>1. m \in Frame /\ BodyGroups(m) \subseteq {r.group}
    BY <1>9, <1>14 DEF Frame, BodyGroups, GroupsIn
  <2>2. m \in Within(s.shared) /\ m.kind = "batch"
    BY <1>3, <1>10, <2>1 DEF Within
  <2>3. wire' = [wire EXCEPT ![e] = Append(@, m)]
    BY <1>8, <1>14
  <2> HIDE DEF m
  <2> QED
    BY <1>10, <1>11, <1>12, <2>2, <2>3, SettledSendAgrees
<1> QED
  BY <1>13, <1>14

LEMMA OwnAccordAgrees ==
    ASSUME AgreeInv, NEW e \in Endpoint,
           FinishSending(e) \/ ForwardLive(e) \/ ForwardMeta(e)
    PROVE  Agreed'
<1>1. /\ sess[e] \in Session /\ sess = [sess EXCEPT ![e] = sess[e]]
      /\ sess[e].todo \subseteq Sound(sess[e].shared)
      /\ sess[e].phase # "sending" => sess[e].todo = {}
  BY DEF AgreeInv, TypeOK, Agreed, SessionsAgree, Agree, BodiesAgree
<1>2. CASE FinishSending(e)
  <2> DEFINE s == [sess[e] EXCEPT !.phase = "receiving"]
             m == [kind |-> "done"]
  <2>1. /\ s.phase = "receiving" /\ s.shared = sess[e].shared /\ s.todo = {}
        /\ sess[e].phase = "sending"
    BY <1>1, <1>2 DEF FinishSending, Session
  <2>2. m \in Within(s.shared) /\ m.kind # "proofs"
    BY DEF Within, Frame, BodyGroups, GroupsIn
  <2>3. sess' = [sess EXCEPT ![e] = s] /\ wire' = [wire EXCEPT ![e] = Append(@, m)]
    BY <1>2 DEF FinishSending
  <2> HIDE DEF s, m
  <2> QED
    BY <2>1, <2>2, <2>3, SettledSendAgrees DEF Settled, Running, Syncing, Handshake
<1>3. ASSUME sess[e].phase = "live", UNCHANGED sess, NEW m \in Frame, m.kind # "proofs",
             \/ UNCHANGED wire
             \/ m \in Within(sess[e].shared) /\ wire' = [wire EXCEPT ![e] = Append(@, m)]
      PROVE  Agreed'
  <2>1. [kind |-> "done"] \in Within(sess[e].shared) /\ [kind |-> "done"].kind # "proofs"
    BY DEF Within, Frame, BodyGroups, GroupsIn
  <2>2. sess[e].phase \in Settled
    BY <1>3 DEF Settled, Running, Handshake
  <2>3. CASE UNCHANGED wire
    BY <1>1, <1>3, <2>1, <2>2, <2>3, SettledSendAgrees
  <2>4. CASE m \in Within(sess[e].shared) /\ wire' = [wire EXCEPT ![e] = Append(@, m)]
    BY <1>1, <1>3, <2>2, <2>4, SettledSendAgrees
  <2> QED
    BY <1>3, <2>3, <2>4
<1>4. CASE ForwardLive(e)
  <2> DEFINE m == [kind |-> "live", event |-> Head(liveQ[e])]
  <2>1. Head(liveQ[e]) \in Event
    BY <1>4 DEF ForwardLive, AgreeInv, TypeOK
  <2>2. m \in Frame /\ m.kind = "live" /\ BodyGroups(m) = {GroupOfEvent(Head(liveQ[e]))}
    BY <2>1 DEF Frame, BodyGroups, GroupsIn
  <2>3. /\ sess[e].phase = "live" /\ UNCHANGED sess
        /\ \/ UNCHANGED wire
           \/ /\ GroupOfEvent(Head(liveQ[e])) \in sess[e].shared
              /\ wire' = [wire EXCEPT ![e] = Append(@, m)]
    BY <1>4 DEF ForwardLive, AgreeInv, TypeOK
  <2> HIDE DEF m
  <2>4. GroupOfEvent(Head(liveQ[e])) \in sess[e].shared => m \in Within(sess[e].shared)
    BY <2>2 DEF Within
  <2> QED
    BY <1>3, <2>2, <2>3, <2>4
<1>5. CASE ForwardMeta(e)
  <2> DEFINE m == [kind |-> "upsert", channel |-> Head(metaQ[e])]
  <2>1. Head(metaQ[e]) \in Channel
    BY <1>5 DEF ForwardMeta, AgreeInv, TypeOK
  <2>2. m \in Frame /\ m.kind = "upsert" /\ BodyGroups(m) = {GroupOf[Head(metaQ[e])]}
    BY <2>1 DEF Frame, BodyGroups, GroupsIn
  <2>3. /\ sess[e].phase = "live" /\ UNCHANGED sess
        /\ \/ UNCHANGED wire
           \/ /\ GroupOf[Head(metaQ[e])] \in sess[e].shared
              /\ wire' = [wire EXCEPT ![e] = Append(@, m)]
    BY <1>5 DEF ForwardMeta, AgreeInv, TypeOK
  <2> HIDE DEF m
  <2>4. GroupOf[Head(metaQ[e])] \in sess[e].shared => m \in Within(sess[e].shared)
    BY <2>2 DEF Within
  <2> QED
    BY <1>3, <2>2, <2>3, <2>4
<1> QED
  BY <1>2, <1>4, <1>5

LEMMA OpenAgrees ==
    ASSUME AgreeInv, NEW l \in Link, Open(l)
    PROVE  Agreed'
<1> DEFINE hello == <<[kind |-> "hello"]>>
<1>1. ASSUME NEW t PROVE Agree(Fresh("hello"), t, hello)
  <2>1. hello \in Seq(Within({})) /\ \A i \in DOMAIN hello : hello[i].kind = "hello"
    BY DEF Within, Frame, BodyGroups, GroupsIn
  <2> HIDE DEF hello
  <2> QED
    BY <2>1 DEF Agree, ProofsAgree, SharedAgree, BodiesAgree, Fresh, Settled, Handshake
<1> HIDE DEF hello
<1>2. ASSUME NEW d \in Endpoint PROVE Peer(d)[1] = d[1] /\ Peer(d) \in Endpoint
  BY EndpointFacts DEF Peer
<1>3. ASSUME NEW d \in Endpoint
      PROVE  /\ d[1] = l => sess'[d] = Fresh("hello") /\ wire'[d] = hello
             /\ d[1] # l => sess'[d] = sess[d] /\ wire'[d] = wire[d]
  BY DEF Open, hello
<1>4. ASSUME NEW d \in Endpoint PROVE Agree(sess'[d], sess'[Peer(d)], wire'[d])
  <2>1. CASE d[1] = l
    BY <1>1, <1>3, <2>1
  <2>2. CASE d[1] # l
    BY <1>2, <1>3, <2>2 DEF AgreeInv, Agreed, SessionsAgree
  <2> QED
    BY <2>1, <2>2
<1>5. SessionsAgree'
  BY <1>4 DEF SessionsAgree
<1>6. Fresh("hello").phase \notin Faults
  BY DEF Fresh, Faults
<1>7. EndsInStep'
  BY <1>3, <1>6 DEF AgreeInv, Agreed, EndsInStep, Faults
<1> QED
  BY <1>5, <1>7 DEF Agreed

LEMMA InitAgreed == Init => Agreed
<1> SUFFICES ASSUME Init PROVE Agreed
  OBVIOUS
<1>1. \A t : Agree(Fresh("idle"), t, <<>>)
  BY DEF Agree, ProofsAgree, SharedAgree, BodiesAgree, Fresh, Settled, Running, Handshake,
     Syncing
<1>2. \A e \in Endpoint : sess[e] = Fresh("idle") /\ wire[e] = <<>>
  BY DEF Init
<1>3. SessionsAgree
  BY <1>1, <1>2, EndpointFacts DEF SessionsAgree
<1>4. Fresh("idle").phase \notin Faults
  BY DEF Fresh, Faults
<1> QED
  BY <1>2, <1>3, <1>4 DEF Agreed, EndsInStep, Faults

LEMMA NextAgrees ==
    ASSUME AgreeInv, IInv, ConfinedInv, TypeOK', [Next]_vars
    PROVE  Agreed'
<1>1. ASSUME NEW l \in Link, Open(l) PROVE Agreed'
  BY <1>1, OpenAgrees
<1>2. ASSUME NEW l \in Link, Drop(l) PROVE Agreed'
  <2>1. <<l, "dial">> \in Endpoint /\ "lost" \in Ended \ Faults
    BY DEF Endpoint, Side, Ended, Faults
  <2> QED
    BY <1>2, <2>1, EndAgrees DEF AgreeInv, Drop
<1>3. ASSUME NEW e \in Endpoint, Run(e) PROVE Agreed'
  BY <1>3, ReceiveAgrees, SendBatchAgrees, OwnAccordAgrees DEF Run
<1>4. CASE UNCHANGED <<sess, wire>>
  BY <1>4 DEF AgreeInv, Agreed, SessionsAgree, EndsInStep
<1>5. ASSUME NEW n \in Node, User(n) PROVE UNCHANGED <<sess, wire>>
  BY <1>5 DEF User, SendMessage, CreateChannel, CreateGroup, ImportInvite, BlockPeer,
     UnblockPeer
<1> QED
  BY <1>1, <1>2, <1>3, <1>4, <1>5 DEF Next, vars

(* What holds of the two ends together. *)
SessionInv == IInv /\ ConfinedInv /\ InStep /\ Agreed

LEMMA InitSessionInv == Init => SessionInv
  BY InitIInv, InitConfined, InitInStep, InitAgreed DEF SessionInv

LEMMA NextSessionInv == SessionInv /\ [Next]_vars => SessionInv'
<1> SUFFICES ASSUME SessionInv, [Next]_vars PROVE SessionInv'
  OBVIOUS
<1>1. IInv'
  BY NextIInv DEF SessionInv
<1>2. TypeOK /\ TypeOK'
  BY <1>1 DEF SessionInv, IInv
<1>3. ConfinedInv'
  BY <1>2, NextConfines DEF SessionInv
<1>4. InStep'
  BY <1>2, NextStaysInStep DEF SessionInv
<1>5. Agreed'
  BY <1>2, NextAgrees DEF SessionInv, AgreeInv
<1> QED
  BY <1>1, <1>3, <1>4, <1>5 DEF SessionInv

(* Two ends that follow the protocol never end a session for a fault: the record
   a session reads is always one its phase expects, a range it is asked for is
   always one it should serve, a body is always of a shared group, and no event
   contradicts one its store holds (run_session and its receive_ functions,
   insert_remote_event). *)
THEOREM NoFaultEndsASession == Spec => []EndsInStep
<1>1. SessionInv => EndsInStep
  BY DEF SessionInv, Agreed
<1> QED
  BY <1>1, InitSessionInv, NextSessionInv, PTL DEF Spec

(* A body is on its way only between two ends that have settled on a group, and
   names none but those of its session, which both nodes are in: the groups are
   cut down to the proved ones before the first body is sent, and whatever is sent
   or passed on later is checked against them (run_authenticated_session). *)
THEOREM OnlySharedGroupsServed == Spec => []BodiesConfined
<1>1. SessionInv => BodiesConfined
  <2> SUFFICES ASSUME SessionInv, NEW e \in Endpoint, NEW i \in DOMAIN wire[e],
                      wire[e][i].kind # "proofs"
               PROVE  /\ GroupsIn(wire[e][i]) \subseteq sess[e].shared
                      /\ GroupsIn(wire[e][i]) \subseteq groups[Home(e)] \cap groups[Far(e)]
    BY DEF BodiesConfined
  <2>1. wire[e] \in Seq(Fit(e)) /\ wire[e] \in Seq(Within(sess[e].shared))
    BY DEF SessionInv, ConfinedInv, WiresFit, Agreed, SessionsAgree, Agree, BodiesAgree
  <2>2. wire[e][i] \in Fit(e) /\ wire[e][i] \in Within(sess[e].shared)
    BY <2>1
  <2>3. BodyGroups(wire[e][i]) = GroupsIn(wire[e][i])
    BY DEF BodyGroups
  <2> QED
    BY <2>2, <2>3 DEF Fit, Within
<1> QED
  BY <1>1, InitSessionInv, NextSessionInv, PTL DEF Spec

(* A reader that finds nothing has read all that was sent. *)
LEMMA NothingSent ==
    ASSUME NEW s, NEW d, InOrder(<<>>, s, d)
    PROVE  d <= s + 1 /\ \A k \in Single : k \notin d..s
  BY DEF InOrder

LEMMA ReadersTurn ==
    ASSUME NEW a \in Running \ {"sending"}, NEW b \in Running \ {"sending"}, a # "live",
           InOrder(<<>>, Sent(a), Due(b)), InOrder(<<>>, Sent(b), Due(a))
    PROVE  FALSE
<1>1. ASSUME NEW c \in Running \ {"sending"}
      PROVE  /\ \/ Sent(c) \in 1..5 /\ Due(c) = Sent(c)
                \/ Sent(c) = 7 /\ Due(c) = 6
                \/ Sent(c) = 8 /\ Due(c) = 8
             /\ c # "live" => Sent(c) # 8
  BY DEF Sent, Due, Running, Handshake, Syncing
<1> DEFINE sa == Sent(a)
           da == Due(a)
           sb == Sent(b)
           db == Due(b)
<1>2. /\ db <= sa + 1 /\ \A k \in Single : k \notin db..sa
      /\ da <= sb + 1 /\ \A k \in Single : k \notin da..sb
  BY NothingSent
<1>3. /\ \/ sa \in 1..5 /\ da = sa
         \/ sa = 7 /\ da = 6
      /\ \/ sb \in 1..5 /\ db = sb
         \/ sb = 7 /\ db = 6
         \/ sb = 8 /\ db = 8
  BY <1>1
<1> HIDE DEF sa, da, sb, db
<1>4. sa \in Single
  BY <1>3 DEF Single
<1>5. db = sa + 1
  BY <1>2, <1>3, <1>4
<1>6. sa \in da..sb
  BY <1>3, <1>5
<1> QED
  BY <1>2, <1>4, <1>6

LEMMA SomeoneGoesOn == TypeOK /\ InStep => NoStandoff
<1> SUFFICES ASSUME TypeOK, InStep, NEW e \in Endpoint,
                    sess[e].phase \in Handshake \cup Syncing, Waits(e), Waits(Peer(e))
             PROVE  Writing(e) /\ Writing(Peer(e))
  BY DEF NoStandoff
<1> DEFINE p == Peer(e)
<1>1. p \in Endpoint /\ Peer(p) = e
  BY EndpointFacts
<1>2. ASSUME NEW d, Writing(d) PROVE wire[d] # <<>>
  <2> SUFFICES ASSUME wire[d] = <<>> PROVE FALSE
    OBVIOUS
  <2>1. {i \in DOMAIN wire[d] : wire[d][i].kind \in {"batch", "live"}} = {}
    OBVIOUS
  <2>2. 0 > Window
    BY <1>2, <2>1, FS_EmptySet, Zenon DEF Writing
  <2> QED
    BY <2>2 DEF BoundsAssumption
<1>3. CASE Writing(e) \/ Writing(p)
  BY <1>1, <1>2, <1>3 DEF Waits
<1>4. CASE ~Writing(e) /\ ~Writing(p)
  <2>1. /\ sess[e].phase # "sending" /\ sess[p].phase # "sending"
        /\ wire[e] = <<>> /\ wire[p] = <<>>
    BY <1>1, <1>4 DEF Waits, Reading
  <2>2. sess[e].phase \in Running /\ sess[e].phase # "live"
    BY DEF Running, Handshake, Syncing
  <2>3. /\ sess[p].phase \in Running
        /\ InOrder(wire[e], Sent(sess[e].phase), Due(sess[p].phase))
        /\ InOrder(wire[p], Sent(sess[p].phase), Due(sess[e].phase))
    BY <1>1, <2>2 DEF InStep, Paired
  <2> QED
    BY <2>1, <2>2, <2>3, ReadersTurn
<1> QED
  BY <1>3, <1>4

(* The two ends never wait for each other before both are in the live loop, but
   when both are writing more than the streams hold: whoever is to read next, the
   other has sent what it reads, or is about to (the order of send_frame and
   receive_frame in run_session and run_authenticated_session). *)
THEOREM NeverAtAStandoff == Spec => []NoStandoff
<1>1. SessionInv => NoStandoff
  BY SomeoneGoesOn DEF SessionInv, IInv
<1> QED
  BY <1>1, InitSessionInv, NextSessionInv, PTL DEF Spec

-----------------------------------------------------------------------------
(***************************************************************************)
(* What the ends announce, ask for and have on the way.  Stores are sets   *)
(* of events; own is the store of the session's node, far the other's.     *)
(***************************************************************************)
HeldBy(S, heads) ==
    \A k \in Group \X Node : 1..heads[k] \subseteq SeqsIn(S, k[1], k[2])

ServedBy(S, ranges) ==
    \A r \in ranges : r.first..r.last \subseteq SeqsIn(S, r.group, r.author)

(* Inventories say what the sender holds, requests ask for what the other does. *)
Truthful(own, far) ==
    {f \in Frame : /\ f.kind = "inventories" => HeldBy(own, f.heads)
                   /\ f.kind = "requests" => ServedBy(far, f.ranges)}

Announced(s, w, own, far) ==
    /\ HeldBy(own, s.mine) /\ HeldBy(far, s.theirs) /\ ServedBy(own, s.todo)
    /\ w \in Seq(Truthful(own, far))

(* The ranges asked for on a wire, and the events in its batches. *)
Ranges(f) == IF f.kind = "requests" THEN f.ranges ELSE {}
Batch(f) == IF f.kind = "batch" THEN f.events ELSE {}
Asked(w) == UNION {Ranges(w[i]) : i \in DOMAIN w}
Underway(w) == UNION {Batch(w[i]) : i \in DOMAIN w}

Coming(ranges, S, k, q) ==
    \/ \E r \in ranges : r.group = k[1] /\ r.author = k[2] /\ q \in r.first..r.last
    \/ q \in SeqsIn(S, k[1], k[2])

(* What the other end announced to session s is stored, asked for, still to be
   sent or on its way; in the live loop it is stored.  The wire w is from s to
   the other session t, v from t to s. *)
Covered(s, t, w, v, own) ==
    \A k \in Group \X Node : \A q \in 1..s.theirs[k] :
        \/ q \in SeqsIn(own, k[1], k[2])
        \/ s.phase # "live" /\ Coming(Asked(w) \cup t.todo, Underway(v), k, q)

CoverInv ==
    \A e \in Endpoint :
        /\ Announced(sess[e], wire[e], events[Home(e)], events[Far(e)])
        /\ Covered(sess[e], sess[Peer(e)], wire[e], wire[Peer(e)], events[Home(e)])

-----------------------------------------------------------------------------
LEMMA SeqsInMonotone ==
    ASSUME NEW S, NEW T, S \subseteq T, NEW g, NEW a
    PROVE  SeqsIn(S, g, a) \subseteq SeqsIn(T, g, a)
  BY DEF SeqsIn

LEMMA TruthGrows ==
    ASSUME NEW own, NEW far, NEW own2, NEW far2, own \subseteq own2, far \subseteq far2
    PROVE  /\ Truthful(own, far) \subseteq Truthful(own2, far2)
           /\ \A heads : HeldBy(own, heads) => HeldBy(own2, heads)
           /\ \A ranges : ServedBy(own, ranges) => ServedBy(own2, ranges)
<1>1. /\ \A g, a : SeqsIn(own, g, a) \subseteq SeqsIn(own2, g, a)
      /\ \A g, a : SeqsIn(far, g, a) \subseteq SeqsIn(far2, g, a)
  BY SeqsInMonotone
<1>2. /\ \A heads : HeldBy(own, heads) => HeldBy(own2, heads)
      /\ \A ranges : ServedBy(own, ranges) => ServedBy(own2, ranges)
      /\ \A ranges : ServedBy(far, ranges) => ServedBy(far2, ranges)
  BY <1>1 DEF HeldBy, ServedBy
<1>3. Truthful(own, far) \subseteq Truthful(own2, far2)
  BY <1>2 DEF Truthful
<1> QED
  BY <1>2, <1>3

LEMMA AnnouncedGrows ==
    ASSUME NEW s, NEW w, NEW own, NEW far, NEW own2, NEW far2,
           own \subseteq own2, far \subseteq far2, Announced(s, w, own, far)
    PROVE  Announced(s, w, own2, far2)
<1>1. HeldBy(own2, s.mine) /\ ServedBy(own2, s.todo)
  BY TruthGrows DEF Announced
<1>2. HeldBy(far2, s.theirs)
  BY TruthGrows DEF Announced
<1>3. w \in Seq(Truthful(own2, far2))
  BY TruthGrows, SeqMonotone DEF Announced
<1> QED
  BY <1>1, <1>2, <1>3 DEF Announced

(* A session stays covered while nothing that is asked for, still to be sent or
   on its way is lost, but what its store got. *)
LEMMA CoveredKept ==
    ASSUME NEW s, NEW t, NEW w, NEW v, NEW own, Covered(s, t, w, v, own),
           NEW s2, NEW t2, NEW w2, NEW v2, NEW own2, own \subseteq own2,
           s2.theirs = s.theirs, s2.phase = "live" => s.phase = "live",
           Asked(w) \cup t.todo \subseteq Asked(w2) \cup t2.todo,
           Underway(v) \subseteq Underway(v2) \cup own2
    PROVE  Covered(s2, t2, w2, v2, own2)
<1> SUFFICES ASSUME NEW k \in Group \X Node, NEW q \in 1..s2.theirs[k]
             PROVE  \/ q \in SeqsIn(own2, k[1], k[2])
                    \/ /\ s2.phase # "live"
                       /\ Coming(Asked(w2) \cup t2.todo, Underway(v2), k, q)
  BY DEF Covered
<1>1. \/ q \in SeqsIn(own, k[1], k[2])
      \/ s.phase # "live" /\ Coming(Asked(w) \cup t.todo, Underway(v), k, q)
  BY DEF Covered
<1>2. CASE q \in SeqsIn(own, k[1], k[2])
  BY <1>2, SeqsInMonotone
<1>3. CASE q \in SeqsIn(Underway(v), k[1], k[2])
  BY <1>1, <1>3 DEF SeqsIn, Coming
<1>4. ASSUME NEW r \in Asked(w) \cup t.todo,
             r.group = k[1] /\ r.author = k[2] /\ q \in r.first..r.last, s.phase # "live"
      PROVE  s2.phase # "live" /\ Coming(Asked(w2) \cup t2.todo, Underway(v2), k, q)
  <2>1. r \in Asked(w2) \cup t2.todo
    OBVIOUS
  <2> QED
    BY <1>4, <2>1, Zenon DEF Coming
<1> QED
  BY <1>1, <1>2, <1>3, <1>4 DEF Coming

LEMMA ExchangeCovers ==
    ASSUME TypeOK, CoverInv, Grow, NEW e \in Endpoint, NEW s, NEW w, NEW v,
           Exchange(e, s, w, v),
           Announced(s, w, events'[Home(e)], events'[Far(e)]),
           Announced(sess[Peer(e)], v, events'[Far(e)], events'[Home(e)]),
           Covered(s, sess[Peer(e)], w, v, events'[Home(e)]),
           Covered(sess[Peer(e)], s, v, w, events'[Far(e)])
    PROVE  CoverInv'
<1> DEFINE OK(d) == /\ Announced(sess'[d], wire'[d], events'[Home(d)], events'[Far(d)])
                    /\ Covered(sess'[d], sess'[Peer(d)], wire'[d], wire'[Peer(d)],
                               events'[Home(d)])
<1>1. /\ Peer(e) \in Endpoint /\ Peer(Peer(e)) = e
      /\ Home(Peer(e)) = Far(e) /\ Far(Peer(e)) = Home(e)
  BY EndpointFacts
<1>2. OK(e) /\ OK(Peer(e))
  BY <1>1, ExchangeFacts
<1>3. ASSUME NEW d \in Endpoint \ {e, Peer(e)} PROVE OK(d)
  <2>1. /\ events[Home(d)] \subseteq events'[Home(d)]
        /\ events[Far(d)] \subseteq events'[Far(d)]
    BY EndpointFacts DEF Grow
  <2>2. /\ sess'[d] = sess[d] /\ wire'[d] = wire[d]
        /\ sess'[Peer(d)] = sess[Peer(d)] /\ wire'[Peer(d)] = wire[Peer(d)]
    BY ExchangeFacts
  <2>3. /\ Announced(sess[d], wire[d], events[Home(d)], events[Far(d)])
        /\ Covered(sess[d], sess[Peer(d)], wire[d], wire[Peer(d)], events[Home(d)])
    BY DEF CoverInv
  <2>4. Announced(sess[d], wire[d], events'[Home(d)], events'[Far(d)])
    BY <2>1, <2>3, AnnouncedGrows
  <2>5. Covered(sess[d], sess[Peer(d)], wire[d], wire[Peer(d)], events'[Home(d)])
    BY <2>1, <2>3, CoveredKept
  <2> QED
    BY <2>2, <2>4, <2>5
<1> HIDE DEF OK
<1>4. \A d \in Endpoint : OK(d)
  BY <1>2, <1>3
<1> QED
  BY <1>4 DEF CoverInv, OK

(* The stores grow, and the sessions do nothing. *)
LEMMA GrowCovers ==
    ASSUME CoverInv, Grow, UNCHANGED <<sess, wire>>
    PROVE  CoverInv'
<1> SUFFICES ASSUME NEW d \in Endpoint
             PROVE  /\ Announced(sess[d], wire[d], events'[Home(d)], events'[Far(d)])
                    /\ Covered(sess[d], sess[Peer(d)], wire[d], wire[Peer(d)],
                               events'[Home(d)])
  BY DEF CoverInv
<1>1. /\ events[Home(d)] \subseteq events'[Home(d)]
      /\ events[Far(d)] \subseteq events'[Far(d)]
  BY EndpointFacts DEF Grow
<1>2. /\ Announced(sess[d], wire[d], events[Home(d)], events[Far(d)])
      /\ Covered(sess[d], sess[Peer(d)], wire[d], wire[Peer(d)], events[Home(d)])
  BY DEF CoverInv
<1>3. Announced(sess[d], wire[d], events'[Home(d)], events'[Far(d)])
  BY <1>1, <1>2, AnnouncedGrows
<1>4. Covered(sess[d], sess[Peer(d)], wire[d], wire[Peer(d)], events'[Home(d)])
  BY <1>1, <1>2, CoveredKept
<1> QED
  BY <1>3, <1>4

(* A session that is new has been announced nothing. *)
LEMMA FreshCovers ==
    ASSUME NEW phase, NEW own, NEW far, NEW t, NEW w, NEW v
    PROVE  /\ Announced(Fresh(phase), <<>>, own, far)
           /\ Announced(Fresh(phase), <<[kind |-> "hello"]>>, own, far)
           /\ Covered(Fresh(phase), t, w, v, own)
<1>1. \A k \in Group \X Node : NoHeads[k] = 0
  BY DEF NoHeads
<1>2. HeldBy(own, NoHeads) /\ HeldBy(far, NoHeads)
  BY <1>1 DEF HeldBy
<1>3. [kind |-> "hello"] \in Truthful(own, far)
  BY DEF Truthful, Frame
<1>4. /\ <<>> \in Seq(Truthful(own, far))
      /\ <<[kind |-> "hello"]>> \in Seq(Truthful(own, far))
  BY <1>3
<1>5. Fresh(phase).mine = NoHeads /\ Fresh(phase).theirs = NoHeads /\ Fresh(phase).todo = {}
  BY DEF Fresh
<1>6. ServedBy(own, {})
  BY DEF ServedBy
<1>7. Covered(Fresh(phase), t, w, v, own)
  BY <1>1, <1>5 DEF Covered
<1> QED
  BY <1>2, <1>4, <1>5, <1>6, <1>7 DEF Announced

LEMMA EndCovers ==
    ASSUME TypeOK, InStep, CoverInv, NEW e \in Endpoint, sess[e].phase \in Running,
           NEW why, End(e, why)
    PROVE  CoverInv'
<1> DEFINE p == Peer(e)
<1>1. p \in Endpoint /\ Peer(p) = e
  BY EndpointFacts
<1>2. sess[p].phase \in Running /\ UNCHANGED events
  BY EndFacts DEF InStep, Paired
<1>3. /\ sess'[e] = Fresh(why) /\ sess'[p] = Fresh("lost")
      /\ wire'[e] = <<>> /\ wire'[p] = <<>>
  BY <1>2, EndFacts
<1>4. ASSUME NEW d \in Endpoint
      PROVE  /\ Announced(sess'[d], wire'[d], events[Home(d)], events[Far(d)])
             /\ Covered(sess'[d], sess'[Peer(d)], wire'[d], wire'[Peer(d)], events[Home(d)])
  <2>1. CASE d \in {e, p}
    BY <1>3, <2>1, FreshCovers
  <2>2. CASE d \in Endpoint \ {e, p}
    BY <2>2, EndFacts DEF CoverInv
  <2> QED
    BY <2>1, <2>2
<1> QED
  BY <1>2, <1>4 DEF CoverInv

-----------------------------------------------------------------------------
(***************************************************************************)
(* Adding to a wire and taking from it.                                    *)
(***************************************************************************)

LEMMA AppendedCovers ==
    ASSUME NEW T, T \subseteq Frame, NEW w \in Seq(T), NEW m \in T
    PROVE  /\ Append(w, m) \in Seq(T)
           /\ Asked(w) \cup Ranges(m) \subseteq Asked(Append(w, m))
           /\ Underway(w) \cup Batch(m) \subseteq Underway(Append(w, m))
<1> DEFINE v == Append(w, m)
           n == Len(w)
<1>1. /\ v \in Seq(T) /\ n \in Nat /\ DOMAIN v = 1..n + 1 /\ DOMAIN w = 1..n
      /\ v[n + 1] = m /\ \A i \in 1..n : v[i] = w[i]
  OBVIOUS
<1> HIDE DEF v, n
<1>2. n + 1 \in 1..n + 1 /\ \A i \in 1..n : i \in 1..n + 1
  BY <1>1
<1>3. Asked(w) \cup Ranges(m) \subseteq Asked(v)
  BY <1>1, <1>2 DEF Asked
<1>4. Underway(w) \cup Batch(m) \subseteq Underway(v)
  BY <1>1, <1>2 DEF Underway
<1> QED
  BY <1>1, <1>3, <1>4 DEF v

LEMMA RemainingCovers ==
    ASSUME NEW T, T \subseteq Frame, NEW w \in Seq(T), w # <<>>
    PROVE  /\ Head(w) \in T /\ Tail(w) \in Seq(T)
           /\ Asked(w) \subseteq Asked(Tail(w)) \cup Ranges(Head(w))
           /\ Underway(w) \subseteq Underway(Tail(w)) \cup Batch(Head(w))
<1> DEFINE v == Tail(w)
           n == Len(w)
<1>1. /\ v \in Seq(T) /\ n \in Nat \ {0} /\ DOMAIN v = 1..n - 1 /\ DOMAIN w = 1..n
      /\ \A i \in 1..n - 1 : v[i] = w[i + 1]
      /\ Head(w) = w[1] /\ w[1] \in T
  OBVIOUS
<1> HIDE DEF v, n
<1>2. ASSUME NEW i \in 1..n PROVE w[i] = Head(w) \/ \E j \in 1..n - 1 : w[i] = v[j]
  <2>1. CASE i = 1
    BY <1>1, <2>1
  <2>2. CASE i # 1
    <3>1. i - 1 \in 1..n - 1 /\ (i - 1) + 1 = i
      BY <1>1, <2>2
    <3> QED
      BY <1>1, <3>1
  <2> QED
    BY <2>1, <2>2
<1>3. Asked(w) \subseteq Asked(v) \cup Ranges(Head(w))
  BY <1>1, <1>2 DEF Asked
<1>4. Underway(w) \subseteq Underway(v) \cup Batch(Head(w))
  BY <1>1, <1>2 DEF Underway
<1> QED
  BY <1>1, <1>3, <1>4 DEF v

LEMMA TrimmedCovers ==
    ASSUME NEW T, T \subseteq Frame, NEW w \in Seq(T), w # <<>>, NEW m \in T
    PROVE  /\ <<m>> \o Tail(w) \in Seq(T)
           /\ Asked(Tail(w)) \cup Ranges(m) \subseteq Asked(<<m>> \o Tail(w))
           /\ Underway(Tail(w)) \cup Batch(m) \subseteq Underway(<<m>> \o Tail(w))
<1> DEFINE u == Tail(w)
           v == <<m>> \o u
           n == Len(u)
<1>1. /\ v \in Seq(T) /\ n \in Nat /\ DOMAIN v = 1..n + 1 /\ DOMAIN u = 1..n
      /\ v[1] = m /\ \A i \in 1..n : v[i + 1] = u[i]
  OBVIOUS
<1> HIDE DEF v, n, u
<1>2. 1 \in 1..n + 1 /\ \A i \in 1..n : i + 1 \in 1..n + 1
  BY <1>1
<1>3. Asked(u) \cup Ranges(m) \subseteq Asked(v)
  BY <1>1, <1>2 DEF Asked
<1>4. Underway(u) \cup Batch(m) \subseteq Underway(v)
  BY <1>1, <1>2 DEF Underway
<1> QED
  BY <1>1, <1>3, <1>4 DEF v, u

-----------------------------------------------------------------------------
(***************************************************************************)
(* Each step keeps the sessions covered.                                   *)
(***************************************************************************)

LEMMA TruthfulFrames == \A own, far : Truthful(own, far) \subseteq Frame
  BY DEF Truthful

(* Stores only grow, whatever the step. *)
LEMMA LogStepGrows == TypeOK /\ [Log!Next]_events => Grow
<1> SUFFICES ASSUME TypeOK, [Log!Next]_events PROVE Grow
  OBVIOUS
<1>1. CASE UNCHANGED events
  BY <1>1, SameEventsGrow
<1>2. ASSUME NEW n \in Node, NEW x, events' = [events EXCEPT ![n] = @ \cup {x}] PROVE Grow
  BY <1>2, GrowsByOne
<1>3. CASE Log!Next
  BY <1>2, <1>3 DEF Log!Next, Log!Publish, Log!Learn
<1> QED
  BY <1>1, <1>3

(* What both ends know before a step holds of the stores after it. *)
LEMMA CoverGrows ==
    ASSUME TypeOK, CoverInv, Grow, NEW e \in Endpoint
    PROVE  /\ Announced(sess[e], wire[e], events'[Home(e)], events'[Far(e)])
           /\ Announced(sess[Peer(e)], wire[Peer(e)], events'[Far(e)], events'[Home(e)])
           /\ Covered(sess[e], sess[Peer(e)], wire[e], wire[Peer(e)], events'[Home(e)])
           /\ Covered(sess[Peer(e)], sess[e], wire[Peer(e)], wire[e], events'[Far(e)])
<1>1. /\ Peer(e) \in Endpoint /\ Peer(Peer(e)) = e
      /\ Home(Peer(e)) = Far(e) /\ Far(Peer(e)) = Home(e)
      /\ Home(e) \in Node /\ Far(e) \in Node
  BY EndpointFacts
<1>2. events[Home(e)] \subseteq events'[Home(e)] /\ events[Far(e)] \subseteq events'[Far(e)]
  BY <1>1 DEF Grow
<1>3. /\ Announced(sess[e], wire[e], events[Home(e)], events[Far(e)])
      /\ Covered(sess[e], sess[Peer(e)], wire[e], wire[Peer(e)], events[Home(e)])
  BY DEF CoverInv
<1>4. /\ Announced(sess[Peer(e)], wire[Peer(e)], events[Far(e)], events[Home(e)])
      /\ Covered(sess[Peer(e)], sess[e], wire[Peer(e)], wire[e], events[Far(e)])
  BY <1>1 DEF CoverInv
<1>5. Announced(sess[e], wire[e], events'[Home(e)], events'[Far(e)])
  BY <1>2, <1>3, AnnouncedGrows
<1>6. Announced(sess[Peer(e)], wire[Peer(e)], events'[Far(e)], events'[Home(e)])
  BY <1>2, <1>4, AnnouncedGrows
<1>7. Covered(sess[e], sess[Peer(e)], wire[e], wire[Peer(e)], events'[Home(e)])
  BY <1>2, <1>3, CoveredKept
<1>8. Covered(sess[Peer(e)], sess[e], wire[Peer(e)], wire[e], events'[Far(e)])
  BY <1>2, <1>4, CoveredKept
<1> QED
  BY <1>5, <1>6, <1>7, <1>8

(* A session that keeps what it was announced and what it has to send, and takes
   from its peer's wire no request and no event its store does not get. *)
LEMMA PlainExchangeCovers ==
    ASSUME TypeOK, CoverInv, Grow, NEW e \in Endpoint, NEW s, NEW w, NEW v,
           Exchange(e, s, w, v), s.theirs = sess[e].theirs, s.todo = sess[e].todo,
           s.phase = "live" => sess[e].phase = "live",
           HeldBy(events'[Home(e)], s.mine),
           w \in Seq(Truthful(events'[Home(e)], events'[Far(e)])),
           v \in Seq(Truthful(events'[Far(e)], events'[Home(e)])),
           Asked(wire[e]) \subseteq Asked(w), Underway(wire[e]) \subseteq Underway(w),
           Asked(wire[Peer(e)]) \subseteq Asked(v),
           Underway(wire[Peer(e)]) \subseteq Underway(v) \cup events'[Home(e)]
    PROVE  CoverInv'
<1> DEFINE p == Peer(e)
           own == events'[Home(e)]
           far == events'[Far(e)]
<1>1. /\ Announced(sess[e], wire[e], own, far) /\ Announced(sess[p], wire[p], far, own)
      /\ Covered(sess[e], sess[p], wire[e], wire[p], own)
      /\ Covered(sess[p], sess[e], wire[p], wire[e], far)
  BY CoverGrows
<1> HIDE DEF own, far
<1>2. Announced(s, w, own, far)
  BY <1>1 DEF Announced, own, far
<1>3. Announced(sess[p], v, far, own)
  BY <1>1 DEF Announced, own, far
<1>4. Covered(s, sess[p], w, v, own)
  <2>1. Asked(wire[e]) \cup sess[p].todo \subseteq Asked(w) \cup sess[p].todo
    OBVIOUS
  <2>2. Underway(wire[p]) \subseteq Underway(v) \cup own
    BY DEF own
  <2> QED
    BY <1>1, <2>1, <2>2, CoveredKept
<1>5. Covered(sess[p], s, v, w, far)
  <2>1. Asked(wire[p]) \cup sess[e].todo \subseteq Asked(v) \cup s.todo
    OBVIOUS
  <2>2. Underway(wire[e]) \subseteq Underway(w) \cup far
    OBVIOUS
  <2> QED
    BY <1>1, <2>1, <2>2, CoveredKept
<1> QED
  BY <1>2, <1>3, <1>4, <1>5, ExchangeCovers DEF own, far

(* Such a session that reads a record which is no request and no batch, and sends
   a record or none. *)
LEMMA PlainReplyCovers ==
    ASSUME TypeOK, TypeOK', CoverInv, Grow, NEW e \in Endpoint, wire[Peer(e)] # <<>>,
           NEW f, f = Head(wire[Peer(e)]), f.kind \notin {"requests", "batch"},
           NEW s, s.theirs = sess[e].theirs, s.todo = sess[e].todo,
           s.phase = "live" => sess[e].phase = "live",
           HeldBy(events'[Home(e)], s.mine),
           \/ Reply(e, s, <<>>)
           \/ \E m : /\ Reply(e, s, <<m>>)
                     /\ m \in Frame => m \in Truthful(events'[Home(e)], events'[Far(e)])
    PROVE  CoverInv'
<1> DEFINE p == Peer(e)
           own == events'[Home(e)]
           far == events'[Far(e)]
           v == Tail(wire[p])
<1>1. wire[e] \in Seq(Truthful(own, far)) /\ wire[p] \in Seq(Truthful(far, own))
  BY CoverGrows DEF Announced
<1>2. Truthful(own, far) \subseteq Frame /\ Truthful(far, own) \subseteq Frame
  BY TruthfulFrames
<1> HIDE DEF own, far
<1>3. /\ v \in Seq(Truthful(far, own))
      /\ Asked(wire[p]) \subseteq Asked(v) /\ Underway(wire[p]) \subseteq Underway(v) \cup own
  <2>1. /\ v \in Seq(Truthful(far, own))
        /\ Asked(wire[p]) \subseteq Asked(v) \cup Ranges(f)
        /\ Underway(wire[p]) \subseteq Underway(v) \cup Batch(f)
    BY <1>1, <1>2, RemainingCovers
  <2>2. Ranges(f) = {} /\ Batch(f) = {}
    BY DEF Ranges, Batch
  <2> QED
    BY <2>1, <2>2
<1>4. CASE Reply(e, s, <<>>)
  <2>1. Exchange(e, s, wire[e], v)
    <3>1. wire[e] \o <<>> = wire[e]
      BY DEF TypeOK
    <3> QED
      BY <1>4, <3>1, ReplyExchanges
  <2> QED
    BY <1>1, <1>3, <2>1, PlainExchangeCovers DEF own, far
<1>5. ASSUME NEW m, Reply(e, s, <<m>>), m \in Frame => m \in Truthful(own, far)
      PROVE  CoverInv'
  <2>1. m \in Truthful(own, far) /\ Exchange(e, s, Append(wire[e], m), v)
    BY <1>5, ReplySends
  <2>2. /\ Append(wire[e], m) \in Seq(Truthful(own, far))
        /\ Asked(wire[e]) \subseteq Asked(Append(wire[e], m))
        /\ Underway(wire[e]) \subseteq Underway(Append(wire[e], m))
    BY <1>1, <1>2, <2>1, AppendedCovers
  <2> QED
    BY <1>3, <2>1, <2>2, PlainExchangeCovers DEF own, far
<1> QED
  BY <1>4, <1>5 DEF own, far

(* The hello, the proofs, the channels, and what the live loop reads. *)
LEMMA PlainHandlersCover ==
    ASSUME TypeOK, TypeOK', InStep, CoverInv, Grow, NEW e \in Endpoint,
           wire[Peer(e)] # <<>>, sess[e].phase \in Running,
           NEW f, f = Head(wire[Peer(e)]),
           f.kind \in {"hello", "proofs", "channels", "live", "upsert"}, Handle(e, f)
    PROVE  CoverInv'
<1> DEFINE own == events'[Home(e)]
           far == events'[Far(e)]
<1>1. sess[e] \in Session /\ Home(e) \in Node
  BY EndpointFacts DEF TypeOK
<1>2. HeldBy(own, sess[e].mine)
  BY CoverGrows DEF Announced
<1> HIDE DEF own, far
<1>3. CASE \E why : End(e, why)
  BY <1>3, EndCovers
<1>4. ASSUME NEW s, NEW m, s.theirs = sess[e].theirs, s.todo = sess[e].todo,
             s.phase # "live", HeldBy(own, s.mine), Reply(e, s, <<m>>),
             m.kind \notin {"inventories", "requests"}
      PROVE  CoverInv'
  <2>1. m \in Frame => m \in Truthful(own, far)
    BY <1>4 DEF Truthful
  <2> QED
    BY <1>4, <2>1, PlainReplyCovers DEF own, far
<1>5. CASE f.kind = "hello"
  <2> DEFINE s == [sess[e] EXCEPT !.phase = "proofs", !.shared = groups[Home(e)]]
             m == [kind |-> "proofs", groups |-> groups[Home(e)]]
  <2>1. /\ s.theirs = sess[e].theirs /\ s.todo = sess[e].todo /\ s.mine = sess[e].mine
        /\ s.phase = "proofs" /\ m.kind = "proofs"
    BY <1>1 DEF Session
  <2>2. Reply(e, s, <<m>>) \/ \E why : End(e, why)
    BY <1>5 DEF Handle, ReceiveHello
  <2> HIDE DEF s, m
  <2> QED
    BY <1>2, <1>3, <1>4, <2>1, <2>2
<1>6. CASE f.kind = "proofs"
  <2> DEFINE shared == sess[e].shared \cap f.groups
             known == {c \in chans[Home(e)] : GroupOf[c] \in shared}
             s == [sess[e] EXCEPT !.phase = "channels", !.shared = shared]
             m == [kind |-> "channels", channels |-> known]
  <2>1. /\ s.theirs = sess[e].theirs /\ s.todo = sess[e].todo /\ s.mine = sess[e].mine
        /\ s.phase = "channels" /\ m.kind = "channels"
    BY <1>1 DEF Session
  <2>2. Reply(e, s, <<m>>) \/ \E why : End(e, why)
    BY <1>6 DEF Handle, ReceiveProofs
  <2> HIDE DEF s, m
  <2> QED
    BY <1>2, <1>3, <1>4, <2>1, <2>2
<1>7. CASE f.kind = "channels"
  <2> DEFINE mine == Inventories(Home(e), sess[e].shared)
             s == [sess[e] EXCEPT !.phase = "inventories", !.mine = mine]
             m == [kind |-> "inventories", heads |-> mine]
  <2>1. /\ s.theirs = sess[e].theirs /\ s.todo = sess[e].todo /\ s.mine = mine
        /\ s.phase = "inventories" /\ m.kind = "inventories" /\ m.heads = mine
    BY <1>1 DEF Session
  <2>2. (Reply(e, s, <<m>>) /\ UNCHANGED events) \/ \E why : End(e, why)
    BY <1>7 DEF Handle, ReceiveChannels
  <2>3. HeldBy(events[Home(e)], mine)
    <3> SUFFICES ASSUME NEW k \in Group \X Node
                 PROVE  1..mine[k] \subseteq SeqsIn(events[Home(e)], k[1], k[2])
      BY DEF HeldBy
    <3> DEFINE S == SeqsIn(events[Home(e)], k[1], k[2])
    <3>1. S \in SUBSET (1..MaxSeq)
      BY <1>1, SeqsInType DEF TypeOK
    <3>2. mine[k] = ContiguousHead(S) \/ mine[k] = 0
      BY DEF Inventories
    <3> HIDE DEF S, mine
    <3> QED
      BY <3>1, <3>2, HeadOfNumbers DEF S
  <2> HIDE DEF s, m, mine
  <2>4. ASSUME Reply(e, s, <<m>>), UNCHANGED events PROVE CoverInv'
    <3>1. HeldBy(own, mine)
      BY <2>3, <2>4 DEF own
    <3>2. m \in Frame => m \in Truthful(own, far)
      BY <2>1, <3>1 DEF Truthful
    <3> QED
      BY <1>7, <2>1, <2>4, <3>1, <3>2, PlainReplyCovers DEF own, far
  <2> QED
    BY <1>3, <2>2, <2>4
<1>8. CASE f.kind \in {"live", "upsert"}
  <2>1. Reply(e, sess[e], <<>>) \/ \E why : End(e, why)
    BY <1>8 DEF Handle, ReceiveLive, ReceiveUpsert
  <2> QED
    BY <1>2, <1>3, <1>8, <2>1, PlainReplyCovers DEF own
<1> QED
  BY <1>5, <1>6, <1>7, <1>8

(* What the peer has beyond the own head is asked for, and it has it. *)
LEMMA MissingRangesServed ==
    ASSUME NEW local \in Heads, NEW remote \in Heads, NEW far, HeldBy(far, remote)
    PROVE  /\ ServedBy(far, MissingRanges(local, remote))
           /\ \A k \in Group \X Node : \A q \in 1..remote[k] :
                 \/ q \in 1..local[k]
                 \/ \E r \in MissingRanges(local, remote) :
                       r.group = k[1] /\ r.author = k[2] /\ q \in r.first..r.last
<1>1. \A k \in Group \X Node : local[k] \in Nat /\ remote[k] \in Nat
  BY DEF Heads, BoundsAssumption
<1>2. ASSUME NEW r \in MissingRanges(local, remote)
      PROVE  r.first..r.last \subseteq SeqsIn(far, r.group, r.author)
  <2>1. PICK k \in Group \X Node :
            r = [group |-> k[1], author |-> k[2], first |-> local[k] + 1, last |-> remote[k]]
    BY DEF MissingRanges
  <2>2. r.group = k[1] /\ r.author = k[2] /\ r.first = local[k] + 1 /\ r.last = remote[k]
    BY <2>1
  <2>3. local[k] + 1..remote[k] \subseteq 1..remote[k]
    BY <1>1
  <2>4. 1..remote[k] \subseteq SeqsIn(far, k[1], k[2])
    BY DEF HeldBy
  <2> QED
    BY <2>2, <2>3, <2>4
<1>3. ASSUME NEW k \in Group \X Node, NEW q \in 1..remote[k], q \notin 1..local[k]
      PROVE  \E r \in MissingRanges(local, remote) :
                r.group = k[1] /\ r.author = k[2] /\ q \in r.first..r.last
  <2> DEFINE r == [group |-> k[1], author |-> k[2], first |-> local[k] + 1, last |-> remote[k]]
  <2>1. remote[k] > local[k] /\ q \in local[k] + 1..remote[k]
    BY <1>1, <1>3
  <2>2. r \in MissingRanges(local, remote)
    BY <2>1 DEF MissingRanges
  <2>3. r.group = k[1] /\ r.author = k[2] /\ r.first = local[k] + 1 /\ r.last = remote[k]
    OBVIOUS
  <2> HIDE DEF r
  <2> QED
    BY <2>1, <2>2, <2>3
<1> QED
  BY <1>2, <1>3 DEF ServedBy

LEMMA InventoriesCover ==
    ASSUME TypeOK, TypeOK', CoverInv, NEW e \in Endpoint,
           wire[Peer(e)] # <<>>, NEW f, f = Head(wire[Peer(e)]), f.kind = "inventories",
           ReceiveInventories(e, f)
    PROVE  CoverInv'
<1> DEFINE p == Peer(e)
           own == events'[Home(e)]
           far == events'[Far(e)]
           theirs == [k \in Group \X Node |->
                         IF k[1] \in sess[e].shared THEN f.heads[k] ELSE 0]
           ranges == MissingRanges(sess[e].mine, theirs)
           s == [sess[e] EXCEPT !.phase = "requests", !.mine = NoHeads, !.theirs = theirs]
           m == [kind |-> "requests", ranges |-> ranges]
           w == Append(wire[e], m)
           v == Tail(wire[p])
<1>1. sess[e] \in Session /\ UNCHANGED events /\ Grow
  BY SameEventsGrow DEF TypeOK, ReceiveInventories, stores
<1>2. /\ Announced(sess[e], wire[e], own, far) /\ Announced(sess[p], wire[p], far, own)
      /\ Covered(sess[p], sess[e], wire[p], wire[e], far)
  BY <1>1, CoverGrows
<1>3. Truthful(own, far) \subseteq Frame /\ Truthful(far, own) \subseteq Frame
  BY TruthfulFrames
<1>4. m \in Frame /\ Exchange(e, s, w, v)
  <2>1. Reply(e, s, <<m>>)
    BY DEF ReceiveInventories
  <2> HIDE DEF s, m
  <2> QED
    BY <2>1, ReplySends
<1>5. /\ s.phase = "requests" /\ s.mine = NoHeads /\ s.theirs = theirs
      /\ s.todo = sess[e].todo /\ m.kind = "requests" /\ m.ranges = ranges
  BY <1>1 DEF Session
<1> HIDE DEF own, far, s, m, ranges
<1>6. /\ f \in Truthful(far, own) /\ v \in Seq(Truthful(far, own))
      /\ Asked(wire[p]) \subseteq Asked(v) /\ Underway(wire[p]) \subseteq Underway(v)
  <2>1. /\ f \in Truthful(far, own) /\ v \in Seq(Truthful(far, own))
        /\ Asked(wire[p]) \subseteq Asked(v) \cup Ranges(f)
        /\ Underway(wire[p]) \subseteq Underway(v) \cup Batch(f)
    BY <1>2, <1>3, RemainingCovers DEF Announced
  <2>2. Ranges(f) = {} /\ Batch(f) = {}
    BY DEF Ranges, Batch
  <2> QED
    BY <2>1, <2>2
<1>7. HeldBy(far, f.heads) /\ f.heads \in Heads /\ sess[e].mine \in Heads
  BY <1>1, <1>6 DEF Truthful, Frame, Session
<1>8. theirs \in Heads /\ HeldBy(far, theirs)
  <2>1. theirs \in Heads
    BY <1>7 DEF Heads, BoundsAssumption
  <2>2. \A k \in Group \X Node : theirs[k] = f.heads[k] \/ theirs[k] = 0
    OBVIOUS
  <2> HIDE DEF theirs
  <2> QED
    BY <1>7, <2>1, <2>2 DEF HeldBy
<1> HIDE DEF theirs
<1>9. /\ ServedBy(far, ranges)
      /\ \A k \in Group \X Node : \A q \in 1..theirs[k] :
            \/ q \in 1..sess[e].mine[k]
            \/ \E r \in ranges : r.group = k[1] /\ r.author = k[2] /\ q \in r.first..r.last
  BY <1>7, <1>8, MissingRangesServed DEF ranges
<1>10. m \in Truthful(own, far)
  BY <1>4, <1>5, <1>9 DEF Truthful
<1>11. /\ w \in Seq(Truthful(own, far)) /\ Asked(wire[e]) \cup ranges \subseteq Asked(w)
       /\ Underway(wire[e]) \subseteq Underway(w)
  <2>1. Ranges(m) = ranges
    BY <1>5 DEF Ranges
  <2> QED
    BY <1>2, <1>3, <1>10, <2>1, AppendedCovers DEF Announced
<1>12. Announced(s, w, own, far)
  <2>1. HeldBy(own, NoHeads)
    BY DEF HeldBy, NoHeads
  <2> QED
    BY <1>2, <1>5, <1>8, <1>11, <2>1 DEF Announced
<1>13. Announced(sess[p], v, far, own)
  BY <1>2, <1>6 DEF Announced
<1> HIDE DEF w, v
<1>14. Covered(s, sess[p], w, v, own)
  <2> SUFFICES ASSUME NEW k \in Group \X Node, NEW q \in 1..theirs[k]
               PROVE  \/ q \in SeqsIn(own, k[1], k[2])
                      \/ Coming(Asked(w) \cup sess[p].todo, Underway(v), k, q)
    BY <1>5 DEF Covered
  <2>1. CASE q \in 1..sess[e].mine[k]
    BY <1>2, <2>1 DEF Announced, HeldBy
  <2>2. CASE \E r \in ranges : r.group = k[1] /\ r.author = k[2] /\ q \in r.first..r.last
    BY <1>11, <2>2 DEF Coming
  <2> QED
    BY <1>9, <2>1, <2>2
<1>15. Covered(sess[p], s, v, w, far)
  <2>1. Asked(wire[p]) \cup sess[e].todo \subseteq Asked(v) \cup s.todo
    BY <1>5, <1>6
  <2>2. Underway(wire[e]) \subseteq Underway(w) \cup far
    BY <1>11
  <2> QED
    BY <1>2, <2>1, <2>2, CoveredKept
<1> QED
  BY <1>1, <1>4, <1>12, <1>13, <1>14, <1>15, ExchangeCovers DEF own, far

LEMMA RequestsCover ==
    ASSUME TypeOK, TypeOK', CoverInv, NEW e \in Endpoint, sess[e].todo = {},
           wire[Peer(e)] # <<>>, NEW f, f = Head(wire[Peer(e)]), f.kind = "requests",
           ReceiveRequests(e, f)
    PROVE  CoverInv'
<1> DEFINE p == Peer(e)
           own == events'[Home(e)]
           far == events'[Far(e)]
           s == [sess[e] EXCEPT !.phase = "sending", !.todo = f.ranges]
           v == Tail(wire[p])
<1>1. sess[e] \in Session /\ UNCHANGED events /\ Grow
  BY SameEventsGrow DEF TypeOK, ReceiveRequests, stores
<1>2. /\ Announced(sess[e], wire[e], own, far) /\ Announced(sess[p], wire[p], far, own)
      /\ Covered(sess[e], sess[p], wire[e], wire[p], own)
      /\ Covered(sess[p], sess[e], wire[p], wire[e], far)
  BY <1>1, CoverGrows
<1>3. Truthful(own, far) \subseteq Frame /\ Truthful(far, own) \subseteq Frame
  BY TruthfulFrames
<1>4. Exchange(e, s, wire[e], v)
  <2>1. Reply(e, s, <<>>)
    BY DEF ReceiveRequests
  <2>2. wire[e] \o <<>> = wire[e]
    BY DEF TypeOK
  <2> QED
    BY <2>1, <2>2, ReplyExchanges
<1>5. /\ s.phase = "sending" /\ s.mine = sess[e].mine /\ s.theirs = sess[e].theirs
      /\ s.todo = f.ranges
  BY <1>1 DEF Session
<1> HIDE DEF own, far, s, v
<1>6. /\ f \in Truthful(far, own) /\ v \in Seq(Truthful(far, own))
      /\ Asked(wire[p]) \subseteq Asked(v) \cup f.ranges
      /\ Underway(wire[p]) \subseteq Underway(v)
  <2>1. /\ f \in Truthful(far, own) /\ v \in Seq(Truthful(far, own))
        /\ Asked(wire[p]) \subseteq Asked(v) \cup Ranges(f)
        /\ Underway(wire[p]) \subseteq Underway(v) \cup Batch(f)
    BY <1>2, <1>3, RemainingCovers DEF Announced, v
  <2>2. Ranges(f) = f.ranges /\ Batch(f) = {}
    BY DEF Ranges, Batch
  <2> QED
    BY <2>1, <2>2
<1>7. ServedBy(own, f.ranges)
  BY <1>6 DEF Truthful
<1>8. Announced(s, wire[e], own, far) /\ Announced(sess[p], v, far, own)
  BY <1>2, <1>5, <1>6, <1>7 DEF Announced
<1>9. Covered(s, sess[p], wire[e], v, own)
  <2>1. Underway(wire[p]) \subseteq Underway(v) \cup own
    BY <1>6
  <2>2. s.phase = "live" => sess[e].phase = "live"
    BY <1>5
  <2> QED
    BY <1>2, <1>5, <2>1, <2>2, CoveredKept
<1>10. Covered(sess[p], s, v, wire[e], far)
  <2>1. Asked(wire[p]) \cup sess[e].todo \subseteq Asked(v) \cup s.todo
    BY <1>5, <1>6
  <2> QED
    BY <1>2, <2>1, CoveredKept
<1> QED
  BY <1>1, <1>4, <1>8, <1>9, <1>10, ExchangeCovers DEF own, far

(* When a session reads the end of the transfer, nothing is coming any more: its
   requests were read, all was sent, and the batches went before. *)
LEMMA NothingComing ==
    ASSUME AgreeInv, NEW e \in Endpoint, sess[e].phase = "receiving",
           wire[Peer(e)] # <<>>, Head(wire[Peer(e)]).kind = "done"
    PROVE  /\ Asked(wire[e]) = {} /\ sess[Peer(e)].todo = {}
           /\ Underway(wire[Peer(e)]) = {}
<1> DEFINE p == Peer(e)
<1>1. /\ p \in Endpoint /\ Peer(p) = e /\ sess[e].phase \in Running
      /\ wire[p] \in Seq(Frame) /\ wire[e] \in Seq(Frame)
  BY EndpointFacts DEF AgreeInv, TypeOK, Running, Syncing
<1>2. /\ sess[p].phase \in Running
      /\ InOrder(wire[p], Sent(sess[p].phase), Due(sess[e].phase))
      /\ InOrder(wire[e], Sent(sess[e].phase), Due(sess[p].phase))
  BY <1>1 DEF AgreeInv, InStep, Paired
<1>3. /\ Sent(sess[p].phase) \in 1..8 /\ Due(sess[p].phase) \in 1..8
      /\ Sent(sess[e].phase) = 7 /\ Due(sess[e].phase) = 6
  BY <1>2, PhaseType DEF Sent, Due
<1>4. 1 \in DOMAIN wire[p] /\ wire[p][1] = Head(wire[p]) /\ Place(wire[p][1].kind) = 7
  BY <1>1 DEF Place
<1>5. sess[p].phase \in {"receiving", "live"}
  <2>1. Sent(sess[p].phase) >= 7
    BY <1>2, <1>3, <1>4 DEF InOrder
  <2> QED
    BY <1>2, <2>1 DEF Sent, Running, Handshake, Syncing
<1>6. sess[p].todo = {}
  BY <1>1, <1>5 DEF AgreeInv, Agreed, SessionsAgree, Agree, BodiesAgree
<1>7. Asked(wire[e]) = {}
  <2>1. \A i \in DOMAIN wire[e] : wire[e][i].kind # "requests"
    <3> TAKE i \in DOMAIN wire[e]
    <3>1. Place(wire[e][i].kind) \in Due(sess[p].phase)..Sent(sess[e].phase)
      BY <1>2 DEF InOrder
    <3>2. Due(sess[p].phase) >= 6
      BY <1>5 DEF Due
    <3> QED
      BY <1>3, <3>1, <3>2 DEF Place
  <2> QED
    BY <2>1 DEF Asked, Ranges
<1>8. Underway(wire[p]) = {}
  <2>1. \A i \in DOMAIN wire[p] : wire[p][i].kind # "batch"
    <3> TAKE i \in DOMAIN wire[p]
    <3>1. i = 1 \/ 1 < i
      BY <1>1
    <3>2. Place(wire[p][i].kind) >= 7
      BY <1>2, <1>4, <3>1, PlaceType, PlacesGrow
    <3> QED
      BY <3>2 DEF Place
  <2> QED
    BY <2>1 DEF Underway, Batch
<1> QED
  BY <1>6, <1>7, <1>8

LEMMA DoneCovers ==
    ASSUME AgreeInv, TypeOK', CoverInv, NEW e \in Endpoint, sess[e].phase = "receiving",
           wire[Peer(e)] # <<>>, NEW f, f = Head(wire[Peer(e)]), f.kind = "done",
           ReceiveDone(e, f)
    PROVE  CoverInv'
<1> DEFINE p == Peer(e)
           own == events'[Home(e)]
           far == events'[Far(e)]
           s == [sess[e] EXCEPT !.phase = "live"]
           v == Tail(wire[p])
<1>1. sess[e] \in Session /\ UNCHANGED events /\ Grow /\ TypeOK
  BY SameEventsGrow DEF AgreeInv, TypeOK, ReceiveDone, stores
<1>2. /\ Announced(sess[e], wire[e], own, far) /\ Announced(sess[p], wire[p], far, own)
      /\ Covered(sess[e], sess[p], wire[e], wire[p], own)
      /\ Covered(sess[p], sess[e], wire[p], wire[e], far)
  BY <1>1, CoverGrows
<1>3. Truthful(far, own) \subseteq Frame
  BY TruthfulFrames
<1>4. Exchange(e, s, wire[e], v)
  <2>1. Reply(e, s, <<>>)
    BY DEF ReceiveDone
  <2>2. wire[e] \o <<>> = wire[e]
    BY <1>1 DEF TypeOK
  <2> QED
    BY <1>1, <2>1, <2>2, ReplyExchanges
<1>5. /\ s.phase = "live" /\ s.mine = sess[e].mine /\ s.theirs = sess[e].theirs
      /\ s.todo = sess[e].todo
  BY <1>1 DEF Session
<1> HIDE DEF own, far, s, v
<1>6. v \in Seq(Truthful(far, own)) /\ Asked(wire[p]) \subseteq Asked(v)
  <2>1. /\ v \in Seq(Truthful(far, own))
        /\ Asked(wire[p]) \subseteq Asked(v) \cup Ranges(f)
    BY <1>2, <1>3, RemainingCovers DEF Announced, v
  <2>2. Ranges(f) = {}
    BY DEF Ranges
  <2> QED
    BY <2>1, <2>2
<1>7. Announced(s, wire[e], own, far) /\ Announced(sess[p], v, far, own)
  BY <1>2, <1>5, <1>6 DEF Announced
<1>8. Covered(s, sess[p], wire[e], v, own)
  <2> SUFFICES ASSUME NEW k \in Group \X Node, NEW q \in 1..sess[e].theirs[k]
               PROVE  q \in SeqsIn(own, k[1], k[2])
    BY <1>5 DEF Covered
  <2>1. \/ q \in SeqsIn(own, k[1], k[2])
        \/ Coming(Asked(wire[e]) \cup sess[p].todo, Underway(wire[p]), k, q)
    BY <1>2 DEF Covered
  <2>2. /\ Asked(wire[e]) \cup sess[p].todo = {} /\ Underway(wire[p]) = {}
    BY NothingComing
  <2> QED
    BY <2>1, <2>2 DEF Coming, SeqsIn
<1>9. Covered(sess[p], s, v, wire[e], far)
  <2>1. Asked(wire[p]) \cup sess[e].todo \subseteq Asked(v) \cup s.todo
    BY <1>5, <1>6
  <2> QED
    BY <1>2, <2>1, CoveredKept
<1> QED
  BY <1>1, <1>4, <1>7, <1>8, <1>9, ExchangeCovers DEF own, far

LEMMA BatchCovers ==
    ASSUME TypeOK, InStep, CoverInv, Grow, NEW e \in Endpoint, sess[e].phase \in Running,
           wire[Peer(e)] # <<>>, NEW f, f = Head(wire[Peer(e)]), f.kind = "batch",
           ReceiveBatch(e, f)
    PROVE  CoverInv'
<1> DEFINE p == Peer(e)
           own == events'[Home(e)]
           far == events'[Far(e)]
           x == CHOOSE y \in f.events : \A z \in f.events : y.seq <= z.seq
           rest == Rest(f.events)
           m == [kind |-> "batch", events |-> rest]
<1>1. /\ Announced(sess[e], wire[e], own, far) /\ Announced(sess[p], wire[p], far, own)
  BY CoverGrows
<1>2. Truthful(far, own) \subseteq Frame
  BY TruthfulFrames
<1>3. CASE \E why : End(e, why)
  BY <1>3, EndCovers
<1>4. CASE /\ events' = [events EXCEPT ![Home(e)] = @ \cup {x}]
           /\ Exchange(e, sess[e], wire[e], LeftOfBatch(e))
  <2>1. x \in own
    BY <1>4, EndpointFacts, GrowsByOne
  <2> HIDE DEF own, far
  <2>2. /\ f \in Truthful(far, own) /\ Tail(wire[p]) \in Seq(Truthful(far, own))
        /\ Asked(wire[p]) \subseteq Asked(Tail(wire[p])) \cup Ranges(f)
        /\ Underway(wire[p]) \subseteq Underway(Tail(wire[p])) \cup Batch(f)
    BY <1>1, <1>2, RemainingCovers DEF Announced
  <2>3. Ranges(f) = {} /\ Batch(f) = f.events
    BY DEF Ranges, Batch
  <2>4. f.events = rest \cup {x} \/ f.events = rest
    BY DEF Rest
  <2>5. rest # {} => m \in Truthful(far, own)
    <3> HAVE rest # {}
    <3>1. f.events \in SUBSET Event
      BY <1>2, <2>2 DEF Frame
    <3>2. m \in Frame /\ m.kind = "batch"
      BY <3>1 DEF Frame, Rest
    <3> QED
      BY <3>2 DEF Truthful
  <2>6. Ranges(m) = {} /\ Batch(m) = rest
    BY DEF Ranges, Batch
  <2> HIDE DEF x, rest, m
  <2>7. LeftOfBatch(e) = IF rest = {} THEN Tail(wire[p]) ELSE <<m>> \o Tail(wire[p])
    BY DEF LeftOfBatch, rest, m
  <2>8. /\ LeftOfBatch(e) \in Seq(Truthful(far, own))
        /\ Asked(wire[p]) \subseteq Asked(LeftOfBatch(e))
        /\ Underway(wire[p]) \subseteq Underway(LeftOfBatch(e)) \cup own
    <3>1. CASE rest = {}
      BY <2>1, <2>2, <2>3, <2>4, <2>7, <3>1
    <3>2. CASE rest # {}
      <4>1. /\ <<m>> \o Tail(wire[p]) \in Seq(Truthful(far, own))
            /\ Asked(Tail(wire[p])) \cup Ranges(m) \subseteq Asked(<<m>> \o Tail(wire[p]))
            /\ Underway(Tail(wire[p])) \cup Batch(m)
                  \subseteq Underway(<<m>> \o Tail(wire[p]))
        BY <1>1, <1>2, <2>5, <3>2, TrimmedCovers DEF Announced
      <4> QED
        BY <2>1, <2>2, <2>3, <2>4, <2>6, <2>7, <3>2, <4>1
    <3> QED
      BY <3>1, <3>2
  <2> QED
    BY <1>1, <1>4, <2>8, PlainExchangeCovers DEF Announced, own, far
<1>5. \/ \E why : End(e, why)
      \/ /\ events' = [events EXCEPT ![Home(e)] = @ \cup {x}]
         /\ wire' = [wire EXCEPT ![p] = LeftOfBatch(e)] /\ UNCHANGED sess
  BY DEF ReceiveBatch, LeftOfBatch, Rest
<1>6. ASSUME wire' = [wire EXCEPT ![p] = LeftOfBatch(e)], UNCHANGED sess
      PROVE  Exchange(e, sess[e], wire[e], LeftOfBatch(e))
  <2>1. sess' = [sess EXCEPT ![e] = sess[e]]
    BY <1>6 DEF TypeOK
  <2>2. wire' = [wire EXCEPT ![p] = LeftOfBatch(e), ![e] = wire[e]]
    BY <1>6, EndpointFacts DEF TypeOK
  <2> QED
    BY <2>1, <2>2 DEF Exchange
<1> QED
  BY <1>3, <1>4, <1>5, <1>6

LEMMA ReceiveCovers ==
    ASSUME AgreeInv, TypeOK', CoverInv, Grow, NEW e \in Endpoint, Receive(e)
    PROVE  CoverInv'
<1> DEFINE f == Head(wire[Peer(e)])
<1>1. /\ sess[e].phase \in Running \ {"sending"} /\ wire[Peer(e)] # <<>>
      /\ TypeOK /\ InStep
  BY DEF Receive, AgreeInv
<1>2. f \in Frame /\ f.kind \in Accepts(sess[e].phase)
  BY <1>1, HeadIsAccepted
<1>3. Handle(e, f)
  BY <1>2 DEF Receive
<1> HIDE DEF f
<1>4. f.kind \in {"hello", "proofs", "channels", "inventories", "requests",
                  "batch", "done", "live", "upsert"}
  BY <1>2 DEF Frame
<1>5. CASE f.kind \in {"hello", "proofs", "channels", "live", "upsert"}
  BY <1>1, <1>3, <1>5, PlainHandlersCover DEF f
<1>6. CASE f.kind = "inventories"
  BY <1>1, <1>3, <1>6, InventoriesCover DEF f, Handle
<1>7. CASE f.kind = "requests"
  <2>1. sess[e].todo = {}
    BY <1>1 DEF AgreeInv, Agreed, SessionsAgree, Agree, BodiesAgree
  <2> QED
    BY <1>1, <1>3, <1>7, <2>1, RequestsCover DEF f, Handle
<1>8. CASE f.kind = "done"
  <2>1. sess[e].phase = "receiving"
    BY <1>1, <1>2, <1>8 DEF Accepts, Running, Handshake, Syncing
  <2> QED
    BY <1>1, <1>3, <1>8, <2>1, DoneCovers DEF f, Handle
<1>9. CASE f.kind = "batch"
  BY <1>1, <1>3, <1>9, BatchCovers DEF f, Handle
<1> QED
  BY <1>4, <1>5, <1>6, <1>7, <1>8, <1>9

-----------------------------------------------------------------------------
(***************************************************************************)
(* A batch leaves no event of its range out.                               *)
(***************************************************************************)

(* Events of one log are as many as their numbers. *)
LEMMA OneLogIsFinite ==
    ASSUME TypeOK, LogsAgree, NEW n \in Node, NEW g, NEW a,
           NEW S \in SUBSET {x \in events[n] : GroupOfEvent(x) = g /\ x.author = a}
    PROVE  IsFiniteSet(S)
<1> DEFINE number == [x \in S |-> x.seq]
<1>1. S \in SUBSET Event
  BY DEF TypeOK
<1>2. number \in [S -> 1..MaxSeq]
  BY <1>1 DEF Event
<1>3. ASSUME NEW x \in S, NEW y \in S, x.seq = y.seq PROVE x = y
  <2>1. Key(x) = Key(y) /\ x \in events[n] /\ y \in events[n]
    BY <1>3 DEF Key, GroupOfEvent
  <2> QED
    BY <2>1 DEF LogsAgree, Log!Agreement, Log!Key, Key
<1>4. number \in Injection(S, 1..MaxSeq)
  BY <1>2, <1>3 DEF Injection, IsInjective
<1>5. IsFiniteSet(1..MaxSeq)
  BY FS_Interval
<1> HIDE DEF number
<1> QED
  BY <1>4, <1>5, FS_Injection

(* The batch read for a range that the store serves is not empty, and has every
   event of the range up to its last. *)
LEMMA BatchLeavesNoneOut ==
    ASSUME TypeOK, LogsAgree, NEW n \in Node, NEW r \in RangeRequest, r.first <= r.last,
           r.first..r.last \subseteq SeqsIn(events[n], r.group, r.author)
    PROVE  /\ EventsRange(n, r) # {}
           /\ \A q \in r.first..r.last :
                 q <= Max({x.seq : x \in EventsRange(n, r)})
                    => q \in SeqsIn(EventsRange(n, r), r.group, r.author)
<1> DEFINE found == {x \in events[n] : /\ GroupOfEvent(x) = r.group
                                       /\ x.author = r.author
                                       /\ x.seq \in r.first..r.last}
           batch == EventsRange(n, r)
           Before(i) == {y \in found : y.seq < i}
           T == {x.seq : x \in batch}
<1>1. MaxSeq \in Nat /\ r.first \in 1..MaxSeq /\ r.last \in 1..MaxSeq /\ BatchMax \in Nat \ {0}
  BY DEF RangeRequest, BoundsAssumption
<1>2. batch = {x \in found : Cardinality(Before(x.seq)) < BatchMax}
  BY DEF EventsRange
<1>3. \A x \in found : x \in Event /\ x.seq \in 1..MaxSeq
  BY DEF TypeOK, Event
<1>4. \A i : IsFiniteSet(Before(i))
  <2> TAKE i
  <2>1. Before(i) \in SUBSET {x \in events[n] : GroupOfEvent(x) = r.group /\ x.author = r.author}
    OBVIOUS
  <2> HIDE DEF found
  <2> QED
    BY <2>1, OneLogIsFinite
<1>5. \A q \in r.first..r.last : \E x \in found : x.seq = q
  BY DEF SeqsIn, GroupOfEvent
<1> HIDE DEF found, batch
<1>6. batch # {}
  <2>1. PICK x \in found : x.seq = r.first
    BY <1>1, <1>5
  <2>2. \A y \in found : y.seq >= r.first
    BY DEF found
  <2>3. Before(x.seq) = {}
    BY <1>1, <1>3, <2>1, <2>2
  <2>4. 0 < BatchMax
    BY <1>1
  <2> HIDE DEF Before
  <2>5. Cardinality(Before(x.seq)) = 0
    BY <2>3, FS_EmptySet, Zenon
  <2>6. Cardinality(Before(x.seq)) < BatchMax
    BY <2>4, <2>5, Zenon
  <2>7. x \in batch
    BY <1>2, <2>1, <2>6, Zenon
  <2> QED
    BY <2>7
<1>7. T \in SUBSET (0..MaxSeq) /\ T # {}
  <2> HIDE DEF Before
  <2>1. \A x \in batch : x.seq \in 0..MaxSeq
    BY <1>1, <1>2, <1>3
  <2> QED
    BY <1>6, <2>1
<1>8. Max(T) \in T
  BY <1>1, <1>7, GreatestNumber
<1>9. ASSUME NEW q \in r.first..r.last, q <= Max(T) PROVE q \in SeqsIn(batch, r.group, r.author)
  <2>1. PICK b \in batch : b.seq = Max(T)
    BY <1>8
  <2>2. PICK x \in found : x.seq = q
    BY <1>5
  <2>3. b \in found /\ Cardinality(Before(b.seq)) < BatchMax
    BY <1>2
  <2>4. Before(x.seq) \in SUBSET Before(b.seq)
    BY <1>1, <1>3, <1>9, <2>1, <2>2, <2>3
  <2> HIDE DEF Before
  <2>5. Cardinality(Before(x.seq)) <= Cardinality(Before(b.seq))
    BY <1>4, <2>4, FS_Subset
  <2>6. Cardinality(Before(x.seq)) \in Nat /\ Cardinality(Before(b.seq)) \in Nat
    BY <1>4, FS_CardinalityType
  <2>7. x \in batch
    BY <1>1, <1>2, <2>3, <2>5, <2>6
  <2>8. GroupOfEvent(x) = r.group /\ x.author = r.author
    BY DEF found
  <2> QED
    BY <2>2, <2>7, <2>8 DEF SeqsIn, GroupOfEvent
<1> QED
  BY <1>6, <1>9 DEF batch

(* What a batch leaves of a range is still served, and with the batch it is all
   of the range. *)
LEMMA BatchAndRestCover ==
    ASSUME TypeOK, LogsAgree, NEW n \in Node, NEW r \in RangeRequest, r.first <= r.last,
           r.first..r.last \subseteq SeqsIn(events[n], r.group, r.author),
           NEW batch, batch = EventsRange(n, r),
           NEW last, last = Max({x.seq : x \in batch}),
           NEW rest, rest = IF batch = {} \/ last >= r.last THEN {}
                            ELSE {[r EXCEPT !.first = last + 1]}
    PROVE  /\ batch # {}
           /\ ServedBy(events[n], rest)
           /\ \A k \in Group \X Node : \A q \in r.first..r.last :
                 r.group = k[1] /\ r.author = k[2] => Coming(rest, batch, k, q)
<1> DEFINE later == [r EXCEPT !.first = last + 1]
<1>1. /\ batch # {}
      /\ \A q \in r.first..r.last : q <= last => q \in SeqsIn(batch, r.group, r.author)
  BY BatchLeavesNoneOut
<1>2. /\ MaxSeq \in Nat /\ r.first \in 1..MaxSeq /\ r.last \in 1..MaxSeq
      /\ later.first = last + 1 /\ later.last = r.last
      /\ later.group = r.group /\ later.author = r.author
  BY DEF RangeRequest, BoundsAssumption
<1>3. last \in r.first..r.last
  <2> DEFINE T == {x.seq : x \in batch}
  <2>1. \A x \in batch : x.seq \in r.first..r.last /\ x.seq \in 0..MaxSeq
    BY <1>2, EventsRangeType
  <2>2. T \in SUBSET (0..MaxSeq) /\ T # {} /\ T \subseteq r.first..r.last
    BY <1>1, <2>1
  <2> HIDE DEF T
  <2>3. Max(T) \in T
    BY <1>2, <2>2, GreatestNumber
  <2> QED
    BY <2>2, <2>3 DEF T
<1>4. rest = IF last >= r.last THEN {} ELSE {later}
  BY <1>1
<1> HIDE DEF later
<1>5. ServedBy(events[n], rest)
  <2>1. ASSUME NEW q \in later.first..later.last PROVE q \in r.first..r.last
    <3>1. q \in Int /\ last + 1 <= q /\ q <= r.last /\ r.first <= last
      BY <1>2, <1>3, <2>1
    <3> QED
      BY <1>2, <1>3, <3>1
  <2> QED
    BY <1>2, <1>4, <2>1 DEF ServedBy
<1>6. ASSUME NEW k \in Group \X Node, NEW q \in r.first..r.last,
             r.group = k[1] /\ r.author = k[2]
      PROVE  Coming(rest, batch, k, q)
  <2>1. CASE q <= last
    BY <1>1, <1>6, <2>1 DEF Coming
  <2>2. CASE ~(q <= last)
    <3>1. later \in rest /\ q \in later.first..later.last
      BY <1>2, <1>3, <1>4, <2>2
    <3> QED
      BY <1>2, <1>6, <3>1 DEF Coming
  <2> QED
    BY <2>1, <2>2
<1> QED
  BY <1>1, <1>5, <1>6

LEMMA SendBatchCovers ==
    ASSUME AgreeInv, LogsAgree, CoverInv, NEW e \in Endpoint, SendBatch(e)
    PROVE  CoverInv'
<1> DEFINE p == Peer(e)
           own == events'[Home(e)]
           far == events'[Far(e)]
<1>1. /\ sess[e] \in Session /\ Home(e) \in Node /\ sess[e].phase = "sending"
      /\ sess[e].todo \subseteq Sound(sess[e].shared) /\ TypeOK
      /\ p \in Endpoint /\ p # e
  BY EndpointFacts
     DEF SendBatch, AgreeInv, TypeOK, Agreed, SessionsAgree, Agree, BodiesAgree
<1>2. PICK r \in sess[e].todo :
          IF r.group \notin sess[e].shared THEN End(e, "group")
          ELSE IF r.first = 0 \/ r.first > r.last THEN End(e, "range")
          ELSE SendRange(e, r)
  BY DEF SendBatch
<1>3. r \in RangeRequest /\ r.group \in sess[e].shared /\ r.first <= r.last
  BY <1>1 DEF Sound
<1>4. SendRange(e, r)
  <2>1. ~(r.first = 0 \/ r.first > r.last)
    BY <1>3 DEF RangeRequest
  <2> QED
    BY <1>2, <1>3, <2>1
<1>5. UNCHANGED events /\ Grow
  BY <1>4, SameEventsGrow DEF SendRange, stores
<1>6. /\ Announced(sess[e], wire[e], own, far) /\ Announced(sess[p], wire[p], far, own)
      /\ Covered(sess[e], sess[p], wire[e], wire[p], own)
      /\ Covered(sess[p], sess[e], wire[p], wire[e], far)
  BY <1>1, <1>5, CoverGrows
<1>7. Truthful(own, far) \subseteq Frame
  BY TruthfulFrames
<1> DEFINE batch == EventsRange(Home(e), r)
           last == Max({x.seq : x \in batch})
           rest == IF batch = {} \/ last >= r.last THEN {} ELSE {[r EXCEPT !.first = last + 1]}
           s == [sess[e] EXCEPT !.todo = (@ \ {r}) \cup rest]
           m == [kind |-> "batch", events |-> batch]
           w == Append(wire[e], m)
<1>8. own = events[Home(e)]
  BY <1>5
<1> HIDE DEF own, far
<1>9. /\ batch # {} /\ ServedBy(own, rest)
      /\ \A k \in Group \X Node : \A q \in r.first..r.last :
            r.group = k[1] /\ r.author = k[2] => Coming(rest, batch, k, q)
  <2>1. r.first..r.last \subseteq SeqsIn(events[Home(e)], r.group, r.author)
    BY <1>6, <1>8 DEF Announced, ServedBy
  <2> HIDE DEF batch
  <2> QED
    BY <1>1, <1>3, <1>8, <2>1, BatchAndRestCover DEF batch
<1>10. sess' = [sess EXCEPT ![e].todo = (@ \ {r}) \cup rest]
  BY <1>4 DEF SendRange
<1>11. wire' = [wire EXCEPT ![e] = IF batch = {} THEN @ ELSE Append(@, m)]
  BY <1>4 DEF SendRange
<1>12. batch \in SUBSET Event
  BY <1>1, <1>3, EventsRangeType
<1> HIDE DEF batch, rest
<1>13. /\ sess' = [sess EXCEPT ![e] = s] /\ s.phase = sess[e].phase
       /\ s.mine = sess[e].mine /\ s.theirs = sess[e].theirs
       /\ s.todo = (sess[e].todo \ {r}) \cup rest
  BY <1>1, <1>10 DEF TypeOK, Session
<1> HIDE DEF s
<1>14. m \in Truthful(own, far) /\ Ranges(m) = {} /\ Batch(m) = batch
  BY <1>9, <1>12 DEF Frame, Truthful, Ranges, Batch
<1>15. Exchange(e, s, w, wire[p])
  <2>1. wire' = [wire EXCEPT ![e] = w]
    BY <1>1, <1>9, <1>11 DEF TypeOK
  <2> HIDE DEF w
  <2>2. wire' = [wire EXCEPT ![p] = wire[p], ![e] = w]
    BY <1>1, <2>1 DEF TypeOK
  <2> QED
    BY <1>13, <2>2 DEF Exchange
<1>16. /\ w \in Seq(Truthful(own, far)) /\ Asked(wire[e]) \subseteq Asked(w)
       /\ Underway(wire[e]) \cup batch \subseteq Underway(w)
  <2> HIDE DEF m
  <2> QED
    BY <1>6, <1>7, <1>14, AppendedCovers DEF Announced
<1> HIDE DEF w, m
<1>17. ServedBy(own, s.todo)
  BY <1>6, <1>9, <1>13 DEF Announced, ServedBy
<1>18. Announced(s, w, own, far)
  BY <1>6, <1>13, <1>16, <1>17 DEF Announced
<1>19. Covered(s, sess[p], w, wire[p], own)
  <2>1. Asked(wire[e]) \cup sess[p].todo \subseteq Asked(w) \cup sess[p].todo
    BY <1>16
  <2>2. Underway(wire[p]) \subseteq Underway(wire[p]) \cup own
    OBVIOUS
  <2>3. s.phase = "live" => sess[e].phase = "live"
    BY <1>13
  <2> QED
    BY <1>6, <1>13, <2>1, <2>2, <2>3, CoveredKept
<1>20. Covered(sess[p], s, wire[p], w, far)
  <2> SUFFICES ASSUME NEW k \in Group \X Node, NEW q \in 1..sess[p].theirs[k],
                      q \notin SeqsIn(far, k[1], k[2])
               PROVE  /\ sess[p].phase # "live"
                      /\ Coming(Asked(wire[p]) \cup s.todo, Underway(w), k, q)
    BY DEF Covered
  <2>1. /\ sess[p].phase # "live"
        /\ Coming(Asked(wire[p]) \cup sess[e].todo, Underway(wire[e]), k, q)
    BY <1>6 DEF Covered
  <2>2. CASE q \in SeqsIn(Underway(wire[e]), k[1], k[2])
    BY <1>16, <2>1, <2>2 DEF Coming, SeqsIn
  <2>3. ASSUME NEW a \in Asked(wire[p]) \cup sess[e].todo,
               a.group = k[1] /\ a.author = k[2] /\ q \in a.first..a.last
        PROVE  Coming(Asked(wire[p]) \cup s.todo, Underway(w), k, q)
    <3>1. CASE a \in Asked(wire[p]) \cup s.todo
      BY <2>3, <3>1, Zenon DEF Coming
    <3>2. CASE a = r
      <4>1. Coming(rest, batch, k, q)
        BY <1>9, <2>3, <3>2
      <4> QED
        BY <1>13, <1>16, <4>1 DEF Coming, SeqsIn
    <3> QED
      BY <1>13, <3>1, <3>2
  <2> QED
    BY <2>1, <2>2, <2>3 DEF Coming
<1> QED
  BY <1>1, <1>5, <1>6, <1>15, <1>18, <1>19, <1>20, ExchangeCovers DEF own, far

(* A session that sends, of its own accord, a record that announces nothing. *)
LEMMA PlainSendCovers ==
    ASSUME TypeOK, CoverInv, UNCHANGED events, NEW e \in Endpoint,
           NEW s, s.mine = sess[e].mine, s.theirs = sess[e].theirs, s.todo = sess[e].todo,
           s.phase = "live" => sess[e].phase = "live", sess' = [sess EXCEPT ![e] = s],
           NEW m \in Frame, m.kind \in {"done", "live", "upsert"},
           UNCHANGED wire \/ wire' = [wire EXCEPT ![e] = Append(@, m)]
    PROVE  CoverInv'
<1> DEFINE p == Peer(e)
           own == events'[Home(e)]
           far == events'[Far(e)]
<1>1. p \in Endpoint /\ p # e /\ Grow
  BY EndpointFacts, SameEventsGrow
<1>2. Announced(sess[e], wire[e], own, far) /\ Announced(sess[p], wire[p], far, own)
  BY <1>1, CoverGrows
<1>3. Truthful(own, far) \subseteq Frame
  BY TruthfulFrames
<1>4. Underway(wire[p]) \subseteq Underway(wire[p]) \cup own
  OBVIOUS
<1> HIDE DEF own, far
<1>5. HeldBy(own, s.mine)
  BY <1>2 DEF Announced
<1>6. CASE UNCHANGED wire
  <2>1. Exchange(e, s, wire[e], wire[p])
    BY <1>1, <1>6 DEF Exchange, TypeOK
  <2> QED
    BY <1>1, <1>2, <1>4, <1>5, <2>1, PlainExchangeCovers DEF Announced, own, far
<1>7. CASE wire' = [wire EXCEPT ![e] = Append(@, m)]
  <2> DEFINE w == Append(wire[e], m)
  <2>1. wire' = [wire EXCEPT ![p] = wire[p], ![e] = w]
    BY <1>1, <1>7 DEF TypeOK
  <2>2. m \in Truthful(own, far)
    BY DEF Truthful
  <2>3. /\ w \in Seq(Truthful(own, far))
        /\ Asked(wire[e]) \subseteq Asked(w) /\ Underway(wire[e]) \subseteq Underway(w)
    BY <1>2, <1>3, <2>2, AppendedCovers DEF Announced
  <2> HIDE DEF w
  <2>4. Exchange(e, s, w, wire[p])
    BY <2>1 DEF Exchange
  <2> QED
    BY <1>1, <1>2, <1>4, <1>5, <2>3, <2>4, PlainExchangeCovers DEF Announced, own, far
<1> QED
  BY <1>6, <1>7

LEMMA OwnAccordCovers ==
    ASSUME TypeOK, CoverInv, NEW e \in Endpoint,
           FinishSending(e) \/ ForwardLive(e) \/ ForwardMeta(e)
    PROVE  CoverInv'
<1>1. /\ sess[e] \in Session /\ sess = [sess EXCEPT ![e] = sess[e]]
      /\ UNCHANGED events
  BY DEF TypeOK, FinishSending, ForwardLive, ForwardMeta, stores
<1>2. CASE FinishSending(e)
  <2> DEFINE s == [sess[e] EXCEPT !.phase = "receiving"]
             m == [kind |-> "done"]
  <2>1. /\ s.phase = "receiving" /\ s.mine = sess[e].mine /\ s.theirs = sess[e].theirs
        /\ s.todo = sess[e].todo
    BY <1>1 DEF Session
  <2>2. m \in Frame /\ m.kind = "done"
    BY DEF Frame
  <2>3. sess' = [sess EXCEPT ![e] = s] /\ wire' = [wire EXCEPT ![e] = Append(@, m)]
    BY <1>2 DEF FinishSending
  <2> HIDE DEF s, m
  <2> QED
    BY <1>1, <2>1, <2>2, <2>3, PlainSendCovers
<1>3. CASE ForwardLive(e)
  <2> DEFINE m == [kind |-> "live", event |-> Head(liveQ[e])]
  <2>1. Head(liveQ[e]) \in Event
    BY <1>3 DEF ForwardLive, TypeOK
  <2>2. m \in Frame /\ m.kind = "live"
    BY <2>1 DEF Frame
  <2>3. /\ UNCHANGED sess
        /\ UNCHANGED wire \/ wire' = [wire EXCEPT ![e] = Append(@, m)]
    BY <1>3 DEF ForwardLive, TypeOK
  <2> HIDE DEF m
  <2> QED
    BY <1>1, <2>2, <2>3, PlainSendCovers
<1>4. CASE ForwardMeta(e)
  <2> DEFINE m == [kind |-> "upsert", channel |-> Head(metaQ[e])]
  <2>1. Head(metaQ[e]) \in Channel
    BY <1>4 DEF ForwardMeta, TypeOK
  <2>2. m \in Frame /\ m.kind = "upsert"
    BY <2>1 DEF Frame
  <2>3. /\ UNCHANGED sess
        /\ UNCHANGED wire \/ wire' = [wire EXCEPT ![e] = Append(@, m)]
    BY <1>4 DEF ForwardMeta, TypeOK
  <2> HIDE DEF m
  <2> QED
    BY <1>1, <2>2, <2>3, PlainSendCovers
<1> QED
  BY <1>2, <1>3, <1>4

LEMMA OpenCovers ==
    ASSUME TypeOK, CoverInv, NEW l \in Link, Open(l)
    PROVE  CoverInv'
<1> DEFINE hello == <<[kind |-> "hello"]>>
<1>1. UNCHANGED events
  BY DEF Open, stores
<1>2. ASSUME NEW d \in Endpoint PROVE Peer(d)[1] = d[1] /\ Peer(d) \in Endpoint
  BY EndpointFacts DEF Peer
<1> HIDE DEF hello
<1>3. ASSUME NEW d \in Endpoint
      PROVE  /\ d[1] = l => sess'[d] = Fresh("hello") /\ wire'[d] = hello
             /\ d[1] # l => sess'[d] = sess[d] /\ wire'[d] = wire[d]
  BY DEF Open, hello
<1>4. ASSUME NEW d \in Endpoint
      PROVE  /\ Announced(sess'[d], wire'[d], events[Home(d)], events[Far(d)])
             /\ Covered(sess'[d], sess'[Peer(d)], wire'[d], wire'[Peer(d)], events[Home(d)])
  <2>1. CASE d[1] = l
    BY <1>3, <2>1, FreshCovers DEF hello
  <2>2. CASE d[1] # l
    BY <1>2, <1>3, <2>2 DEF CoverInv
  <2> QED
    BY <2>1, <2>2
<1> QED
  BY <1>1, <1>4 DEF CoverInv

LEMMA InitCovers == Init => CoverInv
<1> SUFFICES ASSUME Init PROVE CoverInv
  OBVIOUS
<1>1. \A e \in Endpoint : sess[e] = Fresh("idle") /\ wire[e] = <<>>
  BY DEF Init
<1> QED
  BY <1>1, EndpointFacts, FreshCovers DEF CoverInv

LEMMA NextCovers == SessionInv /\ CoverInv /\ [Next]_vars => CoverInv'
<1> SUFFICES ASSUME SessionInv, CoverInv, [Next]_vars PROVE CoverInv'
  OBVIOUS
<1>1. /\ TypeOK /\ TypeOK' /\ InStep /\ AgreeInv /\ LogsAgree
  BY NextIInv, LogInvLogsAgree DEF SessionInv, IInv, AgreeInv
<1>2. Grow
  BY <1>1, NextIInv, LogStepGrows DEF SessionInv
<1>3. ASSUME NEW l \in Link, Open(l) PROVE CoverInv'
  BY <1>1, <1>3, OpenCovers
<1>4. ASSUME NEW l \in Link, Drop(l) PROVE CoverInv'
  <2>1. <<l, "dial">> \in Endpoint /\ sess[<<l, "dial">>].phase \in Running
    BY <1>4 DEF Endpoint, Side, Drop, Up
  <2> QED
    BY <1>1, <1>4, <2>1, EndCovers DEF Drop
<1>5. ASSUME NEW e \in Endpoint, Run(e) PROVE CoverInv'
  BY <1>1, <1>2, <1>5, ReceiveCovers, SendBatchCovers, OwnAccordCovers DEF Run
<1>6. CASE UNCHANGED <<sess, wire>>
  BY <1>2, <1>6, GrowCovers
<1>7. ASSUME NEW n \in Node, User(n) PROVE UNCHANGED <<sess, wire>>
  BY <1>7 DEF User, SendMessage, CreateChannel, CreateGroup, ImportInvite, BlockPeer,
     UnblockPeer
<1> QED
  BY <1>3, <1>4, <1>5, <1>6, <1>7 DEF Next, vars

(* A session in the live loop stores everything its peer announced: nothing was
   left out of the ranges asked for, of the batches sent for them or of what was
   read from the batches, however the stores grew meanwhile (missing_ranges,
   send_requested_events, receive_requested_events). *)
THEOREM SyncIsComplete == Spec => []SyncCoverage
<1>1. CoverInv => SyncCoverage
  BY DEF CoverInv, Covered, SyncCoverage
<1>2. Init => SessionInv /\ CoverInv
  BY InitSessionInv, InitCovers
<1>3. SessionInv /\ CoverInv /\ [Next]_vars => (SessionInv /\ CoverInv)'
  BY NextSessionInv, NextCovers
<1> QED
  BY <1>1, <1>2, <1>3, PTL DEF Spec
=============================================================================
