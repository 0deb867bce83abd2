---------------------------- MODULE SyncSession ----------------------------
(***************************************************************************)
(* OpenCord's peer sessions and the stores they replicate.                 *)
(*                                                                         *)
(* A node has one store (src/store.rs), the broadcast channels its         *)
(* sessions subscribe to (src/node.rs), and one task per connection that   *)
(* runs the protocol of src/network.rs: hello, group proofs, channels,     *)
(* inventories, range requests, event transfer, then a live loop.  A link  *)
(* is one possible connection; it has a dialling and an accepting end, and *)
(* each end is a session.  Frames travel in order on one QUIC stream per   *)
(* direction.  Signatures, encryption and group keys are abstracted to     *)
(* what they decide: who wrote an event, and who is in a group.            *)
(*                                                                         *)
(* A handler runs from one receive_frame to the next and takes the store's *)
(* lock several times; it is one step here, except that the events of a    *)
(* batch are inserted one by one.                                          *)
(***************************************************************************)
EXTENDS Events, Sequences, FiniteSets, FiniteSetsExt

CONSTANTS
    Link,          \* possible connections between two nodes
    Ends,          \* [Link -> [Side -> Node]], who dials and who accepts
    SeedGroups,    \* [Node -> SUBSET Group], groups a node is in at first
    SeedChannels,  \* [Node -> SUBSET Channel], channels it knows at first
    Joinable,      \* SUBSET (Node \X Group), invites still to be imported
    Blockable,     \* SUBSET (Node \X Node), whom a user may block
    BatchMax,      \* bound: events in one EventBatch (128 and 12 MiB in the code)
    Window,        \* event frames a stream buffers before write_all waits
    LiveCap,       \* capacity of the live_events broadcast (512 in the code)
    MetaCap,       \* capacity of the metadata broadcast (64 in the code)
    DropsAnyTime   \* TRUE: a connection may fail in any phase, FALSE: only
                   \* once both ends are in the live loop

Side == {"dial", "accept"}
Endpoint == Link \X Side
Peer(e) == <<e[1], IF e[2] = "dial" THEN "accept" ELSE "dial">>
Home(e) == Ends[e[1]][e[2]]
Far(e) == Home(Peer(e))

LinksAssumption == Ends \in [Link -> [Side -> Node]]
GroupsAssumption ==
    /\ SeedGroups \in [Node -> SUBSET Group]
    /\ SeedChannels \in [Node -> SUBSET Channel]
    /\ \A n \in Node : \A c \in SeedChannels[n] : GroupOf[c] \in SeedGroups[n]
    /\ \A n \in Node : \A x \in SeedEvents[n] : x.chan \in SeedChannels[n]
    /\ Joinable \subseteq Node \X Group
    /\ Blockable \subseteq Node \X Node
    /\ \A n \in Node : <<n, n>> \notin Blockable  \* only online peers are offered
BoundsAssumption ==
    /\ BatchMax \in Nat \ {0}
    /\ Window \in Nat
    /\ LiveCap \in Nat \ {0}
    /\ MetaCap \in Nat \ {0}
    /\ DropsAnyTime \in BOOLEAN

ASSUME SessionAssumption == LinksAssumption /\ GroupsAssumption /\ BoundsAssumption

-----------------------------------------------------------------------------
(***************************************************************************)
(* Operators marked "Slip" are wrong on purpose: each is the definition    *)
(* that follows it with a plausible programming error, and shows that a    *)
(* property notices that error.  Nothing else uses them.                   *)
(***************************************************************************)

VARIABLES
    groups,   \* [Node -> SUBSET Group], the groups table
    chans,    \* [Node -> SUBSET Channel], the channels table
    events,   \* [Node -> SUBSET Event], the events table
    blocked,  \* [Node -> SUBSET Node], the blocked_peers table
    sess,     \* [Endpoint -> Session], the local variables of run_session
    wire,     \* [Endpoint -> Seq(Frame)], sent by the endpoint and not yet read
    liveQ,    \* [Endpoint -> Seq(Event)], its live_events receiver
    metaQ     \* [Endpoint -> Seq(Channel)], its metadata receiver

stores == <<groups, chans, events, blocked>>
queues == <<liveQ, metaQ>>
vars == <<groups, chans, events, blocked, sess, wire, liveQ, metaQ>>

(* The abstract log, which the stores implement. *)
Log == INSTANCE EventLog WITH log <- events

GroupOfEvent(x) == GroupOf[x.chan]

(* A session's locals.  Heads map every (group, author) to a sequence number,
   0 where the inventory has no entry. *)
Heads == [Group \X Node -> 0..MaxSeq]
NoHeads == [k \in Group \X Node |-> 0]
RangeRequest == [group: Group, author: Node, first: 1..MaxSeq, last: 1..MaxSeq]

Handshake == {"hello", "proofs"}
Syncing == {"channels", "inventories", "requests", "sending", "receiving"}
Running == Handshake \cup Syncing \cup {"live"}
(* Why run_session returned: "idle" has not begun, "lost" is a failed connection
   or a peer that closed, the others name the check that failed. *)
Refusals == {"author_blocked", "group", "unknown_channel", "equivocation"}
Ended == {"idle", "lost", "self", "blocked", "no_group", "record", "range"} \cup Refusals

Session == [phase: Running \cup Ended, shared: SUBSET Group,
            mine: Heads, theirs: Heads, todo: SUBSET RangeRequest]
Fresh(phase) == [phase |-> phase, shared |-> {}, mine |-> NoHeads,
                 theirs |-> NoHeads, todo |-> {}]

Frame ==
    [kind: {"hello", "done"}]
    \cup [kind: {"proofs"}, groups: SUBSET Group]
    \cup [kind: {"channels"}, channels: SUBSET Channel]
    \cup [kind: {"inventories"}, heads: Heads]
    \cup [kind: {"requests"}, ranges: SUBSET RangeRequest]
    \cup [kind: {"batch"}, events: (SUBSET Event) \ {{}}]
    \cup [kind: {"live"}, event: Event]
    \cup [kind: {"upsert"}, channel: Channel]

Init ==
    /\ groups = SeedGroups
    /\ chans = SeedChannels
    /\ events = SeedEvents
    /\ blocked = [n \in Node |-> {}]
    /\ sess = [e \in Endpoint |-> Fresh("idle")]
    /\ wire = [e \in Endpoint |-> <<>>]
    /\ liveQ = [e \in Endpoint |-> <<>>]
    /\ metaQ = [e \in Endpoint |-> <<>>]

-----------------------------------------------------------------------------
(***************************************************************************)
(* The store.                                                              *)
(***************************************************************************)

(* Slip: the query forgets "AND author = ?2". *)
NextSequenceOfGroup(n, g) == Max({x.seq : x \in {y \in events[n] : GroupOfEvent(y) = g}} \cup {0}) + 1

(* Slip: COALESCE(MAX(author_sequence), 1), without the + 1. *)
NextSequenceRepeated(n, g) == Max(SeqsIn(events[n], g, n) \cup {1})

(* COALESCE(MAX(author_sequence), 0) + 1 *)
NextSequence(n, g) == Max(SeqsIn(events[n], g, n) \cup {0}) + 1

(* Slip: the maximum stored sequence, the holes below it forgotten. *)
MaximumHead(S) == Max(S \cup {0})

(* The scan of inventories(): it stops counting at the first missing number. *)
ContiguousHead(S) == CHOOSE h \in 0..MaxSeq : 1..h \subseteq S /\ h + 1 \notin S

(* Slip: the session does not filter the store's inventories. *)
InventoriesUnfiltered(n, gs) ==
    [k \in Group \X Node |-> ContiguousHead(SeqsIn(events[n], k[1], k[2]))]

(* inventories(), filtered to the groups gs of the session *)
Inventories(n, gs) ==
    [k \in Group \X Node |->
        IF k[1] \in gs THEN ContiguousHead(SeqsIn(events[n], k[1], k[2])) ELSE 0]

(* Slip: the range begins with the last event held. *)
MissingRangesFromHead(local, remote) ==
    {[group |-> k[1], author |-> k[2], first |-> local[k], last |-> remote[k]] :
        k \in {j \in Group \X Node : remote[j] > local[j]}}

(* missing_ranges() *)
MissingRanges(local, remote) ==
    {[group |-> k[1], author |-> k[2], first |-> local[k] + 1, last |-> remote[k]] :
        k \in {j \in Group \X Node : remote[j] > local[j]}}

(* events_range(): ascending, at most BatchMax *)
EventsRange(n, r) ==
    LET found == {x \in events[n] : /\ GroupOfEvent(x) = r.group
                                    /\ x.author = r.author
                                    /\ x.seq \in r.first..r.last}
    IN  {x \in found : Cardinality({y \in found : y.seq < x.seq}) < BatchMax}

(* Slip: blocking is left to the handshake. *)
VerdictIgnoringBlocks(n, x) ==
    IF GroupOfEvent(x) \notin groups[n] THEN "group"
    ELSE IF x.chan \notin chans[n] THEN "unknown_channel" ELSE "ok"

(* The checks of insert_remote_event, in the order the code makes them. *)
Verdict(n, x) ==
    IF x.author \in blocked[n] THEN "author_blocked"
    ELSE IF GroupOfEvent(x) \notin groups[n] THEN "group"
    ELSE IF x.chan \notin chans[n] THEN "unknown_channel"
    ELSE IF \E y \in events[n] : Key(y) = Key(x) /\ y # x THEN "equivocation"
    ELSE "ok"

-----------------------------------------------------------------------------
(***************************************************************************)
(* Streams, broadcast channels and the end of a session.                   *)
(***************************************************************************)

(* send_frame waits in write_all while the stream's window is full; the small
   records always fit.  A session that waits there does nothing else. *)
Writing(e) ==
    Cardinality({i \in DOMAIN wire[e] : wire[e][i].kind \in {"batch", "live"}}) > Window

(* tokio::sync::broadcast: a full receiver loses its oldest value, and the
   Lagged error that tells it so is ignored by the live loop. *)
Push(q, v, cap) == IF Len(q) < cap THEN Append(q, v) ELSE Append(Tail(q), v)

Subscribed(e, n) == Home(e) = n /\ sess[e].phase = "live"

PublishEvent(n, x) ==
    liveQ' = [e \in Endpoint |->
                IF Subscribed(e, n) THEN Push(liveQ[e], x, LiveCap) ELSE liveQ[e]]

PublishChannel(n, c) ==
    metaQ' = [e \in Endpoint |->
                IF Subscribed(e, n) THEN Push(metaQ[e], c, MetaCap) ELSE metaQ[e]]

(* run_session returns at e: the connection closes, the other end's next await
   fails, and whatever was in flight is lost. *)
End(e, why) ==
    /\ sess' = [sess EXCEPT
                  ![e] = Fresh(why),
                  ![Peer(e)] = IF @.phase \in Running THEN Fresh("lost") ELSE @]
    /\ wire' = [wire EXCEPT ![e] = <<>>, ![Peer(e)] = <<>>]
    /\ liveQ' = [liveQ EXCEPT ![e] = <<>>, ![Peer(e)] = <<>>]
    /\ metaQ' = [metaQ EXCEPT ![e] = <<>>, ![Peer(e)] = <<>>]
    /\ UNCHANGED stores

Up(l) == \A s \in Side : sess[<<l, s>>].phase \in Running

(* A connection is made: both ends send their hello before reading. *)
Open(l) ==
    /\ \A s \in Side : sess[<<l, s>>].phase \in Ended
    /\ sess' = [e \in Endpoint |-> IF e[1] = l THEN Fresh("hello") ELSE sess[e]]
    /\ wire' = [e \in Endpoint |-> IF e[1] = l THEN <<[kind |-> "hello"]>> ELSE wire[e]]
    /\ UNCHANGED <<stores, queues>>

(* The connection fails, or one of its nodes stops (the store survives). *)
Drop(l) ==
    /\ Up(l)
    /\ DropsAnyTime \/ \A s \in Side : sess[<<l, s>>].phase = "live"
    /\ End(<<l, "dial">>, "lost")

-----------------------------------------------------------------------------
(***************************************************************************)
(* What a session does with the frame it reads, phase by phase.  Each      *)
(* handler consumes the head of its peer's wire and sends at most a frame. *)
(***************************************************************************)

(* One step of the session: new locals, the frame read, perhaps a reply. *)
Reply(e, s, frames) ==
    /\ sess' = [sess EXCEPT ![e] = s]
    /\ wire' = [wire EXCEPT ![Peer(e)] = Tail(@), ![e] = @ \o frames]

(* self and block checks; the groups in the store now are the candidates *)
ReceiveHello(e, f) ==
    LET n == Home(e)
        s == [sess[e] EXCEPT !.phase = "proofs", !.shared = groups[n]]
    IN  IF Far(e) = n THEN End(e, "self")
        ELSE IF Far(e) \in blocked[n] THEN End(e, "blocked")
        ELSE /\ Reply(e, s, <<[kind |-> "proofs", groups |-> groups[n]]>>)
             /\ UNCHANGED <<stores, queues>>

(* the candidates the peer proved too are shared; their channels are sent *)
ReceiveProofs(e, f) ==
    LET shared == sess[e].shared \cap f.groups
        known == {c \in chans[Home(e)] : GroupOf[c] \in shared}
        s == [sess[e] EXCEPT !.phase = "channels", !.shared = shared]
    IN  IF shared = {} THEN End(e, "no_group")
        ELSE /\ Reply(e, s, <<[kind |-> "channels", channels |-> known]>>)
             /\ UNCHANGED <<stores, queues>>

(* merge what the peer knows, then take the inventory and send it *)
ReceiveChannels(e, f) ==
    LET n == Home(e)
        mine == Inventories(n, sess[e].shared)
        s == [sess[e] EXCEPT !.phase = "inventories", !.mine = mine]
    IN  IF \E c \in f.channels : GroupOf[c] \notin sess[e].shared THEN End(e, "group")
        ELSE /\ Reply(e, s, <<[kind |-> "inventories", heads |-> mine]>>)
             /\ chans' = [chans EXCEPT ![n] = @ \cup f.channels]
             /\ UNCHANGED <<groups, events, blocked, queues>>

(* keep the shared groups' heads, ask for what they have beyond ours *)
ReceiveInventories(e, f) ==
    LET theirs == [k \in Group \X Node |->
                      IF k[1] \in sess[e].shared THEN f.heads[k] ELSE 0]
        s == [sess[e] EXCEPT !.phase = "requests", !.mine = NoHeads, !.theirs = theirs]
    IN  /\ Reply(e, s, <<[kind |-> "requests",
                          ranges |-> MissingRanges(sess[e].mine, theirs)]>>)
        /\ UNCHANGED <<stores, queues>>

(* Slip: each end reads the events it asked for before it sends what the other did. *)
ReceiveRequestsFirst(e, f) ==
    /\ Reply(e, [sess[e] EXCEPT !.phase = "receiving", !.todo = f.ranges], <<>>)
    /\ UNCHANGED <<stores, queues>>

(* begin send_requested_events *)
ReceiveRequests(e, f) ==
    /\ Reply(e, [sess[e] EXCEPT !.phase = "sending", !.todo = f.ranges], <<>>)
    /\ UNCHANGED <<stores, queues>>

(* insert_remote_event on the batch's earliest event.  No group check of the
   session here, and nothing is published to the node's other sessions. *)
ReceiveBatch(e, f) ==
    LET n == Home(e)
        x == CHOOSE y \in f.events : \A z \in f.events : y.seq <= z.seq
        rest == f.events \ {x}
    IN  IF Verdict(n, x) # "ok" THEN End(e, Verdict(n, x))
        ELSE /\ events' = [events EXCEPT ![n] = @ \cup {x}]
             /\ wire' = [wire EXCEPT ![Peer(e)] =
                    IF rest = {} THEN Tail(@)
                    ELSE <<[kind |-> "batch", events |-> rest]>> \o Tail(@)]
             /\ UNCHANGED <<groups, chans, blocked, sess, queues>>

(* the transfer is over: subscribe and enter the live loop *)
ReceiveDone(e, f) ==
    /\ Reply(e, [sess[e] EXCEPT !.phase = "live"], <<>>)
    /\ UNCHANGED <<stores, queues>>

(* Slip: a received event is stored and not passed on. *)
ReceiveLiveKept(e, f) ==
    /\ Reply(e, sess[e], <<>>)
    /\ events' = [events EXCEPT ![Home(e)] = @ \cup {f.event}]
    /\ UNCHANGED <<groups, chans, blocked, queues>>

(* Slip: a received event is passed on although the store had it already. *)
ReceiveLiveEchoed(e, f) ==
    /\ Reply(e, sess[e], <<>>)
    /\ events' = [events EXCEPT ![Home(e)] = @ \cup {f.event}]
    /\ PublishEvent(Home(e), f.event)
    /\ UNCHANGED <<groups, chans, blocked, metaQ>>

(* an event that is new here is published to every live session of the node *)
ReceiveLive(e, f) ==
    LET n == Home(e)
        x == f.event
    IN  IF GroupOfEvent(x) \notin sess[e].shared THEN End(e, "group")
        ELSE IF Verdict(n, x) # "ok" THEN End(e, Verdict(n, x))
        ELSE /\ Reply(e, sess[e], <<>>)
             /\ events' = [events EXCEPT ![n] = @ \cup {x}]
             /\ IF x \in events[n] THEN UNCHANGED liveQ ELSE PublishEvent(n, x)
             /\ UNCHANGED <<groups, chans, blocked, metaQ>>

(* likewise for a channel *)
ReceiveUpsert(e, f) ==
    LET n == Home(e)
        c == f.channel
    IN  IF GroupOf[c] \notin sess[e].shared THEN End(e, "group")
        ELSE /\ Reply(e, sess[e], <<>>)
             /\ chans' = [chans EXCEPT ![n] = @ \cup {c}]
             /\ IF c \in chans[n] THEN UNCHANGED metaQ ELSE PublishChannel(n, c)
             /\ UNCHANGED <<groups, events, blocked, liveQ>>

(* The records each phase accepts; "sending" reads nothing. *)
Accepts(phase) ==
    CASE phase = "hello" -> {"hello"}
      [] phase = "proofs" -> {"proofs"}
      [] phase = "channels" -> {"channels"}
      [] phase = "inventories" -> {"inventories"}
      [] phase = "requests" -> {"requests"}
      [] phase = "receiving" -> {"batch", "done"}
      [] phase = "live" -> {"live", "upsert"}
      [] OTHER -> {}

Handle(e, f) ==
    CASE f.kind = "hello" -> ReceiveHello(e, f)
      [] f.kind = "proofs" -> ReceiveProofs(e, f)
      [] f.kind = "channels" -> ReceiveChannels(e, f)
      [] f.kind = "inventories" -> ReceiveInventories(e, f)
      [] f.kind = "requests" -> ReceiveRequests(e, f)
      [] f.kind = "batch" -> ReceiveBatch(e, f)
      [] f.kind = "done" -> ReceiveDone(e, f)
      [] f.kind = "live" -> ReceiveLive(e, f)
      [] f.kind = "upsert" -> ReceiveUpsert(e, f)

Receive(e) ==
    /\ sess[e].phase \in Running \ {"sending"}
    /\ ~Writing(e)
    /\ wire[Peer(e)] # <<>>
    /\ LET f == Head(wire[Peer(e)]) IN
          IF f.kind \in Accepts(sess[e].phase) THEN Handle(e, f) ELSE End(e, "record")

-----------------------------------------------------------------------------
(***************************************************************************)
(* What a session sends of its own accord.                                 *)
(***************************************************************************)

(* Slip: the cursor stays on the last event sent. *)
SendRangeAgain(e, r) ==
    LET batch == EventsRange(Home(e), r)
    IN  /\ sess' = [sess EXCEPT ![e].todo = (@ \ {r}) \cup
               {[r EXCEPT !.first = Max({x.seq : x \in batch})]}]
        /\ wire' = [wire EXCEPT ![e] = Append(@, [kind |-> "batch", events |-> batch])]
        /\ UNCHANGED <<stores, queues>>

(* One EventBatch of a requested range, read from the store now; what is left
   of the range stays to be done. *)
SendRange(e, r) ==
    LET batch == EventsRange(Home(e), r)
        last == Max({x.seq : x \in batch})
        rest == IF batch = {} \/ last >= r.last THEN {} ELSE {[r EXCEPT !.first = last + 1]}
    IN  /\ sess' = [sess EXCEPT ![e].todo = (@ \ {r}) \cup rest]
        /\ wire' = [wire EXCEPT ![e] =
               IF batch = {} THEN @ ELSE Append(@, [kind |-> "batch", events |-> batch])]
        /\ UNCHANGED <<stores, queues>>

SendBatch(e) ==
    /\ sess[e].phase = "sending" /\ ~Writing(e)
    /\ \E r \in sess[e].todo :
          IF r.group \notin sess[e].shared THEN End(e, "group")
          ELSE IF r.first = 0 \/ r.first > r.last THEN End(e, "range")
          ELSE SendRange(e, r)

(* Slip: the live loop begins before the peer's events are read. *)
FinishSendingUnread(e) ==
    /\ sess[e].phase = "sending" /\ ~Writing(e)
    /\ sess[e].todo = {}
    /\ sess' = [sess EXCEPT ![e].phase = "live"]
    /\ wire' = [wire EXCEPT ![e] = Append(@, [kind |-> "done"])]
    /\ UNCHANGED <<stores, queues>>

(* send SyncDone, then read the peer's events *)
FinishSending(e) ==
    /\ sess[e].phase = "sending" /\ ~Writing(e)
    /\ sess[e].todo = {}
    /\ sess' = [sess EXCEPT ![e].phase = "receiving"]
    /\ wire' = [wire EXCEPT ![e] = Append(@, [kind |-> "done"])]
    /\ UNCHANGED <<stores, queues>>

(* Slip: the events left out are the node's own, not the peer's. *)
ForwardLiveOfOthers(e) ==
    /\ sess[e].phase = "live" /\ ~Writing(e)
    /\ liveQ[e] # <<>>
    /\ LET x == Head(liveQ[e]) IN
         wire' = [wire EXCEPT ![e] =
            IF GroupOfEvent(x) \in sess[e].shared /\ x.author # Home(e)
            THEN Append(@, [kind |-> "live", event |-> x]) ELSE @]
    /\ liveQ' = [liveQ EXCEPT ![e] = Tail(@)]
    /\ UNCHANGED <<stores, sess, metaQ>>

(* The live_events arm: other groups' events are skipped, and so are those the
   peer wrote itself. *)
ForwardLive(e) ==
    /\ sess[e].phase = "live" /\ ~Writing(e)
    /\ liveQ[e] # <<>>
    /\ LET x == Head(liveQ[e]) IN
         wire' = [wire EXCEPT ![e] =
            IF GroupOfEvent(x) \in sess[e].shared /\ x.author # Far(e)
            THEN Append(@, [kind |-> "live", event |-> x]) ELSE @]
    /\ liveQ' = [liveQ EXCEPT ![e] = Tail(@)]
    /\ UNCHANGED <<stores, sess, metaQ>>

(* The metadata arm. *)
ForwardMeta(e) ==
    /\ sess[e].phase = "live" /\ ~Writing(e)
    /\ metaQ[e] # <<>>
    /\ LET c == Head(metaQ[e]) IN
         wire' = [wire EXCEPT ![e] =
            IF GroupOf[c] \in sess[e].shared
            THEN Append(@, [kind |-> "upsert", channel |-> c]) ELSE @]
    /\ metaQ' = [metaQ EXCEPT ![e] = Tail(@)]
    /\ UNCHANGED <<stores, sess, liveQ>>

-----------------------------------------------------------------------------
(***************************************************************************)
(* What the user does.                                                     *)
(***************************************************************************)

(* Slip: the event is published before the append, which then fails. *)
SendMessageUnsaved(n, c) ==
    LET x == [author |-> n, seq |-> NextSequence(n, GroupOf[c]), chan |-> c]
    IN  /\ c \in chans[n]
        /\ x.seq <= MaxSeq
        /\ PublishEvent(n, x)
        /\ UNCHANGED <<stores, sess, wire, metaQ>>

(* Node::send: append to the store, publish to the live sessions. *)
SendMessage(n, c) ==
    LET x == [author |-> n, seq |-> NextSequence(n, GroupOf[c]), chan |-> c]
    IN  /\ c \in chans[n]
        /\ x.seq <= MaxSeq
        /\ events' = [events EXCEPT ![n] = @ \cup {x}]
        /\ PublishEvent(n, x)
        /\ UNCHANGED <<groups, chans, blocked, sess, wire, metaQ>>

(* Node::create_channel, whose random id no one has used. *)
CreateChannel(n, c) ==
    /\ GroupOf[c] \in groups[n]
    /\ \A m \in Node : c \notin chans[m]
    /\ chans' = [chans EXCEPT ![n] = @ \cup {c}]
    /\ PublishChannel(n, c)
    /\ UNCHANGED <<groups, events, blocked, sess, wire, liveQ>>

(* Node::create_group: a group nobody is in yet, with its first channel.  It is
   not announced; others join by invite. *)
CreateGroup(n, c) ==
    /\ \A m \in Node : GroupOf[c] \notin groups[m] /\ c \notin chans[m]
    /\ groups' = [groups EXCEPT ![n] = @ \cup {GroupOf[c]}]
    /\ chans' = [chans EXCEPT ![n] = @ \cup {c}]
    /\ UNCHANGED <<events, blocked, sess, wire, queues>>

(* Node::import_invite of an invite m's node has built: the group if it is new,
   and the channels either way.  The sessions that run are not told. *)
ImportInvite(n, m, g) ==
    LET offered == {c \in chans[m] : GroupOf[c] = g}
    IN  /\ <<n, g>> \in Joinable
        /\ g \in groups[m] /\ offered # {}
        /\ groups' = [groups EXCEPT ![n] = @ \cup {g}]
        /\ chans' = [chans EXCEPT ![n] = @ \cup offered]
        /\ UNCHANGED <<events, blocked, sess, wire, queues>>

(* Node::block_peer and unblock_peer change the table and nothing else. *)
BlockPeer(n, p) ==
    /\ <<n, p>> \in Blockable /\ p \notin blocked[n]
    /\ blocked' = [blocked EXCEPT ![n] = @ \cup {p}]
    /\ UNCHANGED <<groups, chans, events, sess, wire, queues>>

UnblockPeer(n, p) ==
    /\ p \in blocked[n]
    /\ blocked' = [blocked EXCEPT ![n] = @ \ {p}]
    /\ UNCHANGED <<groups, chans, events, sess, wire, queues>>

User(n) ==
    \/ \E c \in Channel : SendMessage(n, c) \/ CreateChannel(n, c) \/ CreateGroup(n, c)
    \/ \E m \in Node, g \in Group : ImportInvite(n, m, g)
    \/ \E p \in Node : BlockPeer(n, p) \/ UnblockPeer(n, p)

Run(e) ==
    \/ Receive(e)
    \/ SendBatch(e)
    \/ FinishSending(e)
    \/ ForwardLive(e)
    \/ ForwardMeta(e)

Next ==
    \/ \E l \in Link : Open(l) \/ Drop(l)
    \/ \E e \in Endpoint : Run(e)
    \/ \E n \in Node : User(n)

Spec == Init /\ [][Next]_vars

-----------------------------------------------------------------------------
(***************************************************************************)
(* Fairness.  Tokio polls a task whose await is ready, and select! starts  *)
(* from a random arm, so no session action stays ready and untaken.        *)
(* Nothing makes a user act or a link connect.                             *)
(***************************************************************************)
SessionFairness ==
    \A e \in Endpoint :
        /\ WF_vars(Receive(e))
        /\ WF_vars(SendBatch(e))
        /\ WF_vars(FinishSending(e))
        /\ WF_vars(ForwardLive(e))
        /\ WF_vars(ForwardMeta(e))

FairSpec == Spec /\ SessionFairness

(* README.md, "when they reconnect": two peers meet again and again, and a live
   session ends some day.  An assumption about the users, not about the code. *)
ReconnectFairness == \A l \in Link : WF_vars(Open(l)) /\ WF_vars(Drop(l))

ReconnectSpec == FairSpec /\ ReconnectFairness

-----------------------------------------------------------------------------
(***************************************************************************)
(* Properties.                                                             *)
(***************************************************************************)

(* Every variable has its type. *)
TypeOK ==
    /\ groups \in [Node -> SUBSET Group]
    /\ chans \in [Node -> SUBSET Channel]
    /\ events \in [Node -> SUBSET Event]
    /\ blocked \in [Node -> SUBSET Node]
    /\ sess \in [Endpoint -> Session]
    /\ wire \in [Endpoint -> Seq(Frame)]
    /\ liveQ \in [Endpoint -> Seq(Event)]
    /\ metaQ \in [Endpoint -> Seq(Channel)]

(* Replicas agree: whatever sessions, relays, losses and reconnections did, two
   stores never hold different events under one (group, author, sequence)
   (store.rs, insert_remote_event and the UNIQUE constraint). *)
LogsAgree == Log!Agreement

(* The stores implement the abstract log: every step of every session publishes
   by the author, or copies what some store holds, or leaves the logs alone. *)
LogSpec == Log!Spec

(* An event is in a frame or in a live queue only after it is in the store of the
   node that sends it: nothing is announced that a restart could not send again
   (Node::send and run_authenticated_session publish after the insert). *)
Carried(f) ==
    CASE f.kind = "batch" -> f.events
      [] f.kind = "live" -> {f.event}
      [] OTHER -> {}

Backed(S) == {f \in Frame : Carried(f) \subseteq S}
InFlight ==
    \A e \in Endpoint :
        /\ wire[e] \in Seq(Backed(events[Home(e)]))
        /\ liveQ[e] \in Seq(events[Home(e)])

(* A session that reached the live loop stores everything its peer announced:
   inventories, requests, batches and the transfer's end leave no number out
   (network.rs, missing_ranges to receive_requested_events). *)
SyncCoverage ==
    \A e \in Endpoint : sess[e].phase = "live" =>
        \A k \in Group \X Node :
            1..sess[e].theirs[k] \subseteq SeqsIn(events[Home(e)], k[1], k[2])

(* The groups a frame names: it tells whoever reads it that the sender is in
   them.  A GroupProof carries its group_id as it is (network.rs:216-220). *)
GroupsIn(f) ==
    CASE f.kind = "proofs" -> f.groups
      [] f.kind = "channels" -> {GroupOf[c] : c \in f.channels}
      [] f.kind = "inventories" -> {k[1] : k \in {j \in Group \X Node : f.heads[j] > 0}}
      [] f.kind = "requests" -> {r.group : r \in f.ranges}
      [] f.kind = "batch" -> {GroupOfEvent(x) : x \in f.events}
      [] f.kind = "live" -> {GroupOfEvent(f.event)}
      [] f.kind = "upsert" -> {GroupOf[f.channel]}
      [] OTHER -> {}

(* Past the exchange of proofs a session names only groups that it settled on in
   the handshake and that both its nodes are in, whichever groups they join or
   create while it runs (run_authenticated_session and its filters by
   shared_groups, network.rs:408-592). *)
BodiesConfined ==
    \A e \in Endpoint : \A i \in DOMAIN wire[e] :
        wire[e][i].kind # "proofs" =>
            /\ GroupsIn(wire[e][i]) \subseteq sess[e].shared
            /\ GroupsIn(wire[e][i]) \subseteq groups[Home(e)] \cap groups[Far(e)]

(* README.md:84-85, "Direct connection alone does not reveal groups; both peers
   must possess the invite": no frame at all, the proofs included, names a group
   that not both nodes are in. *)
NothingRevealed ==
    \A e \in Endpoint : \A i \in DOMAIN wire[e] :
        GroupsIn(wire[e][i]) \subseteq groups[Home(e)] \cap groups[Far(e)]

(* Two ends that follow the protocol stay in step: no session ever ends for a
   record its phase does not expect, a range nobody should ask for, a group the
   session does not share, or two events under one number. *)
EndsInStep ==
    \A e \in Endpoint : sess[e].phase \notin {"record", "range", "group", "equivocation"}

(* A session adds no event of an author the node has blocked, although the block
   may come at any moment of a running session (store.rs:245). *)
BlockHolds ==
    [][\A n \in Node : \A x \in events'[n] \ events[n] : x.author \notin blocked[n]]_vars

(* Until both are in the live loop, the two ends of a connection never wait for
   each other, for a record in read_frame or for room in write_all, but when both
   are writing (run_session to receive_requested_events, network.rs:310-670). *)
Reading(e) == ~Writing(e) /\ sess[e].phase # "sending"
Waits(e) == Writing(e) \/ (Reading(e) /\ wire[Peer(e)] = <<>>)
NoStandoff ==
    \A e \in Endpoint :
        sess[e].phase \in Handshake \cup Syncing /\ Waits(e) /\ Waits(Peer(e))
            => Writing(e) /\ Writing(Peer(e))

(* When two ends that share a group have begun to sync, both reach the live loop,
   or the connection ends: they never wait for each other for ever, and a range of
   several batches comes to its last (network.rs:395-470, 605-640). *)
Syncs(l) == \E s \in Side : sess[<<l, s>>].phase \in Syncing
SyncFinishes == \A l \in Link : Syncs(l) ~> ~Syncs(l)

(* An event queued for a live peer in one of the session's groups gets to the
   peer's store, or the session ends (network.rs:521-529). *)
LivePushed ==
    \A e \in Endpoint, c \in Channel, a \in Node, s \in 1..MaxSeq :
        LET x == [author |-> a, seq |-> s, chan |-> c] IN
        (GroupOf[c] \in sess[e].shared /\ \E i \in DOMAIN liveQ[e] : liveQ[e][i] = x)
            ~> (x \in events[Far(e)] \/ sess[e].phase \in Ended)

(* Events travel on: while every link is live, an event on its way from e to a
   node that does not have it yet goes on over that node's other sessions, or one
   of the sessions ends (network.rs:486-489). *)
AllLive == \A e \in Endpoint : sess[e].phase = "live"
Relayed(e, f, x) ==
    (/\ Far(e) = Home(f) /\ f # Peer(e)
     /\ AllLive
     /\ x \notin events[Far(e)] /\ \E i \in DOMAIN liveQ[e] : liveQ[e][i] = x)
        ~> (x \in events[Far(f)] \/ ~AllLive)

(* Relaying ends: an event or channel is published to a node's sessions only
   when it is new to the store, so once no more links are opened the sessions
   fall silent (network.rs:486-487). *)
Silent == \A e \in Endpoint : wire[e] = <<>> /\ liveQ[e] = <<>> /\ metaQ[e] = <<>>
RelayEnds == <>[][\A l \in Link : ~Open(l)]_vars => <>[]Silent

(* Once the users stop blocking and unblocking, nodes that keep reconnecting end
   up with the same events of the groups they share, those of blocked authors
   aside ("missing history is synchronized directly from other group members
   when they reconnect", README.md:3-5). *)
Welcome(n, m) ==
    {x \in events[n] : /\ GroupOfEvent(x) \in groups[n] \cap groups[m]
                       /\ x.author \notin blocked[n] \cup blocked[m]}
Heals ==
    <>[][UNCHANGED blocked]_vars =>
        \A l \in Link : LET d == Ends[l]["dial"]  a == Ends[l]["accept"] IN
            <>[](a \in blocked[d] \/ d \in blocked[a] \/ Welcome(d, a) = Welcome(a, d))
=============================================================================
