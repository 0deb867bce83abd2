------------------------------ MODULE Presence ------------------------------
(***************************************************************************)
(* How the window of one OpenCord node learns what its sessions changed:   *)
(* SharedNetworkState (src/network.rs) with its session counts, generation *)
(* and waker, and the polling of OpencordApp (src/app.rs).                 *)
(*                                                                         *)
(* Sessions run on the network runtime and the window on the main thread.  *)
(* A session changes the store or the session counts under a lock, lets go *)
(* of the lock, then adds one to the generation, then calls the waker:     *)
(* three steps here.  The window reads counts, generation, channels and    *)
(* timeline under separate locks, one step each.  The status lines and the *)
(* advertised addresses are left out: they are text, read with the counts. *)
(***************************************************************************)
EXTENDS Naturals, FiniteSets

CONSTANTS
    Peer,         \* remote peers
    Session,      \* authenticated connections, each used once
    PeerOf,       \* [Session -> Peer]
    MaxEvents,    \* bound: events the store can get
    MaxChannels   \* bound: channels the store can get

ASSUME PresenceAssumption ==
    /\ IsFiniteSet(Session)
    /\ PeerOf \in [Session -> Peer]
    /\ MaxEvents \in Nat
    /\ MaxChannels \in Nat

VARIABLES
    counts,      \* [Peer -> Nat], Presence.sessions; 0 where there is no entry
    generation,  \* SharedNetworkState.generation
    waker,       \* whether the window has installed its waker
    store,       \* how many events and channels the store has
    task,        \* [Session -> Task], where each session is
    repaint,     \* whether egui was asked for a frame it has not begun
    ui,          \* where the window's thread is
    seen         \* what the window shows, and last_generation

vars == <<counts, generation, waker, store, task, repaint, ui, seen>>

(* What a session still owes after a change: the bump of the generation,
   then the call of the waker.  news is the number of events it stored and
   has not bumped for. *)
Task == [phase: {"idle", "channels", "events", "live", "over"},
         due: {"none", "bump", "wake"}, news: {0, 1}]
Connected == {"channels", "events", "live"}
Tables == [events: 0..MaxEvents, channels: 0..MaxChannels]
Idle == [phase |-> "idle", due |-> "none", news |-> 0]

TypeOK ==
    /\ counts \in [Peer -> Nat]
    /\ generation \in Nat
    /\ waker \in BOOLEAN
    /\ store \in Tables
    /\ task \in [Session -> Task]
    /\ repaint \in BOOLEAN
    /\ ui \in {"start", "idle", "poll", "sent", "created",
              "refresh", "network", "channels", "timeline"}
    /\ seen \in [peers: SUBSET Peer, generation: Nat,
                 events: 0..MaxEvents, channels: 0..MaxChannels]

Init ==
    /\ counts = [p \in Peer |-> 0]
    /\ generation = 1
    /\ waker = FALSE
    /\ store = [events |-> 0, channels |-> 0]
    /\ task = [s \in Session |-> Idle]
    /\ repaint = FALSE
    /\ ui = "start"
    /\ seen = [peers |-> {}, generation |-> 0, events |-> 0, channels |-> 0]

(* The peers NetworkSnapshot lists. *)
OnlinePeers == {p \in Peer : counts[p] > 0}

-----------------------------------------------------------------------------
(* The sessions. *)

(* A session is free to go on when its last change is announced. *)
Free(s, phases) == task[s].phase \in phases /\ task[s].due = "none"

Owe(s, phase, n) ==
    task' = [task EXCEPT ![s] = [phase |-> phase, due |-> "bump", news |-> n]]

Online(s) ==
    /\ Free(s, {"idle"})
    /\ counts' = [counts EXCEPT ![PeerOf[s]] = @ + 1]
    /\ Owe(s, "channels", 0)
    /\ UNCHANGED <<generation, waker, store, repaint, ui, seen>>

(* Slip: the session is taken offline and goes on. *)
OfflineTooEarly(s) ==
    /\ Free(s, Connected)
    /\ counts' = [counts EXCEPT ![PeerOf[s]] = @ - 1]
    /\ Owe(s, task[s].phase, 0)
    /\ UNCHANGED <<generation, waker, store, repaint, ui, seen>>

(* Slip: the first session to end takes the whole peer offline. *)
OfflineRemoves(s) ==
    /\ Free(s, Connected)
    /\ counts' = [counts EXCEPT ![PeerOf[s]] = 0]
    /\ Owe(s, "over", 0)
    /\ UNCHANGED <<generation, waker, store, repaint, ui, seen>>

(* run_authenticated_session returned, with or without an error. *)
Offline(s) ==
    /\ Free(s, Connected)
    /\ counts' = [counts EXCEPT ![PeerOf[s]] = IF @ = 0 THEN 0 ELSE @ - 1]
    /\ Owe(s, "over", 0)
    /\ UNCHANGED <<generation, waker, store, repaint, ui, seen>>

(* A new event of the peer, from a batch or pushed live. *)
StoreEvent(s) ==
    /\ Free(s, {"events", "live"})
    /\ store.events < MaxEvents
    /\ store' = [store EXCEPT !.events = @ + 1]
    /\ Owe(s, task[s].phase, 1)
    /\ UNCHANGED <<counts, generation, waker, repaint, ui, seen>>

(* A new channel in the Channels record of the handshake: no bump. *)
MergeChannel(s) ==
    /\ Free(s, {"channels"})
    /\ store.channels < MaxChannels
    /\ store' = [store EXCEPT !.channels = @ + 1]
    /\ UNCHANGED <<counts, generation, waker, task, repaint, ui, seen>>

(* The channels are merged, or the transfer is over. *)
Advance(s) ==
    /\ Free(s, {"channels", "events"})
    /\ task' = [task EXCEPT ![s].phase = IF @ = "channels" THEN "events" ELSE "live"]
    /\ UNCHANGED <<counts, generation, waker, store, repaint, ui, seen>>

(* A new channel in a ChannelUpsert. *)
UpsertChannel(s) ==
    /\ Free(s, {"live"})
    /\ store.channels < MaxChannels
    /\ store' = [store EXCEPT !.channels = @ + 1]
    /\ Owe(s, "live", 0)
    /\ UNCHANGED <<counts, generation, waker, repaint, ui, seen>>

(* bump: the generation, then the waker if there is one. *)
Bump(s) ==
    /\ task[s].due = "bump"
    /\ generation' = generation + 1
    /\ task' = [task EXCEPT ![s].due = "wake", ![s].news = 0]
    /\ UNCHANGED <<counts, waker, store, repaint, ui, seen>>

(* Slip: the waker is not called. *)
WakeForgotten(s) ==
    /\ task[s].due = "wake"
    /\ task' = [task EXCEPT ![s].due = "none"]
    /\ UNCHANGED <<counts, generation, waker, store, repaint, ui, seen>>

Wake(s) ==
    /\ task[s].due = "wake"
    /\ repaint' = (repaint \/ waker)
    /\ task' = [task EXCEPT ![s].due = "none"]
    /\ UNCHANGED <<counts, generation, waker, store, ui, seen>>

-----------------------------------------------------------------------------
(* The window. *)

(* OpencordApp::new: the waker first, then the first refresh. *)
Start ==
    /\ ui = "start"
    /\ waker' = TRUE
    /\ ui' = "refresh"
    /\ UNCHANGED <<counts, generation, store, task, repaint, seen>>

(* A frame: asked for, or because of input. *)
BeginFrame ==
    /\ ui = "idle"
    /\ repaint' = FALSE
    /\ ui' = "poll"
    /\ UNCHANGED <<counts, generation, waker, store, task, seen>>

(* The frame takes a snapshot for its generation only. *)
Poll ==
    /\ ui = "poll"
    /\ ui' = IF generation # seen.generation THEN "refresh" ELSE "idle"
    /\ UNCHANGED <<counts, generation, waker, store, task, repaint, seen>>

(* The user sends a message or creates a channel: the store, then the bump,
   then a refresh. *)
Send ==
    /\ ui = "idle"
    /\ store.events < MaxEvents
    /\ store' = [store EXCEPT !.events = @ + 1]
    /\ ui' = "sent"
    /\ UNCHANGED <<counts, generation, waker, task, repaint, seen>>

CreateChannel ==
    /\ ui = "idle"
    /\ store.channels < MaxChannels
    /\ store' = [store EXCEPT !.channels = @ + 1]
    /\ ui' = "created"
    /\ UNCHANGED <<counts, generation, waker, task, repaint, seen>>

BumpOwn ==
    /\ ui \in {"sent", "created"}
    /\ generation' = generation + 1
    /\ repaint' = (repaint \/ waker)
    /\ ui' = "refresh"
    /\ UNCHANGED <<counts, waker, store, task, seen>>

(* refresh: the snapshot (peers, then generation), the channels, the timeline,
   each under a lock of its own. *)
Read(at, next, field, value) ==
    /\ ui = at
    /\ seen' = [seen EXCEPT ![field] = value]
    /\ ui' = next
    /\ UNCHANGED <<counts, generation, waker, store, task, repaint>>

(* Slip: the timeline is read before the generation. *)
RefreshTimelineFirst ==
    \/ Read("refresh", "network", "peers", OnlinePeers)
    \/ Read("network", "channels", "events", store.events)
    \/ Read("channels", "timeline", "channels", store.channels)
    \/ Read("timeline", "idle", "generation", generation)

Refresh ==
    \/ Read("refresh", "network", "peers", OnlinePeers)
    \/ Read("network", "channels", "generation", generation)
    \/ Read("channels", "timeline", "channels", store.channels)
    \/ Read("timeline", "idle", "events", store.events)

-----------------------------------------------------------------------------
SessionStep(s) ==
    \/ Online(s) \/ Offline(s) \/ Advance(s)
    \/ StoreEvent(s) \/ MergeChannel(s) \/ UpsertChannel(s)
    \/ Bump(s) \/ Wake(s)
Next ==
    \/ \E s \in Session : SessionStep(s)
    \/ Start \/ BeginFrame \/ Poll \/ Send \/ CreateChannel \/ BumpOwn \/ Refresh

(* A runtime thread finishes the bump it began; the main thread goes on with
   the frame it is in, and egui paints when it was asked to.  Peers, users and
   input may stay away for ever. *)
Fairness ==
    /\ \A s \in Session : WF_vars(Bump(s) \/ Wake(s))
    /\ WF_vars(Start \/ Poll \/ BumpOwn \/ Refresh)
    /\ WF_vars(BeginFrame /\ repaint)

Spec == Init /\ [][Next]_vars
FairSpec == Spec /\ Fairness

-----------------------------------------------------------------------------
(* Sessions the counts stand for. *)
Counted(p) == {s \in Session : PeerOf[s] = p /\ task[s].phase \in Connected}

(* A peer with several sessions is listed until the last of them ends, and not
   after: its count is the number of its sessions between online and offline
   (network.rs, online, offline, and the calls around
   run_authenticated_session). *)
CountsMatch == \A p \in Peer : counts[p] = Cardinality(Counted(p))

(* Events stored and not yet announced by a bump. *)
Unannounced == {s \in Session : task[s].news = 1}
OwnNews == IF ui = "sent" THEN 1 ELSE 0

(* Between refreshes, events the window does not show are announced: each has a
   bump that is still to come or that the next poll will see, so no event can
   hide behind a generation the window has seen (app.rs, refresh reads the
   generation before the timeline; network.rs bumps after insert). *)
NoEventHidden ==
    ui \notin {"channels", "timeline"} =>
        store.events <= seen.events + Cardinality(Unannounced) + OwnNews
                        + (generation - seen.generation)

(* The timeline on the screen catches up with the store once events stop,
   whatever the user does (bump wakes the window, which polls and refreshes). *)
TimelineCatchesUp == <>[](seen.events = store.events)

(* What docs/ARCHITECTURE.md:47 makes of the generation for the other lists on
   the screen: once changes stop, the members and channels shown are the ones
   the node has. *)
ListsCatchUp == <>[](seen.peers = OnlinePeers /\ seen.channels = store.channels)
=============================================================================
