# OpenCord in TLA+

OpenCord is a peer-to-peer chat: every device keeps a log of signed events per
author and group, and peers that are in the same group exchange what the other
is missing. This directory models that program (`src/src/*.rs`) in TLA+, checks
the models with TLC on small instances, and proves the main safety results with
TLAPS for instances of any size. Line numbers refer to the sources as they are
here.

## 1. The system

| component | state | operations | meets the others through |
|---|---|---|---|
| event store (`store.rs`) | SQLite tables: groups, channels, events, peers, peer_endpoints, blocked_peers | `append`, `insert_remote_event`, `inventories`, `events_range`, `create_channel`, `merge_channel`, `import_invite`, `block_peer`, `remember_peer` | one `Mutex<Store>` taken call by call by the sessions and the UI |
| peer session (`network.rs`) | locals of `run_session`: phase, shared groups, inventories, requests; one QUIC stream per direction | hello, group proofs, channels, inventories, requests, transfer, live loop | frames to the peer; broadcasts from and to the node's other sessions; the store |
| node (`node.rs`) | endpoint, broadcast senders, command queue | `start`, `send`, `create_channel`, `import_invite`, `connect`, `block_peer`, `set_profile_name`, drop | store, broadcasts, network commands |
| presence (`network.rs:40-165`) | peers with a count of sessions, status lines, generation | `online`, `offline`, `note`, `bump`, `snapshot` | sessions write, the UI polls the generation |
| application (`app.rs`) | selection, drafts, composer, last generation seen | `refresh`, select, send, modals | node calls and snapshots |
| voice (`audio.rs`) | engine, encode and decode threads, playback queues | `join`, `leave`, mute, playback | incoming and outgoing voice broadcasts, datagrams |
| screen share (`screen.rs`) | worker, stop flag, group | `start`, `stop` | screen broadcast |
| identity file and crypto (`crypto.rs`) | `identity.ocid`, keys | load, create, save, seal, sign | node start, profile rename |
| settings (`settings.rs`) | `settings.json` | load, save, normalize | application |
| data model, entry points (`model.rs`, `lib.rs`, `main.rs`) | none | record types, argument parsing | |
| discovery, port mapping (`node.rs`) | library daemons | mDNS, UPnP | `Connect` commands |

What is hard here, and what must be true in spite of it:

* **Replication.** Sessions to several peers, relays, the user and failing links
  write to the logs concurrently. Replicas must never disagree about an entry; a
  finished sync must leave no announced event out; what one peer misses must come
  with a later session.
* **Session protocol.** Two ends change phase at different times, a store changes
  under them between two frames, a user joins groups and blocks peers meanwhile.
  The ends must stay in step, finish, serve only groups both are in, and respect
  a block at once.
* **Broadcasts.** `tokio::sync::broadcast` receivers exist only from the live loop
  on, lose their oldest value when full, and the loss is ignored.
* **Streams.** `write_all` waits for the peer to read; a session that waits there
  does nothing else.
* **Threads.** A call starts in steps each of which may fail, and ends by joining two
  threads; a screen share has a worker that may end by itself; the router is asked
  by a thread the node does not wait for. The window must not hang, and nothing may
  record or send that the window does not show.
* **Voice.** Datagrams are lost and overtake each other, numbers wrap, and a peer that
  joins again starts at zero.
* **Files.** The identity and the settings are each replaced by copying over them, and
  the program may be killed in the copy. A profile must keep its key and its name.
* **Start.** The name a profile runs under comes from the command line, the settings,
  the account or the identity file, in this order, and settings that cannot be read
  count as none.
* **Unsent text.** Selections change by hand and under the window; what was typed must
  neither be lost nor sent in the wrong channel.
* **Snapshots.** The window reads counts, generation, channels and timeline under
  separate locks while sessions change them; what it shows must catch up, and no
  change may hide behind a generation it has already seen.

`PROJECT.json` lists each hazard at its line with the properties that watch it.

## 2. Modules

| module | what it is |
|---|---|
| `Events` | events, their keys, and what a set of logs looks like that authors alone have extended |
| `EventLog` | the abstract promise: one log per node, `Publish` by the author, `Learn` from whoever holds the event |
| `SyncSession` | stores, sessions, streams and broadcasts, one action per handler; instances `EventLog` as `Log` |
| `MCSyncSession` | instances for TLC: nodes, links, seeds |
| `EventLogProofs` | the abstract log keeps `LogInv` and `Agreement` |
| `SyncSessionProofs` | lemmas on the helpers, type correctness, blocking, what frames and sessions may name |
| `SyncLogProofs` | the sessions implement the abstract log |
| `SyncStepProofs` | the two ends stay in step, serve only what they settled on, never wait for each other, and a finished sync is complete |
| `Presence`, `MCPresence` | session counts, generation and waker of one node, and the polling and refresh of its window |
| `PresenceProofs` | type correctness, session counts, and that no event is hidden |
| `LiveStream` | how one end of the live loop reads records that come in pieces |
| `Rooms` | the groups and channels of one device, shared by `Composer` and `ScreenShare` |
| `Composer` | selection, composer, drafts and dialogs of the window |
| `Voice` | a call: its start, its threads, mute, leave |
| `Playback` | the order in which the listener takes a peer's frames, and when it forgets a peer |
| `ScreenShare` | the worker of a share, its flag, and the button |
| `Profile` | the identity file and the settings file |
| `PortMapping` | the thread that maps the port, against the end of the node |
| `MCDesktop` | instances of the six local components for TLC |
| `ComposerProofs`, `VoiceProofs` | their invariants |
| `DesktopProofs` | the invariants of `ScreenShare`, `Profile`, `Playback` and `PortMapping`, and the types of a whole device |

`EventLog` knows neither frames nor sessions. `SyncSession` is checked and proved
to implement it with the mapping `log <- events`, the events table of every node.
The local components share no variable with each other or with the sessions: they
meet the rest through packets and calls whose effect here is only that a packet
comes or goes, or that a table grows.

### State of `SyncSession` and the code

| variable | code |
|---|---|
| `groups`, `chans`, `events`, `blocked` | tables of `store.rs:57-107` per node. An event is its author, sequence and channel; the channel determines the group |
| `sess[e]` | locals of `run_session` at one end `e = <<link, side>>`; `phase` is the `await` it is at; a local is reset to its initial value where the code no longer uses it |
| `wire[e]` | frames sent by `e` on its QUIC stream and not yet read |
| `liveQ[e]`, `metaQ[e]` | the session's receivers of the node's `live_events` and `metadata` broadcasts |

`GroupOf` is a constant, because a channel's id is random and its group never
changes. An inventory is a function from (group, author) to a head, 0 where the
code's list has no entry.

### Actions of `SyncSession` and the code

| action | code |
|---|---|
| `Open`, `Drop` | a connection is made, by the accept loop or a `Connect` command; it fails or a node stops |
| `ReceiveHello`, `ReceiveProofs` | `run_session`: self, block and group checks |
| `ReceiveChannels`, `ReceiveInventories`, `ReceiveRequests` | `run_authenticated_session` up to the transfer |
| `SendBatch` (`SendRange`), `FinishSending` | `send_requested_events` |
| `ReceiveBatch`, `ReceiveDone` | `receive_requested_events`, then the subscription |
| `ReceiveLive`, `ReceiveUpsert`, `ForwardLive`, `ForwardMeta` | the arms of the live loop's `select!` |
| `SendMessage`, `CreateChannel`, `CreateGroup`, `ImportInvite`, `BlockPeer`, `UnblockPeer` | the `Node` methods of the same names (`Node::send`) |
| `End` | `run_session` returns: the connection is gone for both ends |

`Receive` reads the next frame and calls the handler of its kind if the phase
accepts it; otherwise the session ends, as the code's `bail!`s do.

### Granularity

* A handler is one step from one `receive_frame` to the next. The store's lock is
  taken several times in between, but the frames a session sends are fixed by the
  last read, and its writes commute with those of the node's other sessions (they
  add rows). Where this would hide something the step is split: a batch is
  inserted one event at a time, so a failure or a block can come in the middle,
  and every batch of a range reads the store anew.
* `SendMessage` is the append and the publication together. In the code a thread
  switch may come between them; publishing later is the same as a slower session.
  One that subscribes in between receives the event although it was not there for
  the append; this only helps delivery.
* `Open` sends both hellos at once: neither depends on anything received.
* The ranges of a request are served in any order (the code takes the order of the
  request), which includes the code's order.
* `End` clears both ends. The code's other end finds out at its next `await`; in
  between it can only do what a session that had not yet failed could do.
* `Window` is the number of event frames a stream holds beyond which `write_all`
  waits. It stands for the QUIC flow-control window; small records always fit.
* An invite is imported with the channels its group has at that moment. An invite made
  earlier lacks later channels, which the next session merges.
* A frame of proofs carries the ids of all groups of its sender, as in the code; a proof
  is a function of a secret and is not itself modelled.
* Signatures, keys and group proofs are ideal: an event names its author truly, and
  a proof succeeds exactly when both ends are in the group. Checks that such frames
  always pass (signature, id, sizes) are therefore not in the model.
* A frame is read whole. A read that is torn by another arm of `select!` (`LiveStream`)
  ends the session and is a `Drop` here.
* Left out of the session: the voice and screen arms, which pass packets on and keep no
  state (`Lose` of `Playback` is the arm that may drop a datagram), ping and pong,
  presence, and the limit of 10,000 ranges per request.

### `Presence` and the code

| definition | code |
|---|---|
| `counts`, `generation`, `waker` | `SharedNetworkState`: `Presence.sessions` per peer, the counter, whether `set_waker` has run |
| `store` | how many events and channels the store has; rows are only ever added |
| `task[s]` | a session after its handshake: which part of the protocol it is in, and whether it still owes a bump or the waker's call |
| `ui`, `seen` | where the main thread is in a frame; the members, channels and events it shows, and `last_generation` |
| `Online`, `Offline`, `Bump`, `Wake` | the methods; `note` is a bump here, as its line of text is left out |
| `StoreEvent`, `MergeChannel`, `UpsertChannel`, `Advance` | the session's writes: an event is inserted, then bumped for; a channel of the handshake is merged without a bump |
| `Start`, `BeginFrame`, `Poll`, `Read`, `Refresh` | `OpencordApp::new`, a frame of `ui`, `refresh`, one lock at a time |
| `Send`, `CreateChannel`, `BumpOwn` | the user's own changes: store, bump, then refresh |

A change, the bump and the waker's call are three steps, because the lock is dropped
between them. A snapshot reads the members before the generation, and `refresh` reads
channels and timeline after the snapshot.

### The local components and the code

| module | state | actions |
|---|---|---|
| `Composer` | tables of groups and channels; what the window lists and has selected; `composer` and `drafts` as sets of texts; `modal`; where each text was typed and sent (observers, no code) | `SelectGroup`, `SelectChannel` (behind `ClickChannel`, `ArrowKey`, `QuickSwitch`), `Type`, `Send`, `SendAttachment`, the buttons that open dialogs (`ServerRail`, `SideBar`, `Header`, `Shortcut`, `EmptyState`), `CloseModal`, `CreateGroup`, `JoinGroup`, `CreateChannel`, `MergeChannel` by a session, `FrameRefresh` |
| `Voice` | per attempt to join: flag, mute, microphone, queue of captured frames, places of the two threads; `active` and the step of the window's thread | `Join`, `StartStep`, `Joined`, `StartFails`, `Leave`, `JoinThreads`, `SetMuted`; the callback `Capture`; the encoder's `ReceiveFrame`, `CheckMuted`, `SendFrame`; the decoder's `Decode` |
| `Playback` | the sender's next number, datagrams in flight, the listener's `PeerDecoder` | `Talk`, `Rejoin`, `Lose`, `Hear`, `Mix`, `SetDeafened` |
| `ScreenShare` | per share its worker's place, flag and group; `held` (`ScreenShare.worker`), `showing` (the snapshot's group) | `Toggle`, `JoinWorker`, `Spawn`, `Work` |
| `Profile` | the two files (absent, torn, or their content), what is in memory, where the program is; `given`, the `--name` it was started with, and `chosen`, the name last saved (observers) | `Start` (with or without `--name`, and with settings that can or cannot be read; `LoadOrCreate` is `Generate` or `Load`), `Open`, `SaveIdentity`, `SaveSettings`, `SaveFails`, `Rename`, `ChangeSetting`, `Stop` (also a kill) |
| `PortMapping` | the router, the thread, the shared cell, the node | `StartNode`, `AskRouter`, `Advertise`, `StoreMapping`, `EndThread`, `Close`, `TakeMapping`, `Exit` |
| `LiveStream` | pieces in the stream, pieces the read in progress has taken, arms that are ready | `Write`, `Read`, `Arrive`, `Complete` |

What each abstracts: a text is an atom, and a whitespace-only composer counts as an empty
one; `refresh` of `Composer` is one step, since its reads are of the same store and
`Presence` has them apart; a frame of sound or of the screen is a count or nothing at
all; in `Voice` a timeout of `recv_timeout` and a mere turn of a loop change nothing and
are no step; in `Playback` a datagram carries how many frames were sent after it, an
observer that says what its number stands for, and time is counted in mixes; in
`Profile` the settings are the profile's name, the only one read back elsewhere, and a
file is whole or torn; an identity file that cannot be read just now keeps the program
from starting, which is no step. In `Voice` a frame has gone out when the node has it:
`MuteStops` does not speak of what the node's `voice_packets` broadcast holds by then.
A `SaveFails` after the copy stands for a temporary file that
cannot be removed.

Operators marked "Slip" are deliberate errors used only to confirm that a property
notices them; nothing else refers to them.

## 3. Properties

| property | says |
|---|---|
| `LogsAgree` (`Agreement` of `EventLog`) | two stores never hold different events under one (group, author, sequence) |
| `LogSpec` | every step publishes the author's next event, copies an event some store holds, or leaves the logs alone |
| `InFlight` | an event in a frame or a live queue is in its sender's store |
| `SyncCoverage` | a session in the live loop has every event its peer's inventory announced |
| `EndsInStep` | no session ends for an unexpected record, an absurd range, an unshared group or an equivocation |
| `NoStandoff` | until both are live, the two ends never wait for each other, except when both write into full streams |
| `BodiesConfined` | past the proofs, frames name only groups the session settled on and both nodes are in |
| `NothingRevealed` | no frame, the proofs included, names a group that not both nodes are in (does not hold, section 6) |
| `BlockHolds` | nothing of a blocked author is stored, whenever the block came |
| `SyncFinishes` | when two ends have begun to sync, both reach the live loop or the connection ends |
| `LivePushed` | an event queued for a peer in a shared group reaches its store or the session ends |
| `RelayedToCid`, `RelayEnds` | events cross a relay while its sessions are live; relaying falls silent |
| `Heals` | peers that keep reconnecting end with the same events of shared groups, except those of blocked authors, once blocking stops changing |
| `CountsMatch` | a peer's count is the number of its running sessions |
| `NoEventHidden` | an event the window does not show has a bump to come or one the next poll will see |
| `TimelineCatchesUp` | once events stop, the timeline on the screen is the one in the store |
| `ListsCatchUp` | the same for members and channels (does not hold, section 6) |
| `TextKept` | while the store can be read, an unsent text is in the composer or in one draft, a sent one in none |
| `AtHome` | a text waits in the channel it was typed in and is sent there, unless `CreateChannel` carried it along |
| `CallsEnd` | when the window is free, only the call it is in has a microphone, and no call that was joined and left has a thread |
| `MuteStops` | after a mute at most one frame goes out, however many are queued |
| `LeaveReturns`, `StopReturns` | the window's thread comes back from leaving a call, and from stopping a share |
| `FramesInOrder` | of the frames of one call a frame is taken exactly when it is newer than the last, across the wrap |
| `ListenerHearsAgain` | a listener is never deaf for ever to a peer whose packets get through |
| `SharesWhatItShows` | every thread that captures belongs to the share and the group on the screen |
| `OneIdentity` | a profile never runs with a second key |
| `NameKept` | a name the user was told is saved stays in the settings and is the one the profile runs under, but in runs with another `--name`, until the next rename or until the settings are cut short or cannot be read |
| `NoMappingLeft` | a dropped node leaves no mapping in the router, unless the program ends while the thread is still at it |
| `ReadsBeginAtRecords` | every read of a record begins at its length (does not hold, section 6) |
| `AudioOnlyWhileJoined` | with no call joined no voice thread runs (does not hold, section 6) |

## 4. Runs and bounds

| run | instance | checks |
|---|---|---|
| `pair` | one link that fails in any phase; ann carries two events of an offline author; numbers to 2; batches of 1, window 1; a channel may be created | `TypeOK`, `LogsAgree`, `InFlight`, `SyncCoverage`, `EndsInStep`, `NoStandoff`, `LogSpec` |
| `groups` | either node may create a second group, bob may join it during a session and may block and unblock ann; the link fails in any phase; streams never fill; under fairness | `BodiesConfined`, `BlockHolds`, `LivePushed` |
| `relay` | three nodes in a line, both links, so that two sessions and the user of the middle one write its log; under fairness | `LogsAgree`, `RelayedToCid`, `RelayEnds` |
| `heal` | one link that is reopened for ever, live queues of one event, so broadcasts overflow; ann carries two events of an offline author; numbers to 2, batches of 1 | `Heals`, `SyncFinishes` |
| `stall` | a window that one event frame fills | `SyncFinishes` is violated |
| `revealed` | ann is in a group of hers, bob in another | `NothingRevealed` is violated |
| `poison` | bob may block cid, whose event ann carries | `Heals` is violated |
| `presence` | two sessions with bob, two events and a channel, a window that polls and a user who writes, under fairness | `TypeOK`, `CountsMatch`, `NoEventHidden`, `TimelineCatchesUp` |
| `stale` | the same with one event | `ListsCatchUp` is violated |
| `desktop` | each local component: two groups, three channels, two texts, a failed read; two calls with a queue of two; eight numbers, packets up to two frames late; packets in every draining, up to two; two shares; two keys, two names | the thirteen properties of the local components, with their types |
| `orphan` | the voice part of `desktop` | `AudioOnlyWhileJoined` is violated |
| `torn` | two records of a length and two pieces | `ReadsBeginAtRecords` is violated |

The bounds: `MaxSeq` (events per author and group) of 2 is the least that has a hole
below a held event, a range of two batches and a head between two numbers. `BatchMax` 1
makes a range of two take several batches, in `pair` and `heal`; in `groups` and
`relay` a log has one event, as what they ask is not about ranges. An offline third
author makes transfers of foreign events and relays without a third running node.
`LiveCap` is 1 in `heal`, which overflows, and larger than the number of events in
`groups`, because an event lost by overflow is not promised to arrive in that session.
`MetaCap` is 1. A line of three nodes is the least topology with a relay. One channel
can be created while sessions run, which suffices for every order of the channel and
the events in it.

`presence` needs two sessions with one peer, for the count, and two events, so that one
can arrive during the refresh the other caused; counts of different peers do not meet.

`desktop` picks one component at the start and lets the others rest. They share no
variable and no action, so for a property of one of them this loses nothing, and it
saves the product of their states. `DesktopTypeOK` is the conjunction of their types.
Two groups, one with two channels, are the least that has a change of group with a
draft left behind, a channel that comes while another is selected, and a fall of the
selection; two texts can be in two places. Two calls let an old one's threads meet a
new one, a queue of two has frames left after the one the encoder holds. In `Playback`
the code's 2^32 numbers are `Width = 8`, more than twice how late a packet can be, as in
the code; `Patience = 3` stands for 250 mixes, during which a peer that rejoined may be
taken for old. Two keys suffice to violate
`OneIdentity`; two names, one of them the account's and the other that of a profile nobody
named, make every rename and every `--name` visible. `MaxPackets` bounds the packets of
one draining of the decoder's queue, not their number: they may come for ever.

Every run of the sessions, and `desktop`, sets `CHECK_DEADLOCK FALSE`: with links that
may stay closed and users who may stay silent the sessions really may come to rest, as
may a node that has exited or a user who has used up calls and shares.

## 5. Fairness

`FairSpec` assumes weak fairness of each session action at each end: tokio polls
a task whose await is ready, and `select!` begins with a random arm, so no ready arm
is passed over for ever. Nothing is assumed of users or of links: `Open`, `Drop` and
the user's actions have no fairness in `FairSpec`.

`ReconnectSpec`, used for `Heals` only, also has peers meet again and again and live
sessions end some day. That is an assumption about the environment (README.md:3-5 of
the program, "when they reconnect"): the program dials known endpoints at start and
when discovery or the user says so, never because a session ended. `Heals` says what a
meeting repairs, not that peers meet.

In `Presence` a runtime thread that has changed something reaches its bump and the
waker (nothing in between waits for long), the main thread finishes the frame it is in,
and egui paints when asked to. Frames for other reasons (input), sessions and the
user's actions have no fairness.

In `desktop` each thread that exists goes on: the window's thread while it starts or
leaves a call or stops a share (these are straight-line code between joins), the encoder,
the decoder, the capture worker and the mix loop (threads of the operating system that
sleep only with a timeout). One draining of the decoder's queue ends: packets are taken
to be decoded faster than they come, every 20 ms from each peer, but a new draining may
find packets each time, for ever. `ListenerHearsAgain` also assumes, of the environment, that
the peer keeps talking and that of its datagrams one is received now and then (`Hear`,
strong fairness); the user's actions, losses and rejoins have no fairness. Each is stated
for the component the run has picked.

## 6. Where the program and its documents part

* **stall.** Each end sends all requested events (network.rs:471) before it reads any
  (network.rs:472). If both owe more than the streams buffer, both wait for ever.
* **poison.** An event of a blocked author makes `insert_remote_event` fail
  (store.rs:245) and the failure ends the session. Requests are not filtered by the
  block list, so every later session with that peer ends at the same event, before
  events of other authors that would come after it.

* **revealed.** The group proofs each carry the id of their group (network.rs:216-220), one
  for every group of the node, and they go out before the peer has proved anything
  (network.rs:332-345). A peer with none of these groups learns their ids, although
  README.md:84-85 says that a connection alone does not reveal groups and
  docs/PROTOCOL.md:14-15 that only proved groups are exposed. What comes after the
  proofs is confined (`BodiesConfined`).
* **torn.** `receive_frame` (network.rs:802-819) reads length and body with two
  `read_exact` calls and is dropped when another arm of the `select!` at network.rs:481
  completes; the bytes it had taken are lost, and the next read takes a piece of a
  body for a length (docs/PROTOCOL.md:3-4). The session ends, as for any unreadable
  frame; `SyncSession` reads whole frames and has this end as a `Drop`.
* **orphan.** `ActiveAudio::start` spawns its threads (audio.rs:162-192) before it plays the
  streams (audio.rs:194-195). An error in between leaves them running for good: README.md:25
  has audio active only while joined.
* **stale.** The window polls the generation (docs/ARCHITECTURE.md:47), but channels merged
  in the handshake (network.rs:444) do not move it: without another event the new
  channel is not listed. The member list can stay old by a race: `snapshot` copies the
  members before it loads the generation (network.rs:79, 90), so a peer that goes in
  between is shown under a generation that already counts its going. With
  `MaxChannels = 0` this race alone violates `ListsCatchUp`. The timeline is safe because
  it is read after the generation.

The following are steps of the models, and the properties that hold are stated so as to
allow them; no run is spent on showing them:

* An event appended between the inventories (network.rs:447) and the subscription to the
  live broadcast (network.rs:474) is in neither, and is not pushed in that session,
  although docs/ARCHITECTURE.md:60 has a connection push newly appended events. `Heals`
  shows that a later session repairs it.
* docs/PROTOCOL.md:31 and docs/ARCHITECTURE.md:58 have an inventory name the maximum stored
  number; `inventories` stops at the first missing one (store.rs:347). The code is right:
  with the maximum a hole would stay for ever (`MaximumHead`, which violates `Heals`).
* Creating a channel moves the selection without saving the draft (app.rs:1529), so the
  text typed in the old channel goes along to the new one, where README.md:16 has
  per-channel drafts. `AtHome` makes this one exception.
* `--name` wins over the saved name at every start (main.rs:58, crypto.rs:63-65), where
  main.rs:24 calls it the name "used when creating this profile": a renamed profile that is
  started again as README.md:80-81 does runs under the old name. `NameKept` says that the
  saved name is left alone and comes back in a run without `--name`.
* Settings that cannot be read are the default ones (settings.rs:112, main.rs:56), and the
  window then saves the name it runs under over the user's (app.rs:194-197).

## 7. What is proved

The proofs assume what the modules' ASSUMEs say: sessions of a window are finitely
many; links join known nodes, channels have a group, the bounds are natural numbers
(batches and queues of at least 1), nobody can be offered to block itself (the UI lists
other online peers only), and the seeds are a state the program can have reached:
authors hold what they wrote, with consecutive numbers, each used once. Nodes, groups,
channels and links are arbitrary sets.

* `EventLogProofs`: `LogInv` says that an author's own log has all it wrote, numbers
  1..k without holes, and each once. `Publish` keeps it because the next number is new;
  `Learn` keeps it because it never touches the author's own entries. Two events under
  one key were written by one author, whose log holds both, hence `Agreement`. Agreement
  alone is not inductive: it does not say that the author's next number is unused
  elsewhere.
* `SyncSessionProofs`: `TypeCorrect`. The substance is in the helpers: a contiguous head
  exists and is within bounds, a missing range begins at 1 or later, the event a batch
  handler inserts is one of the batch. `BlocksHold`: each step adds only events whose
  verdict was "ok" or that the node wrote itself. `ConfinedInv` is half of what
  `BodiesConfined` needs: every frame on a wire fits it (`Fit`: a body names groups both
  nodes are in, the proofs name groups of their sender), and every session shares only
  groups of its own node and, once it has the peer's proofs, of the peer's (`Shares`).
  Groups only grow, so nodes that join keep both.
* `SyncLogProofs`: the inductive invariant is `IInv == TypeOK /\ LogInv /\ InFlight`.
  `InFlight` is what makes a received event one that some store holds, so that
  inserting it is a `Learn`; `LogInv` is what makes the author's `MAX + 1` the number
  `Publish` asks for; the abstract lemmas give `LogInv'` from the abstract step. Results:
  `OnlyStoredIsSent`, `StoresAgree` and `Implements` (`Spec => LogSpec`).

* `PresenceProofs`: `CountsRight` needs no more than the types, since one step of a session
  changes its phase and the count together. `NothingHidden` is an account: every event
  adds one to the store and one to what is owed, a bump moves what is owed to the
  generation, a refresh settles it. It needs in addition that events are owed only until
  the bump (`NewsIsOwed`) and that the window never shows a generation that has not come
  (`SeenIsPast`).

* `ComposerProofs`: `TextsKept` and `TextsAtHome` from `ComposerInv`: the types; every group
  in the table has a channel (`GroupsHaveChannels`); and, while no read has failed,
  `Settled`: where no channel is selected there is no group and no text in the composer,
  the selected channel has no draft, and only channels of the store have one. `TextKept`
  alone is not inductive: a draft of the selected channel would be overwritten by the
  next save, and a refresh that loses the selection would lose the composer. A refresh
  keeps the selection because the tables only grow (`Grown`, `PlaceKept`). The first
  element of a list exists because ranks are well-founded.
* `VoiceProofs`: `CallsInv` says that every call but the engine's and the one being joined is
  closed, and that the encoder of the one being left is gone when the decoder is waited
  for. `MuteInv`: as long as the encoder is at "send" under a mute, nothing has gone out
  since the mute; afterwards it cannot come back there while the mute lasts.
* `SyncStepProofs` has three invariants of the two ends of a connection, each resting on
  the one before.
  * `InStep`. Every record has a place in the protocol, 1 (hello) to 8 (live); batches and
    live records may repeat, the others come once. A session's phase tells up to which
    place it has sent (`Sent`) and from which it has still to read (`Due`). Between a
    writer that has sent up to s and a reader that waits for d there is on the wire all
    that is between them, in order (`InOrder`). So the record a session reads is always
    one its phase accepts (`HeadIsAccepted`), and two ends that both read with nothing on
    either wire are both live (`ReadersTurn`), which is `NeverAtAStandoff`. What
    `NoStandoff` leaves out, both ends writing into full streams, does happen (run
    `stall`).
  * `Agreed`. The proofs on a wire are those of all groups their sender had at the hello
    (`ProofsAgree`), hence two ends past their handshakes share the same groups
    (`SharedAgree`), and bodies and requested ranges are of these groups (`BodiesAgree`).
    With `IInv`, by which no event contradicts one in a store, no check of the code that
    ends a session for a fault of its peer can fail: `NoFaultEndsASession`. `EndsInStep`
    alone says nothing of what is on its way. `ConfinedInv` and `Agreed` together give
    `OnlySharedGroupsServed`; `BodiesConfined` alone is not inductive, since what a
    session sends next follows from what it shares, and that from the proofs.
  * `CoverInv`. What a session announced or asked for is true of the stores (`Announced`:
    heads on the wire are held, ranges are served), and every number its peer announced to
    it is stored, in a range asked for, in a range still to be sent, or in a batch on its
    way (`Covered`). Reading the inventories asks for all that is beyond the own head; a
    batch with what is left of its range makes up the range (`BatchAndRestCover`: the
    events of a range are finitely many since the stores agree, and the batch takes the
    first of them); a batch read is stored. At `SyncDone` no request, range or batch is
    left (`NothingComing`, from the order of the wire), so all is stored: `SyncIsComplete`.
* `DesktopProofs`. `ScreenInv` adds to `SharesWhatItShows` that no share is held
  between the join and the spawn, which is what allows the group on the screen to
  change. `KeyInv` says that at most one key was ever used, that a file that can be
  read holds it, and that without a file no key was used, so that generating one is
  harmless. `NameInv` adds to `NameKept` what holds in the midst of a start and of a
  save: a program that runs has the saved name or the given one in memory, no copy of
  the settings is in progress while there is a saved name, and a rename has none until
  it is saved. `NumbersInv` says that the number of a frame of the present call counts
  the frames sent after it; two such numbers are less than half of them apart, where
  the wrapped difference tells which is newer (`NewerIsLater`), so `PlayedInOrder`
  holds for every `Width` that is more than twice how late a packet can be, the 2^32 of
  the code included. `PortInv` says that the router's mapping is in the cell once the
  thread has stored it, so that the last to let go of the cell removes it. The types of
  a component hold in the runs that pick it and in those in which it rests
  (`DesktopTypes`); that the parts do not touch is how `MCDesktop` puts them together
  and no result about the code.

Every invariant and every property of steps that a passing run checks is proved. Only
model-checked is liveness (`SyncFinishes`, `LivePushed`, `RelayedToCid`,
`RelayEnds`, `Heals`, `TimelineCatchesUp`, `LeaveReturns`, `StopReturns`,
`ListenerHearsAgain`), since fairness and ENABLED are out of the prover's reach.

## 8. Not modelled

* **Power loss.** With `synchronous=NORMAL` (store.rs:50) committed rows may be lost when the
  machine stops. What SQLite then keeps is not in this code; the models assume that
  committed rows stay. A crash of the program alone is a `Drop` or a `Stop`.
* **The peers and endpoints tables**, and the dialling of known endpoints at start: any link
  may open in `SyncSession`. mDNS likewise only issues `Connect` commands.
* **Limits that need large instances**: 10,000 ranges per request and the
  sizes of frames. Records too large are refused by both sides alike.
* **Both ends waiting in a live arm** (network.rs:523) is the wait of `stall` at another line.
* **The viewer's texture**, search, the toast, rendering and layout, argument parsing and the
  demo data: no state that another part of the program reads back.
* **Cryptography and codecs**: signatures, proofs and sealed channels are ideal; sound and
  pictures are data.

Worth doing next: the parts of the liveness properties that are safety, as for
`NoStandoff`: that a session in a sync always has less left to send and to read after a
step, and that a thread a window waits for can always go on.
