------------------------------ MODULE Composer ------------------------------
(***************************************************************************)
(* What the user has typed and not sent: the composer and the drafts of    *)
(* OpencordApp (src/app.rs) as the selected group and channel change, by   *)
(* the user's hand or because the store changed under the window.          *)
(*                                                                         *)
(* A text is an atom, typed once; the composer and each draft hold a set   *)
(* of texts.  A read of the store may fail, at most MaxFailures times.  An *)
(* operation that fails otherwise shows a toast and changes nothing.       *)
(***************************************************************************)
EXTENDS Rooms

CONSTANTS
    Text,
    MaxFailures   \* bound: reads of the store that fail

ASSUME ComposerAssumption == MaxFailures \in Nat

VARIABLES
    haveGroups, haveChannels,      \* the tables of the store
    groupsShown, channelsShown,    \* OpencordApp.groups, .channels
    selectedGroup, selectedChannel,
    composer,                      \* texts in the composer
    drafts,                        \* [Channel -> SUBSET Text]
    modal,                         \* the dialog on the screen
    typedIn, sentIn,               \* where a text was typed, where it was sent
    carried,                       \* texts CreateChannel moved to the new channel
    failedReads

stored == <<haveGroups, haveChannels>>
selection == <<groupsShown, channelsShown, selectedGroup, selectedChannel, failedReads>>
texts == <<composer, drafts, typedIn, sentIn, carried>>
composerVars == <<stored, selection, texts, modal>>

Modal == {"none", "group", "join", "channel", "switcher", "other"}

ChannelsIn(channels, g) == {c \in channels : GroupOf[c] = g}

ComposerTypeOK ==
    /\ haveGroups \subseteq Group
    /\ haveChannels \subseteq {c \in Channel : GroupOf[c] \in haveGroups}
    /\ groupsShown \subseteq haveGroups
    /\ selectedGroup \in groupsShown \cup {None}
    /\ channelsShown \subseteq ChannelsIn(haveChannels, selectedGroup)
    /\ selectedChannel \in channelsShown \cup {None}
    /\ composer \in SUBSET Text
    /\ drafts \in [Channel -> SUBSET Text]
    /\ typedIn \in [Text -> Channel \cup {None}]
    /\ sentIn \in [Text -> Channel \cup {None}]
    /\ carried \in SUBSET Text
    /\ modal \in Modal
    /\ failedReads \in 0..MaxFailures

-----------------------------------------------------------------------------
(* The first of a list, as the store orders it. *)
First(S) == IF S = {} THEN None ELSE CHOOSE x \in S : \A y \in S : Rank[x] <= Rank[y]

(* Slip: a selection that is there is kept, shown or not. *)
KeepAnyway(x, S) == IF x = None THEN First(S) ELSE x

(* A selection that is not in the new list falls to the first. *)
Keep(x, S) == IF x \in S THEN x ELSE First(S)

(* refresh, after g and c were selected.  A list of groups that cannot be read
   stays as it was, a list of channels becomes empty.  The timeline follows
   the selected channel. *)
Refresh(g, c) ==
    \E failed \in SUBSET {"groups", "channels"} :
        /\ failedReads' = failedReads + Cardinality(failed)
        /\ failedReads' <= MaxFailures
        /\ groupsShown' = IF "groups" \in failed THEN groupsShown ELSE haveGroups'
        /\ selectedGroup' = Keep(g, groupsShown')
        /\ channelsShown' = IF "channels" \in failed THEN {}
                            ELSE ChannelsIn(haveChannels', selectedGroup')
        /\ selectedChannel' = Keep(c, channelsShown')

RefreshInPlace == Refresh(selectedGroup, selectedChannel)

(* save_current_draft: the composer becomes the draft of the channel. *)
Saved ==
    IF selectedChannel = None THEN drafts
    ELSE [drafts EXCEPT ![selectedChannel] = composer]

(* Slip: the draft is copied to the composer and stays. *)
RestoreCopies(saved) ==
    /\ composer' = IF selectedChannel' = None THEN {} ELSE saved[selectedChannel']
    /\ drafts' = saved

(* restore_current_draft: the draft of the channel now selected becomes the
   composer, and what the composer had is gone. *)
Restore(saved) ==
    IF selectedChannel' = None
    THEN composer' = {} /\ drafts' = saved
    ELSE /\ composer' = saved[selectedChannel']
         /\ drafts' = [saved EXCEPT ![selectedChannel'] = {}]

ComposerInit ==
    /\ haveGroups \in SUBSET Group
    /\ haveChannels \in SUBSET {c \in Channel : GroupOf[c] \in haveGroups}
    /\ \A g \in haveGroups : ChannelsIn(haveChannels, g) # {}
    /\ groupsShown = haveGroups
    /\ selectedGroup = First(groupsShown)
    /\ channelsShown = ChannelsIn(haveChannels, selectedGroup)
    /\ selectedChannel = First(channelsShown)
    /\ composer = {}
    /\ drafts = [c \in Channel |-> {}]
    /\ modal = "none"
    /\ typedIn = [t \in Text |-> None]
    /\ sentIn = [t \in Text |-> None]
    /\ carried = {}
    /\ failedReads = 0

-----------------------------------------------------------------------------
(* Selecting. *)

SelectGroup(g) ==
    /\ g \in groupsShown \ {selectedGroup}
    /\ UNCHANGED <<stored, typedIn, sentIn, carried, modal>>
    /\ Refresh(g, None)
    /\ Restore(Saved)

(* Slip: the composer stays when the channel changes. *)
SelectChannelOnly(c) ==
    /\ c # selectedChannel
    /\ Refresh(selectedGroup, c)
    /\ UNCHANGED <<composer, drafts>>

(* select_channel, behind the channel list, the switcher and the arrow keys. *)
SelectChannel(c) ==
    /\ c # selectedChannel
    /\ Refresh(selectedGroup, c)
    /\ Restore(Saved)

ClickChannel(c) ==
    /\ c \in channelsShown
    /\ UNCHANGED <<stored, typedIn, sentIn, carried, modal>>
    /\ SelectChannel(c)

(* Alt and an arrow: the channel before or after, around the ends. *)
ArrowKey(c) ==
    /\ selectedChannel \in channelsShown
    /\ c \in channelsShown
    /\ LET between(a, b) == {d \in channelsShown : Rank[a] < Rank[d] /\ Rank[d] < Rank[b]}
           outside(a, b) == {d \in channelsShown : Rank[d] < Rank[a] \/ Rank[b] < Rank[d]}
           adjacent(a, b) == \/ Rank[a] < Rank[b] /\ between(a, b) = {}
                             \/ Rank[b] < Rank[a] /\ outside(b, a) = {}
       IN  adjacent(selectedChannel, c) \/ adjacent(c, selectedChannel)
    /\ UNCHANGED <<stored, typedIn, sentIn, carried, modal>>
    /\ SelectChannel(c)

(* The switcher closes on the channel it found, the selected one included. *)
QuickSwitch(c) ==
    /\ modal = "switcher"
    /\ c \in channelsShown
    /\ modal' = "none"
    /\ UNCHANGED <<stored, typedIn, sentIn, carried>>
    /\ \/ SelectChannel(c)
       \/ c = selectedChannel /\ UNCHANGED <<selection, composer, drafts>>

-----------------------------------------------------------------------------
(* Writing and sending. *)

(* A text typed into the composer, or quoted by Reply. *)
Type(t) ==
    /\ selectedChannel # None
    /\ typedIn[t] = None
    /\ typedIn' = [typedIn EXCEPT ![t] = selectedChannel]
    /\ composer' = composer \cup {t}
    /\ UNCHANGED <<stored, selection, drafts, sentIn, carried, modal>>

(* send_composer, when node.send succeeds. *)
Send ==
    /\ selectedChannel # None
    /\ composer # {}
    /\ sentIn' = [t \in Text |-> IF t \in composer THEN selectedChannel ELSE sentIn[t]]
    /\ composer' = {}
    /\ UNCHANGED <<stored, drafts, typedIn, carried, modal>>
    /\ RefreshInPlace

(* send_attachment: a file picked or dropped, and the refresh. *)
SendAttachment ==
    /\ selectedChannel # None
    /\ UNCHANGED <<stored, texts, modal>>
    /\ RefreshInPlace

-----------------------------------------------------------------------------
(* Dialogs.  They do not block the window: any of the actions above may come
   while one is open. *)

OpenModal(m) ==
    /\ m # modal
    /\ modal' = m
    /\ UNCHANGED <<stored, selection, texts>>

(* The rail: About, create a group, join one. *)
ServerRail == \E m \in {"group", "join", "other"} : OpenModal(m)

(* The side bar and its menu: create a channel, Settings, and an invite, which
   takes a group. *)
SideBar == \E m \in {"channel", "other"} : OpenModal(m)

(* The header: connect, or invite. *)
Header == OpenModal("other")

(* The command key with K or the comma. *)
Shortcut == \E m \in {"switcher", "other"} : OpenModal(m)

(* The buttons of a window without a group. *)
EmptyState == groupsShown = {} /\ \E m \in {"group", "join"} : OpenModal(m)

(* Escape, Cancel and Close. *)
CloseModal ==
    /\ modal # "none"
    /\ modal' = "none"
    /\ UNCHANGED <<stored, selection, texts>>

(* A new group has one channel.  The window stays where it is, if it is
   anywhere. *)
CreateGroup(g, c) ==
    /\ modal = "group"
    /\ g \notin haveGroups
    /\ GroupOf[c] = g
    /\ haveGroups' = haveGroups \cup {g}
    /\ haveChannels' = haveChannels \cup {c}
    /\ RefreshInPlace
    /\ modal' = "none"
    /\ UNCHANGED texts

(* The invite lists the group's channels; the device may be in the group. *)
JoinGroup(g, channels) ==
    /\ modal = "join"
    /\ channels # {}
    /\ haveGroups' = haveGroups \cup {g}
    /\ haveChannels' = haveChannels \cup channels
    /\ RefreshInPlace
    /\ modal' = "none"
    /\ UNCHANGED texts

(* The channel is made in the group selected by now and selected in place: the
   old channel's draft is not saved, the composer goes along. *)
CreateChannel(c) ==
    /\ modal = "channel"
    /\ selectedGroup # None
    /\ c \notin haveChannels
    /\ GroupOf[c] = selectedGroup
    /\ haveChannels' = haveChannels \cup {c}
    /\ UNCHANGED <<haveGroups, composer, drafts, typedIn, sentIn>>
    /\ Refresh(selectedGroup, c)
    /\ carried' = carried \cup composer
    /\ modal' = "none"

-----------------------------------------------------------------------------
(* The rest of the device. *)

(* A session stores a channel of a group the device is in. *)
MergeChannel(c) ==
    /\ c \notin haveChannels
    /\ GroupOf[c] \in haveGroups
    /\ haveChannels' = haveChannels \cup {c}
    /\ UNCHANGED <<haveGroups, selection, texts, modal>>

(* The frame that sees a new generation. *)
FrameRefresh ==
    /\ UNCHANGED <<stored, texts, modal>>
    /\ RefreshInPlace

ComposerNext ==
    \/ \E g \in Group : SelectGroup(g)
    \/ \E c \in Channel :
        \/ ClickChannel(c) \/ ArrowKey(c) \/ QuickSwitch(c)
        \/ CreateChannel(c) \/ MergeChannel(c)
    \/ \E t \in Text : Type(t)
    \/ Send \/ SendAttachment \/ FrameRefresh
    \/ ServerRail \/ SideBar \/ Header \/ Shortcut \/ EmptyState \/ CloseModal
    \/ \E g \in Group, c \in Channel : CreateGroup(g, c)
    \/ \E g \in Group : \E channels \in SUBSET ChannelsIn(Channel, g) :
        JoinGroup(g, channels)

ComposerSpec == ComposerInit /\ [][ComposerNext]_composerVars

-----------------------------------------------------------------------------
Waiting == {t \in Text : typedIn[t] # None /\ sentIn[t] = None}

(* As long as the store could be read, a text that was typed and not sent is in
   one place, the composer or one draft, and a text that was sent is in none:
   no sequence of selections, dialogs and refreshes loses it or sends it twice
   (save_current_draft, restore_current_draft and the calls around refresh). *)
TextKept ==
    failedReads = 0 =>
        /\ \A t \in Text : t \in Waiting <=> t \in composer \/ \E c \in Channel : t \in drafts[c]
        /\ \A c \in Channel : drafts[c] \cap composer = {}
        /\ \A c, d \in Channel : c # d => drafts[c] \cap drafts[d] = {}

(* And it waits in the channel it was typed in, and is sent there and nowhere
   else, unless CreateChannel carried it into the new channel. *)
AtHome ==
    failedReads = 0 => \A t \in Text \ carried :
        /\ t \in composer => typedIn[t] = selectedChannel
        /\ \A c \in Channel : t \in drafts[c] => typedIn[t] = c
        /\ sentIn[t] \in {None, typedIn[t]}
=============================================================================
