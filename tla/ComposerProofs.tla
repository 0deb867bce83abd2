--------------------------- MODULE ComposerProofs ---------------------------
(* No text is lost, doubled or sent to the wrong channel, for any groups,    *)
(* channels and texts and any sequence of selections, dialogs and refreshes. *)
EXTENDS Composer, FiniteSetTheorems, WellFoundedInduction, TLAPS

USE RoomsAssumption, ComposerAssumption DEF RoomsAssumption, ComposerAssumption

-----------------------------------------------------------------------------
(* Lists.  A list that is not empty has a first: the numbers it is ordered by
   have a least one. *)
LEMMA LeastNumber ==
    ASSUME NEW T, T \subseteq Nat, T # {}
    PROVE  \E x \in T : \A y \in T : x <= y
<1> DEFINE Less == {ss \in Nat \X Nat : ss[1] < ss[2]}
<1>1. Less = OpToRel(<, Nat)
  BY DEF OpToRel
<1>2. IsWellFoundedOn(Less, Nat)
  BY <1>1, NatLessThanWellFounded
<1>3. PICK x \in T : \A y \in T : ~(<<y, x>> \in Less)
  BY <1>2, WFMin, Zenon
<1>4. \A x_1, y \in Nat : x_1 < y => <<x_1, y>> \in Less
  OBVIOUS
<1>5. ASSUME NEW y \in T PROVE x <= y
  <2>1. x \in Nat /\ y \in Nat /\ ~(y < x)
    BY <1>3, <1>4
  <2>2. QED
    BY <2>1
<1>6. QED
  BY <1>5

LEMMA FirstIsIn ==
    ASSUME NEW S, S \subseteq Group \/ S \subseteq Channel
    PROVE  (S = {} => First(S) = None) /\ (S # {} => First(S) \in S)
<1>1. CASE S # {}
  <2>1. {Rank[x] : x \in S} \subseteq Nat /\ {Rank[x] : x \in S} # {}
    BY <1>1
  <2>2. PICK n \in {Rank[x] : x \in S} : \A k \in {Rank[x] : x \in S} : n <= k
    BY <2>1, LeastNumber
  <2>3. \E x \in S : \A y \in S : Rank[x] <= Rank[y]
    BY <2>2
  <2>4. QED
    BY <1>1, <2>3 DEF First
<1>2. QED
  BY <1>1 DEF First

LEMMA KeepIsIn ==
    ASSUME NEW S, S \subseteq Group \/ S \subseteq Channel, NEW x
    PROVE  /\ Keep(x, S) \in S \cup {None}
           /\ S # {} => Keep(x, S) \in S
           /\ x \in S => Keep(x, S) = x
BY FirstIsIn DEF Keep

-----------------------------------------------------------------------------
(* Refreshing.  What the store may have become: it only grows. *)
Grown ==
    /\ haveGroups \subseteq haveGroups'
    /\ haveGroups' \subseteq Group
    /\ haveChannels \subseteq haveChannels'
    /\ haveChannels' \subseteq {c \in Channel : GroupOf[c] \in haveGroups'}

SelectionOK ==
    /\ groupsShown \subseteq haveGroups
    /\ selectedGroup \in groupsShown \cup {None}
    /\ channelsShown \subseteq ChannelsIn(haveChannels, selectedGroup)
    /\ selectedChannel \in channelsShown \cup {None}
    /\ failedReads \in 0..MaxFailures

GroupsHaveChannels == \A g \in haveGroups : ChannelsIn(haveChannels, g) # {}

(* A refresh counts what it failed to read. *)
LEMMA FailuresCounted ==
    ASSUME failedReads \in 0..MaxFailures, NEW S \in SUBSET {"groups", "channels"},
           failedReads' = failedReads + Cardinality(S)
    PROVE  /\ failedReads' \in Nat
           /\ failedReads' = 0 => failedReads = 0 /\ S = {}
<1>1. IsFiniteSet({"groups", "channels"})
  <2>1. IsFiniteSet({"groups"}) /\ IsFiniteSet({"channels"})
    BY FS_Singleton
  <2>2. IsFiniteSet({"groups"} \cup {"channels"})
    BY <2>1, FS_Union
  <2>3. {"groups", "channels"} = {"groups"} \cup {"channels"}
    OBVIOUS
  <2>4. QED
    BY <2>2, <2>3, Zenon
<1>2. IsFiniteSet(S)
  BY <1>1, FS_Subset
<1>3. Cardinality(S) \in Nat /\ (Cardinality(S) = 0 <=> S = {})
  BY <1>2, FS_CardinalityType, FS_EmptySet
<1>4. QED
  BY <1>3

LEMMA RefreshTypes ==
    ASSUME ComposerTypeOK, Grown, NEW g, NEW c, Refresh(g, c)
    PROVE  SelectionOK' /\ (failedReads' = 0 => failedReads = 0)
<1>1. PICK S \in SUBSET {"groups", "channels"} :
        /\ failedReads' = failedReads + Cardinality(S)
        /\ failedReads' <= MaxFailures
        /\ groupsShown' = IF "groups" \in S THEN groupsShown ELSE haveGroups'
        /\ selectedGroup' = Keep(g, groupsShown')
        /\ channelsShown' = IF "channels" \in S THEN {}
                            ELSE ChannelsIn(haveChannels', selectedGroup')
        /\ selectedChannel' = Keep(c, channelsShown')
  BY DEF Refresh
<1>2. failedReads' \in Nat /\ (failedReads' = 0 => failedReads = 0)
  BY <1>1, FailuresCounted DEF ComposerTypeOK
<1>3. groupsShown' \subseteq haveGroups' /\ groupsShown' \subseteq Group
  BY <1>1 DEF ComposerTypeOK, Grown
<1>4. selectedGroup' \in groupsShown' \cup {None}
  BY <1>1, <1>3, KeepIsIn
<1>5. /\ channelsShown' \subseteq ChannelsIn(haveChannels', selectedGroup')
      /\ channelsShown' \subseteq Channel
  BY <1>1 DEF ChannelsIn, Grown
<1>6. selectedChannel' \in channelsShown' \cup {None}
  BY <1>1, <1>5, KeepIsIn
<1>7. QED
  BY <1>1, <1>2, <1>3, <1>4, <1>5, <1>6 DEF SelectionOK

(* When all could be read, what was asked for and is in the store is selected,
   and there is a channel when there is a group. *)
LEMMA RefreshWhole ==
    ASSUME ComposerTypeOK, Grown, GroupsHaveChannels', NEW g, NEW c, Refresh(g, c),
           failedReads' = 0
    PROVE  /\ g \in haveGroups' => selectedGroup' = g
           /\ g \in haveGroups' /\ c \in ChannelsIn(haveChannels', g) => selectedChannel' = c
           /\ haveGroups' # {} => selectedChannel' # None
           /\ selectedGroup' # None /\ selectedChannel' # None =>
                selectedChannel' \in ChannelsIn(haveChannels', selectedGroup')
<1>1. PICK S \in SUBSET {"groups", "channels"} :
        /\ failedReads' = failedReads + Cardinality(S)
        /\ groupsShown' = IF "groups" \in S THEN groupsShown ELSE haveGroups'
        /\ selectedGroup' = Keep(g, groupsShown')
        /\ channelsShown' = IF "channels" \in S THEN {}
                            ELSE ChannelsIn(haveChannels', selectedGroup')
        /\ selectedChannel' = Keep(c, channelsShown')
  BY DEF Refresh
<1>2. S = {}
  BY <1>1, FailuresCounted DEF ComposerTypeOK
<1>3. /\ selectedGroup' = Keep(g, haveGroups') /\ haveGroups' \subseteq Group
      /\ channelsShown' = ChannelsIn(haveChannels', selectedGroup')
      /\ channelsShown' \subseteq Channel
  BY <1>1, <1>2 DEF Grown, ChannelsIn
<1>4. g \in haveGroups' => selectedGroup' = g
  BY <1>3, KeepIsIn
<1>5. haveGroups' # {} => selectedGroup' \in haveGroups'
  BY <1>3, KeepIsIn
<1>6. haveGroups' # {} => channelsShown' # {}
  BY <1>3, <1>5 DEF GroupsHaveChannels
<1>7. channelsShown' # {} => selectedChannel' \in channelsShown'
  BY <1>1, <1>3, KeepIsIn
<1>8. c \in channelsShown' => selectedChannel' = c
  BY <1>1, <1>3, KeepIsIn
<1>9. None \notin channelsShown'
  BY <1>3
<1>10. selectedChannel' \in channelsShown' \cup {None}
  BY <1>1, <1>3, KeepIsIn
<1>11. QED
  BY <1>3, <1>4, <1>5, <1>6, <1>7, <1>8, <1>9, <1>10

LEMMA PlaceKept ==
    ASSUME ComposerTypeOK, Grown, GroupsHaveChannels', RefreshInPlace, failedReads' = 0
    PROVE  /\ selectedChannel # None => selectedChannel' = selectedChannel
           /\ haveGroups' # {} => selectedChannel' # None
<1>1. selectedChannel # None =>
        /\ selectedGroup \in haveGroups'
        /\ selectedChannel \in ChannelsIn(haveChannels', selectedGroup)
  BY DEF ComposerTypeOK, Grown, ChannelsIn
<1>2. QED
  BY <1>1, RefreshWhole DEF RefreshInPlace

-----------------------------------------------------------------------------
(* The invariant.  Where nothing is selected there is nothing to lose, the
   draft of the selected channel is on the screen, and only channels of the
   store have drafts. *)
Settled ==
    /\ selectedChannel = None => haveGroups = {} /\ composer = {}
    /\ selectedChannel # None => drafts[selectedChannel] = {}
    /\ \A c \in Channel : drafts[c] # {} => c \in haveChannels
    /\ \A t \in Text : sentIn[t] # None => typedIn[t] # None

ComposerInv ==
    /\ ComposerTypeOK
    /\ GroupsHaveChannels
    /\ failedReads = 0 => Settled
    /\ TextKept
    /\ AtHome

LEMMA ComposerStarts == ComposerInit => ComposerInv
<1> SUFFICES ASSUME ComposerInit PROVE ComposerInv
  OBVIOUS
<1>1. /\ groupsShown \subseteq Group /\ channelsShown \subseteq Channel
      /\ channelsShown = ChannelsIn(haveChannels, selectedGroup)
      /\ haveGroups = groupsShown
  BY DEF ComposerInit, ChannelsIn
<1>2. /\ selectedGroup \in groupsShown \cup {None}
      /\ groupsShown # {} => selectedGroup \in groupsShown
  BY <1>1, FirstIsIn DEF ComposerInit
<1>3. /\ selectedChannel \in channelsShown \cup {None}
      /\ channelsShown # {} => selectedChannel \in channelsShown
  BY <1>1, FirstIsIn DEF ComposerInit
<1>4. ComposerTypeOK
  BY <1>1, <1>2, <1>3 DEF ComposerInit, ComposerTypeOK, Modal
<1>5. GroupsHaveChannels
  BY DEF ComposerInit, GroupsHaveChannels
<1>6. selectedChannel = None => haveGroups = {}
  BY <1>1, <1>2, <1>3, <1>5 DEF GroupsHaveChannels
<1>7. Settled /\ TextKept /\ AtHome
  BY <1>3, <1>6 DEF ComposerInit, Settled, TextKept, AtHome, Waiting, ChannelsIn
<1>8. QED
  BY <1>4, <1>5, <1>7 DEF ComposerInv

(* How the store may grow. *)
LEMMA GrownChannels ==
    ASSUME ComposerTypeOK, GroupsHaveChannels, Grown,
           \A g \in haveGroups' \ haveGroups : ChannelsIn(haveChannels', g) # {}
    PROVE  GroupsHaveChannels'
<1> SUFFICES ASSUME NEW g \in haveGroups' PROVE ChannelsIn(haveChannels', g) # {}
  BY DEF GroupsHaveChannels
<1>1. CASE g \in haveGroups
  BY <1>1 DEF GroupsHaveChannels, Grown, ChannelsIn
<1>2. QED
  BY <1>1

LEMMA Unchanged == ComposerTypeOK /\ UNCHANGED stored => Grown
BY DEF ComposerTypeOK, Grown, stored

LEMMA TypesFollow ==
    ASSUME ComposerTypeOK, Grown, SelectionOK',
           composer' \in SUBSET Text, drafts' \in [Channel -> SUBSET Text],
           typedIn' \in [Text -> Channel \cup {None}],
           sentIn' \in [Text -> Channel \cup {None}],
           carried' \in SUBSET Text, modal' \in Modal
    PROVE  ComposerTypeOK'
BY DEF ComposerTypeOK, Grown, SelectionOK

LEMMA SelectedIsChannel ==
    ASSUME ComposerTypeOK PROVE selectedChannel # None => selectedChannel \in haveChannels
BY DEF ComposerTypeOK, ChannelsIn

-----------------------------------------------------------------------------
(* Another channel comes on the screen: the composer and its draft trade
   places. *)
LEMMA DraftsTyped ==
    ASSUME ComposerTypeOK, Restore(Saved), selectedChannel' \in Channel \cup {None}
    PROVE  composer' \in SUBSET Text /\ drafts' \in [Channel -> SUBSET Text]
<1>1. Saved \in [Channel -> SUBSET Text]
  BY DEF Saved, ComposerTypeOK
<1>2. QED
  BY <1>1 DEF Restore

LEMMA Swapped ==
    ASSUME ComposerTypeOK, Settled, Restore(Saved), selectedChannel' \in Channel
    PROVE  /\ composer' = IF selectedChannel' = selectedChannel THEN composer
                          ELSE drafts[selectedChannel']
           /\ \A c \in Channel :
                drafts'[c] = IF c = selectedChannel' THEN {}
                             ELSE IF c = selectedChannel THEN composer
                             ELSE drafts[c]
<1>1. selectedChannel' # None
  OBVIOUS
<1>2. \A c \in Channel : Saved[c] = IF c = selectedChannel THEN composer ELSE drafts[c]
  BY DEF Saved, ComposerTypeOK
<1>3. Saved \in [Channel -> SUBSET Text]
  BY DEF Saved, ComposerTypeOK
<1>4. QED
  BY <1>1, <1>2, <1>3 DEF Restore

LEMMA SwapKeeps ==
    ASSUME ComposerTypeOK, Settled, TextKept, AtHome, failedReads = 0,
           Restore(Saved), selectedChannel' \in haveChannels, UNCHANGED stored,
           UNCHANGED <<typedIn, sentIn, carried>>
    PROVE  Settled' /\ TextKept' /\ AtHome'
<1>0. selectedChannel' \in Channel /\ selectedChannel' # None
  BY DEF ComposerTypeOK
<1>1. selectedChannel = None => composer = {}
  BY DEF Settled
<1>2. selectedChannel # None => selectedChannel \in haveChannels
  BY SelectedIsChannel
<1>3. Settled'
  BY <1>0, <1>1, <1>2, Swapped DEF Settled, stored
<1>4. \A t \in Text : (t \in composer' \/ \E c \in Channel : t \in drafts'[c])
                      <=> (t \in composer \/ \E c \in Channel : t \in drafts[c])
  BY <1>0, <1>1, <1>2, Swapped DEF Settled, ComposerTypeOK
<1>5. TextKept'
  <2>1. Waiting' = Waiting
    BY DEF Waiting
  <2>2. /\ \A c \in Channel : drafts'[c] \cap composer' = {}
        /\ \A c, d \in Channel : c # d => drafts'[c] \cap drafts'[d] = {}
    BY <1>0, <1>1, Swapped DEF TextKept
  <2>3. QED
    BY <1>4, <2>1, <2>2 DEF TextKept
<1>6. AtHome'
  BY <1>0, <1>1, Swapped DEF AtHome
<1>7. QED
  BY <1>3, <1>5, <1>6

(* The channel on the screen stays, and with it everything that was typed. *)
LEMMA StayKeeps ==
    ASSUME ComposerTypeOK, Settled, TextKept, AtHome, failedReads = 0, Grown,
           selectedChannel # None => selectedChannel' = selectedChannel,
           haveGroups' # {} => selectedChannel' # None,
           SelectionOK', UNCHANGED texts
    PROVE  Settled' /\ TextKept' /\ AtHome'
<1>1. Settled'
  <2>1. selectedChannel' # None => drafts[selectedChannel'] = {}
    <3>1. CASE selectedChannel = None
      <4>1. haveChannels = {}
        BY <3>1 DEF Settled, ComposerTypeOK
      <4>2. selectedChannel' # None => selectedChannel' \in Channel
        BY DEF SelectionOK, ChannelsIn, Grown
      <4>3. QED
        BY <4>1, <4>2 DEF Settled
    <3>2. QED
      BY <3>1 DEF Settled
  <2>2. selectedChannel' = None => haveGroups' = {} /\ composer = {}
    BY DEF Settled
  <2>3. QED
    BY <2>1, <2>2 DEF Settled, texts, Grown
<1>2. TextKept'
  BY DEF TextKept, Waiting, texts
<1>3. AtHome'
  BY DEF AtHome, texts, Settled
<1>4. QED
  BY <1>1, <1>2, <1>3

-----------------------------------------------------------------------------
(* The steps. *)
LEMMA StayStep ==
    ASSUME ComposerInv, Grown, GroupsHaveChannels', RefreshInPlace, UNCHANGED texts,
           modal' \in Modal
    PROVE  ComposerInv'
<1>1. SelectionOK' /\ (failedReads' = 0 => failedReads = 0)
  BY RefreshTypes DEF RefreshInPlace, ComposerInv
<1>2. ComposerTypeOK'
  <2>1. ComposerTypeOK
    BY DEF ComposerInv
  <2>2. QED
    BY <1>1, <2>1, TypesFollow DEF texts, ComposerTypeOK
<1>3. failedReads' = 0 => Settled' /\ TextKept' /\ AtHome'
  BY <1>1, PlaceKept, StayKeeps DEF ComposerInv
<1>4. (failedReads' # 0) => TextKept' /\ AtHome'
  BY DEF TextKept, AtHome
<1>5. QED
  BY <1>2, <1>3, <1>4 DEF ComposerInv

LEMMA SelectStep ==
    ASSUME ComposerInv, UNCHANGED <<stored, typedIn, sentIn, carried>>, modal' \in Modal,
           NEW g \in haveGroups, NEW c, Refresh(g, c), Restore(Saved)
    PROVE  ComposerInv'
<1>0. ComposerTypeOK /\ Grown /\ GroupsHaveChannels'
  BY Unchanged DEF ComposerInv, GroupsHaveChannels, stored
<1>1. SelectionOK' /\ (failedReads' = 0 => failedReads = 0)
  BY <1>0, RefreshTypes
<1>2. ComposerTypeOK'
  <2>1. selectedChannel' \in Channel \cup {None}
    BY <1>0, <1>1 DEF SelectionOK, ChannelsIn, Grown
  <2>2. composer' \in SUBSET Text /\ drafts' \in [Channel -> SUBSET Text]
    BY <1>0, <2>1, DraftsTyped
  <2>3. /\ typedIn' \in [Text -> Channel \cup {None}]
        /\ sentIn' \in [Text -> Channel \cup {None}]
        /\ carried' \in SUBSET Text
    BY <1>0 DEF ComposerTypeOK
  <2>4. QED
    BY <1>0, <1>1, <2>2, <2>3, TypesFollow
<1>3. ASSUME failedReads' = 0 PROVE Settled' /\ TextKept' /\ AtHome'
  <2>1. selectedChannel' # None
    BY <1>0, <1>3, RefreshWhole DEF stored
  <2>2. selectedChannel' \in haveChannels
    BY <1>1, <2>1 DEF SelectionOK, ChannelsIn, stored
  <2>3. QED
    BY <1>0, <1>1, <1>3, <2>2, SwapKeeps DEF ComposerInv
<1>4. (failedReads' # 0) => TextKept' /\ AtHome'
  BY DEF TextKept, AtHome
<1>5. QED
  BY <1>0, <1>2, <1>3, <1>4 DEF ComposerInv

LEMMA IdleStep ==
    ASSUME ComposerInv, UNCHANGED <<stored, selection, texts>>, modal' \in Modal
    PROVE  ComposerInv'
BY DEF ComposerInv, ComposerTypeOK, GroupsHaveChannels, Settled, TextKept, AtHome,
       Waiting, stored, selection, texts

LEMMA ChannelSelected ==
    ASSUME ComposerInv, UNCHANGED <<stored, typedIn, sentIn, carried>>, modal' \in Modal,
           NEW c \in channelsShown, SelectChannel(c)
    PROVE  ComposerInv'
<1>1. selectedGroup \in haveGroups
  BY DEF ComposerInv, ComposerTypeOK, ChannelsIn
<1>2. QED
  BY <1>1, SelectStep DEF SelectChannel

LEMMA TypeStep ==
    ASSUME ComposerInv, NEW t \in Text, Type(t)
    PROVE  ComposerInv'
<1>1. /\ UNCHANGED <<stored, selection, drafts, sentIn, carried, modal>>
      /\ selectedChannel # None /\ typedIn[t] = None
      /\ typedIn' = [typedIn EXCEPT ![t] = selectedChannel]
      /\ composer' = composer \cup {t}
  BY DEF Type
<1>2. ComposerTypeOK /\ selectedChannel \in Channel
  BY <1>1, SelectedIsChannel DEF ComposerInv, ComposerTypeOK
<1>3. ComposerTypeOK' /\ GroupsHaveChannels'
  BY <1>1, <1>2 DEF ComposerInv, ComposerTypeOK, GroupsHaveChannels, stored, selection
<1>4. ASSUME failedReads' = 0 PROVE Settled' /\ TextKept' /\ AtHome'
  <2>1. failedReads = 0
    BY <1>1, <1>4 DEF selection
  <2>2. sentIn[t] = None /\ \A c \in Channel : t \notin drafts[c]
    BY <1>1, <2>1 DEF ComposerInv, Settled, TextKept, Waiting
  <2>3. Settled'
    BY <1>1, <1>2, <2>1 DEF ComposerInv, Settled, stored, selection, ComposerTypeOK
  <2>4. Waiting' = Waiting \cup {t}
    BY <1>1, <1>2, <2>2 DEF Waiting, ComposerTypeOK
  <2>5. TextKept'
    BY <1>1, <2>1, <2>2, <2>4 DEF ComposerInv, TextKept
  <2>6. AtHome'
    BY <1>1, <1>2, <2>1, <2>2 DEF ComposerInv, AtHome, ComposerTypeOK, selection
  <2>7. QED
    BY <2>3, <2>5, <2>6
<1>5. (failedReads' # 0) => TextKept' /\ AtHome'
  BY DEF TextKept, AtHome
<1>6. QED
  BY <1>3, <1>4, <1>5 DEF ComposerInv

LEMMA SendStep ==
    ASSUME ComposerInv, Send
    PROVE  ComposerInv'
<1>0. /\ UNCHANGED <<stored, drafts, typedIn, carried, modal>>
      /\ selectedChannel # None
      /\ sentIn' = [t \in Text |-> IF t \in composer THEN selectedChannel ELSE sentIn[t]]
      /\ composer' = {}
      /\ RefreshInPlace
  BY DEF Send
<1>1. ComposerTypeOK /\ Grown /\ GroupsHaveChannels' /\ selectedChannel \in haveChannels
  BY <1>0, Unchanged, SelectedIsChannel DEF ComposerInv, GroupsHaveChannels, stored
<1>2. SelectionOK' /\ (failedReads' = 0 => failedReads = 0)
  BY <1>0, <1>1, RefreshTypes DEF RefreshInPlace
<1>3. ComposerTypeOK'
  BY <1>0, <1>1, <1>2, TypesFollow DEF ComposerTypeOK
<1>4. ASSUME failedReads' = 0 PROVE Settled' /\ TextKept' /\ AtHome'
  <2>1. failedReads = 0 /\ selectedChannel' = selectedChannel
    BY <1>0, <1>1, <1>2, <1>4, PlaceKept
  <2>2. \A t \in composer : t \in Waiting /\ \A c \in Channel : t \notin drafts[c]
    BY <1>1, <2>1 DEF ComposerInv, TextKept, ComposerTypeOK
  <2>3. Settled'
    BY <1>0, <1>1, <2>1, <2>2 DEF ComposerInv, Settled, Waiting, stored
  <2>4. Waiting' = Waiting \ composer
    BY <1>0, <2>2 DEF Waiting
  <2>5. TextKept'
    BY <1>0, <2>1, <2>2, <2>4 DEF ComposerInv, TextKept
  <2>6. AtHome'
    BY <1>0, <2>1 DEF ComposerInv, AtHome
  <2>7. QED
    BY <2>3, <2>5, <2>6
<1>5. (failedReads' # 0) => TextKept' /\ AtHome'
  BY DEF TextKept, AtHome
<1>6. QED
  BY <1>1, <1>3, <1>4, <1>5 DEF ComposerInv

LEMMA CreateChannelStep ==
    ASSUME ComposerInv, NEW c \in Channel, CreateChannel(c)
    PROVE  ComposerInv'
<1>0. /\ selectedGroup # None /\ c \notin haveChannels /\ GroupOf[c] = selectedGroup
      /\ haveChannels' = haveChannels \cup {c}
      /\ UNCHANGED <<haveGroups, composer, drafts, typedIn, sentIn>>
      /\ Refresh(selectedGroup, c)
      /\ carried' = carried \cup composer
      /\ modal' = "none"
  BY DEF CreateChannel
<1>1. ComposerTypeOK /\ selectedGroup \in haveGroups
  BY <1>0 DEF ComposerInv, ComposerTypeOK
<1>2. Grown /\ GroupsHaveChannels'
  BY <1>0, <1>1 DEF ComposerInv, ComposerTypeOK, Grown, GroupsHaveChannels, ChannelsIn
<1>3. SelectionOK' /\ (failedReads' = 0 => failedReads = 0)
  BY <1>0, <1>1, <1>2, RefreshTypes
<1>4. ComposerTypeOK'
  <2>1. /\ composer' \in SUBSET Text /\ drafts' \in [Channel -> SUBSET Text]
        /\ typedIn' \in [Text -> Channel \cup {None}]
        /\ sentIn' \in [Text -> Channel \cup {None}]
        /\ carried' \in SUBSET Text /\ modal' \in Modal
    BY <1>0, <1>1 DEF ComposerTypeOK, Modal
  <2>2. QED
    BY <1>1, <1>2, <1>3, <2>1, TypesFollow
<1>5. ASSUME failedReads' = 0 PROVE Settled' /\ TextKept' /\ AtHome'
  <2>1. c \in ChannelsIn(haveChannels', selectedGroup) /\ selectedGroup \in haveGroups'
    BY <1>0, <1>1 DEF ChannelsIn
  <2>2. failedReads = 0 /\ selectedChannel' = c
    BY <1>0, <1>1, <1>2, <1>3, <1>5, <2>1, RefreshWhole
  <2>3. Settled /\ TextKept /\ AtHome /\ drafts[c] = {}
    BY <1>0, <2>2 DEF ComposerInv, Settled
  <2>4. Settled'
    BY <1>0, <2>2, <2>3 DEF Settled
  <2>5. TextKept'
    BY <1>0, <2>2, <2>3 DEF TextKept, Waiting
  <2>6. AtHome'
    BY <1>0, <2>2, <2>3 DEF AtHome
  <2>7. QED
    BY <2>4, <2>5, <2>6
<1>6. (failedReads' # 0) => TextKept' /\ AtHome'
  BY DEF TextKept, AtHome
<1>7. QED
  BY <1>2, <1>4, <1>5, <1>6 DEF ComposerInv

LEMMA ComposerSteps == ComposerInv /\ [ComposerNext]_composerVars => ComposerInv'
<1> SUFFICES ASSUME ComposerInv, [ComposerNext]_composerVars PROVE ComposerInv'
  OBVIOUS
<1>0. ComposerTypeOK /\ GroupsHaveChannels /\ modal \in Modal
  BY DEF ComposerInv, ComposerTypeOK
<1>1. ASSUME NEW g \in Group, SelectGroup(g) PROVE ComposerInv'
  <2>1. g \in haveGroups
    BY <1>0, <1>1 DEF SelectGroup, ComposerTypeOK
  <2>2. QED
    BY <1>0, <1>1, <2>1, SelectStep DEF SelectGroup
<1>2. ASSUME NEW c \in Channel, ClickChannel(c) \/ ArrowKey(c) PROVE ComposerInv'
  <2>1. /\ c \in channelsShown /\ SelectChannel(c)
        /\ UNCHANGED <<stored, typedIn, sentIn, carried, modal>>
    BY <1>2 DEF ClickChannel, ArrowKey
  <2>2. QED
    BY <1>0, <2>1, ChannelSelected
<1>3. ASSUME NEW c \in Channel, QuickSwitch(c) PROVE ComposerInv'
  <2>1. modal' \in Modal
    BY <1>3 DEF QuickSwitch, Modal
  <2>2. CASE SelectChannel(c)
    BY <1>3, <2>1, <2>2, ChannelSelected DEF QuickSwitch
  <2>3. CASE UNCHANGED <<selection, composer, drafts>>
    <3>1. UNCHANGED <<stored, selection, texts>>
      BY <1>3, <2>3 DEF QuickSwitch, texts
    <3>2. QED
      BY <2>1, <3>1, IdleStep
  <2>4. QED
    BY <1>3, <2>2, <2>3 DEF QuickSwitch
<1>4. ASSUME NEW c \in Channel, MergeChannel(c) PROVE ComposerInv'
  <2>1. /\ c \notin haveChannels /\ GroupOf[c] \in haveGroups
        /\ haveChannels' = haveChannels \cup {c}
        /\ UNCHANGED <<haveGroups, selection, texts, modal>>
    BY <1>4 DEF MergeChannel
  <2>2. ComposerTypeOK' /\ GroupsHaveChannels'
    BY <1>0, <2>1 DEF ComposerTypeOK, GroupsHaveChannels, ChannelsIn, selection, texts
  <2>3. (failedReads' = 0 => Settled') /\ TextKept' /\ AtHome'
    BY <2>1 DEF ComposerInv, Settled, TextKept, AtHome, Waiting, selection, texts
  <2>4. QED
    BY <2>2, <2>3 DEF ComposerInv
<1>5. CASE SendAttachment \/ FrameRefresh
  <2>1. UNCHANGED <<stored, texts, modal>> /\ RefreshInPlace
    BY <1>5 DEF SendAttachment, FrameRefresh
  <2>2. Grown /\ GroupsHaveChannels'
    BY <1>0, <2>1, Unchanged DEF GroupsHaveChannels, stored
  <2>3. QED
    BY <1>0, <2>1, <2>2, StayStep
<1>6. CASE ServerRail \/ SideBar \/ Header \/ Shortcut \/ EmptyState \/ CloseModal
  <2>1. UNCHANGED <<stored, selection, texts>> /\ modal' \in Modal
    BY <1>6 DEF ServerRail, SideBar, Header, Shortcut, EmptyState, CloseModal, OpenModal, Modal
  <2>2. QED
    BY <2>1, IdleStep
<1>7. ASSUME NEW g \in Group, NEW c \in Channel, CreateGroup(g, c) PROVE ComposerInv'
  <2>1. /\ GroupOf[c] = g
        /\ haveGroups' = haveGroups \cup {g} /\ haveChannels' = haveChannels \cup {c}
        /\ RefreshInPlace /\ modal' = "none" /\ UNCHANGED texts
    BY <1>7 DEF CreateGroup
  <2>2. Grown /\ GroupsHaveChannels'
    BY <1>0, <2>1 DEF Grown, GroupsHaveChannels, ChannelsIn, ComposerTypeOK
  <2>3. QED
    BY <2>1, <2>2, StayStep DEF Modal
<1>8. ASSUME NEW g \in Group, NEW S \in SUBSET ChannelsIn(Channel, g), JoinGroup(g, S)
      PROVE  ComposerInv'
  <2>1. /\ S # {}
        /\ haveGroups' = haveGroups \cup {g} /\ haveChannels' = haveChannels \cup S
        /\ RefreshInPlace /\ modal' = "none" /\ UNCHANGED texts
    BY <1>8 DEF JoinGroup
  <2>2. Grown /\ GroupsHaveChannels'
    BY <1>0, <2>1 DEF Grown, GroupsHaveChannels, ChannelsIn, ComposerTypeOK
  <2>3. QED
    BY <2>1, <2>2, StayStep DEF Modal
<1>9. CASE UNCHANGED composerVars
  BY <1>0, <1>9, IdleStep DEF composerVars
<1>10. QED
  BY <1>1, <1>2, <1>3, <1>4, <1>5, <1>6, <1>7, <1>8, <1>9,
     TypeStep, SendStep, CreateChannelStep DEF ComposerNext

(* No text is lost, doubled or left behind, whatever the user and the other
   devices do, as long as the store can be read. *)
THEOREM TextsKept == ComposerSpec => []TextKept
<1>1. ComposerInv => TextKept
  BY DEF ComposerInv
<1>2. QED
  BY <1>1, ComposerStarts, ComposerSteps, PTL DEF ComposerSpec

(* A text waits in the channel it was typed in and is sent there, but for what
   the dialog that creates a channel carries along. *)
THEOREM TextsAtHome == ComposerSpec => []AtHome
<1>1. ComposerInv => AtHome
  BY DEF ComposerInv
<1>2. QED
  BY <1>1, ComposerStarts, ComposerSteps, PTL DEF ComposerSpec
=============================================================================
