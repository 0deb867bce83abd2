--------------------------- MODULE DesktopProofs ---------------------------
(***************************************************************************)
(* The local components of a device: what a screen share sends, what the   *)
(* files of a profile keep, in which order frames are played, what is left *)
(* in the router, and that the device as a whole does what each of its     *)
(* components does.                                                        *)
(***************************************************************************)
EXTENDS MCDesktop, ComposerProofs, VoiceProofs

(* Remainders of what is less than once around. *)
LEMMA Remainder ==
    ASSUME NEW w \in Nat, w > 0, NEW x \in Int, -w < x, x < 2 * w
    PROVE  x % w = IF x < 0 THEN x + w ELSE IF x < w THEN x ELSE x - w
<1>1. CASE x < 0
  BY <1>1
<1>2. CASE 0 <= x /\ x < w
  BY <1>2
<1>3. CASE w <= x
  BY <1>3
<1>4. QED
  BY <1>1, <1>2, <1>3

USE ScreenShareAssumption, ProfileAssumption, PlaybackAssumption
    DEF ScreenShareAssumption, ProfileAssumption, PlaybackAssumption

-----------------------------------------------------------------------------
(*****************************************************************************)
(* Screen sharing.                                                           *)
(*****************************************************************************)

(* stop has waited for the thread before start makes the next one, so when a
   thread is made there is no other. *)
ScreenInv ==
    /\ ScreenTypeOK
    /\ SharesWhatItShows
    /\ uiStep = "spawn" => held = 0

LEMMA ScreenStarts == ScreenInit => ScreenInv
BY DEF ScreenInit, ScreenInv, ScreenTypeOK, SharesWhatItShows, Working, Share

LEMMA ScreenTypes == ScreenTypeOK /\ [ScreenNext]_screenVars => ScreenTypeOK'
<1> SUFFICES ASSUME ScreenTypeOK, [ScreenNext]_screenVars PROVE ScreenTypeOK'
  OBVIOUS
<1> USE DEF ScreenTypeOK
<1>1. ASSUME NEW g \in Group, Toggle(g) PROVE ScreenTypeOK'
  BY <1>1 DEF Toggle, Share
<1>2. CASE JoinWorker
  BY <1>2 DEF JoinWorker, Share
<1>3. CASE Spawn
  <2>1. shares' \in Share /\ shares' \in 0..MaxShares
    BY <1>3 DEF Spawn, Share
  <2>2. QED
    BY <1>3, <2>1 DEF Spawn, Share, Working
<1>4. ASSUME NEW s \in Share, Work(s) PROVE ScreenTypeOK'
  BY <1>4 DEF Work, Goes, Working
<1>5. CASE UNCHANGED screenVars
  BY <1>5 DEF screenVars
<1>6. QED
  BY <1>1, <1>2, <1>3, <1>4, <1>5 DEF ScreenNext

LEMMA ScreenSteps == ScreenInv /\ [ScreenNext]_screenVars => ScreenInv'
<1> SUFFICES ASSUME ScreenInv, [ScreenNext]_screenVars PROVE ScreenInv'
  OBVIOUS
<1>0. ScreenTypeOK /\ ScreenTypeOK'
  BY ScreenTypes DEF ScreenInv
<1> USE DEF ScreenInv, SharesWhatItShows
<1>1. ASSUME NEW g \in Group, Toggle(g) PROVE ScreenInv'
  BY <1>0, <1>1 DEF Toggle
<1>2. CASE JoinWorker
  <2>1. \A s \in Share : worker[s] \notin Working
    BY <1>2 DEF JoinWorker, Working, Share
  <2>2. QED
    BY <1>0, <1>2, <2>1 DEF JoinWorker
<1>3. CASE Spawn
  <2>1. \A s \in Share : worker[s] \notin Working
    BY <1>3 DEF Spawn, Share
  <2>2. shares' \in Share
    BY <1>0, <1>3 DEF Spawn, Share, ScreenTypeOK
  <2>3. ASSUME NEW s \in Share, worker'[s] \in Working
        PROVE  held' = s /\ groupOf'[s] = showing'
    BY <1>0, <1>3, <2>1, <2>2, <2>3 DEF Spawn, ScreenTypeOK
  <2>4. QED
    BY <1>0, <1>3, <2>3 DEF Spawn
<1>4. ASSUME NEW s \in Share, Work(s) PROVE ScreenInv'
  <2>1. worker[s] \in Working
    BY <1>4 DEF Work, Goes, Working
  <2>2. \A t \in Share : worker'[t] \in Working => worker[t] \in Working
    BY <1>0, <1>4, <2>1 DEF Work, Goes, ScreenTypeOK
  <2>3. QED
    BY <1>0, <1>4, <2>2 DEF Work
<1>5. CASE UNCHANGED screenVars
  BY <1>0, <1>5 DEF screenVars
<1>6. QED
  BY <1>1, <1>2, <1>3, <1>4, <1>5 DEF ScreenNext

(* Every thread that captures belongs to the share on the window and sends to
   the group that is shown there: start never overtakes the end of the share
   before. *)
THEOREM OnlyTheShownShare == ScreenSpec => []SharesWhatItShows
<1>1. ScreenInv => SharesWhatItShows
  BY DEF ScreenInv
<1>2. QED
  BY <1>1, ScreenStarts, ScreenSteps, PTL DEF ScreenSpec

-----------------------------------------------------------------------------
(*****************************************************************************)
(* The two files of a profile.                                               *)
(*****************************************************************************)

LEMMA ProfileTypesInit == ProfileInit => ProfileTypeOK
BY DEF ProfileInit, ProfileTypeOK, Identity

LEMMA RequestsAreNames ==
    ASSUME NEW argument \in Name \cup {NoName}, NEW loaded \in LoadedNames,
           NEW account \in {OsName, NoName}
    PROVE  RequestedName(argument, loaded, account) \in Name \cup {NoName}
BY DEF RequestedName, LoadedNames

LEMMA LoadTypes ==
    ASSUME ProfileTypeOK, NEW requested \in Name \cup {NoName}, LoadOrCreate(requested)
    PROVE  /\ identity' \in [key: Key, name: Name]
           /\ used' \in SUBSET Key
           /\ generated' \in SUBSET Key
<1> USE DEF ProfileTypeOK, Identity
<1>1. CASE Generate(requested)
  BY <1>1 DEF Generate
<1>2. CASE identityFile \notin {Absent, Torn} /\ Load(requested)
  <2> DEFINE n == IF requested = NoName THEN identityFile.name ELSE requested
  <2>1. identityFile \in [key: Key, name: Name]
    BY <1>2
  <2>2. identityFile.key \in Key /\ n \in Name
    BY <2>1
  <2>3. [identityFile EXCEPT !.name = n] \in [key: Key, name: Name]
    BY <2>1, <2>2
  <2>4. QED
    BY <1>2, <2>2, <2>3 DEF Load
<1>3. QED
  BY <1>1, <1>2 DEF LoadOrCreate

LEMMA ProfileTypes == ProfileTypeOK /\ [ProfileNext]_profileVars => ProfileTypeOK'
<1> SUFFICES ASSUME ProfileTypeOK, [ProfileNext]_profileVars PROVE ProfileTypeOK'
  OBVIOUS
<1> USE DEF ProfileTypeOK, Identity, files, memory
<1>1. CASE Start
  <2>1. PICK requested \in Name \cup {NoName} : LoadOrCreate(requested)
    BY <1>1, RequestsAreNames DEF Start
  <2>2. identity' \in [key: Key, name: Name] /\ used' \in SUBSET Key /\ generated' \in SUBSET Key
    BY <2>1, LoadTypes
  <2>3. running' \in {"creating", "starting"}
    BY <2>1 DEF LoadOrCreate, Generate, Load
  <2>4. /\ settingsName' \in Name \cup {NoName} /\ given' \in Name \cup {NoName}
        /\ chosen' \in Name \cup {NoName}
    BY <1>1 DEF Start, LoadedNames
  <2>5. QED
    BY <1>1, <2>2, <2>3, <2>4 DEF Start
<1>2. CASE Open
  BY <1>2 DEF Open
<1>3. CASE SaveIdentity
  BY <1>3 DEF SaveIdentity, CutShort, Filled
<1>4. CASE SaveSettings
  BY <1>4 DEF SaveSettings, CutShort, Filled
<1>5. CASE SaveFails
  BY <1>5 DEF SaveFails
<1>6. ASSUME NEW n \in Name, Rename(n) PROVE ProfileTypeOK'
  BY <1>6 DEF Rename
<1>7. CASE ChangeSetting \/ Stop
  BY <1>7 DEF ChangeSetting, Stop
<1>8. CASE UNCHANGED profileVars
  BY <1>8 DEF profileVars
<1>9. QED
  BY <1>1, <1>2, <1>3, <1>4, <1>5, <1>6, <1>7, <1>8 DEF ProfileNext

(* The key.  A file that is there holds the key of every run so far, and so does
   the memory once the file is written; one that is cut short belongs to a
   profile that has run with one key. *)
KeyInv ==
    /\ \E k \in Key : used \subseteq {k}
    /\ identityFile = Absent => used = {} /\ running \in {"down", "creating"}
    /\ running = "creating" => identityFile = Absent
    /\ identityFile \in Identity => used \subseteq {identityFile.key}
    /\ running \notin {"down", "creating"} =>
        /\ used \subseteq {identity.key}
        /\ identityFile \in Identity => identityFile.key = identity.key

LEMMA KeyStarts == ProfileInit => KeyInv
BY DEF ProfileInit, KeyInv, Identity

LEMMA KeySteps == ProfileTypeOK /\ KeyInv /\ [ProfileNext]_profileVars => KeyInv'
<1> SUFFICES ASSUME ProfileTypeOK, KeyInv, [ProfileNext]_profileVars PROVE KeyInv'
  OBVIOUS
<1>0. ProfileTypeOK'
  BY ProfileTypes
<1> USE DEF KeyInv, files, memory
<1>1. CASE Start
  <2>1. PICK requested \in Name \cup {NoName} : LoadOrCreate(requested)
    BY <1>1, RequestsAreNames DEF Start
  <2>2. CASE identityFile = Absent /\ Generate(requested)
    BY <1>0, <1>1, <2>2 DEF Start, Generate
  <2>3. CASE identityFile \notin {Absent, Torn} /\ Load(requested)
    <3>1. identityFile \in [key: Key, name: Name]
      BY <2>3 DEF ProfileTypeOK, Identity
    <3>2. identity'.key = identityFile.key
      BY <2>3, <3>1 DEF Load
    <3>3. used' \subseteq {identityFile.key}
      BY <2>3, <3>1 DEF Load, Identity
    <3>4. identityFile' = identityFile /\ running' = "starting" /\ identityFile.key \in Key
      BY <1>1, <2>3, <3>1 DEF Start, Load
    <3>5. QED
      BY <2>3, <3>2, <3>3, <3>4
  <2>4. QED
    BY <2>1, <2>2, <2>3 DEF LoadOrCreate
<1>2. CASE Open
  BY <1>2 DEF Open
<1>3. CASE SaveIdentity
  <2>1. identity.key \in Key /\ identity \in Identity
    BY DEF ProfileTypeOK, Identity
  <2>2. CASE CutShort(identityFile) /\ identityFile' = Torn /\ UNCHANGED <<running, used>>
    <3>1. Torn # Absent /\ Torn \notin Identity
      BY DEF Identity
    <3>2. QED
      BY <1>3, <2>2, <3>1 DEF SaveIdentity, CutShort
  <2>3. CASE identityFile' = identity /\ used' = used \cup {identity.key}
             /\ running' \in {"saving", "starting"}
    <3>1. used \subseteq {identity.key}
      BY <1>3 DEF SaveIdentity
    <3>2. identity # Absent /\ identity' = identity
      BY <1>3, <2>1 DEF SaveIdentity, Identity
    <3>3. QED
      BY <2>1, <2>3, <3>1, <3>2
  <2>4. QED
    BY <1>3, <2>2, <2>3 DEF SaveIdentity, Filled
<1>4. CASE SaveSettings
  BY <1>4 DEF SaveSettings
<1>5. CASE SaveFails
  <2>1. CASE UNCHANGED identityFile
    BY <1>5, <2>1 DEF SaveFails
  <2>2. CASE running = "renaming" /\ identityFile' = identity
    <3>1. identity # Absent
      BY DEF ProfileTypeOK, Identity
    <3>2. QED
      BY <1>5, <2>2, <3>1 DEF SaveFails
  <2>3. QED
    BY <1>5, <2>1, <2>2 DEF SaveFails
<1>6. ASSUME NEW n \in Name, Rename(n) PROVE KeyInv'
  <2>1. identity \in [key: Key, name: Name]
    BY DEF ProfileTypeOK, Identity
  <2>2. identity'.key = identity.key
    BY <1>6, <2>1 DEF Rename
  <2>3. QED
    BY <1>6, <2>2 DEF Rename
<1>7. CASE ChangeSetting \/ Stop
  BY <1>7 DEF ChangeSetting, Stop
<1>8. CASE UNCHANGED profileVars
  BY <1>8 DEF profileVars
<1>9. QED
  BY <1>1, <1>2, <1>3, <1>4, <1>5, <1>6, <1>7, <1>8 DEF ProfileNext

(* Whatever save is interrupted, a profile never runs with a second key. *)
THEOREM OneIdentityForEver == ProfileSpec => []OneIdentity
<1>1. KeyInv => OneIdentity
  <2> SUFFICES ASSUME NEW k \in Key, used \subseteq {k} PROVE Cardinality(used) <= 1
    BY DEF KeyInv, OneIdentity
  <2>1. Cardinality({k}) = 1 /\ IsFiniteSet({k})
    BY FS_Singleton
  <2>2. QED
    BY <2>1, FS_Subset
<1>2. QED
  BY <1>1, ProfileTypesInit, ProfileTypes, KeyStarts, KeySteps, PTL DEF ProfileSpec

(* The name.  The name the user was told is in the settings and, unless the program
   runs under a --name, in memory; no rename is on its way, nor a copy of the
   settings. *)
NameInv ==
    /\ running = "renaming" => chosen = NoName
    /\ copying => running \in {"creating", "renaming", "saving"}
    /\ copying /\ running = "saving" => chosen = NoName
    /\ given # NoName /\ running # "down" => identity.name = given
    /\ chosen # NoName =>
        /\ settingsFile = chosen
        /\ running # "down" => identity.name = IF given = NoName THEN chosen ELSE given

LEMMA NameStarts == ProfileInit => NameInv
BY DEF ProfileInit, NameInv

(* Whatever was there before, the profile runs under the name that is asked for. *)
LEMMA RunsAsRequested ==
    ASSUME ProfileTypeOK, NEW requested \in Name, LoadOrCreate(requested)
    PROVE  identity'.name = requested
<1>1. requested # NoName
  OBVIOUS
<1>2. CASE Generate(requested)
  BY <1>1, <1>2 DEF Generate
<1>3. CASE identityFile \notin {Absent, Torn} /\ Load(requested)
  <2>1. identityFile \in [key: Key, name: Name]
    BY <1>3 DEF ProfileTypeOK, Identity
  <2>2. identity' = [identityFile EXCEPT !.name = requested]
    BY <1>1, <1>3 DEF Load
  <2>3. QED
    BY <2>1, <2>2
<1>4. QED
  BY <1>2, <1>3 DEF LoadOrCreate

LEMMA NameSteps == ProfileTypeOK /\ NameInv /\ [ProfileNext]_profileVars => NameInv'
<1> SUFFICES ASSUME ProfileTypeOK, NameInv, [ProfileNext]_profileVars PROVE NameInv'
  OBVIOUS
<1> USE DEF NameInv, files, memory
<1>1. CASE Start
  <2>1. PICK argument \in Name \cup {NoName}, loaded \in LoadedNames,
             account \in {OsName, NoName} :
          /\ LoadOrCreate(RequestedName(argument, loaded, account))
          /\ given' = argument
          /\ chosen' = IF loaded = NoName THEN NoName ELSE chosen
    BY <1>1 DEF Start
  <2> DEFINE requested == RequestedName(argument, loaded, account)
  <2>2. running' \in {"creating", "starting"}
    BY <2>1 DEF LoadOrCreate, Generate, Load
  <2>3. ASSUME argument # NoName PROVE identity'.name = argument
    <3>1. requested = argument /\ requested \in Name
      BY <2>3 DEF RequestedName
    <3>2. QED
      BY <2>1, <3>1, RunsAsRequested
  <2>4. ASSUME argument = NoName, chosen' # NoName PROVE identity'.name = chosen'
    <3>1. loaded # NoName /\ chosen' = chosen /\ loaded = settingsFile
      BY <2>1, <2>4 DEF LoadedNames
    <3>2. requested = chosen' /\ requested \in Name
      BY <2>4, <3>1 DEF RequestedName, ProfileTypeOK
    <3>3. QED
      BY <2>1, <3>2, RunsAsRequested
  <2>5. chosen' # NoName => settingsFile' = chosen'
    BY <1>1, <2>1 DEF Start
  <2>6. copying' = copying /\ ~copying
    BY <1>1 DEF Start
  <2>7. QED
    BY <2>1, <2>2, <2>3, <2>4, <2>5, <2>6
<1>2. CASE Open
  BY <1>2 DEF Open
<1>3. CASE SaveIdentity
  BY <1>3 DEF SaveIdentity, CutShort, Filled
<1>4. CASE SaveSettings
  BY <1>4 DEF SaveSettings, CutShort, Filled
<1>5. CASE SaveFails
  BY <1>5 DEF SaveFails
<1>6. ASSUME NEW n \in Name, Rename(n) PROVE NameInv'
  BY <1>6 DEF Rename
<1>7. CASE ChangeSetting \/ Stop
  BY <1>7 DEF ChangeSetting, Stop
<1>8. CASE UNCHANGED profileVars
  BY <1>8 DEF profileVars
<1>9. QED
  BY <1>1, <1>2, <1>3, <1>4, <1>5, <1>6, <1>7, <1>8 DEF ProfileNext

(* A saved name outlives every stop of the program, whatever it was at, and every
   --name, until the user renames the profile or the settings file itself is cut
   short or cannot be read (main, load_or_create, rename_profile, persist_settings). *)
THEOREM SavedNameKept == ProfileSpec => []NameKept
<1>1. NameInv => NameKept
  BY DEF NameInv, NameKept
<1>2. QED
  BY <1>1, ProfileTypesInit, ProfileTypes, NameStarts, NameSteps, PTL DEF ProfileSpec

-----------------------------------------------------------------------------
(*****************************************************************************)
(* The order frames are played in.                                           *)
(*****************************************************************************)

LEMMA Wrapped ==
    ASSUME NEW x \in Int, -Width < x, x < 2 * Width
    PROVE  x % Width = IF x < 0 THEN x + Width ELSE IF x < Width THEN x ELSE x - Width
  BY Remainder

LEMMA NextNumber ==
    ASSUME NEW x \in 0..Width - 1
    PROVE  /\ (x + 1) % Width = IF x + 1 = Width THEN 0 ELSE x + 1
           /\ (x + 1) % Width \in 0..Width - 1
<1>1. /\ x + 1 \in Int
      /\ -Width < x + 1 /\ x + 1 < 2 * Width
      /\ ~(x + 1 < 0)
  OBVIOUS
<1>2. (x + 1) % Width = IF x + 1 < Width THEN x + 1 ELSE x + 1 - Width
  BY <1>1, Wrapped
<1>3. QED
  BY <1>2

LEMMA HalfIsMore == (Width - 1) \div 2 > Reach /\ (Width - 1) \div 2 < Width - Reach
  OBVIOUS

LEMMA ForgottenType == 0 \in Number /\ Forgotten \in PeerDecoder
<1>1. Width \in Nat /\ Width > 0 /\ 0 \in 0..Reach + 1 /\ 0 \in 0..Patience - 1
  OBVIOUS
<1>2. 0 \in Number
  BY <1>1 DEF Number
<1>3. QED
  BY <1>1, <1>2 DEF Forgotten, PeerDecoder, Late

LEMMA PlaybackTypesInit == PlaybackInit => PlaybackTypeOK
BY ForgottenType DEF PlaybackInit, PlaybackTypeOK

LEMMA PlaybackTypes == PlaybackTypeOK /\ [PlaybackNext]_playbackVars => PlaybackTypeOK'
<1> SUFFICES ASSUME PlaybackTypeOK, [PlaybackNext]_playbackVars PROVE PlaybackTypeOK'
  OBVIOUS
<1> USE DEF PlaybackTypeOK
<1>1. CASE Talk
  <2>1. next' \in Number
    BY <1>1, NextNumber DEF Talk, Number
  <2>2. inFlight' \in SUBSET Datagram
    <3>1. ASSUME NEW d \in inFlight, d.late < Reach
          PROVE  [d EXCEPT !.late = d.late + 1] \in Datagram
      BY <3>1 DEF Datagram
    <3>2. [number |-> next, late |-> 0, sameCall |-> TRUE] \in Datagram
      BY DEF Datagram
    <3>3. QED
      BY <1>1, <3>1, <3>2 DEF Talk
  <2>3. entry' \in PeerDecoder
    <3>1. entry.late \in Late /\ (IF entry.late <= Reach THEN entry.late + 1 ELSE entry.late) \in Late
      BY DEF PeerDecoder, Late
    <3>2. QED
      BY <1>1, <3>1 DEF Talk, PeerDecoder
  <2>4. QED
    BY <1>1, <2>1, <2>2, <2>3 DEF Talk
<1>2. CASE Rejoin
  <2>1. inFlight' \in SUBSET Datagram
    BY <1>2 DEF Rejoin, Datagram
  <2>2. entry' \in PeerDecoder /\ 0 \in Number
    BY <1>2, ForgottenType DEF Rejoin, PeerDecoder
  <2>3. QED
    BY <1>2, <2>1, <2>2 DEF Rejoin
<1>3. CASE Mix
  <2>1. ASSUME entry.age + 1 # Patience PROVE entry' \in PeerDecoder
    <3> DEFINE age == IF entry.last = -1 THEN 0 ELSE entry.age + 1
               queued == IF deafened \/ entry.queued = 0 THEN entry.queued
                         ELSE entry.queued - 1
    <3>1. entry.age \in 0..Patience - 1 /\ entry.queued \in 0..QueuedMax
      BY DEF PeerDecoder
    <3>2. age \in 0..Patience - 1 /\ queued \in 0..QueuedMax
      BY <2>1, <3>1
    <3>3. entry' = [entry EXCEPT !.age = age, !.queued = queued]
      BY <1>3, <2>1 DEF Mix
    <3> HIDE DEF age, queued
    <3>4. QED
      BY <3>2, <3>3 DEF PeerDecoder
  <2>2. QED
    BY <1>3, <2>1, ForgottenType DEF Mix
<1>4. CASE SetDeafened
  BY <1>4 DEF SetDeafened
<1>5. ASSUME NEW d \in inFlight, Lose(d) PROVE PlaybackTypeOK'
  BY <1>5 DEF Lose
<1>6. ASSUME NEW d \in inFlight, Hear(d) PROVE PlaybackTypeOK'
  <2>1. d \in Datagram /\ entry \in PeerDecoder
    OBVIOUS
  <2>2. [last |-> d.number, age |-> 0,
         queued |-> IF entry.queued < QueuedMax THEN entry.queued + 1 ELSE QueuedMax,
         late |-> d.late, sameCall |-> d.sameCall] \in PeerDecoder
    BY <2>1 DEF Datagram, PeerDecoder, Late
  <2>3. QED
    BY <1>6, <2>2 DEF Hear
<1>7. CASE UNCHANGED playbackVars
  BY <1>7 DEF playbackVars
<1>8. QED
  BY <1>1, <1>2, <1>3, <1>4, <1>5, <1>6, <1>7 DEF PlaybackNext

(* Of this call, the number of a frame says how many were sent after it. *)
Counts(number, late) == number = IF late < next THEN next - 1 - late ELSE Width + next - 1 - late

NumbersInv ==
    /\ \A d \in inFlight : d.sameCall => Counts(d.number, d.late)
    /\ entry.last # -1 /\ entry.sameCall /\ entry.late <= Reach => Counts(entry.last, entry.late)

LEMMA NumbersStart == PlaybackInit => NumbersInv
BY DEF PlaybackInit, NumbersInv, Forgotten

(* One more frame is sent, and every frame of this call is one later. *)
LEMMA OneLater ==
    ASSUME PlaybackTypeOK, next' = (next + 1) % Width,
           NEW number, NEW late \in 0..Reach, Counts(number, late)
    PROVE  late + 1 <= Reach => number = IF late + 1 < next' THEN next' - 1 - (late + 1)
                                         ELSE Width + next' - 1 - (late + 1)
  BY NextNumber DEF PlaybackTypeOK, Counts, Number

LEMMA NumbersStep == PlaybackTypeOK /\ NumbersInv /\ [PlaybackNext]_playbackVars => NumbersInv'
<1> SUFFICES ASSUME PlaybackTypeOK, NumbersInv, [PlaybackNext]_playbackVars
             PROVE  NumbersInv'
  OBVIOUS
<1>1. CASE Talk
  <2>1. next' = (next + 1) % Width /\ next \in 0..Width - 1
    BY <1>1 DEF Talk, PlaybackTypeOK, Number
  <2>2. ASSUME NEW d \in inFlight', d.sameCall PROVE Counts(d.number, d.late)'
    <3>1. CASE d = [number |-> next, late |-> 0, sameCall |-> TRUE]
      BY <2>1, <3>1, NextNumber DEF Counts
    <3>2. ASSUME NEW c \in inFlight, c.late < Reach, d = [c EXCEPT !.late = c.late + 1]
          PROVE  Counts(d.number, d.late)'
      <4>1. c \in Datagram
        BY DEF PlaybackTypeOK
      <4>2. /\ c.late \in 0..Reach /\ c.sameCall = d.sameCall
            /\ d.number = c.number /\ d.late = c.late + 1
        BY <3>2, <4>1 DEF Datagram
      <4>3. Counts(c.number, c.late)
        BY <2>2, <4>2 DEF NumbersInv
      <4>4. QED
        BY <2>1, <3>2, <4>2, <4>3, OneLater DEF Counts
    <3>3. QED
      BY <1>1, <2>2, <3>1, <3>2 DEF Talk
  <2>3. ASSUME entry'.last # -1, entry'.sameCall, entry'.late <= Reach
        PROVE  Counts(entry.last, entry.late)'
    <3>1. entry \in PeerDecoder /\ entry.late \in 0..Reach + 1
      BY DEF PlaybackTypeOK, PeerDecoder, Late
    <3>2. /\ entry'.last = entry.last /\ entry'.sameCall = entry.sameCall
          /\ entry'.late = IF entry.late <= Reach THEN entry.late + 1 ELSE entry.late
      BY <1>1, <3>1 DEF Talk, PeerDecoder
    <3>3. entry.late \in 0..Reach /\ entry'.late = entry.late + 1
      BY <2>3, <3>1, <3>2
    <3>4. Counts(entry.last, entry.late)
      BY <2>3, <3>2, <3>3 DEF NumbersInv
    <3>5. QED
      BY <2>1, <2>3, <3>2, <3>3, <3>4, OneLater DEF Counts
  <2>4. QED
    BY <2>2, <2>3 DEF NumbersInv
<1>2. CASE Rejoin
  <2>1. \A d \in inFlight' : d.sameCall = FALSE
    BY <1>2 DEF Rejoin, PlaybackTypeOK, Datagram
  <2>2. entry'.sameCall = FALSE
    BY <1>2 DEF Rejoin, PlaybackTypeOK, PeerDecoder
  <2>3. QED
    BY <2>1, <2>2 DEF NumbersInv
<1>3. CASE Mix
  <2>1. entry' = Forgotten \/ /\ entry'.last = entry.last /\ entry'.late = entry.late
                              /\ entry'.sameCall = entry.sameCall
    BY <1>3 DEF Mix, PlaybackTypeOK, PeerDecoder
  <2>2. UNCHANGED <<next, inFlight>>
    BY <1>3 DEF Mix
  <2>3. QED
    BY <2>1, <2>2 DEF NumbersInv, Counts, Forgotten
<1>4. CASE SetDeafened
  BY <1>4 DEF SetDeafened, NumbersInv, Counts
<1>5. ASSUME NEW d \in inFlight, Lose(d) PROVE NumbersInv'
  BY <1>5 DEF Lose, NumbersInv, Counts
<1>6. ASSUME NEW d \in inFlight, Hear(d) PROVE NumbersInv'
  <2>1. UNCHANGED next /\ inFlight' \subseteq inFlight
    BY <1>6 DEF Hear
  <2>2. \/ UNCHANGED entry
        \/ entry'.last = d.number /\ entry'.late = d.late /\ entry'.sameCall = d.sameCall
    BY <1>6 DEF Hear
  <2>3. QED
    BY <2>1, <2>2 DEF NumbersInv, Counts
<1>7. CASE UNCHANGED playbackVars
  BY <1>7 DEF playbackVars, NumbersInv, Counts
<1>8. QED
  BY <1>1, <1>2, <1>3, <1>4, <1>5, <1>6, <1>7 DEF PlaybackNext

(* Of two frames of this call less than half the numbers apart, the wrapped
   difference tells which was sent later. *)
LEMMA NewerIsLater ==
    ASSUME PlaybackTypeOK, NEW a \in 0..Reach, NEW b \in 0..Reach, NEW i, NEW j,
           Counts(i, a), Counts(j, b)
    PROVE  (SequenceIsNewer(i, j) <=> a < b) /\ (a < b => i # j)
<1>1. /\ i \in 0..Width - 1 /\ j \in 0..Width - 1 /\ next \in 0..Width - 1
      /\ \/ i - j = b - a \/ i - j = b - a + Width \/ i - j = b - a - Width
  BY DEF PlaybackTypeOK, Number, Counts
<1>2. (i - j) % Width = IF b - a >= 0 THEN b - a ELSE b - a + Width
  <2>1. b - a \in -Reach..Reach /\ b - a < Width /\ b - a > -Width
    OBVIOUS
  <2>2. QED
    BY <1>1, <2>1, Wrapped
<1>3. (Width - 1) \div 2 > Reach /\ (Width - 1) \div 2 < Width - Reach
  BY HalfIsMore
<1>4. QED
  BY <1>1, <1>2, <1>3 DEF SequenceIsNewer

(* Whatever is lost or overtaken and however often the numbers wrap around, a
   listener takes a frame of a call exactly when it was sent after the last it
   took (sequence_is_newer). *)
THEOREM PlayedInOrder == PlaybackSpec => FramesInOrder
<1> DEFINE I == PlaybackTypeOK /\ NumbersInv
           A == \A d \in inFlight :
                  /\ Hear(d)
                  /\ entry.last # -1
                  /\ d.sameCall = entry.sameCall /\ d.sameCall
                  /\ entry.late <= Reach
                  => (entry' # entry <=> d.late < entry.late)
<1>1. PlaybackInit => I
  BY PlaybackTypesInit, NumbersStart
<1>2. I /\ [PlaybackNext]_playbackVars => I'
  BY PlaybackTypes, NumbersStep
<1>3. I => A
  <2> SUFFICES ASSUME I, NEW d \in inFlight, Hear(d), entry.last # -1,
                      d.sameCall = entry.sameCall, d.sameCall, entry.late <= Reach
               PROVE  entry' # entry <=> d.late < entry.late
    OBVIOUS
  <2>1. Counts(d.number, d.late) /\ Counts(entry.last, entry.late)
    BY DEF NumbersInv
  <2>2. d.late \in 0..Reach /\ entry.late \in 0..Reach
    BY DEF PlaybackTypeOK, Datagram, PeerDecoder, Late
  <2>3. /\ SequenceIsNewer(d.number, entry.last) <=> d.late < entry.late
        /\ d.late < entry.late => d.number # entry.last
    BY <2>1, <2>2, NewerIsLater
  <2>4. CASE SequenceIsNewer(d.number, entry.last)
    <3>1. entry'.last = d.number
      BY <2>4 DEF Hear, Wanted
    <3>2. QED
      BY <2>3, <2>4, <3>1
  <2>5. CASE ~SequenceIsNewer(d.number, entry.last)
    BY <2>3, <2>5 DEF Hear, Wanted
  <2>6. QED
    BY <2>4, <2>5
<1>4. QED
  BY <1>1, <1>2, <1>3, PTL DEF PlaybackSpec, FramesInOrder

-----------------------------------------------------------------------------
(*****************************************************************************)
(* The mapping in the router.                                                *)
(*****************************************************************************)

(* What the router still has is in the cell once the thread has stored it; the
   thread does not outlive the program. *)
PortInv ==
    /\ PortTypeOK
    /\ NoMappingLeft
    /\ node = "starting" => asking = "none" /\ ~router
    /\ asking \in {"none", "search"} => ~router
    /\ asking \in {"stored", "ended"} /\ router => cell
    /\ node = "exited" => asking \in {"none", "ended", "killed"}

LEMMA PortStarts == PortInit => PortInv
BY DEF PortInit, PortInv, PortTypeOK, NoMappingLeft

LEMMA PortSteps == PortInv /\ [PortNext]_portVars => PortInv'
<1> SUFFICES ASSUME PortInv, [PortNext]_portVars PROVE PortInv'
  OBVIOUS
<1> USE DEF PortInv, PortTypeOK, NoMappingLeft
<1>1. CASE StartNode
  BY <1>1 DEF StartNode
<1>2. CASE AskRouter
  <2>1. CASE asking' = "mapped" /\ router' = TRUE
    BY <1>2, <2>1 DEF AskRouter
  <2>2. CASE asking' = "ended" /\ UNCHANGED router
    BY <1>2, <2>2 DEF AskRouter
  <2>3. QED
    BY <1>2, <2>1, <2>2 DEF AskRouter
<1>3. CASE Advertise \/ StoreMapping
  BY <1>3 DEF Advertise, StoreMapping
<1>4. CASE EndThread
  BY <1>4 DEF EndThread
<1>5. CASE Close
  BY <1>5 DEF Close
<1>6. CASE TakeMapping
  BY <1>6 DEF TakeMapping
<1>7. CASE Exit
  BY <1>7 DEF Exit
<1>8. CASE UNCHANGED portVars
  BY <1>8 DEF portVars
<1>9. QED
  BY <1>1, <1>2, <1>3, <1>4, <1>5, <1>6, <1>7, <1>8 DEF PortNext

(* Whenever the router answers, before, while or after the node is dropped, the
   last to let go of the cell removes the mapping (Drop for PortMapping). *)
THEOREM RouterIsCleared == PortSpec => []NoMappingLeft
<1>1. PortInv => NoMappingLeft
  BY DEF PortInv
<1>2. QED
  BY <1>1, PortStarts, PortSteps, PTL DEF PortSpec

-----------------------------------------------------------------------------
(*****************************************************************************)
(* The device.                                                               *)
(*****************************************************************************)

(* One component moves at a time, and the others stay. *)
LEMMA OneComponentMoves ==
    [DesktopNext]_desktopVars =>
        /\ [ComposerNext]_composerVars /\ [VoiceNext]_voiceVars
        /\ [PlaybackNext]_playbackVars /\ [ScreenNext]_screenVars
        /\ [ProfileNext]_profileVars /\ [PortNext]_portVars
BY DEF DesktopNext, Composing, Calling, Listening, Sharing, Keeping, Mapping, desktopVars,
       others

(* A run of the device is one of each component, of which all but one rest. *)
LEMMA DesktopParts ==
    DesktopSpec => /\ ComposerSpec /\ VoiceSpec /\ PlaybackSpec
                   /\ ScreenSpec /\ ProfileSpec /\ PortSpec
<1>1. DesktopInit => /\ ComposerInit /\ VoiceInit /\ PlaybackInit
                     /\ ScreenInit /\ ProfileInit /\ PortInit
  BY DEF DesktopInit
<1>2. QED
  BY <1>1, OneComponentMoves, PTL
     DEF DesktopSpec, ComposerSpec, VoiceSpec, PlaybackSpec, ScreenSpec, ProfileSpec, PortSpec

(* The state of every component keeps its types, for any groups, channels and
   texts, any number of calls and shares, any keys and names and any bounds. *)
THEOREM DesktopTypes == DesktopSpec => []DesktopTypeOK
<1>1. ComposerInv /\ VoiceTypeInv /\ PlaybackTypeOK /\ ScreenTypeOK /\ ProfileTypeOK /\ PortInv
        => DesktopTypeOK
  BY DEF DesktopTypeOK, ComposerInv, VoiceTypeInv, PortInv
<1>2. ComposerSpec => []ComposerInv
  BY ComposerStarts, ComposerSteps, PTL DEF ComposerSpec
<1>3. VoiceSpec => []VoiceTypeInv
  BY VoiceTypesInit, VoiceTypes, PTL DEF VoiceSpec
<1>4. PlaybackSpec => []PlaybackTypeOK
  BY PlaybackTypesInit, PlaybackTypes, PTL DEF PlaybackSpec
<1>5. ScreenSpec => []ScreenTypeOK
  <2>1. ScreenInv => ScreenTypeOK
    BY DEF ScreenInv
  <2>2. QED
    BY <2>1, ScreenStarts, ScreenSteps, PTL DEF ScreenSpec
<1>6. ProfileSpec => []ProfileTypeOK
  BY ProfileTypesInit, ProfileTypes, PTL DEF ProfileSpec
<1>7. PortSpec => []PortInv
  BY PortStarts, PortSteps, PTL DEF PortSpec
<1>8. QED
  BY <1>1, <1>2, <1>3, <1>4, <1>5, <1>6, <1>7, DesktopParts, PTL

(* What the components promise holds on the device as a whole. *)
THEOREM DesktopIsSafe ==
    DesktopSpec => /\ [](/\ TextKept /\ AtHome /\ CallsEnd /\ MuteStops
                         /\ SharesWhatItShows /\ OneIdentity /\ NameKept /\ NoMappingLeft)
                   /\ FramesInOrder
BY DesktopParts, TextsKept, TextsAtHome, CallsAreOver, MuteIsQuick, OnlyTheShownShare,
   OneIdentityForEver, SavedNameKept, RouterIsCleared, PlayedInOrder, PTL
=============================================================================
