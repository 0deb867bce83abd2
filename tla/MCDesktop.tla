----------------------------- MODULE MCDesktop -----------------------------
(***************************************************************************)
(* The local components of a device, for TLC.  They share no variable, so  *)
(* every behaviour of the device is one behaviour of each; a run picks one *)
(* component at the start and lets the others rest, which for properties   *)
(* of one component loses nothing and saves the product of their states.   *)
(***************************************************************************)
EXTENDS Composer, Voice, Playback, ScreenShare, Profile, PortMapping

CONSTANTS
    Parts,                          \* the components the run may pick
    club, den,                      \* groups
    general, extra, cellar,         \* channels: two of club, one of den
    t1, t2, k1, k2, n1, n2

VARIABLE part

others == <<composerVars, voiceVars, playbackVars, screenVars, profileVars, portVars>>
desktopVars == <<part, others>>

MCGroupOf == [c \in Channel |-> IF c = cellar THEN den ELSE club]
MCRank == [x \in Group \cup Channel |-> IF x \in {extra, den} THEN 1 ELSE 0]

DesktopTypeOK ==
    /\ ComposerTypeOK /\ VoiceTypeOK /\ PlaybackTypeOK
    /\ ScreenTypeOK /\ ProfileTypeOK /\ PortTypeOK

(* A component that rests stays where it starts. *)
DesktopInit ==
    /\ part \in Parts
    /\ ComposerInit
    /\ part # "composer" => haveGroups = {}
    /\ VoiceInit /\ PlaybackInit /\ ScreenInit /\ ProfileInit /\ PortInit

Composing == part = "composer" /\ ComposerNext
             /\ UNCHANGED <<part, voiceVars, playbackVars, screenVars, profileVars, portVars>>
Calling == part = "voice" /\ VoiceNext
           /\ UNCHANGED <<part, composerVars, playbackVars, screenVars, profileVars, portVars>>
Listening == part = "playback" /\ PlaybackNext
             /\ UNCHANGED <<part, composerVars, voiceVars, screenVars, profileVars, portVars>>
Sharing == part = "screen" /\ ScreenNext
           /\ UNCHANGED <<part, composerVars, voiceVars, playbackVars, profileVars, portVars>>
Keeping == part = "profile" /\ ProfileNext
           /\ UNCHANGED <<part, composerVars, voiceVars, playbackVars, screenVars, portVars>>
Mapping == part = "port" /\ PortNext
           /\ UNCHANGED <<part, composerVars, voiceVars, playbackVars, screenVars, profileVars>>

DesktopNext == Composing \/ Calling \/ Listening \/ Sharing \/ Keeping \/ Mapping

(* The threads that exist go on, the sender of a call keeps talking, and of its
   datagrams one arrives now and then. *)
DesktopFairness ==
    /\ WF_voiceVars(part = "voice" /\ WindowGoesOn)
    /\ \A c \in Call : /\ WF_voiceVars(part = "voice" /\ Encode(c))
                       /\ WF_voiceVars(part = "voice" /\ Decode(c))
    /\ WF_playbackVars(part = "playback" /\ Talk)
    /\ WF_playbackVars(part = "playback" /\ Mix)
    /\ SF_playbackVars(part = "playback" /\ \E d \in inFlight : Hear(d))
    /\ WF_screenVars(part = "screen" /\ (JoinWorker \/ Spawn))
    /\ \A s \in Share : WF_screenVars(part = "screen" /\ Work(s))

DesktopSpec == DesktopInit /\ [][DesktopNext]_desktopVars /\ DesktopFairness

(* HeardAgain in the runs that pick the listener. *)
ListenerHearsAgain == part = "playback" => HeardAgain
=============================================================================
