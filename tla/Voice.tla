------------------------------- MODULE Voice -------------------------------
(***************************************************************************)
(* Joining and leaving the voice call: AudioEngine and ActiveAudio         *)
(* (src/audio.rs).  The window's thread starts a call step by step, each   *)
(* of which may fail, and leaves it by clearing a flag and joining the     *)
(* encoder and the decoder threads.  The microphone callback runs on a     *)
(* thread of the audio library.                                            *)
(*                                                                         *)
(* A call is one attempt to join.  The snapshot names a group exactly when *)
(* the engine has an active call and the window is free, so it is left     *)
(* out.  What the threads do to the sound is left out too; module Playback *)
(* has the order of the packets.                                           *)
(***************************************************************************)
EXTENDS Naturals

CONSTANTS
    MaxCalls,     \* bound: attempts to join
    QueueCap,     \* frames the capture channel holds (8)
    MaxPackets    \* bound: voice packets the decoder finds in one draining

ASSUME VoiceAssumption ==
    /\ MaxCalls \in Nat
    /\ QueueCap \in Nat
    /\ MaxPackets \in Nat

VARIABLES
    call,     \* [Call -> its flags, its threads, its queues]
    calls,    \* attempts so far
    active,   \* AudioEngine.active, 0 for none
    step,     \* where the window's thread is
    failed,   \* attempts that did not succeed
    leaked    \* frames sent since the user muted

window == <<calls, active, step, failed>>
voiceVars == <<call, window, leaked>>

Call == 1..MaxCalls
Ended == {"none", "done"}
Joining == {"streams", "encoder", "decoder", "microphone", "speakers"}

VoiceTypeOK ==
    /\ call \in [Call -> [running: BOOLEAN,
                          muted: BOOLEAN,
                          mic: {"off", "listening", "recording"},
                          queue: 0..QueueCap,        \* captured frames
                          packets: 0..MaxPackets,    \* still to come in this draining
                          encoder: {"none", "receive", "check", "send", "done"},
                          decoder: {"none", "look", "drain", "done"}]]
    /\ calls \in 0..MaxCalls
    /\ active \in 0..MaxCalls
    /\ step \in {"idle", "joinEncoder", "joinDecoder"} \cup Joining
    /\ failed \in SUBSET Call
    /\ leaked \in Nat

VoiceInit ==
    /\ call = [c \in Call |->
                [running |-> FALSE, muted |-> FALSE, mic |-> "off", queue |-> 0,
                 packets |-> 0, encoder |-> "none", decoder |-> "none"]]
    /\ calls = 0
    /\ active = 0
    /\ step = "idle"
    /\ failed = {}
    /\ leaked = 0

-----------------------------------------------------------------------------
(* The window's thread. *)

StepTo(from, to) == step = from /\ step' = to

(* The button is there when no call is shown. *)
Join ==
    /\ StepTo("idle", "streams")
    /\ active = 0
    /\ calls < MaxCalls
    /\ calls' = calls + 1
    /\ UNCHANGED <<call, active, failed, leaked>>

(* The devices, the channel, the flags, the two streams; the encoder thread,
   which ends at once when there is no Opus encoder; the decoder thread; the
   microphone. *)
StartStep ==
    /\ \/ /\ StepTo("streams", "encoder")
          /\ call' = [call EXCEPT ![calls].running = TRUE]
       \/ /\ StepTo("encoder", "decoder")
          /\ \E at \in {"receive", "done"} : call' = [call EXCEPT ![calls].encoder = at]
       \/ /\ StepTo("decoder", "microphone")
          /\ call' = [call EXCEPT ![calls].decoder = "look"]
       \/ /\ StepTo("microphone", "speakers")
          /\ call' = [call EXCEPT ![calls].mic = "listening"]
    /\ UNCHANGED <<calls, active, failed, leaked>>

(* The speakers play: the call is the engine's. *)
Joined ==
    /\ StepTo("speakers", "idle")
    /\ active' = calls
    /\ leaked' = 0
    /\ UNCHANGED <<call, calls, failed>>

(* Any of these steps fails: the streams are dropped, but the flag stays set
   and the threads that were spawned are not joined. *)
StartFails ==
    /\ step \in Joining
    /\ step' = "idle"
    /\ call' = [call EXCEPT ![calls].mic = "off"]
    /\ failed' = failed \cup {calls}
    /\ UNCHANGED <<calls, active, leaked>>

(* Slip: the flag is left alone. *)
LeaveFlagless ==
    /\ StepTo("idle", "joinEncoder")
    /\ active # 0
    /\ UNCHANGED <<call, calls, active, failed, leaked>>

(* The leave button, or the end of the window: Drop clears the flag. *)
Leave ==
    /\ StepTo("idle", "joinEncoder")
    /\ active # 0
    /\ call' = [call EXCEPT ![active].running = FALSE]
    /\ UNCHANGED <<calls, active, failed, leaked>>

(* Slip: the decoder is not waited for. *)
DropEarly ==
    /\ StepTo("joinEncoder", "idle")
    /\ call[active].encoder \in Ended
    /\ call' = [call EXCEPT ![active].mic = "off"]
    /\ active' = 0
    /\ UNCHANGED <<calls, failed, leaked>>

(* Drop joins the encoder, then the decoder; then the streams are dropped. *)
JoinThreads ==
    /\ \/ /\ StepTo("joinEncoder", "joinDecoder")
          /\ call[active].encoder \in Ended
          /\ UNCHANGED <<call, active>>
       \/ /\ StepTo("joinDecoder", "idle")
          /\ call[active].decoder \in Ended
          /\ call' = [call EXCEPT ![active].mic = "off"]
          /\ active' = 0
    /\ UNCHANGED <<calls, failed, leaked>>

SetMuted ==
    /\ step = "idle"
    /\ active # 0
    /\ call' = [call EXCEPT ![active].muted = ~@]
    /\ leaked' = 0
    /\ UNCHANGED window

-----------------------------------------------------------------------------
(* The threads of a call. *)

(* The callback of the input stream looks at the mute once, at its start; by
   its end a frame may be full, which is lost when the channel is. *)
Capture(c) ==
    /\ \/ /\ call[c].mic = "listening"
          /\ ~call[c].muted
          /\ call' = [call EXCEPT ![c].mic = "recording"]
       \/ /\ call[c].mic = "recording"
          /\ \E frames \in 0..1 :
                /\ call[c].queue + frames <= QueueCap
                /\ call' = [call EXCEPT ![c].mic = "listening", ![c].queue = @ + frames]
    /\ UNCHANGED <<window, leaked>>

(* The head of the loop and recv_timeout; a timeout, and the error when the
   stream is gone, go back to the head. *)
ReceiveFrame(c) ==
    /\ call[c].encoder = "receive"
    /\ \/ /\ ~call[c].running
          /\ call' = [call EXCEPT ![c].encoder = "done"]
       \/ /\ call[c].running
          /\ call[c].queue > 0
          /\ call' = [call EXCEPT ![c].encoder = "check", ![c].queue = @ - 1]
    /\ UNCHANGED <<window, leaked>>

(* Slip: the mute is left to the microphone. *)
PassMuted(c) ==
    /\ call[c].encoder = "check"
    /\ call' = [call EXCEPT ![c].encoder = "send"]
    /\ UNCHANGED <<window, leaked>>

CheckMuted(c) ==
    /\ call[c].encoder = "check"
    /\ call' = [call EXCEPT ![c].encoder = IF call[c].muted THEN "receive" ELSE "send"]
    /\ UNCHANGED <<window, leaked>>

SendFrame(c) ==
    /\ call[c].encoder = "send"
    /\ call' = [call EXCEPT ![c].encoder = "receive"]
    /\ leaked' = IF c = active /\ call[c].muted THEN leaked + 1 ELSE leaked
    /\ UNCHANGED window

(* The flag is looked at before each draining of the receiver, and a draining goes
   on until the receiver is empty: what it holds and what comes meanwhile.  That
   is finite as long as the decoder is faster than the packets, but there may be
   packets in every draining. *)
Decode(c) ==
    /\ \/ /\ call[c].decoder = "look"
          /\ ~call[c].running
          /\ call' = [call EXCEPT ![c].decoder = "done"]
       \/ /\ call[c].decoder = "look"
          /\ call[c].running
          /\ \E some \in 0..MaxPackets :
                call' = [call EXCEPT ![c].decoder = "drain", ![c].packets = some]
       \/ /\ call[c].decoder = "drain"
          /\ call[c].packets > 0
          /\ call' = [call EXCEPT ![c].packets = @ - 1]
       \/ /\ call[c].decoder = "drain"
          /\ call[c].packets = 0
          /\ call' = [call EXCEPT ![c].decoder = "look"]
    /\ UNCHANGED <<window, leaked>>

WindowGoesOn == StartStep \/ Joined \/ StartFails \/ JoinThreads
Encode(c) == ReceiveFrame(c) \/ CheckMuted(c) \/ SendFrame(c)
VoiceNext ==
    \/ Join \/ Leave \/ SetMuted \/ WindowGoesOn
    \/ \E c \in Call : Capture(c) \/ Encode(c) \/ Decode(c)

VoiceSpec == VoiceInit /\ [][VoiceNext]_voiceVars

-----------------------------------------------------------------------------
(* Whenever the window is free, only the call it is in has an open microphone,
   and a call that was joined and left has no thread any more; the threads of a
   failed start are the only ones that may outlive their call (join, leave,
   ActiveAudio::start and its Drop). *)
CallsEnd ==
    step = "idle" => \A c \in Call \ {active} :
        /\ call[c].mic = "off"
        /\ c \notin failed => call[c].encoder \in Ended /\ call[c].decoder \in Ended

(* What README.md:25 says of the call: audio is active only while joined.  With
   no call, no thread encodes or decodes (start, leave). *)
AudioOnlyWhileJoined ==
    step = "idle" /\ active = 0 =>
        \A c \in Call : call[c].encoder \in Ended /\ call[c].decoder \in Ended

(* After the user mutes, at most the one frame the encoder had looked at already
   goes out, however many are queued (set_muted, encode_loop).  To go out is to be
   given to the node: what its voice_packets broadcast has by then is still sent. *)
MuteStops == leaked <= 1

(* The window does not hang in leave: both threads see the flag although nobody
   speaks and although packets never cease to come (Drop for ActiveAudio). *)
LeaveReturns == step = "joinEncoder" ~> step = "idle"
=============================================================================
