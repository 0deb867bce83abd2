---------------------------- MODULE VoiceProofs ----------------------------
(* Joining, leaving and muting a call, for any number of calls, any queue and *)
(* any traffic.                                                              *)
EXTENDS Voice, TLAPS

USE VoiceAssumption DEF VoiceAssumption

CallState == [running: BOOLEAN,
              muted: BOOLEAN,
              mic: {"off", "listening", "recording"},
              queue: 0..QueueCap,
              packets: 0..MaxPackets,
              encoder: {"none", "receive", "check", "send", "done"},
              decoder: {"none", "look", "drain", "done"}]


(* A flag of a call that is set anew, and a call that is put back. *)
LEMMA FlagSet ==
    ASSUME NEW r \in CallState, NEW b \in BOOLEAN
    PROVE  /\ [r EXCEPT !.running = b] \in CallState
           /\ [r EXCEPT !.muted = b] \in CallState
BY DEF CallState

LEMMA CallSet ==
    ASSUME NEW f \in [Call -> CallState], NEW c \in Call, NEW r \in CallState
    PROVE  [f EXCEPT ![c] = r] \in [Call -> CallState]
OBVIOUS

(* While a call is being joined, it is the latest and there is no other. *)
VoiceTypeInv ==
    /\ VoiceTypeOK
    /\ step \in Joining => calls # 0 /\ active = 0
    /\ step \in {"joinEncoder", "joinDecoder"} => active # 0

LEMMA VoiceTypesInit == VoiceInit => VoiceTypeInv
BY DEF VoiceInit, VoiceTypeInv, VoiceTypeOK, Call, Joining

LEMMA VoiceTypes == VoiceTypeInv /\ [VoiceNext]_voiceVars => VoiceTypeInv'
<1> SUFFICES ASSUME VoiceTypeInv, [VoiceNext]_voiceVars PROVE VoiceTypeInv'
  OBVIOUS
<1>0. call \in [Call -> CallState]
  BY DEF VoiceTypeInv, VoiceTypeOK, CallState
<1>1. \A c \in 0..MaxCalls : c # 0 => c \in Call
  BY DEF Call
<1> USE DEF VoiceTypeInv, VoiceTypeOK, window, StepTo
<1>2. CASE Join
  BY <1>2 DEF Join, Joining
<1>3. CASE Leave
  <2>1. active \in Call /\ call' = [call EXCEPT ![active].running = FALSE]
    BY <1>1, <1>3 DEF Leave
  <2>2. call' \in [Call -> CallState]
    BY <1>0, <2>1, FlagSet, CallSet
  <2>3. QED
    BY <1>3, <2>2 DEF Leave, Joining, CallState
<1>4. CASE SetMuted
  <2>1. /\ active \in Call /\ (~call[active].muted) \in BOOLEAN
        /\ call' = [call EXCEPT ![active].muted = ~call[active].muted]
    BY <1>0, <1>1, <1>4 DEF SetMuted
  <2>2. call' \in [Call -> CallState]
    BY <1>0, <2>1, FlagSet, CallSet
  <2>3. QED
    BY <1>4, <2>2 DEF SetMuted, Joining, CallState
<1>5. CASE StartStep
  <2>1. calls \in Call
    BY <1>1, <1>5 DEF StartStep, Joining
  <2>2. CASE call' = [call EXCEPT ![calls].running = TRUE]
    <3>1. [call[calls] EXCEPT !.running = TRUE] \in CallState
      BY <1>0, <2>1, FlagSet
    <3>2. call' \in [Call -> CallState]
      BY <1>0, <2>1, <2>2, <3>1, CallSet
    <3>3. QED
      BY <1>5, <3>2 DEF StartStep, Joining, CallState
  <2>3. CASE \/ \E at \in {"receive", "done"} : call' = [call EXCEPT ![calls].encoder = at]
             \/ call' = [call EXCEPT ![calls].decoder = "look"]
             \/ call' = [call EXCEPT ![calls].mic = "listening"]
    <3>1. call' \in [Call -> CallState]
      BY <1>0, <2>1, <2>3 DEF CallState
    <3>2. QED
      BY <1>5, <3>1 DEF StartStep, Joining, CallState
  <2>4. QED
    BY <1>5, <2>2, <2>3 DEF StartStep
<1>6. CASE Joined
  BY <1>6 DEF Joined, Joining
<1>7. CASE StartFails
  <2>1. calls \in Call /\ call' = [call EXCEPT ![calls].mic = "off"]
    BY <1>1, <1>7 DEF StartFails
  <2>2. call' \in [Call -> CallState]
    BY <1>0, <2>1 DEF CallState
  <2>3. QED
    BY <1>7, <2>1, <2>2 DEF StartFails, Joining, CallState
<1>8. CASE JoinThreads
  <2>1. active \in Call
    BY <1>1, <1>8 DEF JoinThreads
  <2>2. call' \in [Call -> CallState]
    BY <1>0, <1>8, <2>1 DEF JoinThreads, CallState
  <2>3. QED
    BY <1>8, <2>2 DEF JoinThreads, Joining, CallState
<1>9. ASSUME NEW c \in Call, Capture(c) \/ Decode(c) PROVE VoiceTypeInv'
  <2>1. call' \in [Call -> CallState]
    BY <1>0, <1>9 DEF Capture, Decode, CallState
  <2>2. QED
    BY <1>9, <2>1 DEF Capture, Decode, CallState
<1>10. ASSUME NEW c \in Call, Encode(c) PROVE VoiceTypeInv'
  <2>1. call' \in [Call -> CallState]
    BY <1>0, <1>10 DEF Encode, ReceiveFrame, CheckMuted, SendFrame, CallState
  <2>2. QED
    BY <1>10, <2>1 DEF Encode, ReceiveFrame, CheckMuted, SendFrame, CallState
<1>11. CASE UNCHANGED voiceVars
  BY <1>11 DEF voiceVars
<1>12. QED
  BY <1>2, <1>3, <1>4, <1>5, <1>6, <1>7, <1>8, <1>9, <1>10, <1>11
     DEF VoiceNext, WindowGoesOn

-----------------------------------------------------------------------------
(* A call other than the engine's and the one being joined is closed, and the
   one being left has lost its encoder when the decoder's turn comes. *)
Closed(c) ==
    /\ call[c].mic = "off"
    /\ c \notin failed => call[c].encoder \in Ended /\ call[c].decoder \in Ended

CallsInv ==
    /\ \A c \in Call : c # active /\ ~(step \in Joining /\ c = calls) => Closed(c)
    /\ step = "joinDecoder" => call[active].encoder \in Ended

LEMMA CallsStart == VoiceInit => CallsInv
BY DEF VoiceInit, CallsInv, Closed, Ended, Joining

(* What the threads of a call do to it: they open no microphone and begin
   nothing again. *)
LEMMA ThreadsOnlyEnd ==
    ASSUME VoiceTypeInv, NEW c \in Call, Capture(c) \/ Encode(c) \/ Decode(c), NEW d \in Call
    PROVE  /\ call[d].mic = "off" => call'[d].mic = "off"
           /\ call[d].encoder \in Ended => call'[d].encoder \in Ended
           /\ call[d].decoder \in Ended => call'[d].decoder \in Ended
           /\ call'[d].muted = call[d].muted
           /\ UNCHANGED window
<1>1. call \in [Call -> CallState]
  BY DEF VoiceTypeInv, VoiceTypeOK, CallState
<1>2. CASE Capture(c)
  BY <1>1, <1>2 DEF Capture, CallState, Ended
<1>3. CASE Encode(c)
  BY <1>1, <1>3 DEF Encode, ReceiveFrame, CheckMuted, SendFrame, CallState, Ended
<1>4. CASE Decode(c)
  BY <1>1, <1>4 DEF Decode, CallState, Ended
<1>5. QED
  BY <1>2, <1>3, <1>4

LEMMA CallsStep == VoiceTypeInv /\ CallsInv /\ [VoiceNext]_voiceVars => CallsInv'
<1> SUFFICES ASSUME VoiceTypeInv, CallsInv, [VoiceNext]_voiceVars PROVE CallsInv'
  OBVIOUS
<1>0. /\ call \in [Call -> CallState]
      /\ \A c \in 0..MaxCalls : c # 0 => c \in Call
      /\ 0 \notin Call
      /\ active \in 0..MaxCalls /\ calls \in 0..MaxCalls
  BY DEF VoiceTypeInv, VoiceTypeOK, CallState, Call
<1> USE DEF CallsInv, Closed, StepTo, window
<1>1. CASE Join
  BY <1>1 DEF Join, Joining
<1>2. CASE Leave
  <2>1. \A c \in Call : c # active => call'[c] = call[c]
    BY <1>0, <1>2 DEF Leave
  <2>2. QED
    BY <1>0, <1>2, <2>1 DEF Leave, Joining
<1>3. CASE SetMuted
  <2>1. \A c \in Call : c # active => call'[c] = call[c]
    BY <1>0, <1>3 DEF SetMuted
  <2>2. QED
    BY <1>0, <1>3, <2>1 DEF SetMuted, Joining
<1>4. CASE StartStep
  <2>1. calls \in Call
    BY <1>0, <1>4 DEF StartStep, Joining, VoiceTypeInv
  <2>2. \A c \in Call : c # calls => call'[c] = call[c]
    BY <1>0, <1>4, <2>1 DEF StartStep
  <2>3. step \in Joining /\ step' \in Joining /\ UNCHANGED <<calls, active, failed>>
    BY <1>4 DEF StartStep, Joining
  <2>4. step' # "joinDecoder"
    BY <2>3 DEF Joining
  <2>5. QED
    BY <2>2, <2>3, <2>4
<1>5. CASE Joined
  BY <1>0, <1>5 DEF Joined, Joining, VoiceTypeInv
<1>6. CASE StartFails
  <2>1. calls \in Call /\ active = 0
    BY <1>0, <1>6 DEF StartFails, VoiceTypeInv
  <2>2. \A c \in Call : c # calls => call'[c] = call[c]
    BY <1>0, <1>6, <2>1 DEF StartFails
  <2>3. call'[calls].mic = "off" /\ calls \in failed'
    BY <1>0, <1>6, <2>1 DEF StartFails, CallState
  <2>4. QED
    BY <1>6, <2>1, <2>2, <2>3 DEF StartFails
<1>7. CASE JoinThreads
  <2>1. active \in Call /\ step \notin Joining
    BY <1>0, <1>7 DEF JoinThreads, Joining, VoiceTypeInv
  <2>2. CASE StepTo("joinEncoder", "joinDecoder")
    BY <1>7, <2>1, <2>2 DEF JoinThreads, Joining
  <2>3. CASE StepTo("joinDecoder", "idle")
    <3>1. \A c \in Call : c # active => call'[c] = call[c]
      BY <1>0, <1>7, <2>1, <2>3 DEF JoinThreads
    <3>2. /\ call'[active].mic = "off"
          /\ call'[active].encoder = call[active].encoder
          /\ call'[active].decoder = call[active].decoder
          /\ call[active].decoder \in Ended
      BY <1>0, <1>7, <2>1, <2>3 DEF JoinThreads, CallState
    <3>3. QED
      BY <1>7, <2>1, <2>3, <3>1, <3>2 DEF JoinThreads
  <2>4. QED
    BY <1>7, <2>2, <2>3 DEF JoinThreads
<1>8. ASSUME NEW c \in Call, Capture(c) \/ Encode(c) \/ Decode(c) PROVE CallsInv'
  <2>1. step = "joinDecoder" => active \in Call
    BY <1>0 DEF VoiceTypeInv
  <2>2. UNCHANGED window
    BY <1>8 DEF Capture, Encode, ReceiveFrame, CheckMuted, SendFrame, Decode
  <2>3. \A d \in Call :
            /\ call[d].mic = "off" => call'[d].mic = "off"
            /\ call[d].encoder \in Ended => call'[d].encoder \in Ended
            /\ call[d].decoder \in Ended => call'[d].decoder \in Ended
    BY <1>8, ThreadsOnlyEnd
  <2>4. QED
    BY <2>1, <2>2, <2>3
<1>9. CASE UNCHANGED voiceVars
  BY <1>9 DEF voiceVars
<1>10. QED
  BY <1>1, <1>2, <1>3, <1>4, <1>5, <1>6, <1>7, <1>8, <1>9 DEF VoiceNext, WindowGoesOn

(* A call that is over, joined or not, has no open microphone, and one that was
   joined and left has no thread: leave does not return before they end. *)
THEOREM CallsAreOver == VoiceSpec => []CallsEnd
<1>1. VoiceTypeInv /\ CallsInv => CallsEnd
  BY DEF CallsInv, Closed, CallsEnd, Joining
<1>2. QED
  BY <1>1, VoiceTypesInit, VoiceTypes, CallsStart, CallsStep, PTL DEF VoiceSpec

-----------------------------------------------------------------------------
(* The one frame that may go out after the mute is the one the encoder had
   looked at: once it is out, none is left that was not checked. *)
MuteInv ==
    /\ leaked <= 1
    /\ active # 0 /\ call[active].muted /\ call[active].encoder = "send" => leaked = 0

LEMMA MuteStart == VoiceInit => MuteInv
BY DEF VoiceInit, MuteInv

LEMMA MuteStep == VoiceTypeInv /\ MuteInv /\ [VoiceNext]_voiceVars => MuteInv'
<1> SUFFICES ASSUME VoiceTypeInv, MuteInv, [VoiceNext]_voiceVars PROVE MuteInv'
  OBVIOUS
<1>0. /\ call \in [Call -> CallState]
      /\ active # 0 => active \in Call
      /\ leaked \in Nat
  BY DEF VoiceTypeInv, VoiceTypeOK, CallState, Call
<1> USE DEF MuteInv, StepTo, window
<1>1. CASE Join \/ Joined \/ SetMuted
  BY <1>1 DEF Join, Joined, SetMuted
<1>2. CASE Leave
  <2>1. /\ call'[active].muted = call[active].muted
        /\ call'[active].encoder = call[active].encoder
    BY <1>0, <1>2 DEF Leave, CallState
  <2>2. QED
    BY <1>2, <2>1 DEF Leave
<1>3. CASE StartStep \/ StartFails
  BY <1>3 DEF StartStep, StartFails, VoiceTypeInv, Joining
<1>4. CASE JoinThreads
  BY <1>4 DEF JoinThreads
<1>5. ASSUME NEW c \in Call, Capture(c) \/ Decode(c) PROVE MuteInv'
  <2>1. /\ active # 0 => /\ call'[active].muted = call[active].muted
                         /\ call'[active].encoder = call[active].encoder
        /\ UNCHANGED <<active, leaked>>
    BY <1>0, <1>5 DEF Capture, Decode, CallState
  <2>2. QED
    BY <2>1
<1>6. ASSUME NEW c \in Call, ReceiveFrame(c) \/ CheckMuted(c) PROVE MuteInv'
  <2>1. /\ active # 0 /\ call'[active].muted /\ call'[active].encoder = "send"
            => call[active].muted /\ call[active].encoder = "send"
        /\ UNCHANGED <<active, leaked>>
    BY <1>0, <1>6 DEF ReceiveFrame, CheckMuted, CallState
  <2>2. QED
    BY <2>1
<1>7. ASSUME NEW c \in Call, SendFrame(c) PROVE MuteInv'
  <2>1. CASE c = active /\ call[c].muted
    <3>1. c # 0 /\ leaked = 0 /\ leaked' = 1
      BY <1>7, <2>1 DEF SendFrame, Call
    <3>2. active' = active /\ call'[active].encoder = "receive"
      BY <1>0, <1>7, <2>1 DEF SendFrame
    <3>3. QED
      BY <3>1, <3>2
  <2>2. CASE ~(c = active /\ call[c].muted)
    <3>1. active # 0 /\ call'[active].muted /\ call'[active].encoder = "send"
            => call[active].muted /\ call[active].encoder = "send"
      BY <1>0, <1>7 DEF SendFrame, CallState
    <3>2. UNCHANGED <<active, leaked>>
      BY <1>7, <2>2 DEF SendFrame
    <3>3. QED
      BY <3>1, <3>2
  <2>3. QED
    BY <2>1, <2>2
<1>8. CASE UNCHANGED voiceVars
  BY <1>8 DEF voiceVars
<1>9. QED
  BY <1>1, <1>2, <1>3, <1>4, <1>5, <1>6, <1>7, <1>8 DEF VoiceNext, WindowGoesOn, Encode

(* However many frames are queued and however the threads interleave, at most
   one goes out after the user has muted. *)
THEOREM MuteIsQuick == VoiceSpec => []MuteStops
<1>1. MuteInv => MuteStops
  BY DEF MuteInv, MuteStops
<1>2. QED
  BY <1>1, VoiceTypesInit, VoiceTypes, MuteStart, MuteStep, PTL DEF VoiceSpec
=============================================================================
