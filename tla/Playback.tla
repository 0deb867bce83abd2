------------------------------ MODULE Playback ------------------------------
(***************************************************************************)
(* The voice of one peer as decode_mix_loop (src/audio.rs) plays it.  Each *)
(* frame is a datagram with a sequence number that wraps around; datagrams *)
(* are lost and overtake each other, and a peer that leaves and joins      *)
(* again starts at zero while the listener still remembers the last frame  *)
(* of the call before.                                                     *)
(*                                                                         *)
(* A datagram carries how many frames were sent after it, which is what    *)
(* its number stands for; it arrives before Reach of them were sent, or    *)
(* never.  Time is counted in mixes (20 ms).                               *)
(***************************************************************************)
EXTENDS Integers

CONSTANTS
    Width,         \* how many sequence numbers there are (2^32)
    Reach,         \* bound: frames a datagram can be late
    Patience,      \* mixes without a frame until a peer is forgotten (250)
    QueuedMax      \* frames queued for a peer (10)

ASSUME PlaybackAssumption ==
    /\ Width \in Nat
    /\ Reach \in Nat
    /\ 2 * Reach + 2 < Width
    /\ Patience \in Nat \ {0}
    /\ QueuedMax \in Nat \ {0}

VARIABLES
    next,       \* number of the sender's next frame, of encode_loop
    inFlight,   \* datagrams on their way
    entry,      \* the listener's PeerDecoder, Forgotten when there is none
    deafened,
    heard       \* whether a frame was taken since the last mix

playbackVars == <<next, inFlight, entry, deafened, heard>>

Number == 0..Width - 1
Late == 0..Reach + 1     \* Reach + 1 stands for anything longer
Datagram == [number: Number, late: 0..Reach, sameCall: BOOLEAN]
(* last is -1 until a frame was decoded.  late and sameCall say where the last
   frame stands in what the sender has sent. *)
PeerDecoder == [last: Number \cup {-1}, age: 0..Patience - 1, queued: 0..QueuedMax,
                late: Late, sameCall: BOOLEAN]
Forgotten == [last |-> -1, age |-> 0, queued |-> 0, late |-> 0, sameCall |-> FALSE]

PlaybackTypeOK ==
    /\ next \in Number
    /\ inFlight \in SUBSET Datagram
    /\ entry \in PeerDecoder
    /\ deafened \in BOOLEAN
    /\ heard \in BOOLEAN

PlaybackInit ==
    /\ next = 0
    /\ inFlight = {}
    /\ entry = Forgotten
    /\ deafened = FALSE
    /\ heard = FALSE

-----------------------------------------------------------------------------
(* Slip: the numbers are compared as they are. *)
GreaterNumber(sequence, previous) == sequence > previous

(* The difference, wrapped, is at most half of u32::MAX. *)
SequenceIsNewer(sequence, previous) ==
    LET difference == (sequence - previous) % Width
    IN  difference # 0 /\ difference < (Width - 1) \div 2

(* The sender speaks; what is too late by now is lost. *)
Talk ==
    /\ next' = (next + 1) % Width
    /\ inFlight' = {[d EXCEPT !.late = @ + 1] : d \in {e \in inFlight : e.late < Reach}}
                   \cup {[number |-> next, late |-> 0, sameCall |-> TRUE]}
    /\ entry' = [entry EXCEPT !.late = IF @ <= Reach THEN @ + 1 ELSE @]
    /\ UNCHANGED <<deafened, heard>>

(* The sender leaves the call and joins again. *)
Rejoin ==
    /\ next' = 0
    /\ inFlight' = {[d EXCEPT !.sameCall = FALSE] : d \in inFlight}
    /\ entry' = [entry EXCEPT !.sameCall = FALSE]
    /\ UNCHANGED <<deafened, heard>>

Lose(d) ==
    /\ inFlight' = inFlight \ {d}
    /\ UNCHANGED <<next, entry, deafened, heard>>

Wanted(d) == entry.last = -1 \/ SequenceIsNewer(d.number, entry.last)

(* Slip: any packet of the peer counts as a sign of life. *)
HearAnything(d) ==
    /\ inFlight' = inFlight \ {d}
    /\ IF Wanted(d)
       THEN /\ entry' = [last |-> d.number, age |-> 0,
                         queued |-> IF entry.queued < QueuedMax THEN entry.queued + 1
                                    ELSE QueuedMax,
                         late |-> d.late, sameCall |-> d.sameCall]
            /\ heard' = TRUE
       ELSE entry' = [entry EXCEPT !.age = 0] /\ UNCHANGED heard
    /\ UNCHANGED <<next, deafened>>

(* A datagram that arrives and decodes.  Ten frames are kept, the newest. *)
Hear(d) ==
    /\ inFlight' = inFlight \ {d}
    /\ IF Wanted(d)
       THEN /\ entry' = [last |-> d.number, age |-> 0,
                         queued |-> IF entry.queued < QueuedMax THEN entry.queued + 1
                                    ELSE QueuedMax,
                         late |-> d.late, sameCall |-> d.sameCall]
            /\ heard' = TRUE
       ELSE UNCHANGED <<entry, heard>>
    /\ UNCHANGED <<next, deafened>>

(* The next mix: a peer not heard for too long is forgotten, the others give a
   frame each unless the user does not want to hear. *)
Mix ==
    /\ heard' = FALSE
    /\ entry' = IF entry.age + 1 = Patience THEN Forgotten
                ELSE [entry EXCEPT !.age = IF entry.last = -1 THEN 0 ELSE @ + 1,
                                   !.queued = IF deafened \/ @ = 0 THEN @ ELSE @ - 1]
    /\ UNCHANGED <<next, inFlight, deafened>>

SetDeafened ==
    /\ deafened' = ~deafened
    /\ UNCHANGED <<next, inFlight, entry, heard>>

PlaybackNext ==
    \/ Talk \/ Rejoin \/ Mix \/ SetDeafened
    \/ \E d \in inFlight : Lose(d) \/ Hear(d)

PlaybackSpec == PlaybackInit /\ [][PlaybackNext]_playbackVars

-----------------------------------------------------------------------------
(* Of the frames of one call the listener takes one exactly when it was sent
   after the last it took: none is played out of order, and none is refused
   because the numbers wrapped (sequence_is_newer). *)
FramesInOrder ==
    [][\A d \in inFlight :
         /\ Hear(d)
         /\ entry.last # -1
         /\ d.sameCall = entry.sameCall /\ d.sameCall
         /\ entry.late <= Reach
         => (entry' # entry <=> d.late < entry.late)]_playbackVars

(* A listener never stays deaf to a peer that speaks on and whose packets get
   through now and then, however often that peer joins again: what it remembers
   of an older call is forgotten in time (last_packet, decode_mix_loop). *)
HeardAgain == []<>heard
=============================================================================
