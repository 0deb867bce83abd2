----------------------------- MODULE LiveStream -----------------------------
(***************************************************************************)
(* How one end of a live session reads the records of the other            *)
(* (run_authenticated_session in src/network.rs).  A record is a length    *)
(* and a body, and comes in pieces.  Reading it is one arm of a select!:   *)
(* when another arm completes first, the read is dropped with the pieces   *)
(* it had taken from the stream, and the next turn of the loop begins a    *)
(* read of its own.                                                        *)
(***************************************************************************)
EXTENDS Naturals, Sequences

CONSTANTS
    Records,   \* bound: how many records the other end writes
    Pieces     \* pieces a body comes in

VARIABLES
    written,   \* records written so far
    stream,    \* pieces that came and were not read
    taken,     \* pieces the read in progress has taken
    ready      \* the other arms that can complete

liveStreamVars == <<written, stream, taken, ready>>

(* The queues of this node, the datagrams of the other, and the timer. *)
Arm == {"live", "voice", "metadata", "screen", "datagram", "ping"}

LiveStreamInit ==
    /\ written = 0
    /\ stream = <<>>
    /\ taken = <<>>
    /\ ready = {}

(* send_frame: the length, then the body. *)
Write ==
    /\ written < Records
    /\ written' = written + 1
    /\ stream' = stream \o <<"length">> \o [p \in 1..Pieces |-> "body"]
    /\ UNCHANGED <<taken, ready>>

(* receive_frame takes what has come.  The record is whole when the length and
   the body it announces are there, and its arm completes. *)
Read ==
    /\ stream # <<>>
    /\ stream' = Tail(stream)
    /\ taken' = IF Len(taken) = Pieces THEN <<>> ELSE Append(taken, Head(stream))
    /\ UNCHANGED <<written, ready>>

Arrive(arm) ==
    /\ arm \notin ready
    /\ ready' = ready \cup {arm}
    /\ UNCHANGED <<written, stream, taken>>

(* Another arm completes, does what it does, and the loop begins again. *)
Complete(arm) ==
    /\ arm \in ready
    /\ ready' = ready \ {arm}
    /\ taken' = <<>>
    /\ UNCHANGED <<written, stream>>

LiveStreamNext == Write \/ Read \/ \E arm \in Arm : Arrive(arm) \/ Complete(arm)
LiveStreamSpec == LiveStreamInit /\ [][LiveStreamNext]_liveStreamVars

-----------------------------------------------------------------------------
(* What docs/PROTOCOL.md:3 says of every reliable record: each read begins with
   the length of a record, so no piece of a body is ever taken for one
   (receive_frame in the select! of run_authenticated_session). *)
ReadsBeginAtRecords == taken # <<>> => Head(taken) = "length"
=============================================================================
