----------------------------- MODULE MCPresence -----------------------------
(* One peer with two sessions, for TLC. *)
EXTENDS Presence

CONSTANTS bob, s1, s2

TwoSessionsOfBob == [s \in {s1, s2} |-> bob]
=============================================================================
