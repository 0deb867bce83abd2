--------------------------- MODULE MCSyncSession ---------------------------
(***************************************************************************)
(* Instances of SyncSession for TLC.  Every instance has its nodes, links  *)
(* and seeds here, named after what the instance is for.                   *)
(***************************************************************************)
EXTENDS SyncSession

CONSTANTS
    ann, bob, cid,      \* nodes
    club, den,          \* groups
    general, extra, cellar,  \* channels: two of club, one of den
    l1, l2              \* links

MCGroupOf == [c \in Channel |-> IF c = cellar THEN den ELSE club]
Msg(a, s, c) == [author |-> a, seq |-> s, chan |-> c]

-----------------------------------------------------------------------------
(* Two nodes and one link; cid is offline, and ann holds what it wrote. *)
PairEnds == [l \in Link |-> [dial |-> ann, accept |-> bob]]
InClub == [n \in Node |-> {club}]
GeneralOnly == [n \in Node |-> {general}]
AnnCarries == [n \in Node |-> IF n = bob THEN {} ELSE {Msg(cid, 1, general)}]

(* The same, with two events for ann to carry. *)
AnnCarriesTwo ==
    [n \in Node |-> IF n = bob THEN {} ELSE {Msg(cid, s, general) : s \in 1..2}]

(* A line: bob sits between ann and cid and relays.  bob may join den while a
   session runs. *)
LineEnds == [l \in Link |-> IF l = l1 THEN [dial |-> ann, accept |-> bob]
                            ELSE [dial |-> bob, accept |-> cid]]
BobAndCidWrote ==
    [n \in Node |-> IF n = ann THEN {Msg(bob, 1, general)}
                    ELSE {Msg(bob, 1, general), Msg(cid, 1, general)}]
(* ann's message, sent while both links are live, goes on through bob to cid. *)
RelayedToCid ==
    Relayed(<<l1, "dial">>, <<l2, "dial">>, Msg(ann, 1, general))
(* ann is in den and bob is not; neither is in the other's group. *)
AnnInDen == [n \in Node |-> IF n = ann THEN {den} ELSE {club}]
CellarOfAnn == [n \in Node |-> IF n = ann THEN {cellar} ELSE {general}]
BobMayJoinDen == {<<bob, den>>}
NoSeeds == [n \in Node |-> {}]
BobMayBlockCid == {<<bob, cid>>}
BobMayBlockAnn == {<<bob, ann>>}
=============================================================================
