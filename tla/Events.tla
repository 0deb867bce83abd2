------------------------------- MODULE Events -------------------------------
(***************************************************************************)
(* The events of OpenCord's logs: who wrote one, with which number of its  *)
(* author's in which group, and what a set of logs looks like that authors *)
(* alone have extended.                                                    *)
(***************************************************************************)
EXTENDS Integers

CONSTANTS
    Node,       \* peers, one identity each
    Group,      \* groups
    Channel,    \* channels
    GroupOf,    \* [Channel -> Group], the group a channel belongs to
    MaxSeq,     \* bound on the sequence numbers an author uses in one group
    SeedEvents  \* [Node -> SUBSET Event], what the nodes hold at first

Event == [author: Node, seq: 1..MaxSeq, chan: Channel]

(* What the database calls UNIQUE(group_id, author, author_sequence). *)
Key(x) == <<GroupOf[x.chan], x.author, x.seq>>

(* The sequence numbers of author a in group g that a set of events has. *)
SeqsIn(S, g, a) == {x.seq : x \in {y \in S : y.author = a /\ GroupOf[y.chan] = g}}

-----------------------------------------------------------------------------
(***************************************************************************)
(* What a set of logs must satisfy for the promise to make sense from it:  *)
(* an author holds what it wrote, uses no number twice and skips none.     *)
(***************************************************************************)
AuthorsHold(logs) == \A n \in Node : \A x \in logs[n] : x \in logs[x.author]

OwnKeysUnique(logs) ==
    \A n \in Node : \A x, y \in logs[n] : x.author = n /\ Key(x) = Key(y) => x = y

OwnLogsGapless(logs) ==
    \A n \in Node, g \in Group : \E k \in 0..MaxSeq : SeqsIn(logs[n], g, n) = 1..k

GroupOfAssumption == GroupOf \in [Channel -> Group]
MaxSeqAssumption == MaxSeq \in Nat
SeedAssumption ==
    /\ SeedEvents \in [Node -> SUBSET Event]
    /\ AuthorsHold(SeedEvents)
    /\ OwnKeysUnique(SeedEvents)
    /\ OwnLogsGapless(SeedEvents)

ASSUME EventsAssumption == GroupOfAssumption /\ MaxSeqAssumption /\ SeedAssumption
=============================================================================
