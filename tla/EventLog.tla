------------------------------ MODULE EventLog ------------------------------
(***************************************************************************)
(* What OpenCord's replication promises, with no wire and no session:      *)
(* every node keeps a log of events; only the author of an event extends   *)
(* its own log, by the next sequence number of the group it writes in; the *)
(* other nodes only ever copy events somebody already holds.               *)
(***************************************************************************)
EXTENDS Events

VARIABLE log    \* [Node -> SUBSET Event]

Init == log = SeedEvents

(* The author adds the event that comes after all it wrote in that group. *)
Publish(n, c, s) ==
    /\ SeqsIn(log[n], GroupOf[c], n) = 1..(s - 1)
    /\ log' = [log EXCEPT ![n] = @ \cup {[author |-> n, seq |-> s, chan |-> c]}]

(* A node copies an event some node holds. *)
Learn(n, x) == log' = [log EXCEPT ![n] = @ \cup {x}]

Next ==
    \E n \in Node :
        \/ \E c \in Channel, s \in 1..MaxSeq : Publish(n, c, s)
        \/ \E m \in Node : \E x \in log[m] : Learn(n, x)

Spec == Init /\ [][Next]_log

-----------------------------------------------------------------------------
(* A log is a set of events, it has all its owner wrote, each number once and
   none left out. *)
LogInv ==
    /\ log \in [Node -> SUBSET Event]
    /\ AuthorsHold(log)
    /\ OwnKeysUnique(log)
    /\ OwnLogsGapless(log)

(* Two nodes never hold different events under one (group, author, number):
   the logs agree wherever both have an entry, in whatever order they were
   copied (store.rs, insert_remote_event: "author sequence equivocation"). *)
Agreement ==
    \A n, m \in Node : \A x \in log[n], y \in log[m] : Key(x) = Key(y) => x = y
=============================================================================
