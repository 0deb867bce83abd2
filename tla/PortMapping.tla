---------------------------- MODULE PortMapping ----------------------------
(***************************************************************************)
(* The mapping a router keeps for the peer port: start_port_mapping, the   *)
(* Drop of PortMapping and the Drop of Node (src/node.rs).  A thread of    *)
(* its own asks the router, which can take as long as it likes, while the  *)
(* program may close.  The cell the mapping is put in is shared by the     *)
(* thread and the node: the last of them to let go of it drops what is in  *)
(* it, and dropping a mapping removes it from the router.                  *)
(***************************************************************************)
EXTENDS Naturals

VARIABLES
    router,    \* whether the router maps the port
    asking,    \* where the thread is
    cell,      \* whether the cell has the mapping
    node,      \* where the node is
    advertised \* whether the address is in invites and in the snapshot

portVars == <<router, asking, cell, node, advertised>>

PortTypeOK ==
    /\ router \in BOOLEAN
    /\ asking \in {"none", "search", "mapped", "advertised", "stored", "ended", "killed"}
    /\ cell \in BOOLEAN
    /\ node \in {"starting", "up", "closing", "dropped", "exited"}
    /\ advertised \in BOOLEAN

PortInit ==
    /\ router = FALSE
    /\ asking = "none"
    /\ cell = FALSE
    /\ node = "starting"
    /\ advertised = FALSE

(* Node::start: no thread for a loopback address, or when none can be had. *)
StartNode ==
    /\ node = "starting"
    /\ node' = "up"
    /\ asking' \in {"none", "search"}
    /\ UNCHANGED <<router, cell, advertised>>

(* No gateway, no route, or the router refuses: only a status line. *)
AskRouter ==
    /\ asking = "search"
    /\ \/ asking' = "mapped" /\ router' = TRUE
       \/ asking' = "ended" /\ UNCHANGED router
    /\ UNCHANGED <<cell, node, advertised>>

Advertise ==
    /\ asking = "mapped"
    /\ asking' = "advertised"
    /\ advertised' = TRUE
    /\ UNCHANGED <<router, cell, node>>

StoreMapping ==
    /\ asking = "advertised"
    /\ asking' = "stored"
    /\ cell' = TRUE
    /\ UNCHANGED <<router, node, advertised>>

(* Slip: the cell is not dropped with the thread. *)
EndOnly ==
    /\ asking = "stored"
    /\ asking' = "ended"
    /\ UNCHANGED <<router, cell, node, advertised>>

(* The thread ends and lets go of the cell. *)
EndThread ==
    /\ asking = "stored"
    /\ asking' = "ended"
    /\ IF node = "dropped" THEN cell' = FALSE /\ router' = (router /\ ~cell)
       ELSE UNCHANGED <<cell, router>>
    /\ UNCHANGED <<node, advertised>>

(* Drop for Node: the endpoint is closed, and its peers told, before the cell
   is emptied. *)
Close ==
    /\ node = "up"
    /\ node' = "closing"
    /\ UNCHANGED <<router, asking, cell, advertised>>

TakeMapping ==
    /\ node = "closing"
    /\ node' = "dropped"
    /\ cell' = FALSE
    /\ router' = (router /\ ~cell)
    /\ UNCHANGED <<asking, advertised>>

(* main returns, which ends the thread wherever it is. *)
Exit ==
    /\ node = "dropped"
    /\ node' = "exited"
    /\ asking' = IF asking \in {"none", "ended"} THEN asking ELSE "killed"
    /\ UNCHANGED <<router, cell, advertised>>

PortNext ==
    \/ StartNode \/ AskRouter \/ Advertise \/ StoreMapping \/ EndThread
    \/ Close \/ TakeMapping \/ Exit

PortSpec == PortInit /\ [][PortNext]_portVars

-----------------------------------------------------------------------------
(* A node that is dropped leaves no mapping behind, whenever the router
   answered, unless the program exits while the thread is still at it. *)
NoMappingLeft ==
    node \in {"dropped", "exited"} /\ asking \in {"none", "ended"} => ~router
=============================================================================
