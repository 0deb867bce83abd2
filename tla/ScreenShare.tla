---------------------------- MODULE ScreenShare ----------------------------
(***************************************************************************)
(* Sharing the screen with a group: ScreenShare (src/screen.rs) and the    *)
(* button of the window (src/app.rs).  Each share has a worker thread that *)
(* captures and sends until its flag is cleared or a capture fails;        *)
(* stopping clears the flag and joins the thread.  The count of frames and *)
(* the status line are left out: the window does not show them.            *)
(***************************************************************************)
EXTENDS Rooms

CONSTANT MaxShares   \* bound: shares that are started

ASSUME ScreenShareAssumption == MaxShares \in Nat

VARIABLES
    worker,       \* [Share -> where its thread is]
    flag,         \* [Share -> BOOLEAN], its running flag
    groupOf,      \* [Share -> Group \cup {None}], the group its thread sends to
    shares,       \* shares so far
    held,         \* the share whose thread ScreenShare.worker is, 0 for none
    showing,      \* ScreenShareSnapshot.group_id
    uiStep,       \* where the window's thread is
    nextGroup     \* the group a new share is for, None when it only stops

screenVars == <<worker, flag, groupOf, shares, held, showing, uiStep, nextGroup>>

Share == 1..MaxShares
Working == {"enumerate", "look", "capture", "send", "pause"}

ScreenTypeOK ==
    /\ worker \in [Share -> Working \cup {"none", "done"}]
    /\ flag \in [Share -> BOOLEAN]
    /\ groupOf \in [Share -> Group \cup {None}]
    /\ shares \in 0..MaxShares
    /\ held \in 0..MaxShares
    /\ showing \in Group \cup {None}
    /\ uiStep \in {"idle", "join", "spawn"}
    /\ nextGroup \in Group \cup {None}

ScreenInit ==
    /\ worker = [s \in Share |-> "none"]
    /\ flag = [s \in Share |-> FALSE]
    /\ groupOf = [s \in Share |-> None]
    /\ shares = 0
    /\ held = 0
    /\ showing = None
    /\ uiStep = "idle"
    /\ nextGroup = None

-----------------------------------------------------------------------------
(* The window's thread. *)

(* Slip: the flag of the share is left alone. *)
ToggleFlagless(g) ==
    /\ uiStep = "idle"
    /\ uiStep' = "join"
    /\ nextGroup' = IF showing = None THEN g ELSE None
    /\ UNCHANGED <<worker, flag, groupOf, shares, held, showing>>

(* toggle_screen_share: it stops when a group is shown, dead worker or not, and
   else starts for the selected group g, which stops first. *)
Toggle(g) ==
    /\ uiStep = "idle"
    /\ uiStep' = "join"
    /\ nextGroup' = IF showing = None THEN g ELSE None
    /\ flag' = IF held = 0 THEN flag ELSE [flag EXCEPT ![held] = FALSE]
    /\ UNCHANGED <<worker, groupOf, shares, held, showing>>

(* Slip: the thread is told to stop and not waited for. *)
Detach ==
    /\ uiStep = "join"
    /\ held' = 0
    /\ showing' = None
    /\ uiStep' = IF nextGroup = None THEN "idle" ELSE "spawn"
    /\ UNCHANGED <<worker, flag, groupOf, shares, nextGroup>>

(* The rest of stop: the thread is joined, the snapshot reset. *)
JoinWorker ==
    /\ uiStep = "join"
    /\ held # 0 => worker[held] = "done"
    /\ held' = 0
    /\ showing' = None
    /\ uiStep' = IF nextGroup = None THEN "idle" ELSE "spawn"
    /\ UNCHANGED <<worker, flag, groupOf, shares, nextGroup>>

(* The rest of start.  The snapshot names the group before the thread is
   spawned, and still does when it cannot be. *)
Spawn ==
    /\ uiStep = "spawn"
    /\ uiStep' = "idle"
    /\ shares < MaxShares
    /\ shares' = shares + 1
    /\ showing' = nextGroup
    /\ groupOf' = [groupOf EXCEPT ![shares'] = nextGroup]
    /\ flag' = [flag EXCEPT ![shares'] = TRUE]
    /\ \/ held' = shares' /\ worker' = [worker EXCEPT ![shares'] = "enumerate"]
       \/ UNCHANGED <<held, worker>>
    /\ UNCHANGED nextGroup

-----------------------------------------------------------------------------
(* A worker ends when the displays cannot be listed or the capture or the
   encoder fails; nothing is told to the window but a status line. *)
Goes(s, from, to) == worker[s] = from /\ worker' = [worker EXCEPT ![s] = to]

Work(s) ==
    /\ \/ Goes(s, "enumerate", "look")
       \/ Goes(s, "enumerate", "done")
       \/ Goes(s, "look", IF flag[s] THEN "capture" ELSE "done")
       \/ Goes(s, "capture", "send")
       \/ Goes(s, "capture", "pause")     \* too large to send
       \/ Goes(s, "capture", "done")
       \/ Goes(s, "send", "pause")
       \/ Goes(s, "pause", "look")        \* after half a second, or the flag
    /\ UNCHANGED <<flag, groupOf, shares, held, showing, uiStep, nextGroup>>

ScreenNext ==
    \/ \E g \in Group : Toggle(g)
    \/ JoinWorker \/ Spawn
    \/ \E s \in Share : Work(s)

ScreenSpec == ScreenInit /\ [][ScreenNext]_screenVars

-----------------------------------------------------------------------------
(* A thread that captures belongs to the share the window shows: it sends to
   the group the user sees, and no thread of an older share is left that could
   send the screen to a group the user stopped sharing with (start, stop). *)
SharesWhatItShows ==
    \A s \in Share : worker[s] \in Working => held = s /\ groupOf[s] = showing

(* The window does not hang in stop: a worker sees its flag. *)
StopReturns == uiStep = "join" ~> uiStep # "join"
=============================================================================
