--------------------------- MODULE PresenceProofs ---------------------------
(* The invariants of Presence, for any peers, sessions and bounds. *)
EXTENDS Presence, FiniteSetTheorems, TLAPS

USE PresenceAssumption DEF PresenceAssumption

-----------------------------------------------------------------------------
LEMMA InitTypes == Init => TypeOK
<1> SUFFICES ASSUME Init PROVE TypeOK
  OBVIOUS
<1>1. task \in [Session -> Task]
  BY DEF Init, Task, Idle
<1>2. 0 \in 0..MaxEvents /\ 0 \in 0..MaxChannels
  OBVIOUS
<1>3. store \in Tables
  BY <1>2 DEF Init, Tables
<1>4. QED
  BY <1>1, <1>2, <1>3 DEF Init, TypeOK

LEMMA StepTypes == TypeOK /\ [Next]_vars => TypeOK'
<1> SUFFICES ASSUME TypeOK, [Next]_vars PROVE TypeOK'
  OBVIOUS
<1> USE DEF TypeOK, Tables, Task, Connected, OnlinePeers
<1>1. ASSUME NEW s \in Session, Online(s) \/ Offline(s) PROVE TypeOK'
  BY <1>1 DEF Online, Offline, Free, Owe
<1>2. ASSUME NEW s \in Session, StoreEvent(s) \/ UpsertChannel(s) PROVE TypeOK'
  BY <1>2 DEF StoreEvent, UpsertChannel, Free, Owe
<1>3. ASSUME NEW s \in Session, MergeChannel(s) \/ Advance(s) PROVE TypeOK'
  BY <1>3 DEF MergeChannel, Advance, Free
<1>4. ASSUME NEW s \in Session, Bump(s) \/ Wake(s) PROVE TypeOK'
  BY <1>4 DEF Bump, Wake
<1>5. CASE Start \/ BeginFrame \/ Poll
  BY <1>5 DEF Start, BeginFrame, Poll
<1>6. CASE Send \/ CreateChannel \/ BumpOwn
  BY <1>6 DEF Send, CreateChannel, BumpOwn
<1>7. CASE Refresh
  BY <1>7 DEF Refresh, Read
<1>8. CASE UNCHANGED vars
  BY <1>8 DEF vars
<1>9. QED
  BY <1>1, <1>2, <1>3, <1>4, <1>5, <1>6, <1>7, <1>8 DEF Next, SessionStep

(* Every state is made of the values its variables are declared for. *)
THEOREM TypeCorrect == Spec => []TypeOK
BY InitTypes, StepTypes, PTL DEF Spec

-----------------------------------------------------------------------------
(* A peer's sessions are finitely many, so that they can be counted. *)
LEMMA CountedFinite ==
    ASSUME NEW p \in Peer
    PROVE  IsFiniteSet(Counted(p)) /\ Cardinality(Counted(p)) \in Nat
<1>1. Counted(p) \subseteq Session
  BY DEF Counted
<1>2. QED
  BY <1>1, FS_Subset, FS_CardinalityType

LEMMA StepCounts == TypeOK /\ CountsMatch /\ [Next]_vars => CountsMatch'
<1> SUFFICES ASSUME TypeOK, CountsMatch, [Next]_vars, NEW p \in Peer
             PROVE  counts'[p] = Cardinality(Counted(p)')
  BY DEF CountsMatch
<1>0. /\ counts[p] = Cardinality(Counted(p)) /\ counts[p] \in Nat
      /\ IsFiniteSet(Counted(p))
  BY CountedFinite DEF CountsMatch, TypeOK
<1>1. ASSUME NEW s \in Session, Online(s) PROVE counts'[p] = Cardinality(Counted(p)')
  <2>1. CASE PeerOf[s] = p
    <3>1. s \notin Counted(p) /\ Counted(p)' = Counted(p) \cup {s}
      BY <1>1, <2>1 DEF Online, Free, Owe, Counted, Connected, TypeOK
    <3>2. Cardinality(Counted(p)') = Cardinality(Counted(p)) + 1
      BY <1>0, <3>1, FS_AddElement
    <3>3. counts'[p] = counts[p] + 1
      BY <1>1, <2>1 DEF Online, TypeOK
    <3>4. QED
      BY <1>0, <3>2, <3>3
  <2>2. CASE PeerOf[s] # p
    <3>1. Counted(p)' = Counted(p) /\ counts'[p] = counts[p]
      BY <1>1, <2>2 DEF Online, Owe, Counted, Connected, TypeOK
    <3>2. QED
      BY <1>0, <3>1
  <2>3. QED
    BY <2>1, <2>2
<1>2. ASSUME NEW s \in Session, Offline(s) PROVE counts'[p] = Cardinality(Counted(p)')
  <2>1. CASE PeerOf[s] = p
    <3>1. s \in Counted(p) /\ Counted(p)' = Counted(p) \ {s}
      BY <1>2, <2>1 DEF Offline, Free, Owe, Counted, Connected, TypeOK
    <3>2. Cardinality(Counted(p)') = Cardinality(Counted(p)) - 1
      BY <1>0, <3>1, FS_RemoveElement
    <3>3. Counted(p) # {}
      BY <3>1
    <3>4. counts[p] # 0
      BY <1>0, <3>3, FS_EmptySet
    <3>5. counts'[p] = counts[p] - 1
      BY <1>2, <2>1, <3>4 DEF Offline, TypeOK
    <3>6. QED
      BY <1>0, <3>2, <3>5
  <2>2. CASE PeerOf[s] # p
    <3>1. Counted(p)' = Counted(p) /\ counts'[p] = counts[p]
      BY <1>2, <2>2 DEF Offline, Owe, Counted, Connected, TypeOK
    <3>2. QED
      BY <1>0, <3>1
  <2>3. QED
    BY <2>1, <2>2
<1>3. ASSUME NEW s \in Session,
             \/ StoreEvent(s) \/ UpsertChannel(s) \/ MergeChannel(s)
             \/ Advance(s) \/ Bump(s) \/ Wake(s)
      PROVE  counts'[p] = Cardinality(Counted(p)')
  <2>1. \A t \in Session : task'[t].phase \in Connected <=> task[t].phase \in Connected
    BY <1>3 DEF StoreEvent, UpsertChannel, MergeChannel, Advance, Bump, Wake,
                Free, Owe, Connected, TypeOK, Task
  <2>2. Counted(p)' = Counted(p)
    BY <2>1 DEF Counted
  <2>3. counts' = counts
    BY <1>3 DEF StoreEvent, UpsertChannel, MergeChannel, Advance, Bump, Wake
  <2>4. QED
    BY <1>0, <2>2, <2>3
<1>4. ASSUME UNCHANGED <<counts, task>> PROVE counts'[p] = Cardinality(Counted(p)')
  BY <1>0, <1>4 DEF Counted
<1>5. QED
  BY <1>1, <1>2, <1>3, <1>4
  DEF Next, SessionStep, Start, BeginFrame, Poll, Send, CreateChannel, BumpOwn,
      Refresh, Read, vars

(* The count of a peer is the number of its sessions: the member list names it
   exactly while one of them runs. *)
THEOREM CountsRight == Spec => []CountsMatch
<1>1. Init => CountsMatch
  <2> SUFFICES ASSUME Init, NEW p \in Peer PROVE counts[p] = Cardinality(Counted(p))
    BY DEF CountsMatch
  <2>1. Counted(p) = {}
    BY DEF Init, Counted, Idle, Connected
  <2>2. QED
    BY <2>1, FS_EmptySet DEF Init
<1>2. QED
  BY <1>1, StepCounts, TypeCorrect, PTL DEF Spec

-----------------------------------------------------------------------------
(* What the induction needs: news is owed only until the bump, and the window
   never shows a generation that has not come. *)
NewsIsOwed == \A s \in Session : task[s].news = 1 => task[s].due = "bump"
SeenIsPast == seen.generation <= generation
NewsInv == TypeOK /\ NewsIsOwed /\ SeenIsPast /\ NoEventHidden

LEMMA UnannouncedFinite ==
    IsFiniteSet(Unannounced) /\ Cardinality(Unannounced) \in Nat
<1>1. Unannounced \subseteq Session
  BY DEF Unannounced
<1>2. QED
  BY <1>1, FS_Subset, FS_CardinalityType

LEMMA InitNews == Init => NewsInv
<1> SUFFICES ASSUME Init PROVE NewsInv
  OBVIOUS
<1>1. TypeOK /\ NewsIsOwed /\ SeenIsPast
  BY InitTypes DEF Init, NewsIsOwed, SeenIsPast, Idle
<1>2. NoEventHidden
  BY UnannouncedFinite DEF Init, NoEventHidden, OwnNews
<1>3. QED
  BY <1>1, <1>2 DEF NewsInv

(* A session's step keeps the balance of stored, shown and announced events. *)
LEMMA SessionNews ==
    ASSUME NEW s \in Session, NewsInv, SessionStep(s)
    PROVE  NewsIsOwed' /\ SeenIsPast' /\ NoEventHidden'
<1> USE UnannouncedFinite DEF NewsInv
<1>0. /\ store.events \in Nat /\ seen.events \in Nat
      /\ generation \in Nat /\ seen.generation \in Nat /\ OwnNews \in Nat
  BY DEF TypeOK, Tables, OwnNews
<1>1. CASE Online(s) \/ Offline(s) \/ UpsertChannel(s)
  <2>1. task[s].due = "none"
    BY <1>1 DEF Online, Offline, UpsertChannel, Free
  <2>2. task[s].news # 1
    BY <2>1 DEF NewsIsOwed
  <2>3. PICK q : task' = [task EXCEPT ![s] = [phase |-> q, due |-> "bump", news |-> 0]]
    BY <1>1 DEF Online, Offline, UpsertChannel, Owe
  <2>4. Unannounced' = Unannounced
    BY <2>2, <2>3 DEF Unannounced, TypeOK
  <2>5. NewsIsOwed'
    BY <2>3 DEF NewsIsOwed, TypeOK
  <2>6. UNCHANGED <<generation, ui, seen>> /\ store'.events = store.events
    BY <1>1 DEF Online, Offline, UpsertChannel, TypeOK, Tables
  <2>7. QED
    BY <2>4, <2>5, <2>6 DEF SeenIsPast, NoEventHidden, OwnNews
<1>2. CASE StoreEvent(s)
  <2>1. task[s].due = "none"
    BY <1>2 DEF StoreEvent, Free
  <2>2. s \notin Unannounced
    BY <2>1 DEF NewsIsOwed, Unannounced
  <2>3. Unannounced' = Unannounced \cup {s}
    BY <1>2 DEF StoreEvent, Owe, Unannounced, TypeOK
  <2>4. Cardinality(Unannounced') = Cardinality(Unannounced) + 1
    BY <2>2, <2>3, FS_AddElement
  <2>5. NewsIsOwed'
    BY <1>2 DEF StoreEvent, Owe, NewsIsOwed, TypeOK
  <2>6. UNCHANGED <<generation, ui, seen>> /\ store'.events = store.events + 1
    BY <1>2 DEF StoreEvent, TypeOK, Tables
  <2>7. QED
    BY <1>0, <2>4, <2>5, <2>6 DEF SeenIsPast, NoEventHidden, OwnNews
<1>3. CASE Bump(s)
  <2>1. Unannounced' = Unannounced \ {s}
    BY <1>3 DEF Bump, Unannounced, TypeOK
  <2>2. Cardinality(Unannounced') \in Nat /\ Cardinality(Unannounced') + 1 >= Cardinality(Unannounced)
    <3>1. IsFiniteSet(Unannounced \ {s}) /\ Cardinality(Unannounced \ {s})
            = IF s \in Unannounced THEN Cardinality(Unannounced) - 1 ELSE Cardinality(Unannounced)
      BY FS_RemoveElement
    <3>2. Cardinality(Unannounced \ {s}) \in Nat
      BY <3>1, FS_CardinalityType
    <3>3. QED
      BY <2>1, <3>1, <3>2
  <2>3. NewsIsOwed'
    BY <1>3 DEF Bump, NewsIsOwed, TypeOK, Task
  <2>4. UNCHANGED <<store, ui, seen>> /\ generation' = generation + 1
    BY <1>3 DEF Bump
  <2>5. QED
    BY <1>0, <2>2, <2>3, <2>4 DEF SeenIsPast, NoEventHidden, OwnNews
<1>4. CASE MergeChannel(s) \/ Advance(s) \/ Wake(s)
  <2>1. \A t \in Session : task'[t].news = task[t].news
    BY <1>4 DEF MergeChannel, Advance, Wake, TypeOK, Task
  <2>2. Unannounced' = Unannounced
    BY <2>1 DEF Unannounced
  <2>3. NewsIsOwed'
    BY <1>4 DEF MergeChannel, Advance, Wake, NewsIsOwed, TypeOK, Task
  <2>4. UNCHANGED <<generation, ui, seen>> /\ store'.events = store.events
    BY <1>4 DEF MergeChannel, Advance, Wake, TypeOK, Tables
  <2>5. QED
    BY <2>2, <2>3, <2>4 DEF SeenIsPast, NoEventHidden, OwnNews
<1>5. QED
  BY <1>1, <1>2, <1>3, <1>4 DEF SessionStep

(* So does a step of the window. *)
LEMMA WindowNews ==
    ASSUME NewsInv, UNCHANGED task,
           \/ Start \/ BeginFrame \/ Poll \/ Send \/ CreateChannel \/ BumpOwn
           \/ Refresh \/ UNCHANGED vars
    PROVE  NewsIsOwed' /\ SeenIsPast' /\ NoEventHidden'
<1> USE UnannouncedFinite DEF NewsInv
<1>0. /\ store.events \in Nat /\ seen.events \in Nat
      /\ generation \in Nat /\ seen.generation \in Nat
  BY DEF TypeOK, Tables
<1>1. Unannounced' = Unannounced /\ NewsIsOwed'
  BY DEF Unannounced, NewsIsOwed
<1>2. CASE Start \/ BeginFrame \/ Poll \/ CreateChannel \/ UNCHANGED vars
  <2>1. \/ UNCHANGED vars
        \/ /\ UNCHANGED <<generation, seen>> /\ store'.events = store.events
           /\ OwnNews' = OwnNews
           /\ ui \notin {"channels", "timeline"}
    BY <1>2 DEF Start, BeginFrame, Poll, CreateChannel, OwnNews, TypeOK, Tables
  <2>2. QED
    BY <1>1, <2>1 DEF SeenIsPast, NoEventHidden, OwnNews, vars
<1>3. CASE Send \/ BumpOwn
  BY <1>0, <1>1, <1>3 DEF Send, BumpOwn, SeenIsPast, NoEventHidden, OwnNews, TypeOK, Tables
<1>4. CASE Refresh
  BY <1>0, <1>1, <1>4 DEF Refresh, Read, SeenIsPast, NoEventHidden, OwnNews, TypeOK, Tables
<1>5. QED
  BY <1>2, <1>3, <1>4

(* No event hides behind a generation the window has already seen. *)
THEOREM NothingHidden == Spec => []NoEventHidden
<1>1. NewsInv /\ [Next]_vars => NewsInv'
  <2> SUFFICES ASSUME NewsInv, [Next]_vars PROVE NewsInv'
    OBVIOUS
  <2>1. TypeOK'
    BY StepTypes DEF NewsInv
  <2>2. ASSUME NEW s \in Session, SessionStep(s) PROVE NewsIsOwed' /\ SeenIsPast' /\ NoEventHidden'
    BY <2>2, SessionNews
  <2>3. CASE \/ Start \/ BeginFrame \/ Poll \/ Send \/ CreateChannel \/ BumpOwn
             \/ Refresh \/ UNCHANGED vars
    <3>1. UNCHANGED task
      BY <2>3 DEF Start, BeginFrame, Poll, Send, CreateChannel, BumpOwn, Refresh, Read, vars
    <3>2. QED
      BY <2>1, <2>3, <3>1, WindowNews DEF NewsInv
  <2>4. QED
    BY <2>1, <2>2, <2>3 DEF Next, NewsInv
<1>2. QED
  BY InitNews, <1>1, PTL DEF Spec, NewsInv
=============================================================================
