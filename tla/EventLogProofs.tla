--------------------------- MODULE EventLogProofs ---------------------------
(***************************************************************************)
(* The abstract log keeps its promise for every set of nodes, groups and   *)
(* channels and every bound on the numbers.                                *)
(***************************************************************************)
EXTENDS EventLog, TLAPS

USE EventsAssumption DEF GroupOfAssumption, MaxSeqAssumption

(* The author's next number is new to its log, so the log keeps unique keys. *)
LEMMA PublishKeeps ==
    ASSUME LogInv, NEW n \in Node, NEW c \in Channel, NEW s \in 1..MaxSeq,
           Publish(n, c, s)
    PROVE  LogInv'
<1> DEFINE x == [author |-> n, seq |-> s, chan |-> c]
<1>1. x \in Event
  BY DEF Event
<1>2. log' = [log EXCEPT ![n] = @ \cup {x}]
  BY DEF Publish
<1>3. log' \in [Node -> SUBSET Event]
  BY <1>1, <1>2 DEF LogInv
<1>4. AuthorsHold(log)'
  BY <1>2 DEF LogInv, AuthorsHold
<1>5. \A y \in log[n] : y.author = n => Key(y) # Key(x)
  <2> SUFFICES ASSUME NEW y \in log[n], y.author = n, Key(y) = Key(x)
               PROVE  FALSE
    OBVIOUS
  <2>1. y.seq \in SeqsIn(log[n], GroupOf[c], n)
    BY DEF Key, SeqsIn
  <2>2. y.seq \in 1..(s - 1)
    BY <2>1 DEF Publish
  <2> QED
    BY <2>2 DEF Key
<1>6. OwnKeysUnique(log)'
  <2> SUFFICES ASSUME NEW m \in Node, NEW y \in log'[m], NEW z \in log'[m],
                      y.author = m, Key(y) = Key(z)
               PROVE  y = z
    BY DEF OwnKeysUnique, Key
  <2>1. z.author = m
    BY DEF Key
  <2>2. CASE m = n
    <3>1. y \in log[n] \cup {x} /\ z \in log[n] \cup {x}
      BY <1>2, <2>2 DEF LogInv
    <3>2. CASE y \in log[n] /\ z \in log[n]
      BY <2>2, <3>2 DEF LogInv, OwnKeysUnique
    <3> QED
      BY <1>5, <2>1, <2>2, <3>1, <3>2
  <2>3. CASE m # n
    <3>1. log'[m] = log[m]
      BY <1>2, <2>3 DEF LogInv
    <3> QED
      BY <3>1 DEF LogInv, OwnKeysUnique
  <2> QED
    BY <2>2, <2>3
<1>7. OwnLogsGapless(log)'
  <2> SUFFICES ASSUME NEW m \in Node, NEW g \in Group
               PROVE  \E k \in 0..MaxSeq : SeqsIn(log'[m], g, m) = 1..k
    BY DEF OwnLogsGapless
  <2>1. PICK k \in 0..MaxSeq : SeqsIn(log[m], g, m) = 1..k
    BY DEF LogInv, OwnLogsGapless
  <2>2. CASE m = n /\ g = GroupOf[c]
    <3>1. SeqsIn(log'[m], g, m) = SeqsIn(log[m], g, m) \cup {s}
      <4>1. log'[m] = log[m] \cup {x}
        BY <1>2, <2>2 DEF LogInv
      <4>2. x.author = m /\ x.seq = s /\ GroupOf[x.chan] = g
        BY <2>2
      <4> HIDE DEF x
      <4> QED
        BY <4>1, <4>2 DEF SeqsIn
    <3>2. SeqsIn(log[m], g, m) = 1..(s - 1)
      BY <2>2 DEF Publish
    <3>3. SeqsIn(log'[m], g, m) = 1..s
      BY <3>1, <3>2
    <3> QED
      BY <3>3
  <2>3. CASE ~(m = n /\ g = GroupOf[c])
    <3>1. SeqsIn(log'[m], g, m) = SeqsIn(log[m], g, m)
      BY <1>2, <2>3 DEF SeqsIn, LogInv
    <3> QED
      BY <2>1, <3>1
  <2> QED
    BY <2>2, <2>3
<1> QED
  BY <1>3, <1>4, <1>6, <1>7 DEF LogInv

(* Copying what somebody holds adds nothing to its author's log. *)
LEMMA LearnKeeps ==
    ASSUME LogInv, NEW n \in Node, NEW m \in Node, NEW x \in log[m], Learn(n, x)
    PROVE  LogInv'
<1>1. log' = [log EXCEPT ![n] = @ \cup {x}] /\ x \in Event
  BY DEF Learn, LogInv
<1>2. log' \in [Node -> SUBSET Event]
  BY <1>1 DEF LogInv
<1>3. AuthorsHold(log)'
  BY <1>1 DEF LogInv, AuthorsHold
<1>4. \A y \in log'[n] : y.author = n => y \in log[n]
  BY <1>1 DEF LogInv, AuthorsHold
<1>5. OwnKeysUnique(log)'
  <2> SUFFICES ASSUME NEW k \in Node, NEW y \in log'[k], NEW z \in log'[k],
                      y.author = k, Key(y) = Key(z)
               PROVE  y = z
    BY DEF OwnKeysUnique, Key
  <2>1. z.author = k
    BY DEF Key
  <2>2. y \in log[k] /\ z \in log[k]
    BY <1>1, <1>4, <2>1 DEF LogInv
  <2> QED
    BY <2>2 DEF LogInv, OwnKeysUnique
<1>6. \A k \in Node, g \in Group : SeqsIn(log'[k], g, k) = SeqsIn(log[k], g, k)
  BY <1>1, <1>4 DEF SeqsIn, LogInv
<1>7. OwnLogsGapless(log)'
  BY <1>6 DEF LogInv, OwnLogsGapless
<1> QED
  BY <1>2, <1>3, <1>5, <1>7 DEF LogInv

LEMMA InitLogInv == Init => LogInv
  BY DEF Init, LogInv, SeedAssumption

LEMMA NextLogInv == LogInv /\ [Next]_log => LogInv'
<1> SUFFICES ASSUME LogInv, [Next]_log PROVE LogInv'
  OBVIOUS
<1>1. CASE UNCHANGED log
  BY <1>1 DEF LogInv, AuthorsHold, OwnKeysUnique, OwnLogsGapless
<1>2. CASE Next
  BY <1>2, PublishKeeps, LearnKeeps DEF Next
<1> QED
  BY <1>1, <1>2

(* Events under one key were both written by its author, whose log holds both. *)
LEMMA LogInvAgreement == LogInv => Agreement
  BY DEF LogInv, Agreement, AuthorsHold, OwnKeysUnique, Key, Event

(* No two replicas ever hold different events under one (group, author, number),
   whatever is copied from where and in which order (store.rs:199-292). *)
THEOREM LogAgreement == Spec => []Agreement
<1>1. Spec => []LogInv
  BY InitLogInv, NextLogInv, PTL DEF Spec
<1> QED
  BY <1>1, LogInvAgreement, PTL
=============================================================================
