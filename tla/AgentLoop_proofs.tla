------------------------- MODULE AgentLoop_proofs -------------------------
(***************************************************************************)
(* Theorems about AgentLoop, for every set of messages and sessions, every *)
(* queue capacity and every size of the concurrency gate.                  *)
(***************************************************************************)
EXTENDS AgentLoop, TLAPS

USE DEF Joined, AtLock, Unlock, ReleaseGate, Unregister, TakePending

\* Taking one element out of a sequence leaves a sequence of the same elements.
LEMMA RemoveAtType ==
  ASSUME NEW S, NEW q \in Seq(S), NEW i \in 1..Len(q)
  PROVE  RemoveAt(q, i) \in Seq(S)
  BY DEF RemoveAt

LEMMA DeferredTypes ==
  ASSUME TypeOK, NEW s \in Sessions
  PROVE  /\ NextDeferred(s) \in Seq(Messages)
         /\ LaterDeferred(s) \in Seq(Messages)
         /\ Leftovers(s) \in Seq(Messages)
  BY DEF TypeOK, NextDeferred, LaterDeferred, Leftovers, Registered

\* What EndTask leaves has the right types.
LEMMA EndTaskTypes ==
  ASSUME TypeOK, NEW m \in Messages, NEW end \in Settled, NEW sent \in Seq(Messages),
         EndTask(m, end, sent)
  PROVE  /\ bus' \in Seq(Messages)
         /\ pc' \in [Messages -> Pcs]
         /\ cancelReq' \subseteq Messages
  BY DEF TypeOK, EndTask, Pcs, Settled, TaskPcs

-----------------------------------------------------------------------------
\* How the sequences the loop keeps its messages in change what they list.

LEMMA ListsEmpty == Lists(<<>>, {})
  BY DEF Lists

LEMMA ListsOnly ==
  ASSUME NEW S, Lists(<<>>, S)
  PROVE  S = {}
  BY DEF Lists

LEMMA ListsAppend ==
  ASSUME NEW T, NEW S \in SUBSET T, NEW q \in Seq(T), Lists(q, S), NEW x \in T \ S
  PROVE  Lists(Append(q, x), S \cup {x})
  BY DEF Lists

LEMMA ListsTail ==
  ASSUME NEW T, NEW S \in SUBSET T, NEW q \in Seq(T), Lists(q, S), q # <<>>
  PROVE  Head(q) \in S /\ Lists(Tail(q), S \ {Head(q)})
<1> DEFINE r == Tail(q)
<1>1. /\ Len(q) \in Nat \ {0}
      /\ Len(r) = Len(q) - 1
      /\ Head(q) = q[1]
      /\ \A i \in 1..Len(r) : r[i] = q[i + 1]
  OBVIOUS
<1> HIDE DEF r
<1>2. \A i \in 1..Len(r) : i + 1 \in 1..Len(q) /\ i + 1 # 1
  BY <1>1
<1>3. \A m \in S \ {Head(q)} : \E i \in 1..Len(r) : r[i] = m
  <2> TAKE m \in S \ {Head(q)}
  <2>1. PICK j \in 1..Len(q) : q[j] = m
    BY DEF Lists
  <2>2. j - 1 \in 1..Len(r) /\ r[j - 1] = m
    BY <1>1, <2>1
  <2> QED
    BY <2>2
<1>4. \A i \in 1..Len(r) : r[i] \in S \ {Head(q)}
  BY <1>1, <1>2 DEF Lists
<1>5. \A i, j \in 1..Len(r) : r[i] = r[j] => i = j
  BY <1>1, <1>2 DEF Lists
<1>6. Head(q) \in S
  BY <1>1 DEF Lists
<1> QED
  BY <1>3, <1>4, <1>5, <1>6 DEF Lists, r

LEMMA ListsConcat ==
  ASSUME NEW T, NEW S1 \in SUBSET T, NEW S2 \in SUBSET T, S1 \cap S2 = {},
         NEW q1 \in Seq(T), NEW q2 \in Seq(T), Lists(q1, S1), Lists(q2, S2)
  PROVE  Lists(q1 \o q2, S1 \cup S2)
<1> DEFINE r == q1 \o q2
           n == Len(q1)
<1>1. /\ n \in Nat
      /\ Len(q2) \in Nat
      /\ Len(r) = n + Len(q2)
      /\ \A i \in 1..n : i \in 1..Len(r) /\ r[i] = q1[i]
      /\ \A i \in 1..Len(q2) : n + i \in 1..Len(r) /\ r[n + i] = q2[i]
  OBVIOUS
<1>2. \A i \in 1..Len(r) : (i \in 1..n /\ r[i] = q1[i])
                            \/ (i - n \in 1..Len(q2) /\ r[i] = q2[i - n])
  OBVIOUS
<1> HIDE DEF r, n
<1>3. \A m \in S1 \cup S2 : \E i \in 1..Len(r) : r[i] = m
  <2>1. ASSUME NEW m \in S1 PROVE \E i \in 1..Len(r) : r[i] = m
    <3>1. PICK i \in 1..n : q1[i] = m
      BY DEF Lists, n
    <3> QED
      BY <1>1, <3>1
  <2>2. ASSUME NEW m \in S2 PROVE \E i \in 1..Len(r) : r[i] = m
    <3>1. PICK i \in 1..Len(q2) : q2[i] = m
      BY DEF Lists
    <3> QED
      BY <1>1, <3>1
  <2> QED
    BY <2>1, <2>2
<1>4. \A i \in 1..Len(r) : r[i] \in S1 \cup S2
  BY <1>2 DEF Lists, n
<1>5. ASSUME NEW i \in 1..Len(r), NEW j \in 1..Len(r), r[i] = r[j]
      PROVE  i = j
  <2>1. CASE i \in 1..n /\ j \in 1..n
    BY <1>1, <1>5, <2>1 DEF Lists, n
  <2>2. CASE i - n \in 1..Len(q2) /\ j - n \in 1..Len(q2)
    <3>1. q2[i - n] = q2[j - n]
      BY <1>1, <1>2, <1>5, <2>2
    <3>2. i - n = j - n
      BY <2>2, <3>1 DEF Lists
    <3> QED
      BY <1>1, <3>2
  <2>3. ASSUME NEW a \in 1..Len(r), NEW b \in 1..Len(r), r[a] = r[b],
               a \in 1..n, b - n \in 1..Len(q2)
        PROVE  FALSE
    <3>1. r[a] \in S1
      BY <1>1, <2>3 DEF Lists, n
    <3>2. r[b] = q2[b - n]
      BY <1>1, <1>2, <2>3
    <3>3. r[b] \in S2
      BY <2>3, <3>2 DEF Lists
    <3> QED
      BY <2>3, <3>1, <3>3
  <2> QED
    BY <1>2, <1>5, <2>1, <2>2, <2>3
<1> QED
  BY <1>3, <1>4, <1>5 DEF Lists, r

LEMMA ListsRemoveAt ==
  ASSUME NEW T, NEW S \in SUBSET T, NEW q \in Seq(T), Lists(q, S), NEW i \in 1..Len(q)
  PROVE  Lists(RemoveAt(q, i), S \ {q[i]})
<1> DEFINE r == RemoveAt(q, i)
<1>1. /\ Len(q) \in Nat
      /\ Len(r) = Len(q) - 1
      /\ \A j \in 1..Len(r) : r[j] = IF j < i THEN q[j] ELSE q[j + 1]
  <2> DEFINE a == SubSeq(q, 1, i - 1)
             b == SubSeq(q, i + 1, Len(q))
  <2>1. /\ Len(q) \in Nat
        /\ Len(a) = i - 1
        /\ Len(b) = Len(q) - i
    OBVIOUS
  <2>2. /\ \A j \in 1..Len(a) : a[j] = q[j]
        /\ \A j \in 1..Len(b) : b[j] = q[i + j]
    OBVIOUS
  <2>3. a \in Seq(T) /\ b \in Seq(T) /\ r = a \o b
    BY DEF RemoveAt
  <2> HIDE DEF a, b, r
  <2>4. Len(r) = Len(q) - 1
    BY <2>1, <2>3
  <2>5. \A j \in 1..Len(r) : r[j] = IF j <= Len(a) THEN a[j] ELSE b[j - Len(a)]
    BY <2>3
  <2>6. ASSUME NEW j \in 1..Len(r)
        PROVE  r[j] = IF j < i THEN q[j] ELSE q[j + 1]
    <3>1. CASE j < i
      BY <2>1, <2>2, <2>5, <3>1
    <3>2. CASE j >= i
      <4>1. j - (i - 1) \in 1..Len(b)
        BY <2>1, <2>4, <3>2
      <4> QED
        BY <2>1, <2>2, <2>5, <3>2, <4>1
    <3> QED
      BY <3>1, <3>2
  <2> QED
    BY <2>1, <2>4, <2>6
<1> HIDE DEF r
<1>2. ASSUME NEW m \in S \ {q[i]}
      PROVE  \E j \in 1..Len(r) : r[j] = m
  <2>1. PICK k \in 1..Len(q) : q[k] = m
    BY DEF Lists
  <2>2. CASE k < i
    BY <1>1, <2>1, <2>2
  <2>3. CASE k > i
    <3>1. k - 1 \in 1..Len(r) /\ r[k - 1] = m
      BY <1>1, <2>1, <2>3
    <3> QED
      BY <3>1
  <2> QED
    BY <1>2, <2>1, <2>2, <2>3
<1>3. \A j \in 1..Len(r) : r[j] \in S \ {q[i]}
  BY <1>1 DEF Lists
<1>4. \A j, k \in 1..Len(r) : r[j] = r[k] => j = k
  BY <1>1 DEF Lists
<1> QED
  BY <1>2, <1>3, <1>4 DEF Lists, r

LEMMA ListsRange ==
  ASSUME NEW T, NEW S \in SUBSET T, NEW q \in Seq(T), Lists(q, S)
  PROVE  Range(q) = S
  BY DEF Lists, Range

-----------------------------------------------------------------------------
\* The state of AgentLoop keeps its types.
THEOREM TypeCorrect == Spec => []TypeOK
<1> USE AgentLoopAssumption
<1>1. Init => TypeOK
  BY DEF Init, TypeOK, Pcs, Verdicts
<1>2. TypeOK /\ [Next]_vars => TypeOK'
  <2> SUFFICES ASSUME TypeOK, [Next]_vars PROVE TypeOK'
    OBVIOUS
  <2> USE DEF TypeOK, Pcs, TaskPcs, Settled, Verdicts, lockVars, loopVars
  <2>1. CASE EndControl
    BY <2>1 DEF EndControl, OfSession
  <2>2. ASSUME NEW m \in Messages, RouteOne(m)
        PROVE  TypeOK'
    <3>1. CASE DropStale(m)
      BY <3>1 DEF DropStale, Consumes, Consume
    <3>2. CASE BeginControl(m)
      <4>1. /\ bus' \in Seq(Messages)
            /\ control' \in Messages
        BY <3>2 DEF BeginControl, Consumes, Consume
      <4>2. pc' \in [Messages -> Pcs]
        BY <3>2 DEF BeginControl, SubagentsCancelled
      <4>3. /\ victims' \subseteq Messages
            /\ cancelReq' \subseteq Messages
            /\ tokens' \subseteq Messages
            /\ revoked' \subseteq Messages
        BY <3>2 DEF BeginControl, CancelSession, Tasks, OfSession
      <4> QED
        BY <3>2, <4>1, <4>2, <4>3 DEF BeginControl
    <3>3. CASE Defer(m)
      BY <3>3 DEF Defer, Consumes, Consume
    <3>4. CASE Inject(m)
      BY <3>4 DEF Inject, Injectable, Consumes, Consume, Registered
    <3>5. CASE CreateTask(m)
      BY <3>5 DEF CreateTask, Consumes, Consume
    <3> QED
      BY <2>2, <3>1, <3>2, <3>3, <3>4, <3>5 DEF RouteOne
  <2>3. ASSUME NEW m \in Messages, TaskStep(m)
        PROVE  TypeOK'
    <3>0. DEFINE s == SessionOf[m]
    <3>s. s \in Sessions
      OBVIOUS
    <3>d. /\ NextDeferred(s) \in Seq(Messages)
          /\ LaterDeferred(s) \in Seq(Messages)
          /\ Leftovers(s) \in Seq(Messages)
      BY <3>s, DeferredTypes
    <3>e. ASSUME NEW end \in Settled, NEW sent \in Seq(Messages), EndTask(m, end, sent)
          PROVE  /\ bus' \in Seq(Messages)
                 /\ pc' \in [Messages -> Pcs]
                 /\ cancelReq' \subseteq Messages
      BY <3>e, EndTaskTypes
    <3>w. ASSUME NEW v \in Verdicts, Resolve(m, v)
          PROVE  waiter' \in [Messages -> Verdicts]
      BY <3>w DEF Resolve
    <3>c. ASSUME NEW end \in Settled, CloseTurn(m, end), waiter' \in [Messages -> Verdicts]
          PROVE  TypeOK'
      <4>1. Leftovers(s) \o NextDeferred(s) \in Seq(Messages)
        BY <3>d
      <4>2. /\ bus' \in Seq(Messages)
            /\ pc' \in [Messages -> Pcs]
            /\ cancelReq' \subseteq Messages
        BY <3>c, <3>e, <4>1 DEF CloseTurn
      <4> QED
        BY <3>c, <3>d, <3>s, <4>2 DEF CloseTurn
    <3>1. CASE Start(m)
      <4>1. lockQ' \in [Sessions -> Seq(Messages)]
        <5>1. lockQ' = lockQ \/ lockQ' = [lockQ EXCEPT ![s] = Append(@, m)]
          BY <3>1 DEF Start
        <5>2. Append(lockQ[s], m) \in Seq(Messages)
          BY <3>s
        <5> QED
          BY <5>1, <5>2, <3>s
      <4>2. pc' \in [Messages -> Pcs]
        BY <3>1 DEF Start
      <4> QED
        BY <3>1, <4>1, <4>2 DEF Start
    <3>2. CASE TakeLock(m)
      BY <3>2 DEF TakeLock
    <3>3. CASE BeginTurn(m)
      BY <3>3 DEF BeginTurn, AtGate
    <3>4. CASE SkipTurn(m)
      <4>1. /\ bus' \in Seq(Messages)
            /\ pc' \in [Messages -> Pcs]
            /\ cancelReq' \subseteq Messages
        BY <3>4, <3>d, <3>e DEF SkipTurn
      <4>2. /\ deferred' \in [Sessions -> Seq(Messages)]
            /\ locked' \in [Sessions -> BOOLEAN]
            /\ gateQ' \in Seq(Messages)
        BY <3>4, <3>d, <3>s DEF SkipTurn, AtGate
      <4> QED
        BY <3>4, <4>1, <4>2 DEF SkipTurn
    <3>5. CASE Drain(m)
      BY <3>5, <3>s DEF Drain, Registered
    <3>6. CASE Finish(m)
      BY <3>6, <3>c, <3>w DEF Finish
    <3>7. CASE NewInTurn(m)
      BY <3>7 DEF NewInTurn, Tasks, OfSession
    <3>8. CASE CancelCreated(m)
      <4>1. <<>> \in Seq(Messages)
        OBVIOUS
      <4>2. /\ bus' \in Seq(Messages)
            /\ pc' \in [Messages -> Pcs]
            /\ cancelReq' \subseteq Messages
        BY <3>8, <3>e, <4>1 DEF CancelCreated
      <4> QED
        BY <3>8, <4>2 DEF CancelCreated
    <3>9. CASE CancelAtLock(m)
      <4>1. /\ bus' \in Seq(Messages)
            /\ pc' \in [Messages -> Pcs]
            /\ cancelReq' \subseteq Messages
        BY <3>9, <3>d, <3>e DEF CancelAtLock
      <4>2. PICK i \in 1..Len(lockQ[s]) : lockQ' = [lockQ EXCEPT ![s] = RemoveAt(@, i)]
        BY <3>9 DEF CancelAtLock
      <4>3. RemoveAt(lockQ[s], i) \in Seq(Messages)
        BY <3>s, RemoveAtType
      <4>4. /\ lockQ' \in [Sessions -> Seq(Messages)]
            /\ deferred' \in [Sessions -> Seq(Messages)]
        BY <3>9, <3>d, <3>s, <4>2, <4>3 DEF CancelAtLock
      <4> QED
        BY <3>9, <4>1, <4>4 DEF CancelAtLock
    <3>10. CASE CancelAtGate(m)
      <4>1. /\ bus' \in Seq(Messages)
            /\ pc' \in [Messages -> Pcs]
            /\ cancelReq' \subseteq Messages
        BY <3>10, <3>d, <3>e DEF CancelAtGate
      <4>2. gateQ' \in Seq(Messages)
        BY <3>10, RemoveAtType DEF CancelAtGate
      <4>3. /\ locked' \in [Sessions -> BOOLEAN]
            /\ deferred' \in [Sessions -> Seq(Messages)]
        BY <3>10, <3>d, <3>s DEF CancelAtGate
      <4> QED
        BY <3>10, <4>1, <4>2, <4>3 DEF CancelAtGate
    <3>11. CASE CancelTurn(m)
      BY <3>11, <3>c, <3>w DEF CancelTurn
    <3> QED
      BY <2>3, <3>1, <3>2, <3>3, <3>4, <3>5, <3>6, <3>7, <3>8, <3>9, <3>10, <3>11
         DEF TaskStep, PassGate
  <2>4. ASSUME NEW m \in Messages, Outside(m)
        PROVE  TypeOK'
    <3>1. /\ bus' \in Seq(Messages)
          /\ pc' \in [Messages -> Pcs]
      <4>1. \/ Enqueue(m)
            \/ UNCHANGED bus /\ pc' = [pc EXCEPT ![m] = "working"]
            \/ UNCHANGED <<bus, pc>>
        BY <2>4 DEF Outside, Publish, Submit, GiveUp, Spawn, Announce
      <4> QED
        <5>1. CASE Enqueue(m)
          <6>1. Append(bus, m) \in Seq(Messages)
            OBVIOUS
          <6>2. bus' \in Seq(Messages)
            BY <5>1, <6>1 DEF Enqueue
          <6>3. pc' \in [Messages -> Pcs]
            BY <5>1 DEF Enqueue
          <6> QED
            BY <6>2, <6>3
        <5>2. CASE UNCHANGED bus /\ pc' = [pc EXCEPT ![m] = "working"]
          BY <5>2
        <5> QED
          BY <4>1, <5>1, <5>2
    <3>2. /\ waiter' \in [Messages -> Verdicts]
          /\ tokens' \subseteq Messages
      BY <2>4 DEF Outside, Publish, Submit, GiveUp, Spawn, Announce
    <3> QED
      BY <2>4, <3>1, <3>2 DEF Outside, Publish, Submit, GiveUp, Spawn, Announce
  <2> QED
    BY <2>1, <2>2, <2>3, <2>4 DEF Next, RunLoop, vars
<1> QED
  BY <1>1, <1>2, PTL DEF Spec

-----------------------------------------------------------------------------
\* The inductive invariant.  A message the loop routes or drains is found by its
\* position in a queue, so what the locks and the turns promise depends on the
\* queues listing exactly the messages that are there, and the other way round.

\* The command run() handles inline joins every live task of its session.
ControlJoinsAll ==
  control # None =>
    /\ pc[control] = "control"
    /\ KindOf[control] \in {"stop", "new", "discard"}
    /\ Tasks(SessionOf[control]) \subseteq victims

\* A revoked result has no token any more and is still queued, or put away.
RevokedHasNoToken ==
  \A r \in revoked :
    /\ KindOf[r] = "result"
    /\ r \notin tokens
    /\ pc[r] \in {"bus", "pending", "created", "lock", "gate",
                  "dropped", "cancelled", "discarded"}

DispatchInv ==
  /\ TypeOK
  /\ SerialTurns
  /\ QueueHasTurn
  /\ InOnePlace
  /\ ControlJoinsAll
  /\ RevokedHasNoToken

\* The places a queue stands for.
Queues == {"bus", "gate", "lock", "deferred", "pending"}

LEMMA SamePlaces ==
  ASSUME InOnePlace, UNCHANGED <<bus, gateQ, lockQ, deferred, pending>>,
         \A p \in Queues : Placed(p)' = Placed(p)
  PROVE  InOnePlace'
<1>1. \A p \in Queues, s \in Sessions : PlacedOf(s, p)' = PlacedOf(s, p)
  BY DEF PlacedOf, OfSession
<1>2. \A s \in Sessions : Leftovers(s)' = Leftovers(s)
  BY DEF Leftovers, Registered
<1> QED
  BY <1>1, <1>2 DEF InOnePlace, Queues

LEMMA PlacedTypes ==
  ASSUME NEW p, NEW s
  PROVE  Placed(p) \in SUBSET Messages /\ PlacedOf(s, p) \in SUBSET Messages
  BY DEF Placed, PlacedOf, OfSession

\* Entering the bus.
LEMMA EnqueuePlaces ==
  ASSUME TypeOK, InOnePlace, NEW m \in Messages, pc[m] \in {"unsent", "working"},
         Enqueue(m), UNCHANGED <<gateQ, lockQ, deferred, pending>>
  PROVE  InOnePlace'
<1>1. /\ Placed("bus")' = Placed("bus") \cup {m}
      /\ m \notin Placed("bus")
      /\ \A p \in Queues \ {"bus"} : Placed(p)' = Placed(p)
  BY DEF TypeOK, Enqueue, Placed, Queues
<1>2. Lists(bus', Placed("bus")')
  <2>1. /\ Placed("bus") \in SUBSET Messages
        /\ bus \in Seq(Messages)
        /\ Lists(bus, Placed("bus"))
        /\ m \in Messages \ Placed("bus")
    BY <1>1, PlacedTypes DEF TypeOK, InOnePlace
  <2>2. Lists(Append(bus, m), Placed("bus") \cup {m})
    BY <2>1, ListsAppend
  <2> QED
    BY <1>1, <2>2 DEF Enqueue
<1>3. \A p \in Queues \ {"bus"}, s \in Sessions : PlacedOf(s, p)' = PlacedOf(s, p)
  BY <1>1 DEF PlacedOf, OfSession
<1>4. \A s \in Sessions : Leftovers(s)' = Leftovers(s)
  BY DEF Leftovers, Registered
<1> QED
  BY <1>1, <1>2, <1>3, <1>4 DEF InOnePlace, Queues

\* Leaving the bus for a place that is not a queue.
LEMMA ConsumePlaces ==
  ASSUME TypeOK, InOnePlace, NEW m \in Messages, Consumes(m), Consume,
         Placed("bus")' = Placed("bus") \ {m},
         \A p \in Queues \ {"bus"} : Placed(p)' = Placed(p),
         UNCHANGED <<gateQ, lockQ, deferred, pending>>
  PROVE  InOnePlace'
<1>1. Lists(bus', Placed("bus")')
  <2>1. /\ Placed("bus") \in SUBSET Messages
        /\ bus \in Seq(Messages)
        /\ Lists(bus, Placed("bus"))
        /\ bus # <<>>
        /\ m = Head(bus)
    BY PlacedTypes DEF TypeOK, InOnePlace, Consumes
  <2>2. Lists(Tail(bus), Placed("bus") \ {m})
    BY <2>1, ListsTail
  <2> QED
    BY <2>2 DEF Consume
<1>2. \A p \in Queues \ {"bus"}, s \in Sessions : PlacedOf(s, p)' = PlacedOf(s, p)
  BY DEF PlacedOf, OfSession
<1>3. \A s \in Sessions : Leftovers(s)' = Leftovers(s)
  BY DEF Leftovers, Registered
<1> QED
  BY <1>1, <1>2, <1>3 DEF InOnePlace, Queues

\* The next message of the bus is on the bus, and nowhere else.
LEMMA HeadOnBus ==
  ASSUME TypeOK, InOnePlace, NEW m \in Messages, Consumes(m)
  PROVE  pc[m] = "bus"
<1>1. m \in Placed("bus")
  BY ListsTail, PlacedTypes DEF TypeOK, Consumes, InOnePlace
<1> QED
  BY <1>1 DEF Placed

\* The deferred turn publish_next_deferred_turn takes.
NextOf(s) == IF deferred[s] = <<>> THEN {} ELSE {Head(deferred[s])}

LEMMA DeferredLists ==
  ASSUME TypeOK, InOnePlace, NEW s \in Sessions
  PROVE  /\ NextOf(s) \subseteq PlacedOf(s, "deferred")
         /\ Lists(NextDeferred(s), NextOf(s))
         /\ Lists(LaterDeferred(s), PlacedOf(s, "deferred") \ NextOf(s))
<1>1. /\ PlacedOf(s, "deferred") \in SUBSET Messages
      /\ deferred[s] \in Seq(Messages)
      /\ Lists(deferred[s], PlacedOf(s, "deferred"))
  BY PlacedTypes DEF TypeOK, InOnePlace
<1>2. CASE deferred[s] = <<>>
  <2>1. PlacedOf(s, "deferred") = {}
    BY <1>1, <1>2, ListsOnly
  <2> QED
    BY <1>2, <2>1, ListsEmpty DEF NextOf, NextDeferred, LaterDeferred
<1>3. CASE deferred[s] # <<>>
  <2>1. /\ Head(deferred[s]) \in PlacedOf(s, "deferred")
        /\ Lists(Tail(deferred[s]), PlacedOf(s, "deferred") \ {Head(deferred[s])})
    BY <1>1, <1>3, ListsTail
  <2>2. Lists(<<Head(deferred[s])>>, {Head(deferred[s])})
    BY DEF Lists
  <2> QED
    BY <1>3, <2>1, <2>2 DEF NextOf, NextDeferred, LaterDeferred
<1> QED
  BY <1>2, <1>3

\* What the end of a task does to the bus and to the places of the messages.
LEMMA EndTaskPlaces ==
  ASSUME TypeOK, InOnePlace, NEW m \in Messages, pc[m] \in TaskPcs,
         NEW end \in Settled, NEW S \in SUBSET Messages,
         \A x \in S : pc[x] \in {"pending", "deferred"},
         NEW sent \in Seq(Messages), Lists(sent, S), EndTask(m, end, sent)
  PROVE  /\ pc' = [x \in Messages |-> IF x = m THEN end
                                      ELSE IF x \in S THEN "bus" ELSE pc[x]]
         /\ Lists(bus', Placed("bus")')
         /\ \A p \in Queues \ {"bus"} :
              Placed(p)' = Placed(p) \ (S \cup {m})
<1>1. Range(sent) = S
  BY ListsRange
<1>2. pc' = [x \in Messages |-> IF x = m THEN end
                                ELSE IF x \in S THEN "bus" ELSE pc[x]]
  BY <1>1 DEF EndTask
<1>3. Placed("bus")' = Placed("bus") \cup S
  BY <1>2 DEF Placed, Settled, TaskPcs
<1>4. Placed("bus") \cap S = {}
  BY DEF Placed
<1>5. Lists(bus', Placed("bus")')
  <2>1. /\ Placed("bus") \in SUBSET Messages
        /\ bus \in Seq(Messages)
        /\ Lists(bus, Placed("bus"))
        /\ bus' = bus \o sent
    BY PlacedTypes DEF TypeOK, InOnePlace, EndTask
  <2>2. Lists(bus \o sent, Placed("bus") \cup S)
    BY <1>4, <2>1, ListsConcat
  <2> QED
    BY <1>3, <2>1, <2>2
<1>6. \A p \in Queues \ {"bus"} : Placed(p)' = Placed(p) \ (S \cup {m})
  BY <1>2 DEF Placed, Settled, Queues
<1> QED
  BY <1>2, <1>5, <1>6

\* run() moves a message from the bus to exactly one other place.
LEMMA RoutePlaces ==
  ASSUME TypeOK, InOnePlace, NEW m \in Messages, RouteOne(m)
  PROVE  InOnePlace'
<1> DEFINE s == SessionOf[m]
<1>0. /\ s \in Sessions
      /\ m \in OfSession(s)
      /\ Consumes(m)
      /\ pc[m] = "bus"
  <2>1. Consumes(m)
    BY DEF RouteOne, DropStale, BeginControl, Defer, Inject, CreateTask
  <2> QED
    BY <2>1, HeadOnBus, AgentLoopAssumption DEF OfSession
<1>1. ASSUME NEW end, end \notin Queues, Consume, pc' = [pc EXCEPT ![m] = end],
             UNCHANGED <<gateQ, lockQ, deferred, pending>>
      PROVE  InOnePlace'
  <2>1. /\ Placed("bus")' = Placed("bus") \ {m}
        /\ \A p \in Queues \ {"bus"} : Placed(p)' = Placed(p)
    BY <1>0, <1>1 DEF TypeOK, Placed, Queues
  <2> QED
    BY <1>0, <1>1, <2>1, ConsumePlaces
<1>2. CASE DropStale(m)
  BY <1>1, <1>2 DEF DropStale, lockVars, Queues
<1>3. CASE CreateTask(m)
  BY <1>1, <1>3 DEF CreateTask, lockVars, Queues
<1>4. CASE BeginControl(m)
  <2>1. /\ Placed("bus")' = Placed("bus") \ {m}
        /\ \A p \in Queues \ {"bus"} : Placed(p)' = Placed(p)
    BY <1>0, <1>4 DEF BeginControl, SubagentsCancelled, TypeOK, Placed, Queues
  <2> QED
    BY <1>0, <1>4, <2>1, ConsumePlaces DEF BeginControl, lockVars
\* The bus after the message has left it for a queue of its session.
<1>5. ASSUME NEW q \in Queues \ {"bus"}, Consume, pc' = [pc EXCEPT ![m] = q]
      PROVE  /\ Lists(bus', Placed("bus")')
             /\ m \notin Placed(q)
             /\ Placed(q)' = Placed(q) \cup {m}
             /\ \A p \in Queues \ {"bus", q} : Placed(p)' = Placed(p)
  <2>1. Placed("bus")' = Placed("bus") \ {m}
    BY <1>0, <1>5 DEF TypeOK, Placed, Queues
  <2>2. /\ Placed("bus") \in SUBSET Messages
        /\ bus \in Seq(Messages)
        /\ Lists(bus, Placed("bus"))
        /\ bus # <<>>
        /\ m = Head(bus)
    BY <1>0, PlacedTypes DEF TypeOK, InOnePlace, Consumes
  <2>3. Lists(Tail(bus), Placed("bus") \ {m})
    BY <2>2, ListsTail
  <2>4. Lists(bus', Placed("bus")')
    BY <1>5, <2>1, <2>3 DEF Consume
  <2>5. /\ m \notin Placed(q)
        /\ Placed(q)' = Placed(q) \cup {m}
        /\ \A p \in Queues \ {"bus", q} : Placed(p)' = Placed(p)
    BY <1>0, <1>5 DEF TypeOK, Placed, Queues
  <2> QED
    BY <2>4, <2>5
<1>6. CASE Defer(m)
  <2>1. /\ Lists(bus', Placed("bus")')
        /\ m \notin Placed("deferred")
        /\ Placed("deferred")' = Placed("deferred") \cup {m}
        /\ \A p \in Queues \ {"bus", "deferred"} : Placed(p)' = Placed(p)
    BY <1>5, <1>6 DEF Defer, Queues
  <2>2. Lists(Append(deferred[s], m), PlacedOf(s, "deferred") \cup {m})
    <3>1. /\ PlacedOf(s, "deferred") \in SUBSET Messages
          /\ deferred[s] \in Seq(Messages)
          /\ Lists(deferred[s], PlacedOf(s, "deferred"))
          /\ m \in Messages \ PlacedOf(s, "deferred")
      BY <1>0, <2>1, PlacedTypes DEF TypeOK, InOnePlace, PlacedOf
    <3> QED
      BY <3>1, ListsAppend
  <2>3. ASSUME NEW t \in Sessions
        PROVE  Lists(deferred'[t], PlacedOf(t, "deferred")')
    <3>1. CASE t = s
      BY <1>0, <1>6, <2>1, <2>2, <3>1 DEF Defer, TypeOK, PlacedOf, OfSession
    <3>2. CASE t # s
      <4>1. /\ deferred'[t] = deferred[t]
            /\ PlacedOf(t, "deferred")' = PlacedOf(t, "deferred")
        BY <1>6, <2>1, <3>2 DEF Defer, TypeOK, PlacedOf, OfSession
      <4> QED
        BY <4>1 DEF InOnePlace
    <3> QED
      BY <3>1, <3>2
  <2>4. \A t \in Sessions, p \in {"lock", "pending"} : PlacedOf(t, p)' = PlacedOf(t, p)
    BY <2>1 DEF PlacedOf, OfSession, Queues
  <2>5. /\ UNCHANGED <<gateQ, lockQ>>
        /\ \A t \in Sessions : Leftovers(t)' = Leftovers(t)
    BY <1>6 DEF Defer, Leftovers, Registered, lockVars
  <2> QED
    BY <2>1, <2>3, <2>4, <2>5 DEF InOnePlace, Queues
<1>7. CASE Inject(m)
  <2>1. /\ Lists(bus', Placed("bus")')
        /\ m \notin Placed("pending")
        /\ Placed("pending")' = Placed("pending") \cup {m}
        /\ \A p \in Queues \ {"bus", "pending"} : Placed(p)' = Placed(p)
    BY <1>5, <1>7 DEF Inject, Queues
  <2>2. /\ pending[s] \in Seq(Messages)
        /\ Leftovers(s) = pending[s]
        /\ Append(pending[s], m) # None
    <3>1. pending[s] # None
      BY <1>7 DEF Inject, Injectable, Registered
    <3>2. pending[s] \in Seq(Messages)
      BY <1>0, <3>1 DEF TypeOK
    <3>3. Append(pending[s], m) \in Seq(Messages)
      BY <3>2
    <3>4. None \notin Seq(Messages)
      BY AgentLoopAssumption
    <3>5. Leftovers(s) = pending[s]
      BY <3>1 DEF Leftovers, Registered
    <3>6. Append(pending[s], m) # None
      BY <3>3, <3>4
    <3> QED
      BY <3>2, <3>5, <3>6
  <2>3. Lists(Append(pending[s], m), PlacedOf(s, "pending") \cup {m})
    <3>1. /\ PlacedOf(s, "pending") \in SUBSET Messages
          /\ pending[s] \in Seq(Messages)
          /\ Lists(pending[s], PlacedOf(s, "pending"))
          /\ m \in Messages \ PlacedOf(s, "pending")
      BY <1>0, <2>1, <2>2, PlacedTypes DEF InOnePlace, PlacedOf
    <3> QED
      BY <3>1, ListsAppend
  <2>4. ASSUME NEW t \in Sessions
        PROVE  Lists(Leftovers(t)', PlacedOf(t, "pending")')
    <3>1. CASE t = s
      <4>1. Leftovers(s)' = Append(pending[s], m)
        BY <1>0, <1>7, <2>2 DEF Inject, TypeOK, Leftovers, Registered
      <4>2. PlacedOf(s, "pending")' = PlacedOf(s, "pending") \cup {m}
        BY <1>0, <2>1 DEF PlacedOf, OfSession
      <4> QED
        BY <2>3, <3>1, <4>1, <4>2
    <3>2. CASE t # s
      <4>1. /\ Leftovers(t)' = Leftovers(t)
            /\ PlacedOf(t, "pending")' = PlacedOf(t, "pending")
        BY <1>7, <2>1, <3>2 DEF Inject, TypeOK, Leftovers, Registered, PlacedOf, OfSession
      <4> QED
        BY <4>1 DEF InOnePlace
    <3> QED
      BY <3>1, <3>2
  <2>5. \A t \in Sessions, p \in {"lock", "deferred"} : PlacedOf(t, p)' = PlacedOf(t, p)
    BY <2>1 DEF PlacedOf, OfSession, Queues
  <2>6. UNCHANGED <<gateQ, lockQ, deferred>>
    BY <1>7 DEF Inject, lockVars
  <2> QED
    BY <2>1, <2>4, <2>5, <2>6 DEF InOnePlace, Queues
<1> QED
  BY <1>2, <1>3, <1>4, <1>6, <1>7 DEF RouteOne

\* Entering or leaving a queue only concerns the message's own session.
LEMMA PlacedOfGains ==
  ASSUME NEW p, NEW m \in Messages, Placed(p)' = Placed(p) \cup {m}
  PROVE  /\ PlacedOf(SessionOf[m], p)' = PlacedOf(SessionOf[m], p) \cup {m}
         /\ \A t \in Sessions \ {SessionOf[m]} : PlacedOf(t, p)' = PlacedOf(t, p)
  BY DEF PlacedOf, OfSession

LEMMA PlacedOfLoses ==
  ASSUME NEW p, NEW S \in SUBSET Messages, NEW s \in Sessions, S \subseteq OfSession(s),
         Placed(p)' = Placed(p) \ S
  PROVE  /\ PlacedOf(s, p)' = PlacedOf(s, p) \ S
         /\ \A t \in Sessions \ {s} : PlacedOf(t, p)' = PlacedOf(t, p)
  BY DEF PlacedOf, OfSession

LEMMA PlacedOfSame ==
  ASSUME NEW p, Placed(p)' = Placed(p)
  PROVE  \A t \in Sessions : PlacedOf(t, p)' = PlacedOf(t, p)
  BY DEF PlacedOf, OfSession

\* Taking the next deferred turn of a session.
LEMMA DeferredPlaces ==
  ASSUME TypeOK, InOnePlace, NEW s \in Sessions,
         deferred' = [deferred EXCEPT ![s] = LaterDeferred(s)],
         Placed("deferred")' = Placed("deferred") \ NextOf(s)
  PROVE  \A t \in Sessions : Lists(deferred'[t], PlacedOf(t, "deferred")')
<1>1. /\ NextOf(s) \subseteq PlacedOf(s, "deferred")
      /\ Lists(LaterDeferred(s), PlacedOf(s, "deferred") \ NextOf(s))
  BY DeferredLists
<1>2. NextOf(s) \in SUBSET Messages /\ NextOf(s) \subseteq OfSession(s)
  BY <1>1 DEF PlacedOf, OfSession
<1>3. /\ PlacedOf(s, "deferred")' = PlacedOf(s, "deferred") \ NextOf(s)
      /\ \A t \in Sessions \ {s} : PlacedOf(t, "deferred")' = PlacedOf(t, "deferred")
  BY <1>2, PlacedOfLoses
<1>4. TAKE t \in Sessions
<1>5. CASE t = s
  <2>1. deferred'[s] = LaterDeferred(s)
    BY DEF TypeOK
  <2> QED
    BY <1>1, <1>3, <1>5, <2>1
<1>6. CASE t # s
  <2>1. deferred'[t] = deferred[t]
    BY <1>6 DEF TypeOK
  <2> QED
    BY <1>3, <1>6, <2>1 DEF InOnePlace
<1> QED
  BY <1>5, <1>6

\* Leaving the head of the gate's queue.
LEMMA GateHeadPlaces ==
  ASSUME TypeOK, InOnePlace, NEW m \in Messages, AtGate(m),
         Placed("gate")' = Placed("gate") \ {m}
  PROVE  Lists(gateQ', Placed("gate")')
<1>1. /\ Placed("gate") \in SUBSET Messages
      /\ gateQ \in Seq(Messages)
      /\ Lists(gateQ, Placed("gate"))
      /\ gateQ # <<>>
      /\ m = Head(gateQ)
      /\ gateQ' = Tail(gateQ)
  BY PlacedTypes DEF TypeOK, InOnePlace, AtGate
<1>2. Lists(Tail(gateQ), Placed("gate") \ {m})
  BY <1>1, ListsTail
<1> QED
  BY <1>1, <1>2

\* No turn of the session runs: its pending queue is unregistered and no message
\* is in it.
LEMMA IdleSession ==
  ASSUME QueueHasTurn, InOnePlace, NEW s \in Sessions,
         \A x \in OfSession(s) : pc[x] # "running"
  PROVE  /\ pending[s] = None
         /\ Leftovers(s) = <<>>
         /\ PlacedOf(s, "pending") = {}
<1>1. ~Registered(s)
  BY DEF QueueHasTurn
<1>2. Leftovers(s) = <<>>
  BY <1>1 DEF Leftovers
<1>3. PlacedOf(s, "pending") = {}
  BY <1>2, ListsOnly DEF InOnePlace
<1> QED
  BY <1>1, <1>2, <1>3 DEF Registered

-----------------------------------------------------------------------------
\* Each step of the loop, of a task and of the outside keeps the messages in
\* their places.

LEMMA EndControlPlaces ==
  ASSUME TypeOK, QueueHasTurn, InOnePlace, ControlJoinsAll, EndControl
  PROVE  /\ InOnePlace'
         /\ pc' = [pc EXCEPT ![control] = "answered"]
         /\ pending' = pending
<1> DEFINE s == SessionOf[control]
<1>1. /\ control \in Messages
      /\ s \in Sessions
      /\ pc[control] = "control"
      /\ Tasks(s) \subseteq victims
      /\ \A t \in victims : pc[t] \notin TaskPcs
  BY AgentLoopAssumption DEF EndControl, ControlJoinsAll, TypeOK
<1>2. Tasks(s) = {}
  BY <1>1 DEF Tasks
<1>3. \A x \in OfSession(s) : pc[x] # "running"
  BY <1>2 DEF Tasks, TaskPcs
<1>4. /\ pending[s] = None
      /\ Leftovers(s) = <<>>
  BY <1>1, <1>3, IdleSession
<1>5. Range(<<>>) = {}
  BY DEF Range
<1>6. pc' = [pc EXCEPT ![control] = "answered"]
  <2> DEFINE lost == IF KindOf[control] = "stop" THEN Leftovers(s) ELSE <<>>
  <2>1. pc' = [x \in Messages |-> IF x = control THEN "answered"
                                  ELSE IF x \in Range(lost) THEN "discarded"
                                  ELSE pc[x]]
    BY DEF EndControl
  <2>2. lost = <<>>
    BY <1>4
  <2> HIDE DEF lost
  <2>3. Range(lost) = {}
    BY <1>5, <2>2
  <2> QED
    BY <1>1, <2>1, <2>3 DEF TypeOK
<1>7. pending' = pending
  BY <1>1, <1>4 DEF EndControl, TypeOK
<1>8. \A p \in Queues : Placed(p)' = Placed(p)
  BY <1>1, <1>6 DEF Placed, Queues, TypeOK
<1>9. UNCHANGED <<bus, gateQ, lockQ, deferred, pending>>
  BY <1>7 DEF EndControl, lockVars
<1>10. InOnePlace'
  BY <1>8, <1>9, SamePlaces
<1> QED
  BY <1>6, <1>7, <1>10

LEMMA OutsidePlaces ==
  ASSUME TypeOK, InOnePlace, NEW m \in Messages, Outside(m)
  PROVE  InOnePlace'
<1>1. UNCHANGED <<gateQ, lockQ, deferred, pending>>
  BY DEF Outside, Publish, Submit, GiveUp, Spawn, Announce, lockVars
<1>2. CASE Enqueue(m) /\ pc[m] \in {"unsent", "working"}
  BY <1>1, <1>2, EnqueuePlaces
<1>3. CASE pc[m] = "unsent" /\ pc' = [pc EXCEPT ![m] = "working"] /\ bus' = bus
  <2>1. \A p \in Queues : Placed(p)' = Placed(p)
    BY <1>3 DEF Placed, Queues, TypeOK
  <2> QED
    BY <1>1, <1>3, <2>1, SamePlaces
<1>4. CASE UNCHANGED <<pc, bus>>
  <2>1. \A p \in Queues : Placed(p)' = Placed(p)
    BY <1>4 DEF Placed
  <2> QED
    BY <1>1, <1>4, <2>1, SamePlaces
<1>5. \/ Enqueue(m) /\ pc[m] \in {"unsent", "working"}
      \/ pc[m] = "unsent" /\ pc' = [pc EXCEPT ![m] = "working"] /\ bus' = bus
      \/ UNCHANGED <<pc, bus>>
  <2>1. CASE Publish(m)
    BY <2>1 DEF Publish
  <2>2. CASE Submit(m)
    BY <2>2 DEF Submit
  <2>3. CASE GiveUp(m)
    BY <2>3 DEF GiveUp
  <2>4. CASE Spawn(m)
    BY <2>4 DEF Spawn
  <2>5. CASE Announce(m)
    BY <2>5 DEF Announce
  <2> QED
    BY <2>1, <2>2, <2>3, <2>4, <2>5 DEF Outside
<1> QED
  BY <1>2, <1>3, <1>4, <1>5

LEMMA StartPlaces ==
  ASSUME TypeOK, InOnePlace, NEW m \in Messages, Start(m)
  PROVE  InOnePlace'
<1> DEFINE s == SessionOf[m]
<1>0. /\ s \in Sessions
      /\ pc[m] = "created"
      /\ UNCHANGED <<bus, gateQ, deferred, pending>>
  BY AgentLoopAssumption DEF Start
<1>1. CASE Accepted(m)
  <2>1. /\ lockQ' = [lockQ EXCEPT ![s] = Append(lockQ[s], m)]
        /\ pc' = [pc EXCEPT ![m] = "lock"]
    BY <1>1 DEF Start
  <2>2. /\ Placed("lock")' = Placed("lock") \cup {m}
        /\ m \notin Placed("lock")
        /\ \A p \in Queues \ {"lock"} : Placed(p)' = Placed(p)
    BY <1>0, <2>1 DEF TypeOK, Placed, Queues
  <2>3. /\ PlacedOf(s, "lock")' = PlacedOf(s, "lock") \cup {m}
        /\ \A t \in Sessions \ {s} : PlacedOf(t, "lock")' = PlacedOf(t, "lock")
    BY <2>2, PlacedOfGains
  <2>4. Lists(Append(lockQ[s], m), PlacedOf(s, "lock") \cup {m})
    <3>1. /\ PlacedOf(s, "lock") \in SUBSET Messages
          /\ lockQ[s] \in Seq(Messages)
          /\ Lists(lockQ[s], PlacedOf(s, "lock"))
          /\ m \in Messages \ PlacedOf(s, "lock")
      BY <1>0, <2>2, PlacedTypes DEF TypeOK, InOnePlace, PlacedOf
    <3> QED
      BY <3>1, ListsAppend
  <2>5. ASSUME NEW t \in Sessions
        PROVE  Lists(lockQ'[t], PlacedOf(t, "lock")')
    <3>1. CASE t = s
      <4>1. lockQ'[s] = Append(lockQ[s], m)
        BY <1>0, <2>1 DEF TypeOK
      <4> QED
        BY <2>3, <2>4, <3>1, <4>1
    <3>2. CASE t # s
      <4>1. lockQ'[t] = lockQ[t]
        BY <2>1, <3>2 DEF TypeOK
      <4> QED
        BY <2>3, <3>2, <4>1 DEF InOnePlace
    <3> QED
      BY <3>1, <3>2
  <2>6. \A p \in {"deferred", "pending"}, t \in Sessions : PlacedOf(t, p)' = PlacedOf(t, p)
    BY <2>2, PlacedOfSame DEF Queues
  <2>7. \A t \in Sessions : Leftovers(t)' = Leftovers(t)
    BY <1>0 DEF Leftovers, Registered
  <2> QED
    BY <1>0, <2>2, <2>5, <2>6, <2>7 DEF InOnePlace, Queues
<1>2. CASE ~Accepted(m)
  <2>1. /\ lockQ' = lockQ
        /\ pc' = [pc EXCEPT ![m] = "dropped"]
    BY <1>2 DEF Start
  <2>2. \A p \in Queues : Placed(p)' = Placed(p)
    BY <1>0, <2>1 DEF TypeOK, Placed, Queues
  <2> QED
    BY <1>0, <2>1, <2>2, SamePlaces
<1> QED
  BY <1>1, <1>2

\* A queue of waiters of the session's lock after m has left it.
LEMMA LockQueuePlaces ==
  ASSUME TypeOK, InOnePlace, NEW m \in Messages, NEW q,
         Lists(q, PlacedOf(SessionOf[m], "lock") \ {m}),
         lockQ' = [lockQ EXCEPT ![SessionOf[m]] = q],
         Placed("lock")' = Placed("lock") \ {m}
  PROVE  \A t \in Sessions : Lists(lockQ'[t], PlacedOf(t, "lock")')
<1> DEFINE s == SessionOf[m]
<1>1. /\ s \in Sessions
      /\ {m} \in SUBSET Messages
      /\ {m} \subseteq OfSession(s)
  BY AgentLoopAssumption DEF OfSession
<1>2. /\ PlacedOf(s, "lock")' = PlacedOf(s, "lock") \ {m}
      /\ \A t \in Sessions \ {s} : PlacedOf(t, "lock")' = PlacedOf(t, "lock")
  BY <1>1, PlacedOfLoses
<1>3. TAKE t \in Sessions
<1>4. CASE t = s
  <2>1. lockQ'[s] = q
    BY <1>1 DEF TypeOK
  <2> QED
    BY <1>2, <1>4, <2>1
<1>5. CASE t # s
  <2>1. lockQ'[t] = lockQ[t]
    BY <1>5 DEF TypeOK
  <2> QED
    BY <1>2, <1>5, <2>1 DEF InOnePlace
<1> QED
  BY <1>4, <1>5

LEMMA TakeLockPlaces ==
  ASSUME TypeOK, InOnePlace, NEW m \in Messages, TakeLock(m)
  PROVE  InOnePlace'
<1> DEFINE s == SessionOf[m]
<1>0. /\ s \in Sessions
      /\ pc[m] = "lock"
      /\ pc' = [pc EXCEPT ![m] = "gate"]
      /\ lockQ' = [lockQ EXCEPT ![s] = Tail(lockQ[s])]
      /\ lockQ[s] # <<>>
      /\ m = Head(lockQ[s])
      /\ gateQ' = Append(gateQ, m)
      /\ UNCHANGED <<bus, deferred, pending>>
  BY AgentLoopAssumption DEF TakeLock
<1>1. /\ Placed("lock")' = Placed("lock") \ {m}
      /\ Placed("gate")' = Placed("gate") \cup {m}
      /\ m \notin Placed("gate")
      /\ \A p \in Queues \ {"lock", "gate"} : Placed(p)' = Placed(p)
  BY <1>0 DEF TypeOK, Placed, Queues
<1>2. Lists(gateQ', Placed("gate")')
  <2>1. /\ Placed("gate") \in SUBSET Messages
        /\ gateQ \in Seq(Messages)
        /\ Lists(gateQ, Placed("gate"))
        /\ m \in Messages \ Placed("gate")
    BY <1>1, PlacedTypes DEF TypeOK, InOnePlace
  <2>2. Lists(Append(gateQ, m), Placed("gate") \cup {m})
    BY <2>1, ListsAppend
  <2> QED
    BY <1>0, <1>1, <2>2
<1>3. Lists(Tail(lockQ[s]), PlacedOf(s, "lock") \ {m})
  <2>1. /\ PlacedOf(s, "lock") \in SUBSET Messages
        /\ lockQ[s] \in Seq(Messages)
        /\ Lists(lockQ[s], PlacedOf(s, "lock"))
    BY <1>0, PlacedTypes DEF TypeOK, InOnePlace
  <2> QED
    BY <1>0, <2>1, ListsTail
<1>4. \A t \in Sessions : Lists(lockQ'[t], PlacedOf(t, "lock")')
  BY <1>0, <1>1, <1>3, LockQueuePlaces
<1>5. \A p \in {"deferred", "pending"}, t \in Sessions : PlacedOf(t, p)' = PlacedOf(t, p)
  BY <1>1, PlacedOfSame DEF Queues
<1>6. \A t \in Sessions : Leftovers(t)' = Leftovers(t)
  BY <1>0 DEF Leftovers, Registered
<1> QED
  BY <1>0, <1>1, <1>2, <1>4, <1>5, <1>6 DEF InOnePlace, Queues

LEMMA BeginTurnPlaces ==
  ASSUME TypeOK, SerialTurns, QueueHasTurn, InOnePlace, NEW m \in Messages, BeginTurn(m)
  PROVE  InOnePlace'
<1> DEFINE s == SessionOf[m]
<1>0. /\ s \in Sessions
      /\ m \in OfSession(s)
      /\ AtGate(m)
      /\ pc[m] = "gate"
      /\ pc' = [pc EXCEPT ![m] = "running"]
      /\ pending' = [pending EXCEPT ![s] = <<>>]
      /\ UNCHANGED <<bus, deferred, lockQ>>
  BY AgentLoopAssumption DEF BeginTurn, AtGate, OfSession
<1>1. /\ Placed("gate")' = Placed("gate") \ {m}
      /\ \A p \in Queues \ {"gate"} : Placed(p)' = Placed(p)
  BY <1>0 DEF TypeOK, Placed, Queues
<1>2. Lists(gateQ', Placed("gate")')
  BY <1>0, <1>1, GateHeadPlaces
<1>3. \A x \in OfSession(s) : pc[x] # "running"
  BY <1>0 DEF SerialTurns
<1>4. /\ Leftovers(s) = <<>>
      /\ PlacedOf(s, "pending") = {}
  BY <1>0, <1>3, IdleSession
<1>5. \A p \in {"lock", "deferred", "pending"}, t \in Sessions :
         PlacedOf(t, p)' = PlacedOf(t, p)
  BY <1>1, PlacedOfSame DEF Queues
<1>6. \A t \in Sessions : Leftovers(t)' = Leftovers(t)
  <2> TAKE t \in Sessions
  <2>1. CASE t = s
    <3>1. pending'[s] = <<>>
      BY <1>0 DEF TypeOK
    <3> QED
      BY <1>4, <2>1, <3>1 DEF Leftovers, Registered
  <2>2. CASE t # s
    <3>1. pending'[t] = pending[t]
      BY <1>0, <2>2 DEF TypeOK
    <3> QED
      BY <3>1 DEF Leftovers, Registered
  <2> QED
    BY <2>1, <2>2
<1> QED
  BY <1>0, <1>1, <1>2, <1>5, <1>6 DEF InOnePlace, Queues

LEMMA DrainPlaces ==
  ASSUME TypeOK, InOnePlace, NEW m \in Messages, Drain(m)
  PROVE  /\ InOnePlace'
         /\ Head(pending[SessionOf[m]]) \in PlacedOf(SessionOf[m], "pending")
<1> DEFINE s == SessionOf[m]
           x == Head(pending[s])
<1>0. /\ s \in Sessions
      /\ pending[s] # None
      /\ pending[s] # <<>>
      /\ pending' = [pending EXCEPT ![s] = Tail(pending[s])]
      /\ UNCHANGED <<bus, deferred, lockQ, gateQ>>
  BY AgentLoopAssumption DEF Drain, Registered, lockVars
<1>1. /\ pending[s] \in Seq(Messages)
      /\ Leftovers(s) = pending[s]
  BY <1>0 DEF TypeOK, Leftovers, Registered
<1>2. /\ x \in PlacedOf(s, "pending")
      /\ Lists(Tail(pending[s]), PlacedOf(s, "pending") \ {x})
  <2>1. /\ PlacedOf(s, "pending") \in SUBSET Messages
        /\ Lists(pending[s], PlacedOf(s, "pending"))
    BY <1>0, <1>1, PlacedTypes DEF InOnePlace
  <2> QED
    BY <1>0, <1>1, <2>1, ListsTail
<1>3. PICK end \in Settled : pc' = [pc EXCEPT ![x] = end]
  BY DEF Drain, Settled
<1>4. /\ x \in Messages
      /\ {x} \in SUBSET Messages
      /\ {x} \subseteq OfSession(s)
      /\ pc[x] = "pending"
  BY <1>2 DEF PlacedOf, Placed, OfSession
<1>5. /\ Placed("pending")' = Placed("pending") \ {x}
      /\ \A p \in Queues \ {"pending"} : Placed(p)' = Placed(p)
  BY <1>3, <1>4 DEF TypeOK, Placed, Queues, Settled
<1>6. /\ PlacedOf(s, "pending")' = PlacedOf(s, "pending") \ {x}
      /\ \A t \in Sessions \ {s} : PlacedOf(t, "pending")' = PlacedOf(t, "pending")
  BY <1>0, <1>4, <1>5, PlacedOfLoses
<1>7. ASSUME NEW t \in Sessions
      PROVE  Lists(Leftovers(t)', PlacedOf(t, "pending")')
  <2>1. CASE t = s
    <3>1. pending'[s] = Tail(pending[s])
      BY <1>0 DEF TypeOK
    <3>2. /\ Tail(pending[s]) \in Seq(Messages)
          /\ None \notin Seq(Messages)
      BY <1>0, <1>1, AgentLoopAssumption
    <3>3. Leftovers(s)' = Tail(pending[s])
      BY <3>1, <3>2 DEF Leftovers, Registered
    <3> QED
      BY <1>2, <1>6, <2>1, <3>3
  <2>2. CASE t # s
    <3>1. pending'[t] = pending[t]
      BY <1>0, <2>2 DEF TypeOK
    <3>2. Leftovers(t)' = Leftovers(t)
      BY <3>1 DEF Leftovers, Registered
    <3> QED
      BY <1>6, <2>2, <3>2 DEF InOnePlace
  <2> QED
    BY <2>1, <2>2
<1>8. \A p \in {"deferred", "lock"}, t \in Sessions : PlacedOf(t, p)' = PlacedOf(t, p)
  BY <1>5, PlacedOfSame DEF Queues
<1>9. InOnePlace'
  BY <1>0, <1>5, <1>7, <1>8 DEF InOnePlace, Queues
<1> QED
  BY <1>2, <1>9

\* A task that ends outside a turn publishes the next deferred turn.
LEMMA EndWaitPlaces ==
  ASSUME TypeOK, InOnePlace, NEW m \in Messages, pc[m] \in TaskPcs, NEW end \in Settled,
         EndTask(m, end, NextDeferred(SessionOf[m])),
         deferred' = [deferred EXCEPT ![SessionOf[m]] = LaterDeferred(SessionOf[m])]
  PROVE  /\ Lists(bus', Placed("bus")')
         /\ \A p \in {"gate", "lock", "pending"} : Placed(p)' = Placed(p) \ {m}
         /\ \A t \in Sessions : Lists(deferred'[t], PlacedOf(t, "deferred")')
<1> DEFINE s == SessionOf[m]
           S == NextOf(s)
<1>0. s \in Sessions
  BY AgentLoopAssumption
<1>1. /\ S \subseteq PlacedOf(s, "deferred")
      /\ Lists(NextDeferred(s), S)
  BY <1>0, DeferredLists
<1>2. /\ S \in SUBSET Messages
      /\ \A x \in S : pc[x] = "deferred"
  BY <1>1 DEF PlacedOf, Placed, OfSession
<1>3. NextDeferred(s) \in Seq(Messages)
  BY <1>0, DeferredTypes
<1> HIDE DEF S
<1>4. /\ Lists(bus', Placed("bus")')
      /\ \A p \in Queues \ {"bus"} : Placed(p)' = Placed(p) \ (S \cup {m})
  BY <1>1, <1>2, <1>3, EndTaskPlaces
<1>5. \A p \in {"gate", "lock", "pending"} : Placed(p)' = Placed(p) \ {m}
  BY <1>2, <1>4 DEF Placed, Queues
<1>6. Placed("deferred")' = Placed("deferred") \ S
  BY <1>4 DEF Placed, Queues, TaskPcs
<1>7. \A t \in Sessions : Lists(deferred'[t], PlacedOf(t, "deferred")')
  BY <1>0, <1>6, DeferredPlaces DEF S
<1> QED
  BY <1>4, <1>5, <1>7

LEMMA SkipTurnPlaces ==
  ASSUME TypeOK, InOnePlace, NEW m \in Messages, SkipTurn(m)
  PROVE  InOnePlace'
<1>0. /\ AtGate(m)
      /\ pc[m] = "gate"
      /\ EndTask(m, "dropped", NextDeferred(SessionOf[m]))
      /\ deferred' = [deferred EXCEPT ![SessionOf[m]] = LaterDeferred(SessionOf[m])]
      /\ UNCHANGED <<pending, lockQ>>
  BY DEF SkipTurn, AtGate
<1>1. /\ Lists(bus', Placed("bus")')
      /\ \A p \in {"gate", "lock", "pending"} : Placed(p)' = Placed(p) \ {m}
      /\ \A t \in Sessions : Lists(deferred'[t], PlacedOf(t, "deferred")')
  <2>1. pc[m] \in TaskPcs /\ "dropped" \in Settled
    BY <1>0 DEF TaskPcs, Settled
  <2> QED
    BY <1>0, <2>1, EndWaitPlaces
<1>2. Lists(gateQ', Placed("gate")')
  BY <1>0, <1>1, GateHeadPlaces
<1>3. \A p \in {"lock", "pending"} : Placed(p)' = Placed(p)
  BY <1>0, <1>1 DEF Placed
<1>4. \A p \in {"lock", "pending"}, t \in Sessions : PlacedOf(t, p)' = PlacedOf(t, p)
  BY <1>3, PlacedOfSame
<1>5. \A t \in Sessions : Leftovers(t)' = Leftovers(t)
  BY <1>0 DEF Leftovers, Registered
<1> QED
  BY <1>0, <1>1, <1>2, <1>4, <1>5 DEF InOnePlace

LEMMA CancelAtLockPlaces ==
  ASSUME TypeOK, InOnePlace, NEW m \in Messages, CancelAtLock(m)
  PROVE  InOnePlace'
<1> DEFINE s == SessionOf[m]
<1>0. /\ s \in Sessions
      /\ pc[m] = "lock"
      /\ EndTask(m, "cancelled", NextDeferred(s))
      /\ deferred' = [deferred EXCEPT ![s] = LaterDeferred(s)]
      /\ UNCHANGED <<pending, gateQ>>
  BY AgentLoopAssumption DEF CancelAtLock
<1>1. /\ Lists(bus', Placed("bus")')
      /\ \A p \in {"gate", "lock", "pending"} : Placed(p)' = Placed(p) \ {m}
      /\ \A t \in Sessions : Lists(deferred'[t], PlacedOf(t, "deferred")')
  <2>1. pc[m] \in TaskPcs /\ "cancelled" \in Settled
    BY <1>0 DEF TaskPcs, Settled
  <2> QED
    BY <1>0, <2>1, EndWaitPlaces
<1>2. PICK i \in 1..Len(lockQ[s]) :
         lockQ[s][i] = m /\ lockQ' = [lockQ EXCEPT ![s] = RemoveAt(lockQ[s], i)]
  BY DEF CancelAtLock
<1>3. Lists(RemoveAt(lockQ[s], i), PlacedOf(s, "lock") \ {m})
  <2>1. /\ PlacedOf(s, "lock") \in SUBSET Messages
        /\ lockQ[s] \in Seq(Messages)
        /\ Lists(lockQ[s], PlacedOf(s, "lock"))
    BY <1>0, PlacedTypes DEF TypeOK, InOnePlace
  <2>2. Lists(RemoveAt(lockQ[s], i), PlacedOf(s, "lock") \ {lockQ[s][i]})
    BY <2>1, ListsRemoveAt
  <2> QED
    BY <1>2, <2>2
<1>4. \A t \in Sessions : Lists(lockQ'[t], PlacedOf(t, "lock")')
  <2> DEFINE q == RemoveAt(lockQ[s], i)
  <2>1. /\ Lists(q, PlacedOf(s, "lock") \ {m})
        /\ lockQ' = [lockQ EXCEPT ![s] = q]
        /\ Placed("lock")' = Placed("lock") \ {m}
    BY <1>1, <1>2, <1>3
  <2> HIDE DEF q
  <2> QED
    BY <2>1, LockQueuePlaces
<1>5. \A p \in {"gate", "pending"} : Placed(p)' = Placed(p)
  BY <1>0, <1>1 DEF Placed
<1>6. \A t \in Sessions : PlacedOf(t, "pending")' = PlacedOf(t, "pending")
  BY <1>5, PlacedOfSame
<1>7. \A t \in Sessions : Leftovers(t)' = Leftovers(t)
  BY <1>0 DEF Leftovers, Registered
<1> QED
  BY <1>0, <1>1, <1>4, <1>5, <1>6, <1>7 DEF InOnePlace

LEMMA CancelAtGatePlaces ==
  ASSUME TypeOK, InOnePlace, NEW m \in Messages, CancelAtGate(m)
  PROVE  InOnePlace'
<1> DEFINE s == SessionOf[m]
<1>0. /\ pc[m] = "gate"
      /\ EndTask(m, "cancelled", NextDeferred(s))
      /\ deferred' = [deferred EXCEPT ![s] = LaterDeferred(s)]
      /\ UNCHANGED <<pending, lockQ>>
  BY DEF CancelAtGate
<1>1. /\ Lists(bus', Placed("bus")')
      /\ \A p \in {"gate", "lock", "pending"} : Placed(p)' = Placed(p) \ {m}
      /\ \A t \in Sessions : Lists(deferred'[t], PlacedOf(t, "deferred")')
  <2>1. pc[m] \in TaskPcs /\ "cancelled" \in Settled
    BY <1>0 DEF TaskPcs, Settled
  <2> QED
    BY <1>0, <2>1, EndWaitPlaces
<1>2. PICK i \in 1..Len(gateQ) : gateQ[i] = m /\ gateQ' = RemoveAt(gateQ, i)
  BY DEF CancelAtGate
<1>3. Lists(gateQ', Placed("gate")')
  <2>1. /\ Placed("gate") \in SUBSET Messages
        /\ gateQ \in Seq(Messages)
        /\ Lists(gateQ, Placed("gate"))
    BY PlacedTypes DEF TypeOK, InOnePlace
  <2>2. Lists(RemoveAt(gateQ, i), Placed("gate") \ {gateQ[i]})
    BY <2>1, ListsRemoveAt
  <2> QED
    BY <1>1, <1>2, <2>2
<1>4. \A p \in {"lock", "pending"} : Placed(p)' = Placed(p)
  BY <1>0, <1>1 DEF Placed
<1>5. \A p \in {"lock", "pending"}, t \in Sessions : PlacedOf(t, p)' = PlacedOf(t, p)
  BY <1>4, PlacedOfSame
<1>6. \A t \in Sessions : Leftovers(t)' = Leftovers(t)
  BY <1>0 DEF Leftovers, Registered
<1> QED
  BY <1>0, <1>1, <1>3, <1>5, <1>6 DEF InOnePlace

\* The end of a turn empties its pending queue and the head of the deferred
\* turns onto the bus.
LEMMA CloseTurnPlaces ==
  ASSUME TypeOK, InOnePlace, NEW m \in Messages, pc[m] = "running",
         NEW end \in Settled, CloseTurn(m, end)
  PROVE  /\ InOnePlace'
         /\ pc' = [x \in Messages |->
                     IF x = m THEN end
                     ELSE IF x \in PlacedOf(SessionOf[m], "pending")
                                     \cup NextOf(SessionOf[m])
                     THEN "bus" ELSE pc[x]]
<1> DEFINE s == SessionOf[m]
           P == PlacedOf(s, "pending")
           N == NextOf(s)
           sent == Leftovers(s) \o NextDeferred(s)
<1>0. /\ s \in Sessions
      /\ EndTask(m, end, sent)
      /\ pending' = [pending EXCEPT ![s] = None]
      /\ deferred' = [deferred EXCEPT ![s] = LaterDeferred(s)]
      /\ UNCHANGED <<lockQ, gateQ>>
  BY AgentLoopAssumption DEF CloseTurn
<1>1. /\ N \subseteq PlacedOf(s, "deferred")
      /\ Lists(NextDeferred(s), N)
      /\ Lists(Leftovers(s), P)
  BY <1>0, DeferredLists DEF InOnePlace
<1>2. /\ P \in SUBSET Messages
      /\ N \in SUBSET Messages
      /\ \A x \in P : pc[x] = "pending" /\ SessionOf[x] = s
      /\ \A x \in N : pc[x] = "deferred" /\ SessionOf[x] = s
      /\ P \cap N = {}
  BY <1>1 DEF PlacedOf, Placed, OfSession
<1>3. /\ Leftovers(s) \in Seq(Messages)
      /\ NextDeferred(s) \in Seq(Messages)
  BY <1>0, DeferredTypes
<1> HIDE DEF P, N
<1>4. Lists(sent, P \cup N)
  BY <1>1, <1>2, <1>3, ListsConcat
<1>5. sent \in Seq(Messages)
  BY <1>3
<1> HIDE DEF sent
<1>6. /\ pc' = [x \in Messages |-> IF x = m THEN end
                                   ELSE IF x \in P \cup N THEN "bus" ELSE pc[x]]
      /\ Lists(bus', Placed("bus")')
      /\ \A p \in Queues \ {"bus"} : Placed(p)' = Placed(p) \ (P \cup N \cup {m})
  <2>1. /\ pc[m] \in TaskPcs
        /\ P \cup N \in SUBSET Messages
        /\ \A x \in P \cup N : pc[x] \in {"pending", "deferred"}
    BY <1>2 DEF TaskPcs
  <2> QED
    BY <1>0, <1>4, <1>5, <2>1, EndTaskPlaces
<1>7. /\ \A p \in {"gate", "lock"} : Placed(p)' = Placed(p)
      /\ Placed("deferred")' = Placed("deferred") \ N
      /\ Placed("pending")' = Placed("pending") \ P
  BY <1>2, <1>6 DEF Placed, Queues
<1>8. \A t \in Sessions : Lists(deferred'[t], PlacedOf(t, "deferred")')
  BY <1>0, <1>7, DeferredPlaces DEF N
<1>9. /\ PlacedOf(s, "pending")' = {}
      /\ \A t \in Sessions \ {s} : PlacedOf(t, "pending")' = PlacedOf(t, "pending")
  <2>1. P \subseteq OfSession(s)
    BY DEF P, PlacedOf
  <2>2. /\ PlacedOf(s, "pending")' = PlacedOf(s, "pending") \ P
        /\ \A t \in Sessions \ {s} : PlacedOf(t, "pending")' = PlacedOf(t, "pending")
    BY <1>0, <1>2, <1>7, <2>1, PlacedOfLoses
  <2> QED
    BY <2>2 DEF P
<1>10. ASSUME NEW t \in Sessions
       PROVE  Lists(Leftovers(t)', PlacedOf(t, "pending")')
  <2>1. CASE t = s
    <3>1. pending'[s] = None
      BY <1>0 DEF TypeOK
    <3>2. Leftovers(s)' = <<>>
      BY <3>1 DEF Leftovers, Registered
    <3> QED
      BY <1>9, <2>1, <3>2, ListsEmpty
  <2>2. CASE t # s
    <3>1. pending'[t] = pending[t]
      BY <1>0, <2>2 DEF TypeOK
    <3>2. Leftovers(t)' = Leftovers(t)
      BY <3>1 DEF Leftovers, Registered
    <3> QED
      BY <1>9, <2>2, <3>2 DEF InOnePlace
  <2> QED
    BY <2>1, <2>2
<1>11. \A t \in Sessions : PlacedOf(t, "lock")' = PlacedOf(t, "lock")
  BY <1>7, PlacedOfSame
<1>12. InOnePlace'
  BY <1>0, <1>6, <1>7, <1>8, <1>10, <1>11 DEF InOnePlace
<1> QED
  BY <1>6, <1>12 DEF P, N

LEMMA CancelCreatedPlaces ==
  ASSUME TypeOK, InOnePlace, NEW m \in Messages, CancelCreated(m)
  PROVE  /\ InOnePlace'
         /\ pc' = [pc EXCEPT ![m] = "cancelled"]
<1>1. /\ pc[m] = "created"
      /\ EndTask(m, "cancelled", <<>>)
      /\ UNCHANGED <<gateQ, lockQ, deferred, pending>>
  BY DEF CancelCreated, lockVars
<1>2. Range(<<>>) = {}
  BY DEF Range
<1>3. pc' = [pc EXCEPT ![m] = "cancelled"]
  BY <1>1, <1>2 DEF EndTask, TypeOK
<1>4. bus' = bus
  BY <1>1 DEF EndTask, TypeOK
<1>5. \A p \in Queues : Placed(p)' = Placed(p)
  BY <1>1, <1>3 DEF Placed, Queues, TypeOK
<1>6. InOnePlace'
  BY <1>1, <1>4, <1>5, SamePlaces
<1> QED
  BY <1>3, <1>6

LEMMA NewInTurnPlaces ==
  ASSUME TypeOK, InOnePlace, NEW m \in Messages, NewInTurn(m)
  PROVE  InOnePlace'
<1>1. UNCHANGED <<bus, gateQ, lockQ, deferred, pending>>
  BY DEF NewInTurn, lockVars
<1>2. \A p \in Queues : Placed(p)' = Placed(p)
  BY DEF NewInTurn, Placed
<1> QED
  BY <1>1, <1>2, SamePlaces

-----------------------------------------------------------------------------
\* The session lock and the registration of the pending queue.

LEMMA EndWaitPc ==
  ASSUME TypeOK, InOnePlace, NEW m \in Messages, NEW end,
         EndTask(m, end, NextDeferred(SessionOf[m]))
  PROVE  /\ pc' = [x \in Messages |-> IF x = m THEN end
                                      ELSE IF x \in NextOf(SessionOf[m]) THEN "bus"
                                      ELSE pc[x]]
         /\ \A x \in NextOf(SessionOf[m]) : pc[x] = "deferred"
<1> DEFINE s == SessionOf[m]
<1>0. s \in Sessions
  BY AgentLoopAssumption
<1>1. /\ NextOf(s) \subseteq PlacedOf(s, "deferred")
      /\ Lists(NextDeferred(s), NextOf(s))
      /\ NextDeferred(s) \in Seq(Messages)
  BY <1>0, DeferredLists, DeferredTypes
<1>2. NextOf(s) \in SUBSET Messages
  BY <1>1, PlacedTypes
<1>3. Range(NextDeferred(s)) = NextOf(s)
  BY <1>1, <1>2, ListsRange
<1>4. \A x \in NextOf(s) : pc[x] = "deferred"
  BY <1>1 DEF PlacedOf, Placed
<1>5. pc' = [x \in Messages |-> IF x = m THEN end
                                ELSE IF x \in Range(NextDeferred(s)) THEN "bus"
                                ELSE pc[x]]
  BY DEF EndTask
<1> QED
  BY <1>3, <1>4, <1>5

\* A step that neither takes nor frees a lock and neither begins nor ends a turn.
LEMMA SameTurns ==
  ASSUME SerialTurns, QueueHasTurn, UNCHANGED locked,
         \A t \in Sessions : Registered(t)' = Registered(t),
         \A x \in Messages, p \in {"gate", "running"} : (pc'[x] = p) = (pc[x] = p)
  PROVE  SerialTurns' /\ QueueHasTurn'
<1>0. \A x \in Messages : /\ pc'[x] \in {"gate", "running"} <=> pc[x] \in {"gate", "running"}
                          /\ pc'[x] = "running" <=> pc[x] = "running"
  OBVIOUS
<1>1. SerialTurns'
  <2> SUFFICES ASSUME NEW t \in Sessions
               PROVE  /\ locked'[t] = (\E x \in OfSession(t) : pc'[x] \in {"gate", "running"})
                      /\ \A x, y \in OfSession(t) :
                           pc'[x] \in {"gate", "running"} /\ pc'[y] \in {"gate", "running"}
                             => x = y
    BY DEF SerialTurns, OfSession
  <2>1. (\E x \in OfSession(t) : pc'[x] \in {"gate", "running"})
          = (\E x \in OfSession(t) : pc[x] \in {"gate", "running"})
    BY <1>0 DEF OfSession
  <2>2. locked'[t] = (\E x \in OfSession(t) : pc'[x] \in {"gate", "running"})
    BY <2>1 DEF SerialTurns
  <2>3. \A x, y \in OfSession(t) :
           pc'[x] \in {"gate", "running"} /\ pc'[y] \in {"gate", "running"} => x = y
    BY <1>0 DEF SerialTurns, OfSession
  <2> QED
    BY <2>2, <2>3
<1>2. QueueHasTurn'
  BY <1>0 DEF QueueHasTurn, OfSession
<1> QED
  BY <1>1, <1>2

LEMMA TakeLockTurns ==
  ASSUME TypeOK, SerialTurns, QueueHasTurn, NEW m \in Messages, TakeLock(m)
  PROVE  SerialTurns' /\ QueueHasTurn'
<1> DEFINE s == SessionOf[m]
<1>0. /\ s \in Sessions
      /\ ~locked[s]
      /\ pc[m] = "lock"
      /\ pc' = [pc EXCEPT ![m] = "gate"]
      /\ locked' = [locked EXCEPT ![s] = TRUE]
      /\ pending' = pending
  BY AgentLoopAssumption DEF TakeLock
<1>1. SerialTurns'
  <2>1. \A x \in OfSession(s) : pc[x] \notin {"gate", "running"}
    BY <1>0 DEF SerialTurns
  <2>2. \A x \in Messages \ {m} : pc'[x] = pc[x]
    BY <1>0 DEF TypeOK
  <2>3. pc'[m] = "gate" /\ m \in OfSession(s)
    BY <1>0 DEF TypeOK, OfSession
  <2>4. ASSUME NEW t \in Sessions
        PROVE  locked'[t] = (\E x \in OfSession(t) : pc'[x] \in {"gate", "running"})
    <3>1. CASE t = s
      <4>1. locked'[s] = TRUE
        BY <1>0 DEF TypeOK
      <4> QED
        BY <2>3, <3>1, <4>1
    <3>2. CASE t # s
      <4>1. locked'[t] = locked[t]
        BY <1>0, <3>2 DEF TypeOK
      <4>2. \A x \in OfSession(t) : pc'[x] = pc[x]
        BY <2>2, <3>2 DEF OfSession
      <4>3. (\E x \in OfSession(t) : pc'[x] \in {"gate", "running"})
              = (\E x \in OfSession(t) : pc[x] \in {"gate", "running"})
        BY <4>2
      <4>4. locked[t] = (\E x \in OfSession(t) : pc[x] \in {"gate", "running"})
        BY DEF SerialTurns
      <4> QED
        BY <4>1, <4>3, <4>4
    <3> QED
      BY <3>1, <3>2
  <2>5. ASSUME NEW t \in Sessions, NEW x \in OfSession(t), NEW y \in OfSession(t),
               pc'[x] \in {"gate", "running"}, pc'[y] \in {"gate", "running"}
        PROVE  x = y
    <3>1. CASE t = s
      <4>1. x = m /\ y = m
        BY <2>1, <2>2, <2>5, <3>1 DEF OfSession
      <4> QED
        BY <4>1
    <3>2. CASE t # s
      <4>1. pc'[x] = pc[x] /\ pc'[y] = pc[y]
        BY <2>2, <3>2 DEF OfSession
      <4> QED
        BY <2>5, <4>1 DEF SerialTurns
    <3> QED
      BY <3>1, <3>2
  <2> QED
    BY <2>4, <2>5 DEF SerialTurns, OfSession
<1>2. QueueHasTurn'
  BY <1>0 DEF QueueHasTurn, OfSession, Registered, TypeOK
<1> QED
  BY <1>1, <1>2

LEMMA BeginTurnTurns ==
  ASSUME TypeOK, SerialTurns, QueueHasTurn, NEW m \in Messages, BeginTurn(m)
  PROVE  SerialTurns' /\ QueueHasTurn'
<1> DEFINE s == SessionOf[m]
<1>0. /\ s \in Sessions
      /\ pc[m] = "gate"
      /\ pc' = [pc EXCEPT ![m] = "running"]
      /\ locked' = locked
      /\ pending' = [pending EXCEPT ![s] = <<>>]
  BY AgentLoopAssumption DEF BeginTurn, AtGate
<1>1. SerialTurns'
  BY <1>0 DEF SerialTurns, OfSession, TypeOK
<1>2. <<>> # None
  <2>1. <<>> \in Seq(Messages)
    OBVIOUS
  <2> QED
    BY <2>1, AgentLoopAssumption
<1>3. ASSUME NEW t \in Sessions
      PROVE  Registered(t)' <=> \E x \in OfSession(t) : pc'[x] = "running"
  <2>1. CASE t = s
    BY <1>0, <1>2, <2>1 DEF Registered, OfSession, TypeOK
  <2>2. CASE t # s
    BY <1>0, <2>2 DEF QueueHasTurn, Registered, OfSession, TypeOK
  <2> QED
    BY <2>1, <2>2
<1>4. QueueHasTurn'
  BY <1>3 DEF QueueHasTurn, OfSession
<1> QED
  BY <1>1, <1>4

\* Task m, which held the lock, ends and gives it back.
LEMMA UnlockTurns ==
  ASSUME TypeOK, SerialTurns, QueueHasTurn, NEW m \in Messages,
         pc[m] \in {"gate", "running"}, pc'[m] \in Settled,
         \A x \in Messages \ {m}, p \in {"gate", "running"} : (pc'[x] = p) = (pc[x] = p),
         locked' = [locked EXCEPT ![SessionOf[m]] = FALSE],
         \A t \in Sessions \ {SessionOf[m]} : Registered(t)' = Registered(t),
         ~Registered(SessionOf[m])'
  PROVE  SerialTurns' /\ QueueHasTurn'
<1> DEFINE s == SessionOf[m]
<1>0. /\ s \in Sessions
      /\ pc'[m] # "gate"
      /\ pc'[m] # "running"
  BY AgentLoopAssumption DEF Settled
<1>1. \A x \in OfSession(s) : pc'[x] \notin {"gate", "running"}
  BY <1>0 DEF SerialTurns, OfSession
<1>2. SerialTurns'
  <2>1. ASSUME NEW t \in Sessions
        PROVE  locked'[t] = (\E x \in OfSession(t) : pc'[x] \in {"gate", "running"})
    <3>1. CASE t = s
      <4>1. locked'[t] = FALSE
        BY <1>0, <3>1 DEF TypeOK
      <4> QED
        BY <1>1, <3>1, <4>1
    <3>2. CASE t # s
      <4>1. locked'[t] = locked[t]
        BY <3>2 DEF TypeOK
      <4>2. \A x \in OfSession(t) :
               pc'[x] \in {"gate", "running"} <=> pc[x] \in {"gate", "running"}
        BY <3>2 DEF OfSession
      <4>3. (\E x \in OfSession(t) : pc'[x] \in {"gate", "running"})
              = (\E x \in OfSession(t) : pc[x] \in {"gate", "running"})
        BY <4>2
      <4>4. locked[t] = (\E x \in OfSession(t) : pc[x] \in {"gate", "running"})
        BY DEF SerialTurns
      <4> QED
        BY <4>1, <4>3, <4>4
    <3> QED
      BY <3>1, <3>2
  <2>2. ASSUME NEW t \in Sessions, NEW x \in OfSession(t), NEW y \in OfSession(t),
               pc'[x] \in {"gate", "running"}, pc'[y] \in {"gate", "running"}
        PROVE  x = y
    <3>1. /\ x \in Messages \ {m}
          /\ y \in Messages \ {m}
      BY <1>0, <2>2 DEF OfSession
    <3>2. /\ pc[x] \in {"gate", "running"}
          /\ pc[y] \in {"gate", "running"}
      BY <2>2, <3>1
    <3> QED
      BY <3>2 DEF SerialTurns
  <2> QED
    BY <2>1, <2>2 DEF SerialTurns, OfSession
<1>3. ASSUME NEW t \in Sessions
      PROVE  Registered(t)' <=> \E x \in OfSession(t) : pc'[x] = "running"
  <2>1. CASE t = s
    BY <1>1, <2>1
  <2>2. CASE t # s
    BY <2>2 DEF QueueHasTurn, OfSession
  <2> QED
    BY <2>1, <2>2
<1>4. QueueHasTurn'
  BY <1>3 DEF QueueHasTurn, OfSession
<1> QED
  BY <1>2, <1>4

\* run() takes no lock and begins no turn.
LEMMA RouteTurns ==
  ASSUME TypeOK, SerialTurns, QueueHasTurn, InOnePlace, NEW m \in Messages, RouteOne(m)
  PROVE  SerialTurns' /\ QueueHasTurn'
<1> DEFINE s == SessionOf[m]
<1>0. /\ s \in Sessions
      /\ locked' = locked
      /\ pc[m] = "bus"
  <2>1. Consumes(m) /\ locked' = locked
    BY DEF RouteOne, DropStale, BeginControl, Defer, Inject, CreateTask, lockVars
  <2> QED
    BY <2>1, HeadOnBus, AgentLoopAssumption
<1>1. \A x \in Messages, p \in {"gate", "running"} : (pc'[x] = p) = (pc[x] = p)
  <2>1. CASE DropStale(m)
    BY <1>0, <2>1 DEF DropStale, TypeOK
  <2>2. CASE BeginControl(m)
    BY <1>0, <2>2 DEF BeginControl, SubagentsCancelled, TypeOK
  <2>3. CASE Defer(m)
    BY <1>0, <2>3 DEF Defer, TypeOK
  <2>4. CASE Inject(m)
    BY <1>0, <2>4 DEF Inject, TypeOK
  <2>5. CASE CreateTask(m)
    BY <1>0, <2>5 DEF CreateTask, TypeOK
  <2> QED
    BY <2>1, <2>2, <2>3, <2>4, <2>5 DEF RouteOne
<1>2. \A t \in Sessions : Registered(t)' = Registered(t)
  <2>1. CASE Inject(m)
    <3>1. pending[s] # None /\ pending' = [pending EXCEPT ![s] = Append(pending[s], m)]
      BY <2>1 DEF Inject, Injectable, Registered
    <3>2. pending[s] \in Seq(Messages)
      BY <1>0, <3>1 DEF TypeOK
    <3>3. Append(pending[s], m) \in Seq(Messages) /\ None \notin Seq(Messages)
      BY <3>2, AgentLoopAssumption
    <3>4. Append(pending[s], m) # None
      BY <3>3
    <3> QED
      BY <1>0, <3>1, <3>4 DEF Registered, TypeOK
  <2>2. CASE ~Inject(m)
    <3>1. pending' = pending
      BY <2>2 DEF RouteOne, DropStale, BeginControl, Defer, CreateTask
    <3> QED
      BY <3>1 DEF Registered
  <2> QED
    BY <2>1, <2>2
<1> QED
  BY <1>0, <1>1, <1>2, SameTurns

LEMMA OutsideTurns ==
  ASSUME TypeOK, SerialTurns, QueueHasTurn, NEW m \in Messages, Outside(m)
  PROVE  SerialTurns' /\ QueueHasTurn'
<1>1. UNCHANGED <<locked, pending>>
  BY DEF Outside, Publish, Submit, GiveUp, Spawn, Announce, lockVars
<1>2. \/ /\ pc[m] \in {"unsent", "working"}
         /\ pc' = [pc EXCEPT ![m] = "bus"] \/ pc' = [pc EXCEPT ![m] = "working"]
      \/ pc' = pc
  <2>1. CASE Publish(m)
    BY <2>1 DEF Publish, Enqueue
  <2>2. CASE Submit(m)
    BY <2>2 DEF Submit, Enqueue
  <2>3. CASE GiveUp(m)
    BY <2>3 DEF GiveUp
  <2>4. CASE Spawn(m)
    BY <2>4 DEF Spawn
  <2>5. CASE Announce(m)
    BY <2>5 DEF Announce, Enqueue
  <2> QED
    BY <2>1, <2>2, <2>3, <2>4, <2>5 DEF Outside
<1>3. \A x \in Messages, p \in {"gate", "running"} : (pc'[x] = p) = (pc[x] = p)
  BY <1>2 DEF TypeOK
<1>4. \A t \in Sessions : Registered(t)' = Registered(t)
  BY <1>1 DEF Registered
<1> QED
  BY <1>1, <1>3, <1>4, SameTurns

\* A task gives the lock and the turn back whichever way it ends.
LEMMA TaskTurns ==
  ASSUME TypeOK, SerialTurns, QueueHasTurn, InOnePlace, NEW m \in Messages, TaskStep(m)
  PROVE  SerialTurns' /\ QueueHasTurn'
<1> DEFINE s == SessionOf[m]
<1>0. /\ s \in Sessions
      /\ m \in OfSession(s)
  BY AgentLoopAssumption DEF OfSession
\* Steps that hold neither lock nor turn.
<1>1. ASSUME UNCHANGED <<locked, pending>>,
             \A x \in Messages, p \in {"gate", "running"} : (pc'[x] = p) = (pc[x] = p)
      PROVE  SerialTurns' /\ QueueHasTurn'
  <2>1. \A t \in Sessions : Registered(t)' = Registered(t)
    BY <1>1 DEF Registered
  <2> QED
    BY <1>1, <2>1, SameTurns
\* Ends of a task that waits.
<1>2. ASSUME NEW end \in Settled, EndTask(m, end, NextDeferred(s))
      PROVE  /\ pc'[m] = end
             /\ \A x \in Messages \ {m}, p \in {"gate", "running"} :
                  (pc'[x] = p) = (pc[x] = p)
  <2>1. /\ pc' = [x \in Messages |-> IF x = m THEN end
                                     ELSE IF x \in NextOf(s) THEN "bus" ELSE pc[x]]
        /\ \A x \in NextOf(s) : pc[x] = "deferred"
    BY <1>2, EndWaitPc
  <2> QED
    BY <2>1
\* Ends of the wait at the gate.
<1>3. ASSUME pc[m] = "gate", NEW end \in Settled, EndTask(m, end, NextDeferred(s)),
             locked' = [locked EXCEPT ![s] = FALSE], pending' = pending
      PROVE  SerialTurns' /\ QueueHasTurn'
  <2>1. /\ pc'[m] \in Settled
        /\ \A x \in Messages \ {m}, p \in {"gate", "running"} : (pc'[x] = p) = (pc[x] = p)
    BY <1>2, <1>3
  <2>2. \A x \in OfSession(s) : pc[x] # "running"
    BY <1>0, <1>3 DEF SerialTurns
  <2>3. ~Registered(s)
    BY <1>0, <2>2 DEF QueueHasTurn
  <2>4. \A t \in Sessions : Registered(t)' = Registered(t)
    BY <1>3 DEF Registered
  <2> QED
    BY <1>0, <1>3, <2>1, <2>3, <2>4, UnlockTurns
\* Ends of a turn.
<1>4. ASSUME pc[m] = "running", NEW end \in Settled, CloseTurn(m, end)
      PROVE  SerialTurns' /\ QueueHasTurn'
  <2> DEFINE back == PlacedOf(s, "pending") \cup NextOf(s)
  <2>1. pc' = [x \in Messages |-> IF x = m THEN end
                                  ELSE IF x \in back THEN "bus" ELSE pc[x]]
    BY <1>4, CloseTurnPlaces
  <2>2. \A x \in back : pc[x] \in {"pending", "deferred"}
    BY <1>0, DeferredLists DEF PlacedOf, Placed
  <2> HIDE DEF back
  <2>3. /\ pc'[m] \in Settled
        /\ \A x \in Messages \ {m}, p \in {"gate", "running"} : (pc'[x] = p) = (pc[x] = p)
    BY <2>1, <2>2
  <2>4. /\ locked' = [locked EXCEPT ![s] = FALSE]
        /\ pending' = [pending EXCEPT ![s] = None]
    BY <1>4 DEF CloseTurn
  <2>5. /\ ~Registered(s)'
        /\ \A t \in Sessions \ {s} : Registered(t)' = Registered(t)
    BY <1>0, <2>4 DEF Registered, TypeOK
  <2> QED
    BY <1>4, <2>3, <2>4, <2>5, UnlockTurns
<1>5. CASE Start(m)
  <2>1. /\ UNCHANGED <<locked, pending>>
        /\ pc[m] = "created"
        /\ pc' = [pc EXCEPT ![m] = "lock"] \/ pc' = [pc EXCEPT ![m] = "dropped"]
    BY <1>5 DEF Start
  <2> QED
    BY <1>1, <2>1 DEF TypeOK
<1>6. CASE TakeLock(m)
  BY <1>6, TakeLockTurns
<1>7. CASE BeginTurn(m)
  BY <1>7, BeginTurnTurns
<1>8. CASE SkipTurn(m)
  <2>1. "dropped" \in Settled
    BY DEF Settled
  <2> QED
    BY <1>3, <1>8, <2>1 DEF SkipTurn, AtGate
<1>9. CASE Drain(m)
  <2> DEFINE x == Head(pending[s])
  <2>1. /\ pending[s] # None
        /\ pending[s] # <<>>
        /\ pending' = [pending EXCEPT ![s] = Tail(pending[s])]
        /\ locked' = locked
    BY <1>9 DEF Drain, Registered, lockVars
  <2>2. x \in Messages /\ pc[x] = "pending"
    BY <1>9, DrainPlaces DEF PlacedOf, Placed, OfSession
  <2>3. PICK end \in Settled : pc' = [pc EXCEPT ![x] = end]
    BY <1>9 DEF Drain, Settled
  <2>4. \A y \in Messages, p \in {"gate", "running"} : (pc'[y] = p) = (pc[y] = p)
    BY <2>2, <2>3 DEF TypeOK, Settled
  <2>5. /\ Tail(pending[s]) \in Seq(Messages)
        /\ None \notin Seq(Messages)
    BY <1>0, <2>1, AgentLoopAssumption DEF TypeOK
  <2>6. Tail(pending[s]) # None
    BY <2>5
  <2>7. \A t \in Sessions : Registered(t)' = Registered(t)
    BY <1>0, <2>1, <2>6 DEF Registered, TypeOK
  <2> QED
    BY <2>1, <2>4, <2>7, SameTurns
<1>10. CASE Finish(m)
  <2>1. {"answered", "failed"} \subseteq Settled
    BY DEF Settled
  <2> QED
    BY <1>4, <1>10, <2>1 DEF Finish
<1>11. CASE NewInTurn(m)
  <2>1. UNCHANGED <<locked, pending, pc>>
    BY <1>11 DEF NewInTurn, lockVars
  <2> QED
    BY <1>1, <2>1
<1>12. CASE CancelCreated(m)
  <2>1. /\ UNCHANGED <<locked, pending>>
        /\ pc[m] = "created"
        /\ pc' = [pc EXCEPT ![m] = "cancelled"]
    BY <1>12, CancelCreatedPlaces DEF CancelCreated, lockVars
  <2> QED
    BY <1>1, <2>1 DEF TypeOK
<1>13. CASE CancelAtLock(m)
  <2>1. "cancelled" \in Settled
    BY DEF Settled
  <2>2. /\ UNCHANGED <<locked, pending>>
        /\ pc[m] = "lock"
        /\ EndTask(m, "cancelled", NextDeferred(s))
    BY <1>13 DEF CancelAtLock
  <2>3. /\ pc'[m] = "cancelled"
        /\ \A x \in Messages \ {m}, p \in {"gate", "running"} : (pc'[x] = p) = (pc[x] = p)
    BY <1>2, <2>1, <2>2
  <2>4. \A x \in Messages, p \in {"gate", "running"} : (pc'[x] = p) = (pc[x] = p)
    BY <2>2, <2>3
  <2> QED
    BY <1>1, <2>2, <2>4
<1>14. CASE CancelAtGate(m)
  <2>1. "cancelled" \in Settled
    BY DEF Settled
  <2> QED
    BY <1>3, <1>14, <2>1 DEF CancelAtGate
<1>15. CASE CancelTurn(m)
  <2>1. "cancelled" \in Settled
    BY DEF Settled
  <2> QED
    BY <1>4, <1>15, <2>1 DEF CancelTurn
<1> QED
  BY <1>5, <1>6, <1>7, <1>8, <1>9, <1>10, <1>11, <1>12, <1>13, <1>14, <1>15
     DEF TaskStep, PassGate

-----------------------------------------------------------------------------
\* Where a step of a task may move a message: its own one place on or to an end,
\* the others back to the bus, into its turn, or away with their subagent.
MovesOn(m) ==
  \/ pc'[m] \in {"lock", "gate", "dropped", "cancelled"}
  \/ pc'[m] = "running" /\ Accepted(m)
  \/ pc[m] = "running" /\ pc'[m] \in Settled \ {"discarded"}

MovesBack(x) ==
  \/ pc[x] \in {"pending", "deferred"} /\ pc'[x] = "bus"
  \/ pc[x] = "pending" /\ pc'[x] = (IF Accepted(x) THEN "joined" ELSE "dropped")
  \/ pc[x] = "working" /\ pc'[x] = "cancelled"

LEMMA TaskMoves ==
  ASSUME TypeOK, InOnePlace, NEW m \in Messages, TaskStep(m)
  PROVE  \A x \in Messages :
           \/ pc'[x] = pc[x]
           \/ x = m /\ pc[m] \in TaskPcs /\ MovesOn(m)
           \/ MovesBack(x)
<1> DEFINE s == SessionOf[m]
           Goal == \A x \in Messages : \/ pc'[x] = pc[x]
                                       \/ x = m /\ pc[m] \in TaskPcs /\ MovesOn(m)
                                       \/ MovesBack(x)
<1>0. s \in Sessions
  BY AgentLoopAssumption
<1>1. ASSUME NEW to, pc' = [pc EXCEPT ![m] = to], pc[m] \in TaskPcs,
             to \in {"lock", "gate", "dropped", "cancelled"}
               \/ (to = "running" /\ Accepted(m))
      PROVE  Goal
  BY <1>1 DEF TypeOK, MovesOn
<1>2. ASSUME pc[m] \in TaskPcs, NEW end \in {"dropped", "cancelled"},
             EndTask(m, end, NextDeferred(s))
      PROVE  Goal
  <2>1. /\ pc' = [x \in Messages |-> IF x = m THEN end
                                     ELSE IF x \in NextOf(s) THEN "bus" ELSE pc[x]]
        /\ \A x \in NextOf(s) : pc[x] = "deferred"
    BY <1>2, EndWaitPc
  <2> QED
    BY <1>2, <2>1 DEF MovesOn, MovesBack
<1>3. ASSUME pc[m] = "running", NEW end \in Settled \ {"discarded"},
             CloseTurn(m, end)
      PROVE  Goal
  <2> DEFINE back == PlacedOf(s, "pending") \cup NextOf(s)
  <2>1. pc' = [x \in Messages |-> IF x = m THEN end
                                  ELSE IF x \in back THEN "bus" ELSE pc[x]]
    BY <1>3, CloseTurnPlaces
  <2>2. \A x \in back : pc[x] \in {"pending", "deferred"}
    BY <1>0, DeferredLists DEF PlacedOf, Placed
  <2> HIDE DEF back
  <2>3. m \in Messages => pc'[m] = end
    BY <2>1
  <2> QED
    BY <1>3, <2>1, <2>2, <2>3 DEF MovesOn, MovesBack, TaskPcs
<1>4. CASE Start(m)
  <2>1. /\ pc[m] \in TaskPcs
        /\ pc' = [pc EXCEPT ![m] = "lock"] \/ pc' = [pc EXCEPT ![m] = "dropped"]
    BY <1>4 DEF Start, TaskPcs
  <2> QED
    BY <1>1, <2>1
<1>5. CASE TakeLock(m)
  BY <1>1, <1>5 DEF TakeLock, TaskPcs
<1>6. CASE BeginTurn(m)
  BY <1>1, <1>6 DEF BeginTurn, AtGate, TaskPcs
<1>7. CASE SkipTurn(m)
  BY <1>2, <1>7 DEF SkipTurn, AtGate, TaskPcs
<1>8. CASE Drain(m)
  <2> DEFINE x == Head(pending[s])
  <2>1. x \in Messages /\ pc[x] = "pending"
    BY <1>8, DrainPlaces DEF PlacedOf, Placed, OfSession
  <2>2. pc' = [pc EXCEPT ![x] = IF Accepted(x) THEN "joined" ELSE "dropped"]
    BY <1>8 DEF Drain
  <2> QED
    BY <2>1, <2>2 DEF TypeOK, MovesBack
<1>9. CASE Finish(m)
  <2>1. {"answered", "failed"} \subseteq Settled \ {"discarded"}
    BY DEF Settled
  <2> QED
    BY <1>3, <1>9, <2>1 DEF Finish
<1>10. CASE NewInTurn(m)
  BY <1>10 DEF NewInTurn
<1>11. CASE CancelCreated(m)
  <2>1. /\ pc[m] \in TaskPcs
        /\ pc' = [pc EXCEPT ![m] = "cancelled"]
    BY <1>11, CancelCreatedPlaces DEF CancelCreated, TaskPcs
  <2> QED
    BY <1>1, <2>1
<1>12. CASE CancelAtLock(m)
  BY <1>2, <1>12 DEF CancelAtLock, TaskPcs
<1>13. CASE CancelAtGate(m)
  BY <1>2, <1>13 DEF CancelAtGate, TaskPcs
<1>14. CASE CancelTurn(m)
  <2>1. "cancelled" \in Settled \ {"discarded"}
    BY DEF Settled
  <2> QED
    BY <1>3, <1>14, <2>1 DEF CancelTurn
<1> QED
  BY <1>4, <1>5, <1>6, <1>7, <1>8, <1>9, <1>10, <1>11, <1>12, <1>13, <1>14
     DEF TaskStep, PassGate

LEMMA TaskStepControl ==
  ASSUME TypeOK, InOnePlace, ControlJoinsAll, NEW m \in Messages, TaskStep(m)
  PROVE  ControlJoinsAll'
<1>1. UNCHANGED <<control, victims>>
  BY DEF TaskStep, PassGate, Start, TakeLock, BeginTurn, SkipTurn, Drain, Finish, NewInTurn,
         CancelCreated, CancelAtLock, CancelAtGate, CancelTurn, CloseTurn, loopVars
<1> SUFFICES ASSUME control # None
             PROVE  /\ pc'[control] = "control"
                    /\ KindOf[control] \in {"stop", "new", "discard"}
                    /\ Tasks(SessionOf[control])' \subseteq victims
  BY <1>1 DEF ControlJoinsAll, Tasks, OfSession
<1>2. control \in Messages
  BY DEF TypeOK
<1>3. \A x \in Messages :
         \/ pc'[x] = pc[x]
         \/ x = m /\ pc[m] \in TaskPcs /\ MovesOn(m)
         \/ MovesBack(x)
  BY TaskMoves
<1>4. pc'[control] = "control"
  BY <1>2, <1>3 DEF ControlJoinsAll, MovesBack, TaskPcs
<1>5. \A x \in Messages : pc'[x] \in TaskPcs => pc[x] \in TaskPcs
  BY <1>3 DEF MovesBack, TaskPcs
<1>6. Tasks(SessionOf[control])' \subseteq Tasks(SessionOf[control])
  BY <1>1, <1>5 DEF Tasks, OfSession
<1> QED
  BY <1>4, <1>6 DEF ControlJoinsAll

LEMMA TaskStepRevoked ==
  ASSUME TypeOK, InOnePlace, RevokedHasNoToken, NEW m \in Messages, TaskStep(m)
  PROVE  RevokedHasNoToken'
<1> DEFINE Put(x) == pc[x] \in {"bus", "pending", "created", "lock", "gate",
                               "dropped", "cancelled", "discarded"}
<1>1. tokens' \subseteq tokens /\ revoked' = revoked
  BY DEF TaskStep, PassGate, Start, TakeLock, BeginTurn, SkipTurn, Drain, Finish, NewInTurn,
         CancelCreated, CancelAtLock, CancelAtGate, CancelTurn, CloseTurn, loopVars
<1>2. \A x \in Messages :
         \/ pc'[x] = pc[x]
         \/ x = m /\ pc[m] \in TaskPcs /\ MovesOn(m)
         \/ MovesBack(x)
  BY TaskMoves
<1>3. ASSUME NEW r \in Messages, KindOf[r] = "result", r \notin tokens, Put(r)
      PROVE  Put(r)'
  <2>1. ~Accepted(r) /\ pc[r] # "running"
    BY <1>3 DEF Accepted
  <2>2. CASE pc'[r] = pc[r]
    BY <1>3, <2>2
  <2>3. CASE r = m /\ MovesOn(m)
    BY <2>1, <2>3 DEF MovesOn
  <2>4. CASE MovesBack(r)
    BY <2>1, <2>4 DEF MovesBack
  <2> QED
    BY <1>2, <2>2, <2>3, <2>4
<1>4. ASSUME NEW r \in revoked'
      PROVE  /\ KindOf[r] = "result"
             /\ r \notin tokens'
             /\ Put(r)'
  BY <1>1, <1>3, <1>4 DEF RevokedHasNoToken, TypeOK
<1> QED
  BY <1>4 DEF RevokedHasNoToken

LEMMA RouteControl ==
  ASSUME TypeOK, InOnePlace, ControlJoinsAll, NEW m \in Messages, RouteOne(m)
  PROVE  ControlJoinsAll'
<1> DEFINE s == SessionOf[m]
<1>0. control = None
  BY DEF RouteOne, DropStale, BeginControl, Defer, Inject, CreateTask, Consumes
<1>1. CASE BeginControl(m)
  <2>1. /\ control' = m
        /\ victims' = Tasks(s)
        /\ pc' = [SubagentsCancelled(s) EXCEPT ![m] = "control"]
        /\ KindOf[m] \in {"stop", "new", "discard"}
    BY <1>1 DEF BeginControl
  <2>2. pc'[m] = "control"
    BY <2>1 DEF SubagentsCancelled
  <2>3. \A x \in Messages : pc'[x] \in TaskPcs => pc[x] \in TaskPcs
    BY <2>1 DEF SubagentsCancelled, TaskPcs
  <2>4. Tasks(s)' \subseteq Tasks(s)
    BY <2>3 DEF Tasks, OfSession
  <2> QED
    BY <2>1, <2>2, <2>4 DEF ControlJoinsAll, Tasks, OfSession
<1>2. CASE ~BeginControl(m)
  <2>1. control' = control
    BY <1>2 DEF RouteOne, DropStale, Defer, Inject, CreateTask, loopVars
  <2> QED
    BY <1>0, <2>1 DEF ControlJoinsAll
<1> QED
  BY <1>1, <1>2

LEMMA RouteRevoked ==
  ASSUME TypeOK, InOnePlace, RevokedHasNoToken, NEW m \in Messages, RouteOne(m)
  PROVE  RevokedHasNoToken'
<1> DEFINE s == SessionOf[m]
           Put(x) == pc[x] \in {"bus", "pending", "created", "lock", "gate",
                               "dropped", "cancelled", "discarded"}
<1>0. pc[m] = "bus"
  <2>1. Consumes(m)
    BY DEF RouteOne, DropStale, BeginControl, Defer, Inject, CreateTask
  <2> QED
    BY <2>1, HeadOnBus
<1>1. CASE BeginControl(m)
  <2>1. /\ KindOf[m] # "result"
        /\ tokens' = tokens \ OfSession(s)
        /\ revoked' = revoked \cup
             {r \in OfSession(s) : KindOf[r] = "result" /\
                pc[r] \in {"working", "bus", "pending", "created", "lock", "gate"}}
        /\ pc' = [SubagentsCancelled(s) EXCEPT ![m] = "control"]
    BY <1>1 DEF BeginControl, CancelSession
  <2> SUFFICES ASSUME NEW r \in revoked'
               PROVE  KindOf[r] = "result" /\ r \notin tokens' /\ Put(r)'
    BY DEF RevokedHasNoToken
  <2>2. CASE r \in revoked
    <3>1. /\ r \in Messages
          /\ KindOf[r] = "result"
          /\ r \notin tokens
          /\ Put(r)
      BY <2>2 DEF RevokedHasNoToken, TypeOK
    <3>2. pc'[r] = pc[r]
      BY <2>1, <3>1 DEF SubagentsCancelled
    <3> QED
      BY <2>1, <3>1, <3>2
  <2>3. CASE r \notin revoked
    <3>1. /\ r \in OfSession(s)
          /\ KindOf[r] = "result"
          /\ pc[r] \in {"working", "bus", "pending", "created", "lock", "gate"}
      BY <2>1, <2>3
    <3>2. pc'[r] = IF pc[r] = "working" THEN "cancelled" ELSE pc[r]
      BY <2>1, <3>1 DEF SubagentsCancelled, OfSession
    <3> QED
      BY <2>1, <3>1, <3>2
  <2> QED
    BY <2>2, <2>3
<1>2. CASE ~BeginControl(m)
  <2>1. UNCHANGED <<tokens, revoked>>
    BY <1>2 DEF RouteOne, DropStale, Defer, Inject, CreateTask, loopVars
  <2>2. PICK to : /\ pc' = [pc EXCEPT ![m] = to]
                  /\ KindOf[m] = "result" /\ m \notin tokens => to = "dropped"
    <3>1. CASE DropStale(m)
      BY <3>1 DEF DropStale
    <3>2. CASE Defer(m)
      BY <3>2 DEF Defer
    <3>3. CASE Inject(m)
      BY <3>3 DEF Inject, Injectable, Accepted
    <3>4. CASE CreateTask(m)
      BY <3>4 DEF CreateTask, Accepted
    <3> QED
      BY <1>2, <3>1, <3>2, <3>3, <3>4 DEF RouteOne
  <2> SUFFICES ASSUME NEW r \in revoked
               PROVE  KindOf[r] = "result" /\ r \notin tokens /\ Put(r)'
    BY <2>1 DEF RevokedHasNoToken
  <2>3. /\ r \in Messages
        /\ KindOf[r] = "result"
        /\ r \notin tokens
        /\ Put(r)
    BY DEF RevokedHasNoToken, TypeOK
  <2> QED
    BY <2>2, <2>3 DEF TypeOK
<1> QED
  BY <1>1, <1>2

\* The outside only moves a message that is not in the loop yet, and only gives
\* a token to a result that is not revoked.
LEMMA OutsideControlRevoked ==
  ASSUME TypeOK, ControlJoinsAll, RevokedHasNoToken, NEW m \in Messages, Outside(m)
  PROVE  ControlJoinsAll' /\ RevokedHasNoToken'
<1>1. UNCHANGED <<control, victims, revoked>>
  BY DEF Outside, Publish, Submit, GiveUp, Spawn, Announce, loopVars
<1>2. \/ /\ pc[m] \in {"unsent", "working"}
         /\ pc' = [pc EXCEPT ![m] = "bus"] \/ pc' = [pc EXCEPT ![m] = "working"]
         /\ tokens' \subseteq tokens \cup {m}
      \/ UNCHANGED <<pc, tokens>>
  <2>1. CASE Publish(m)
    BY <2>1 DEF Publish, Enqueue
  <2>2. CASE Submit(m)
    BY <2>2 DEF Submit, Enqueue
  <2>3. CASE GiveUp(m)
    BY <2>3 DEF GiveUp
  <2>4. CASE Spawn(m)
    BY <2>4 DEF Spawn
  <2>5. CASE Announce(m)
    BY <2>5 DEF Announce, Enqueue
  <2> QED
    BY <2>1, <2>2, <2>3, <2>4, <2>5 DEF Outside
<1>3. \A x \in Messages : /\ pc'[x] # pc[x] => x = m /\ pc[m] \in {"unsent", "working"}
                          /\ pc'[x] \in TaskPcs => pc[x] \in TaskPcs
  BY <1>2 DEF TypeOK, TaskPcs
<1>4. ControlJoinsAll'
  <2> SUFFICES ASSUME control # None
               PROVE  /\ pc'[control] = "control"
                      /\ KindOf[control] \in {"stop", "new", "discard"}
                      /\ Tasks(SessionOf[control])' \subseteq victims
    BY <1>1 DEF ControlJoinsAll, Tasks, OfSession
  <2>1. control \in Messages
    BY DEF TypeOK
  <2>2. Tasks(SessionOf[control])' \subseteq Tasks(SessionOf[control])
    BY <1>1, <1>3 DEF Tasks, OfSession
  <2>3. pc'[control] = "control"
    BY <1>3, <2>1 DEF ControlJoinsAll
  <2> QED
    BY <2>2, <2>3 DEF ControlJoinsAll
<1>5. RevokedHasNoToken'
  <2> SUFFICES ASSUME NEW r \in revoked
               PROVE  /\ KindOf[r] = "result"
                      /\ r \notin tokens'
                      /\ pc'[r] \in {"bus", "pending", "created", "lock", "gate",
                                     "dropped", "cancelled", "discarded"}
    BY <1>1 DEF RevokedHasNoToken
  <2>1. /\ r \in Messages
        /\ KindOf[r] = "result"
        /\ r \notin tokens
        /\ pc[r] \in {"bus", "pending", "created", "lock", "gate",
                      "dropped", "cancelled", "discarded"}
    BY DEF RevokedHasNoToken, TypeOK
  <2> QED
    BY <1>2, <1>3, <2>1
<1> QED
  BY <1>4, <1>5

-----------------------------------------------------------------------------
\* DispatchInv is inductive.
THEOREM DispatchInvariant == Spec => []DispatchInv
<1>1. Init => DispatchInv
  <2> SUFFICES ASSUME Init PROVE DispatchInv
    OBVIOUS
  <2>1. TypeOK
    BY AgentLoopAssumption DEF Init, TypeOK, Pcs, Verdicts
  <2>2. \A x \in Messages : pc[x] = "unsent"
    BY DEF Init
  <2>3. SerialTurns /\ QueueHasTurn
    BY <2>2 DEF Init, SerialTurns, QueueHasTurn, Registered, OfSession
  <2>4. \A p \in Queues : Placed(p) = {} /\ \A s \in Sessions : PlacedOf(s, p) = {}
    BY <2>2 DEF Placed, PlacedOf, Queues
  <2>5. /\ bus = <<>>
        /\ gateQ = <<>>
        /\ \A s \in Sessions : lockQ[s] = <<>> /\ deferred[s] = <<>> /\ Leftovers(s) = <<>>
    BY DEF Init, Leftovers, Registered
  <2>6. InOnePlace
    <3>1. Lists(bus, Placed("bus")) /\ Lists(gateQ, Placed("gate"))
      BY <2>4, <2>5, ListsEmpty DEF Queues
    <3>2. ASSUME NEW s \in Sessions
          PROVE  /\ Lists(lockQ[s], PlacedOf(s, "lock"))
                 /\ Lists(deferred[s], PlacedOf(s, "deferred"))
                 /\ Lists(Leftovers(s), PlacedOf(s, "pending"))
      BY <2>4, <2>5, ListsEmpty DEF Queues
    <3> QED
      BY <3>1, <3>2 DEF InOnePlace
  <2>7. ControlJoinsAll /\ RevokedHasNoToken
    BY DEF Init, ControlJoinsAll, RevokedHasNoToken
  <2> QED
    BY <2>1, <2>3, <2>6, <2>7 DEF DispatchInv
<1>2. TypeOK /\ TypeOK' /\ DispatchInv /\ [Next]_vars => DispatchInv'
  <2> SUFFICES ASSUME TypeOK', DispatchInv, [Next]_vars
               PROVE  DispatchInv'
    OBVIOUS
  <2> USE DEF DispatchInv
  <2>1. CASE EndControl
    <3>1. /\ InOnePlace'
          /\ pc' = [pc EXCEPT ![control] = "answered"]
          /\ pending' = pending
      BY <2>1, EndControlPlaces
    <3>2. /\ control \in Messages
          /\ pc[control] = "control"
          /\ KindOf[control] # "result"
          /\ control' = None
          /\ tokens' \subseteq tokens
          /\ UNCHANGED <<locked, revoked>>
      BY <2>1 DEF EndControl, ControlJoinsAll, TypeOK, lockVars
    <3>3. /\ \A x \in Messages, p \in {"gate", "running"} : (pc'[x] = p) = (pc[x] = p)
          /\ \A t \in Sessions : Registered(t)' = Registered(t)
      BY <3>1, <3>2 DEF Registered, TypeOK
    <3>4. SerialTurns' /\ QueueHasTurn'
      BY <3>2, <3>3, SameTurns
    <3>5. ControlJoinsAll'
      BY <3>2 DEF ControlJoinsAll
    <3>6. RevokedHasNoToken'
      BY <3>1, <3>2 DEF RevokedHasNoToken, TypeOK
    <3> QED
      BY <3>1, <3>4, <3>5, <3>6
  <2>2. ASSUME NEW m \in Messages, RouteOne(m)
        PROVE  DispatchInv'
    BY <2>2, RoutePlaces, RouteTurns, RouteControl, RouteRevoked
  <2>3. ASSUME NEW m \in Messages, TaskStep(m)
        PROVE  DispatchInv'
    <3>1. InOnePlace'
      <4>1. CASE Finish(m)
        <5>1. {"answered", "failed"} \subseteq Settled
          BY DEF Settled
        <5> QED
          BY <4>1, <5>1, CloseTurnPlaces DEF Finish
      <4>2. CASE CancelTurn(m)
        <5>1. "cancelled" \in Settled
          BY DEF Settled
        <5> QED
          BY <4>2, <5>1, CloseTurnPlaces DEF CancelTurn
      <4> QED
        BY <2>3, <4>1, <4>2, StartPlaces, TakeLockPlaces, BeginTurnPlaces, SkipTurnPlaces,
           DrainPlaces, NewInTurnPlaces, CancelCreatedPlaces, CancelAtLockPlaces,
           CancelAtGatePlaces DEF TaskStep, PassGate
    <3> QED
      BY <2>3, <3>1, TaskTurns, TaskStepControl, TaskStepRevoked
  <2>4. ASSUME NEW m \in Messages, Outside(m)
        PROVE  DispatchInv'
    BY <2>4, OutsidePlaces, OutsideTurns, OutsideControlRevoked
  <2>5. CASE UNCHANGED vars
    <3>1. /\ UNCHANGED <<bus, gateQ, lockQ, deferred, pending, locked, pc>>
          /\ UNCHANGED <<control, victims, tokens, revoked>>
      BY <2>5 DEF vars
    <3>2. \A p \in Queues : Placed(p)' = Placed(p)
      BY <3>1 DEF Placed
    <3>3. InOnePlace'
      BY <3>1, <3>2, SamePlaces
    <3>4. SerialTurns' /\ QueueHasTurn'
      BY <3>1, SameTurns DEF Registered
    <3>5. ControlJoinsAll' /\ RevokedHasNoToken'
      BY <3>1 DEF ControlJoinsAll, RevokedHasNoToken, Tasks, OfSession
    <3> QED
      BY <3>3, <3>4, <3>5
  <2> QED
    BY <2>1, <2>2, <2>3, <2>4, <2>5 DEF Next, RunLoop
<1>3. DispatchInv => TypeOK
  BY DEF DispatchInv
<1> QED
  BY <1>1, <1>2, <1>3, TypeCorrect, PTL DEF Spec

\* The turns of a session are serial: the lock is held exactly by the one task
\* of the session that waits at the gate or runs its turn.
THEOREM TurnsAreSerial == Spec => []SerialTurns
  BY DispatchInvariant, PTL DEF DispatchInv

\* A pending queue is registered exactly while a turn of its session runs.
THEOREM QueuesHaveTurns == Spec => []QueueHasTurn
  BY DispatchInvariant, PTL DEF DispatchInv

\* No message in the loop is lost or duplicated by routing, injection,
\* republishing or cancellation.
THEOREM MessagesInOnePlace == Spec => []InOnePlace
  BY DispatchInvariant, PTL DEF DispatchInv

\* No result of a stopped session reaches a turn.
THEOREM RevokedResultsStayOut == Spec => []RevokedStaysOut
<1>1. DispatchInv => RevokedStaysOut
  BY DEF DispatchInv, RevokedHasNoToken, RevokedStaysOut
<1> QED
  BY <1>1, DispatchInvariant, PTL

\* /stop finds no pending queue to throw away: it has joined the tasks that
\* could have registered one.
THEOREM StopKeepsFollowUps == Spec => []StopDiscardsNothing
<1>1. Init => StopDiscardsNothing
  BY DEF Init, StopDiscardsNothing
<1>2. DispatchInv /\ StopDiscardsNothing /\ [Next]_vars => StopDiscardsNothing'
  <2> SUFFICES ASSUME DispatchInv, StopDiscardsNothing, [Next]_vars,
                      NEW x \in Messages
               PROVE  pc'[x] # "discarded"
    BY DEF StopDiscardsNothing
  <2>0. pc[x] # "discarded"
    BY DEF StopDiscardsNothing
  <2> USE DEF DispatchInv
  <2>1. CASE EndControl
    <3>1. pc' = [pc EXCEPT ![control] = "answered"]
      BY <2>1, EndControlPlaces
    <3> QED
      BY <2>0, <3>1 DEF TypeOK
  <2>2. ASSUME NEW m \in Messages, RouteOne(m)
        PROVE  pc'[x] # "discarded"
    <3>1. CASE DropStale(m)
      BY <2>0, <3>1 DEF DropStale, TypeOK
    <3>2. CASE BeginControl(m)
      BY <2>0, <3>2 DEF BeginControl, SubagentsCancelled
    <3>3. CASE Defer(m)
      BY <2>0, <3>3 DEF Defer, TypeOK
    <3>4. CASE Inject(m)
      BY <2>0, <3>4 DEF Inject, TypeOK
    <3>5. CASE CreateTask(m)
      BY <2>0, <3>5 DEF CreateTask, TypeOK
    <3> QED
      BY <2>2, <3>1, <3>2, <3>3, <3>4, <3>5 DEF RouteOne
  <2>3. ASSUME NEW m \in Messages, TaskStep(m)
        PROVE  pc'[x] # "discarded"
    <3>1. \/ pc'[x] = pc[x]
          \/ x = m /\ pc[m] \in TaskPcs /\ MovesOn(m)
          \/ MovesBack(x)
      BY <2>3, TaskMoves
    <3> QED
      BY <2>0, <3>1 DEF MovesOn, MovesBack
  <2>4. ASSUME NEW m \in Messages, Outside(m)
        PROVE  pc'[x] # "discarded"
    BY <2>0, <2>4 DEF Outside, Publish, Submit, GiveUp, Spawn, Announce, Enqueue, TypeOK
  <2>5. CASE UNCHANGED vars
    BY <2>0, <2>5 DEF vars
  <2> QED
    BY <2>1, <2>2, <2>3, <2>4, <2>5 DEF Next, RunLoop
<1> QED
  BY <1>1, <1>2, DispatchInvariant, PTL DEF Spec
=============================================================================
