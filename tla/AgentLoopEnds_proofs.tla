----------------------- MODULE AgentLoopEnds_proofs -----------------------
(***************************************************************************)
(* Theorems about what the tasks of AgentLoop leave behind when they end:  *)
(* their slot of the concurrency gate, and the automation turns that wait  *)
(* for their session.                                                      *)
(***************************************************************************)
EXTENDS AgentLoop_proofs, FiniteSetTheorems

USE DEF Joined, AtLock, Unlock, ReleaseGate, Unregister, TakePending

\* A step of a task begins its turn and takes a slot, ends its turn and gives it
\* back, or does neither.
LEMMA TaskSlot ==
  ASSUME TypeOK, InOnePlace, NEW m \in Messages, TaskStep(m)
  PROVE  \/ pc[m] # "running" /\ pc'[m] = "running" /\ permits' = permits - 1 /\ permits > 0
         \/ pc[m] = "running" /\ pc'[m] # "running" /\ permits' = permits + 1
         \/ (pc'[m] = "running" <=> pc[m] = "running") /\ permits' = permits
<1> DEFINE s == SessionOf[m]
<1>0. s \in Sessions
  BY AgentLoopAssumption
\* Ends of a task that waits, and of a turn.
<1>1. ASSUME NEW end \in Settled, EndTask(m, end, NextDeferred(s))
      PROVE  pc'[m] = end /\ pc'[m] # "running"
  <2>1. pc'[m] = end
    BY <1>1, EndWaitPc
  <2> QED
    BY <1>1, <2>1 DEF Settled
<1>2. ASSUME pc[m] = "running", NEW end \in Settled, CloseTurn(m, end)
      PROVE  pc'[m] # "running" /\ permits' = permits + 1
  <2>1. pc'[m] = end
    BY <1>2, CloseTurnPlaces
  <2> QED
    BY <1>2, <2>1 DEF CloseTurn, Settled
<1>3. {"answered", "failed", "cancelled", "dropped"} \subseteq Settled
  BY DEF Settled
<1>4. CASE Start(m)
  BY <1>4 DEF Start, TypeOK
<1>5. CASE TakeLock(m)
  BY <1>5 DEF TakeLock, TypeOK
<1>6. CASE BeginTurn(m)
  BY <1>6 DEF BeginTurn, AtGate, TypeOK
<1>7. CASE SkipTurn(m)
  BY <1>1, <1>3, <1>7 DEF SkipTurn, AtGate
<1>8. CASE Drain(m)
  <2> DEFINE x == Head(pending[s])
  <2>1. x \in Messages /\ pc[x] = "pending"
    BY <1>8, DrainPlaces DEF PlacedOf, Placed, OfSession
  <2>2. /\ pc' = [pc EXCEPT ![x] = IF Accepted(x) THEN "joined" ELSE "dropped"]
        /\ pc[m] = "running" /\ permits' = permits
    BY <1>8 DEF Drain, lockVars
  <2> QED
    BY <2>1, <2>2 DEF TypeOK
<1>9. CASE Finish(m)
  BY <1>2, <1>3, <1>9 DEF Finish
<1>10. CASE NewInTurn(m)
  BY <1>10 DEF NewInTurn, lockVars
<1>11. CASE CancelCreated(m)
  BY <1>11, CancelCreatedPlaces DEF CancelCreated, lockVars, TypeOK
<1>12. CASE CancelAtLock(m)
  BY <1>1, <1>3, <1>12 DEF CancelAtLock
<1>13. CASE CancelAtGate(m)
  BY <1>1, <1>3, <1>13 DEF CancelAtGate
<1>14. CASE CancelTurn(m)
  BY <1>2, <1>3, <1>14 DEF CancelTurn
<1> QED
  BY <1>4, <1>5, <1>6, <1>7, <1>8, <1>9, <1>10, <1>11, <1>12, <1>13, <1>14
     DEF TaskStep, PassGate

LEMMA RunningFinite ==
  /\ IsFiniteSet(Placed("running"))
  /\ Cardinality(Placed("running")) \in Nat
<1>1. Placed("running") \in SUBSET Messages
  BY DEF Placed
<1>2. IsFiniteSet(Placed("running"))
  BY <1>1, FS_Subset, AgentLoopAssumption
<1> QED
  BY <1>2, FS_CardinalityType

LEMMA SlotsKept ==
  ASSUME TypeOK, GateConserved, Placed("running")' = Placed("running"), permits' = permits
  PROVE  GateConserved'
  BY DEF GateConserved

LEMMA TaskGate ==
  ASSUME TypeOK, InOnePlace, GateConserved, NEW m \in Messages, TaskStep(m)
  PROVE  GateConserved'
<1> DEFINE R == Placed("running")
<1>0. /\ IsFiniteSet(R) /\ Cardinality(R) \in Nat
      /\ permits \in Nat /\ GateSize \in Nat
      /\ permits + Cardinality(R) = GateSize
  BY RunningFinite, AgentLoopAssumption DEF TypeOK, GateConserved
<1>1. \A x \in Messages \ {m} : (pc'[x] = "running") = (pc[x] = "running")
  <2>1. \A x \in Messages : \/ pc'[x] = pc[x]
                            \/ x = m /\ pc[m] \in TaskPcs /\ MovesOn(m)
                            \/ MovesBack(x)
    BY TaskMoves
  <2> QED
    BY <2>1 DEF MovesBack
<1>2. CASE pc[m] # "running" /\ pc'[m] = "running" /\ permits' = permits - 1 /\ permits > 0
  <2>1. m \notin R /\ R' = R \cup {m}
    BY <1>1, <1>2 DEF Placed
  <2>2. Cardinality(R') = Cardinality(R) + 1
    BY <1>0, <2>1, FS_AddElement
  <2>3. permits' + Cardinality(R') = GateSize
    BY <1>0, <1>2, <2>2
  <2> QED
    BY <2>3 DEF GateConserved
<1>3. CASE pc[m] = "running" /\ pc'[m] # "running" /\ permits' = permits + 1
  <2>1. m \in R /\ R' = R \ {m}
    BY <1>1, <1>3 DEF Placed
  <2>2. Cardinality(R') = Cardinality(R) - 1
    BY <1>0, <2>1, FS_RemoveElement
  <2>3. permits' + Cardinality(R') = GateSize
    BY <1>0, <1>3, <2>2
  <2> QED
    BY <2>3 DEF GateConserved
<1>4. CASE (pc'[m] = "running" <=> pc[m] = "running") /\ permits' = permits
  <2>1. R' = R
    BY <1>1, <1>4 DEF Placed
  <2> QED
    BY <1>4, <2>1, SlotsKept
<1> QED
  BY <1>2, <1>3, <1>4, TaskSlot

\* No slot of the concurrency gate leaks or is handed out twice, whatever ends
\* the turns and the waits.
THEOREM GateIsConserved == Spec => []GateConserved
<1>1. Init => GateConserved
  <2> SUFFICES ASSUME Init PROVE GateConserved
    OBVIOUS
  <2>1. Placed("running") = {} /\ permits = GateSize
    BY DEF Init, Placed
  <2>2. Cardinality({}) = 0 /\ GateSize \in Nat
    BY FS_EmptySet, AgentLoopAssumption
  <2> QED
    BY <2>1, <2>2 DEF GateConserved
<1>2. DispatchInv /\ GateConserved /\ [Next]_vars => GateConserved'
  <2> SUFFICES ASSUME DispatchInv, GateConserved, [Next]_vars
               PROVE  GateConserved'
    OBVIOUS
  <2> USE DEF DispatchInv
  <2>1. CASE EndControl
    <3>1. pc' = [pc EXCEPT ![control] = "answered"]
      BY <2>1, EndControlPlaces
    <3>2. control \in Messages /\ pc[control] = "control" /\ permits' = permits
      BY <2>1 DEF EndControl, ControlJoinsAll, TypeOK, lockVars
    <3>3. Placed("running")' = Placed("running")
      BY <3>1, <3>2 DEF Placed, TypeOK
    <3> QED
      BY <3>2, <3>3, SlotsKept
  <2>2. ASSUME NEW m \in Messages, RouteOne(m)
        PROVE  GateConserved'
    <3>1. Consumes(m) /\ permits' = permits
      BY <2>2 DEF RouteOne, DropStale, BeginControl, Defer, Inject, CreateTask, lockVars
    <3>2. pc[m] = "bus"
      BY <3>1, HeadOnBus
    <3>3. \A x \in Messages : (pc'[x] = "running") = (pc[x] = "running")
      <4>1. CASE BeginControl(m)
        BY <3>2, <4>1 DEF BeginControl, SubagentsCancelled
      <4>2. CASE ~BeginControl(m)
        BY <2>2, <3>2, <4>2 DEF RouteOne, DropStale, Defer, Inject, CreateTask, TypeOK
      <4> QED
        BY <4>1, <4>2
    <3>4. Placed("running")' = Placed("running")
      BY <3>3 DEF Placed
    <3> QED
      BY <3>1, <3>4, SlotsKept
  <2>3. ASSUME NEW m \in Messages, TaskStep(m)
        PROVE  GateConserved'
    BY <2>3, TaskGate
  <2>4. ASSUME NEW m \in Messages, Outside(m)
        PROVE  GateConserved'
    <3>1. permits' = permits
      BY <2>4 DEF Outside, Publish, Submit, GiveUp, Spawn, Announce, lockVars
    <3>2. \A x \in Messages : (pc'[x] = "running") = (pc[x] = "running")
      BY <2>4 DEF Outside, Publish, Submit, GiveUp, Spawn, Announce, Enqueue, TypeOK
    <3>3. Placed("running")' = Placed("running")
      BY <3>2 DEF Placed
    <3> QED
      BY <3>1, <3>3, SlotsKept
  <2>5. CASE UNCHANGED vars
    <3>1. Placed("running")' = Placed("running") /\ permits' = permits
      BY <2>5 DEF vars, Placed
    <3> QED
      BY <3>1, SlotsKept
  <2> QED
    BY <2>1, <2>2, <2>3, <2>4, <2>5 DEF Next, RunLoop
<1> QED
  BY <1>1, <1>2, DispatchInvariant, PTL DEF Spec

-----------------------------------------------------------------------------
\* The automation turns that wait for a session.  A task may end without
\* publishing the next one in two ways only, before its first step: cancelled, or
\* with a result that went stale.  Both are the work of a command.

DeferredAreAuto == \A m \in Messages : pc[m] = "deferred" => KindOf[m] = "auto"

CancelledDisturbed == \A m \in cancelReq : Disturbed(SessionOf[m])

StaleDisturbed ==
  \A r \in Messages :
    KindOf[r] = "result" /\ r \notin tokens
      /\ pc[r] \in {"bus", "pending", "created", "lock", "gate"} =>
        Disturbed(SessionOf[r])

DeferredInv ==
  DeferredAreAuto /\ CancelledDisturbed /\ StaleDisturbed /\ DeferredHasPublisher

\* A task that has another place to be in, or a turn that waits on the bus.
Published(s) ==
  \/ Tasks(s) # {}
  \/ \E m \in OfSession(s) : KindOf[m] = "auto" /\ pc[m] = "bus"

LEMMA StaysDisturbed ==
  ASSUME \A x \in Messages : pc[x] # "unsent" => pc'[x] # "unsent",
         NEW s, Disturbed(s)
  PROVE  Disturbed(s)'
  BY DEF Disturbed, OfSession

\* What a step of a task does to the tokens, the cancellations and the deferred
\* turns.
LEMMA TaskDuties ==
  ASSUME TypeOK, InOnePlace, NEW m \in Messages, TaskStep(m)
  PROVE  /\ \A r \in tokens \ tokens' : pc'[r] \in {"running", "joined", "dropped"}
         /\ \A x \in cancelReq' :
              x \in cancelReq \/ (SessionOf[x] = SessionOf[m] /\ KindOf[m] = "new"
                                    /\ pc'[m] = "running")
         /\ \A t \in Sessions \ {SessionOf[m]} : deferred'[t] = deferred[t]
         /\ deferred'[SessionOf[m]] # <<>> =>
              /\ deferred[SessionOf[m]] # <<>>
              /\ \/ pc'[m] \in TaskPcs
                 \/ pc[m] = "created" /\ (m \in cancelReq \/ ~Accepted(m))
                 \/ \E x \in NextOf(SessionOf[m]) : pc'[x] = "bus"
<1> DEFINE s == SessionOf[m]
           Tok == \A r \in tokens \ tokens' : pc'[r] \in {"running", "joined", "dropped"}
           Can == \A x \in cancelReq' :
                    x \in cancelReq \/ (SessionOf[x] = s /\ KindOf[m] = "new"
                                          /\ pc'[m] = "running")
           Oth == \A t \in Sessions \ {s} : deferred'[t] = deferred[t]
           Def == deferred'[s] # <<>> =>
                    /\ deferred[s] # <<>>
                    /\ \/ pc'[m] \in TaskPcs
                       \/ pc[m] = "created" /\ (m \in cancelReq \/ ~Accepted(m))
                       \/ \E x \in NextOf(s) : pc'[x] = "bus"
<1>0. s \in Sessions /\ {"answered", "failed", "cancelled", "dropped"} \subseteq Settled
  BY AgentLoopAssumption DEF Settled
\* Ends of a task that waits, and of a turn.
<1>1. ASSUME pc[m] \in TaskPcs, NEW end \in Settled, EndTask(m, end, NextDeferred(s)),
             deferred' = [deferred EXCEPT ![s] = LaterDeferred(s)], tokens' = tokens
      PROVE  Tok /\ Can /\ Oth /\ Def
  <2>1. /\ pc' = [x \in Messages |-> IF x = m THEN end
                                     ELSE IF x \in NextOf(s) THEN "bus" ELSE pc[x]]
        /\ \A x \in NextOf(s) : pc[x] = "deferred"
    BY <1>1, EndWaitPc
  <2>2. Tok /\ Oth
    BY <1>0, <1>1 DEF TypeOK
  <2>3. Can
    BY <1>1 DEF EndTask
  <2>4. Def
    <3> SUFFICES ASSUME deferred'[s] # <<>>
                 PROVE  deferred[s] # <<>> /\ \E x \in NextOf(s) : pc'[x] = "bus"
      OBVIOUS
    <3>1. deferred'[s] = LaterDeferred(s)
      BY <1>0, <1>1 DEF TypeOK
    <3>2. deferred[s] # <<>> /\ NextOf(s) = {Head(deferred[s])}
      BY <3>1 DEF LaterDeferred, NextOf
    <3>3. Head(deferred[s]) \in Messages
      BY <1>0, <3>2 DEF TypeOK
    <3> QED
      BY <1>1, <2>1, <3>2, <3>3 DEF TaskPcs
  <2> QED
    BY <2>2, <2>3, <2>4
<1>2. ASSUME pc[m] = "running", NEW end \in Settled, CloseTurn(m, end)
      PROVE  Tok /\ Can /\ Oth /\ Def
  <2>1. /\ EndTask(m, end, Leftovers(s) \o NextDeferred(s))
        /\ deferred' = [deferred EXCEPT ![s] = LaterDeferred(s)]
        /\ tokens' = tokens
    BY <1>2 DEF CloseTurn
  <2>2. pc' = [x \in Messages |-> IF x = m THEN end
                                  ELSE IF x \in PlacedOf(s, "pending") \cup NextOf(s)
                                  THEN "bus" ELSE pc[x]]
    BY <1>2, CloseTurnPlaces
  <2>3. \A x \in NextOf(s) : pc[x] = "deferred"
    BY <1>0, DeferredLists DEF PlacedOf, Placed
  <2>4. Tok /\ Oth
    BY <1>0, <2>1 DEF TypeOK
  <2>5. Can
    BY <2>1 DEF EndTask
  <2>6. Def
    <3> SUFFICES ASSUME deferred'[s] # <<>>
                 PROVE  deferred[s] # <<>> /\ \E x \in NextOf(s) : pc'[x] = "bus"
      OBVIOUS
    <3>1. deferred'[s] = LaterDeferred(s)
      BY <1>0, <2>1 DEF TypeOK
    <3>2. deferred[s] # <<>> /\ NextOf(s) = {Head(deferred[s])}
      BY <3>1 DEF LaterDeferred, NextOf
    <3>3. Head(deferred[s]) \in Messages
      BY <1>0, <3>2 DEF TypeOK
    <3> QED
      BY <1>2, <2>2, <2>3, <3>2, <3>3
  <2> QED
    BY <2>4, <2>5, <2>6
<1> SUFFICES Tok /\ Can /\ Oth /\ Def
  OBVIOUS
<1> HIDE DEF Tok, Can, Oth, Def
<1>3. CASE Start(m)
  <2>1. Tok /\ Can /\ Oth
    BY <1>3 DEF Start, Tok, Can, Oth
  <2>2. Def
    BY <1>3 DEF Start, Def, TypeOK, TaskPcs
  <2> QED
    BY <2>1, <2>2
<1>4. CASE TakeLock(m)
  <2>1. Tok /\ Can /\ Oth
    BY <1>4 DEF TakeLock, Tok, Can, Oth
  <2>2. Def
    BY <1>4 DEF TakeLock, Def, TypeOK, TaskPcs
  <2> QED
    BY <2>1, <2>2
<1>5. CASE BeginTurn(m)
  <2>1. pc'[m] = "running" /\ tokens' = tokens \ {m} /\ UNCHANGED <<deferred, cancelReq>>
    BY <1>5 DEF BeginTurn, AtGate, TypeOK
  <2> QED
    BY <2>1 DEF Tok, Can, Oth, Def, TaskPcs
<1>6. CASE SkipTurn(m)
  BY <1>0, <1>1, <1>6 DEF SkipTurn, AtGate, TaskPcs
<1>7. CASE Drain(m)
  <2> DEFINE x == Head(pending[s])
  <2>1. x \in Messages /\ pc[x] = "pending"
    BY <1>7, DrainPlaces DEF PlacedOf, Placed, OfSession
  <2>2. /\ pc' = [pc EXCEPT ![x] = IF Accepted(x) THEN "joined" ELSE "dropped"]
        /\ pc[m] = "running" /\ tokens' = tokens \ {x} /\ UNCHANGED <<deferred, cancelReq>>
    BY <1>7 DEF Drain, lockVars
  <2>3. pc'[m] = "running" /\ pc'[x] \in {"joined", "dropped"}
    BY <2>1, <2>2 DEF TypeOK
  <2> QED
    BY <2>2, <2>3 DEF Tok, Can, Oth, Def, TaskPcs
<1>8. CASE Finish(m)
  BY <1>0, <1>2, <1>8 DEF Finish
<1>9. CASE NewInTurn(m)
  <2>1. /\ cancelReq' = cancelReq \cup Tasks(s) /\ KindOf[m] = "new"
        /\ pc' = pc /\ pc[m] = "running" /\ UNCHANGED <<deferred, tokens>>
    BY <1>9 DEF NewInTurn, lockVars
  <2> QED
    BY <2>1 DEF Tok, Can, Oth, Def, TaskPcs, Tasks, OfSession
<1>10. CASE CancelCreated(m)
  <2>1. /\ pc[m] = "created" /\ m \in cancelReq /\ cancelReq' = cancelReq \ {m}
        /\ UNCHANGED <<deferred, tokens>>
    BY <1>10 DEF CancelCreated, Cancelled, EndTask
  <2> QED
    BY <2>1 DEF Tok, Can, Oth, Def
<1>11. CASE CancelAtLock(m)
  BY <1>0, <1>1, <1>11 DEF CancelAtLock, TaskPcs
<1>12. CASE CancelAtGate(m)
  BY <1>0, <1>1, <1>12 DEF CancelAtGate, TaskPcs
<1>13. CASE CancelTurn(m)
  BY <1>0, <1>2, <1>13 DEF CancelTurn
<1> QED
  BY <1>3, <1>4, <1>5, <1>6, <1>7, <1>8, <1>9, <1>10, <1>11, <1>12, <1>13
     DEF TaskStep, PassGate

\* A turn goes on or ends.
LEMMA TurnGoesOnOrEnds ==
  ASSUME TypeOK, InOnePlace, NEW m \in Messages, TaskStep(m), pc[m] = "running"
  PROVE  pc'[m] \in Settled \cup {"running"}
<1>1. CASE Drain(m)
  <2> DEFINE x == Head(pending[SessionOf[m]])
  <2>1. x \in Messages /\ pc[x] = "pending"
    BY <1>1, DrainPlaces DEF PlacedOf, Placed, OfSession
  <2> QED
    BY <1>1, <2>1 DEF Drain, TypeOK
<1>2. CASE NewInTurn(m)
  BY <1>2 DEF NewInTurn
<1>3. CASE Finish(m) \/ CancelTurn(m)
  <2>1. PICK end \in Settled : CloseTurn(m, end)
    BY <1>3 DEF Finish, CancelTurn, Settled
  <2> QED
    BY <2>1, CloseTurnPlaces
<1> QED
  BY <1>1, <1>2, <1>3 DEF TaskStep, PassGate, Start, TakeLock, BeginTurn, SkipTurn, AtGate,
     CancelCreated, CancelAtLock, CancelAtGate

LEMMA TaskDeferred ==
  ASSUME TypeOK, InOnePlace, DeferredInv, NEW m \in Messages, TaskStep(m)
  PROVE  DeferredInv'
<1> DEFINE s == SessionOf[m]
<1>0. s \in Sessions /\ m \in OfSession(s)
  BY AgentLoopAssumption DEF OfSession
<1>1. \A x \in Messages : \/ pc'[x] = pc[x]
                          \/ x = m /\ pc[m] \in TaskPcs /\ MovesOn(m)
                          \/ MovesBack(x)
  BY TaskMoves
<1>2. \A x \in Messages : pc[x] # "unsent" => pc'[x] # "unsent"
  BY <1>1 DEF MovesOn, MovesBack, Settled
<1>3. \A t : Disturbed(t) => Disturbed(t)'
  BY <1>2, StaysDisturbed
<1>4. DeferredAreAuto'
  BY <1>1 DEF DeferredInv, DeferredAreAuto, MovesOn, MovesBack, Settled
<1>5. CancelledDisturbed'
  <2> SUFFICES ASSUME NEW x \in cancelReq'
               PROVE  Disturbed(SessionOf[x])'
    BY DEF CancelledDisturbed
  <2>1. CASE x \in cancelReq
    BY <1>3, <2>1 DEF DeferredInv, CancelledDisturbed
  <2>2. CASE SessionOf[x] = s /\ KindOf[m] = "new" /\ pc'[m] = "running"
    BY <1>0, <2>2 DEF Disturbed, OfSession
  <2> QED
    BY <2>1, <2>2, TaskDuties
<1>6. StaleDisturbed'
  <2> DEFINE Q == {"bus", "pending", "created", "lock", "gate"}
  <2> SUFFICES ASSUME NEW r \in Messages, KindOf[r] = "result", r \notin tokens', pc'[r] \in Q
               PROVE  Disturbed(SessionOf[r])'
    BY DEF StaleDisturbed
  <2>1. r \notin tokens
    BY TaskDuties
  <2>2. pc[r] \in Q
    <3>1. CASE r = m /\ pc[m] \in TaskPcs
      BY <3>1, TurnGoesOnOrEnds DEF TaskPcs, Settled
    <3>2. CASE MovesBack(r)
      BY <3>2 DEF MovesBack, DeferredInv, DeferredAreAuto
    <3> QED
      BY <1>1, <3>1, <3>2
  <2>3. Disturbed(SessionOf[r])
    BY <2>1, <2>2 DEF DeferredInv, StaleDisturbed
  <2> QED
    BY <1>3, <2>3
<1>7. DeferredHasPublisher'
  <2> SUFFICES ASSUME NEW t \in Sessions, deferred'[t] # <<>>
               PROVE  Published(t)' \/ Disturbed(t)'
    BY DEF DeferredHasPublisher, Published, Tasks, OfSession
  <2>1. CASE t # s
    <3>1. deferred[t] # <<>>
      BY <2>1, TaskDuties
    <3>2. Published(t) \/ Disturbed(t)
      BY <3>1 DEF DeferredInv, DeferredHasPublisher, Published
    <3>3. ASSUME NEW x \in OfSession(t), pc[x] \in TaskPcs \cup {"bus"}
          PROVE  x \in Messages /\ pc'[x] = pc[x]
      BY <1>1, <2>1, <3>3 DEF MovesBack, TaskPcs, OfSession
    <3>4. Published(t) => Published(t)'
      BY <3>3 DEF Published, Tasks, OfSession
    <3> QED
      BY <1>3, <3>2, <3>4
  <2>2. CASE t = s
    <3>1. CASE pc'[m] \in TaskPcs
      BY <1>0, <2>2, <3>1 DEF Published, Tasks, OfSession
    <3>2. CASE pc[m] = "created" /\ (m \in cancelReq \/ ~Accepted(m))
      <4>1. Disturbed(s)
        BY <3>2 DEF DeferredInv, CancelledDisturbed, StaleDisturbed, Accepted
      <4> QED
        BY <1>3, <2>2, <4>1
    <3>3. ASSUME NEW x \in NextOf(s), pc'[x] = "bus"
          PROVE  Published(s)'
      <4>1. x \in OfSession(s) /\ pc[x] = "deferred"
        BY <1>0, DeferredLists DEF PlacedOf, Placed
      <4>2. KindOf[x] = "auto"
        BY <4>1 DEF DeferredInv, DeferredAreAuto, OfSession
      <4> QED
        BY <3>3, <4>1, <4>2 DEF Published, OfSession
    <3> QED
      BY <2>2, <3>1, <3>2, <3>3, TaskDuties
  <2> QED
    BY <2>1, <2>2
<1> QED
  BY <1>4, <1>5, <1>6, <1>7 DEF DeferredInv

\* Whoever defers a turn finds a live task of the session; the other messages the
\* loop routes leave the deferred turns alone, and one that is an automation
\* turn gets a task.
LEMMA RouteDeferred ==
  ASSUME TypeOK, InOnePlace, QueueHasTurn, DeferredInv, NEW m \in Messages, RouteOne(m)
  PROVE  DeferredInv'
<1> DEFINE s == SessionOf[m]
<1>0. s \in Sessions /\ m \in OfSession(s)
  BY AgentLoopAssumption DEF OfSession
<1>a. pc[m] = "bus"
  <2>1. Consumes(m)
    BY DEF RouteOne, DropStale, BeginControl, Defer, Inject, CreateTask
  <2> QED
    BY <2>1, HeadOnBus
<1>1. /\ \A x \in Messages \ {m} :
           pc'[x] = pc[x] \/ (pc[x] = "working" /\ pc'[x] = "cancelled")
      /\ pc'[m] \in {"dropped", "control", "deferred", "pending", "created"}
      /\ pc'[m] = "control" => KindOf[m] \in {"stop", "new", "discard"}
      /\ pc'[m] # "control" =>
           UNCHANGED <<tokens, cancelReq>> /\ \A x \in Messages \ {m} : pc'[x] = pc[x]
      /\ pc'[m] = "control" =>
           /\ tokens' = tokens \ OfSession(s) /\ cancelReq' = cancelReq \cup Tasks(s)
      /\ pc'[m] = "deferred" => KindOf[m] = "auto" /\ Registered(s)
      /\ pc'[m] \in {"dropped", "pending"} => KindOf[m] # "auto"
      /\ pc'[m] # "deferred" => deferred' = deferred
      /\ \A t \in Sessions \ {s} : deferred'[t] = deferred[t]
  <2>1. CASE DropStale(m)
    BY <2>1 DEF DropStale, Accepted, TypeOK
  <2>2. CASE BeginControl(m)
    BY <2>2 DEF BeginControl, SubagentsCancelled, CancelSession, TypeOK
  <2>3. CASE Defer(m)
    BY <1>0, <2>3 DEF Defer, TypeOK
  <2>4. CASE Inject(m)
    BY <2>4 DEF Inject, Injectable, TypeOK
  <2>5. CASE CreateTask(m)
    BY <2>5 DEF CreateTask, TypeOK
  <2> QED
    BY <2>1, <2>2, <2>3, <2>4, <2>5 DEF RouteOne
<1>2. \A x \in Messages : pc[x] # "unsent" => pc'[x] # "unsent"
  BY <1>1
<1>3. \A t : Disturbed(t) => Disturbed(t)'
  BY <1>2, StaysDisturbed
<1>b. pc'[m] = "control" => Disturbed(s)'
  BY <1>0, <1>1 DEF Disturbed, OfSession
<1>4. DeferredAreAuto'
  BY <1>1 DEF DeferredInv, DeferredAreAuto
<1>5. CancelledDisturbed'
  <2> SUFFICES ASSUME NEW x \in cancelReq'
               PROVE  Disturbed(SessionOf[x])'
    BY DEF CancelledDisturbed
  <2>1. CASE x \in cancelReq
    BY <1>3, <2>1 DEF DeferredInv, CancelledDisturbed
  <2>2. CASE pc'[m] = "control" /\ x \in Tasks(s)
    BY <1>b, <2>2 DEF Tasks, OfSession
  <2> QED
    BY <1>1, <2>1, <2>2
<1>6. StaleDisturbed'
  <2> DEFINE Q == {"bus", "pending", "created", "lock", "gate"}
  <2> SUFFICES ASSUME NEW r \in Messages, KindOf[r] = "result", r \notin tokens', pc'[r] \in Q
               PROVE  Disturbed(SessionOf[r])'
    BY DEF StaleDisturbed
  <2>1. pc[r] \in Q
    BY <1>1, <1>a
  <2>2. CASE r \in tokens
    BY <1>1, <1>b, <2>2 DEF OfSession
  <2>3. CASE r \notin tokens
    BY <1>3, <2>1, <2>3 DEF DeferredInv, StaleDisturbed
  <2> QED
    BY <2>2, <2>3
<1>7. DeferredHasPublisher'
  <2> SUFFICES ASSUME NEW t \in Sessions, deferred'[t] # <<>>
               PROVE  Published(t)' \/ Disturbed(t)'
    BY DEF DeferredHasPublisher, Published, Tasks, OfSession
  <2>0. \A x \in Messages : pc[x] \in TaskPcs => pc'[x] = pc[x]
    BY <1>1, <1>a DEF TaskPcs
  <2>1. CASE t = s /\ pc'[m] = "deferred"
    <3>1. PICK x \in OfSession(s) : pc[x] = "running"
      BY <1>0, <1>1, <2>1 DEF QueueHasTurn
    <3> QED
      BY <2>0, <2>1, <3>1 DEF Published, Tasks, OfSession, TaskPcs
  <2>2. CASE ~(t = s /\ pc'[m] = "deferred")
    <3>1. deferred[t] # <<>>
      BY <1>1, <2>2
    <3>2. Tasks(t) # {} => Published(t)'
      BY <2>0 DEF Published, Tasks, OfSession
    <3>3. ASSUME NEW x \in OfSession(t), KindOf[x] = "auto", pc[x] = "bus"
          PROVE  Published(t)'
      <4>1. CASE x = m
        <5>1. t = s
          BY <4>1 DEF OfSession
        <5>2. pc'[m] = "created"
          BY <1>1, <2>2, <3>3, <4>1, <5>1
        <5> QED
          BY <1>0, <5>1, <5>2 DEF Published, Tasks, OfSession, TaskPcs
      <4>2. CASE x # m
        BY <1>1, <3>3, <4>2 DEF Published, OfSession
      <4> QED
        BY <4>1, <4>2
    <3> QED
      BY <1>3, <3>1, <3>2, <3>3 DEF DeferredInv, DeferredHasPublisher
  <2> QED
    BY <2>1, <2>2
<1> QED
  BY <1>4, <1>5, <1>6, <1>7 DEF DeferredInv

\* A step that moves a message into the loop, or ends a command.
LEMMA OtherDeferred ==
  ASSUME TypeOK, DeferredInv, NEW m \in Messages, pc[m] \in {"unsent", "working", "control"},
         \A x \in Messages \ {m} : pc'[x] = pc[x],
         \/ pc'[m] \in {"bus", "working", pc[m]} /\ tokens \subseteq tokens'
            /\ (KindOf[m] = "result" /\ pc'[m] = "bus" => m \in tokens')
         \/ pc[m] = "control" /\ KindOf[m] \in {"stop", "new", "discard"}
            /\ pc'[m] = "answered" /\ tokens' = tokens \ OfSession(SessionOf[m]),
         UNCHANGED <<deferred, cancelReq>>
  PROVE  DeferredInv'
<1> DEFINE s == SessionOf[m]
<1>2. \A x \in Messages : pc[x] # "unsent" => pc'[x] # "unsent"
  OBVIOUS
<1>3. \A t : Disturbed(t) => Disturbed(t)'
  BY <1>2, StaysDisturbed
<1>4. DeferredAreAuto'
  BY DEF DeferredInv, DeferredAreAuto
<1>5. CancelledDisturbed'
  BY <1>3 DEF DeferredInv, CancelledDisturbed
<1>6. StaleDisturbed'
  <2> DEFINE Q == {"bus", "pending", "created", "lock", "gate"}
  <2> SUFFICES ASSUME NEW r \in Messages, KindOf[r] = "result", r \notin tokens', pc'[r] \in Q
               PROVE  Disturbed(SessionOf[r])'
    BY DEF StaleDisturbed
  <2>1. CASE r \in tokens
    <3>1. pc[m] = "control" /\ KindOf[m] \in {"stop", "new", "discard"} /\ pc'[m] = "answered"
          /\ r \in OfSession(s)
      BY <2>1
    <3> QED
      BY <3>1 DEF Disturbed, OfSession
  <2>2. CASE r \notin tokens
    <3>1. pc[r] \in Q
      OBVIOUS
    <3> QED
      BY <1>3, <2>2, <3>1 DEF DeferredInv, StaleDisturbed
  <2> QED
    BY <2>1, <2>2
<1>7. DeferredHasPublisher'
  <2> SUFFICES ASSUME NEW t \in Sessions, deferred[t] # <<>>
               PROVE  Published(t)' \/ Disturbed(t)'
    BY DEF DeferredHasPublisher, Published, Tasks, OfSession
  <2>1. Published(t) => Published(t)'
    BY DEF Published, Tasks, OfSession, TaskPcs
  <2> QED
    BY <1>3, <2>1 DEF DeferredInv, DeferredHasPublisher, Published
<1> QED
  BY <1>4, <1>5, <1>6, <1>7 DEF DeferredInv

\* A deferred automation turn has someone to publish it: a live task of its
\* session, or an automation turn ahead of it on the bus, unless a command
\* cancelled the session's tasks.
THEOREM DeferredTurnsHavePublisher == Spec => []DeferredHasPublisher
<1>1. Init => DeferredInv
  BY DEF Init, DeferredInv, DeferredAreAuto, CancelledDisturbed, StaleDisturbed,
         DeferredHasPublisher
<1>2. DispatchInv /\ DeferredInv /\ [Next]_vars => DeferredInv'
  <2> SUFFICES ASSUME DispatchInv, DeferredInv, [Next]_vars
               PROVE  DeferredInv'
    OBVIOUS
  <2> USE DEF DispatchInv
  <2>1. CASE EndControl
    <3>1. pc' = [pc EXCEPT ![control] = "answered"]
      BY <2>1, EndControlPlaces
    <3>2. /\ control \in Messages /\ pc[control] = "control"
          /\ KindOf[control] \in {"stop", "new", "discard"}
          /\ tokens' = tokens \ OfSession(SessionOf[control])
          /\ UNCHANGED <<deferred, cancelReq>>
      BY <2>1 DEF EndControl, ControlJoinsAll, TypeOK
    <3>3. /\ pc'[control] = "answered"
          /\ \A x \in Messages \ {control} : pc'[x] = pc[x]
      BY <3>1, <3>2 DEF TypeOK
    <3> QED
      BY <3>2, <3>3, OtherDeferred
  <2>2. ASSUME NEW m \in Messages, RouteOne(m)
        PROVE  DeferredInv'
    BY <2>2, RouteDeferred
  <2>3. ASSUME NEW m \in Messages, TaskStep(m)
        PROVE  DeferredInv'
    BY <2>3, TaskDeferred
  <2>4. ASSUME NEW m \in Messages, Outside(m)
        PROVE  DeferredInv'
    <3>1. UNCHANGED <<deferred, cancelReq>>
      BY <2>4 DEF Outside, Publish, Submit, GiveUp, Spawn, Announce
    <3>2. CASE GiveUp(m)
      BY <3>1, <3>2 DEF GiveUp, DeferredInv, DeferredAreAuto, CancelledDisturbed,
         StaleDisturbed, DeferredHasPublisher, Tasks, OfSession, Disturbed
    <3>3. CASE ~GiveUp(m)
      <4>1. /\ pc[m] \in {"unsent", "working"}
            /\ \A x \in Messages \ {m} : pc'[x] = pc[x]
            /\ pc'[m] \in {"bus", "working"} /\ tokens \subseteq tokens'
            /\ KindOf[m] = "result" /\ pc'[m] = "bus" => m \in tokens'
        BY <2>4, <3>3 DEF Outside, Publish, Submit, Spawn, Announce, Enqueue, TypeOK
      <4> QED
        BY <3>1, <4>1, OtherDeferred
    <3> QED
      BY <3>2, <3>3
  <2>5. CASE UNCHANGED vars
    BY <2>5 DEF vars, DeferredInv, DeferredAreAuto, CancelledDisturbed,
       StaleDisturbed, DeferredHasPublisher, Tasks, OfSession, Disturbed
  <2> QED
    BY <2>1, <2>2, <2>3, <2>4, <2>5 DEF Next, RunLoop
<1>3. DeferredInv => DeferredHasPublisher
  BY DEF DeferredInv
<1> QED
  BY <1>1, <1>2, <1>3, DispatchInvariant, PTL DEF Spec
=============================================================================
