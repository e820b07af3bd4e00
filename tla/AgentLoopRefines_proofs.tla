--------------------- MODULE AgentLoopRefines_proofs ---------------------
(***************************************************************************)
(* AgentLoop implements SessionTurns: each message is served once, alone   *)
(* or inside a running turn of its session, and turns of a session are     *)
(* serial.                                                                 *)
(***************************************************************************)
EXTENDS AgentLoop_proofs

USE DEF Joined, AtLock, Unlock, ReleaseGate, Unregister, TakePending

PhaseOf(p) ==
  CASE p \in {"unsent", "working"} -> "out"
    [] p = "running" -> "turn"
    [] p = "joined" -> "joined"
    [] p \in Settled \ {"joined"} -> "closed"
    [] OTHER -> "queued"

LEMMA PhaseIs ==
  ASSUME NEW x \in Messages
  PROVE  Phase[x] = PhaseOf(pc[x]) /\ Phase'[x] = PhaseOf(pc'[x])
  BY DEF Phase, PhaseOf

\* A phase for each message, and nothing else.
LEMMA PhaseMaps ==
  /\ DOMAIN Phase = Messages /\ Phase = [x \in Messages |-> Phase[x]]
  /\ DOMAIN Phase' = Messages /\ Phase' = [x \in Messages |-> Phase'[x]]
<1>1. DOMAIN Phase = Messages /\ Phase = [x \in Messages |-> Phase[x]]
  BY DEF Phase
<1>2. DOMAIN Phase' = Messages /\ Phase' = [x \in Messages |-> Phase'[x]]
  BY DEF Phase
<1> QED
  BY <1>1, <1>2

LEMMA Phases ==
  /\ \A p \in {"unsent", "working"} : PhaseOf(p) = "out"
  /\ PhaseOf("running") = "turn" /\ PhaseOf("joined") = "joined"
  /\ \A p \in Settled \ {"joined"} : PhaseOf(p) = "closed"
  /\ \A p \in {"bus", "control", "deferred", "pending", "created", "lock", "gate"} :
       PhaseOf(p) = "queued"
  BY DEF PhaseOf, Settled

\* Steps of which SessionTurns sees nothing, and steps of one message.
LEMMA SamePhase ==
  ASSUME \A x \in Messages : PhaseOf(pc'[x]) = PhaseOf(pc[x])
  PROVE  Phase' = Phase
<1>1. \A x \in Messages : Phase'[x] = Phase[x]
  BY PhaseIs
<1> QED
  BY <1>1, PhaseMaps

LEMMA OnePhase ==
  ASSUME NEW m \in Messages, \A x \in Messages \ {m} : PhaseOf(pc'[x]) = PhaseOf(pc[x])
  PROVE  Phase' = [Phase EXCEPT ![m] = PhaseOf(pc'[m])]
<1>1. \A x \in Messages \ {m} : Phase'[x] = Phase[x]
  BY PhaseIs
<1>2. Phase'[m] = PhaseOf(pc'[m])
  BY PhaseIs
<1>3. [Phase EXCEPT ![m] = PhaseOf(pc'[m])]
        = [x \in Messages |-> IF x = m THEN PhaseOf(pc'[m]) ELSE Phase[x]]
  BY PhaseMaps
<1>4. Phase' = [x \in Messages |-> IF x = m THEN PhaseOf(pc'[m]) ELSE Phase[x]]
  BY <1>1, <1>2, PhaseMaps
<1> QED
  BY <1>3, <1>4

LEMMA ClosePhase ==
  ASSUME NEW m \in Messages, \A x \in Messages \ {m} : PhaseOf(pc'[x]) = PhaseOf(pc[x]),
         PhaseOf(pc[m]) \in {"queued", "turn"}, PhaseOf(pc'[m]) = "closed"
  PROVE  [Turns!Next]_Phase
<1>1. Phase' = [Phase EXCEPT ![m] = "closed"]
  BY OnePhase
<1>2. Phase[m] \in {"queued", "turn"}
  BY PhaseIs
<1>3. Turns!Close(m)
  BY <1>1, <1>2 DEF Turns!Close
<1> QED
  BY <1>3 DEF Turns!Next

LEMMA ArrivePhase ==
  ASSUME NEW m \in Messages, \A x \in Messages \ {m} : PhaseOf(pc'[x]) = PhaseOf(pc[x]),
         PhaseOf(pc[m]) = "out", PhaseOf(pc'[m]) = "queued"
  PROVE  [Turns!Next]_Phase
<1>1. Phase' = [Phase EXCEPT ![m] = "queued"]
  BY OnePhase
<1>2. Phase[m] = "out"
  BY PhaseIs
<1>3. Turns!Arrive(m)
  BY <1>1, <1>2 DEF Turns!Arrive
<1> QED
  BY <1>3 DEF Turns!Next

\* A waiting task ends.
LEMMA EndWaitPhase ==
  ASSUME TypeOK, InOnePlace, NEW m \in Messages, pc[m] \in {"created", "lock", "gate"},
         NEW end \in {"dropped", "cancelled"}, EndTask(m, end, NextDeferred(SessionOf[m]))
  PROVE  [Turns!Next]_Phase
<1>1. /\ pc' = [x \in Messages |-> IF x = m THEN end
                                   ELSE IF x \in NextOf(SessionOf[m]) THEN "bus" ELSE pc[x]]
      /\ \A x \in NextOf(SessionOf[m]) : pc[x] = "deferred"
  BY EndWaitPc
<1>2. \A x \in Messages \ {m} : PhaseOf(pc'[x]) = PhaseOf(pc[x])
  BY <1>1, Phases
<1>3. PhaseOf(pc[m]) = "queued" /\ PhaseOf(pc'[m]) = "closed"
  BY <1>1, Phases DEF Settled
<1> QED
  BY <1>2, <1>3, ClosePhase

\* A turn ends.
LEMMA CloseTurnPhase ==
  ASSUME TypeOK, InOnePlace, NEW m \in Messages, pc[m] = "running",
         NEW end \in {"answered", "failed", "cancelled"}, CloseTurn(m, end)
  PROVE  [Turns!Next]_Phase
<1> DEFINE s == SessionOf[m]
           back == PlacedOf(s, "pending") \cup NextOf(s)
<1>0. s \in Sessions /\ end \in Settled \ {"joined"}
  BY AgentLoopAssumption DEF Settled
<1>1. pc' = [x \in Messages |-> IF x = m THEN end
                                ELSE IF x \in back THEN "bus" ELSE pc[x]]
  BY <1>0, CloseTurnPlaces
<1>2. \A x \in back : pc[x] \in {"pending", "deferred"}
  BY <1>0, DeferredLists DEF PlacedOf, Placed
<1> HIDE DEF back
<1>3. \A x \in Messages \ {m} : PhaseOf(pc'[x]) = PhaseOf(pc[x])
  BY <1>1, <1>2, Phases
<1>4. PhaseOf(pc[m]) = "turn" /\ PhaseOf(pc'[m]) = "closed"
  BY <1>0, <1>1, Phases
<1> QED
  BY <1>3, <1>4, ClosePhase

LEMMA BeginPhase ==
  ASSUME TypeOK, SerialTurns, NEW m \in Messages, BeginTurn(m)
  PROVE  [Turns!Next]_Phase
<1>0. pc[m] = "gate" /\ pc' = [pc EXCEPT ![m] = "running"]
  BY DEF BeginTurn, AtGate
<1>1. \A x \in Messages \ {m} : PhaseOf(pc'[x]) = PhaseOf(pc[x])
  BY <1>0 DEF TypeOK
<1>2. PhaseOf(pc'[m]) = "turn"
  BY <1>0, Phases DEF TypeOK
<1>3. Phase' = [Phase EXCEPT ![m] = "turn"]
  BY <1>1, <1>2, OnePhase
<1>4. Phase[m] = "queued"
  BY <1>0, PhaseIs, Phases
<1>5. ~ \E x \in Messages : SessionOf[x] = SessionOf[m] /\ Phase[x] = "turn"
  <2> SUFFICES ASSUME NEW x \in Messages, SessionOf[x] = SessionOf[m], Phase[x] = "turn"
               PROVE  FALSE
    OBVIOUS
  <2>1. pc[x] = "running"
    BY PhaseIs DEF PhaseOf
  <2>2. SessionOf[m] \in Sessions
    BY AgentLoopAssumption
  <2> QED
    BY <1>0, <2>1, <2>2 DEF SerialTurns, OfSession
<1>6. Turns!Begin(m)
  BY <1>3, <1>4, <1>5 DEF Turns!Begin, Turns!Serves
<1> QED
  BY <1>6 DEF Turns!Next

LEMMA DrainPhase ==
  ASSUME TypeOK, InOnePlace, NEW m \in Messages, Drain(m)
  PROVE  [Turns!Next]_Phase
<1> DEFINE x == Head(pending[SessionOf[m]])
<1>1. x \in Messages /\ pc[x] = "pending" /\ SessionOf[x] = SessionOf[m]
  BY DrainPlaces DEF PlacedOf, Placed, OfSession
<1>2. /\ pc' = [pc EXCEPT ![x] = IF Accepted(x) THEN "joined" ELSE "dropped"]
      /\ pc[m] = "running"
  BY DEF Drain
<1> HIDE DEF x
<1>3. /\ \A y \in Messages \ {x} : PhaseOf(pc'[y]) = PhaseOf(pc[y])
      /\ pc'[x] \in {"joined", "dropped"}
      /\ PhaseOf(pc[x]) = "queued"
  BY <1>1, <1>2, Phases DEF TypeOK
<1>4. CASE pc'[x] = "joined"
  <2>1. Phase' = [Phase EXCEPT ![x] = "joined"]
    BY <1>1, <1>3, <1>4, OnePhase, Phases
  <2>2. Phase[x] = "queued" /\ Phase[m] = "turn"
    BY <1>1, <1>2, <1>3, PhaseIs, Phases
  <2>3. Turns!Join(x)
    BY <1>1, <2>1, <2>2 DEF Turns!Join, Turns!Serves
  <2> QED
    BY <1>1, <2>3 DEF Turns!Next
<1>5. CASE pc'[x] = "dropped"
  <2>1. PhaseOf(pc'[x]) = "closed"
    BY <1>5, Phases DEF Settled
  <2> QED
    BY <1>1, <1>3, <2>1, ClosePhase
<1> QED
  BY <1>3, <1>4, <1>5

LEMMA TaskPhase ==
  ASSUME TypeOK, SerialTurns, InOnePlace, NEW m \in Messages, TaskStep(m)
  PROVE  [Turns!Next]_Phase
<1>1. CASE Start(m)
  <2>1. /\ pc[m] = "created" /\ \A x \in Messages \ {m} : pc'[x] = pc[x]
        /\ pc'[m] \in {"lock", "dropped"}
    BY <1>1 DEF Start, TypeOK
  <2>2. CASE pc'[m] = "lock"
    <3>1. Phase' = Phase
      BY <2>1, <2>2, Phases, SamePhase
    <3> QED
      BY <3>1
  <2>3. CASE pc'[m] = "dropped"
    BY <2>1, <2>3, Phases, ClosePhase DEF Settled
  <2> QED
    BY <2>1, <2>2, <2>3
<1>2. CASE TakeLock(m)
  <2>1. \A x \in Messages : PhaseOf(pc'[x]) = PhaseOf(pc[x])
    BY <1>2, Phases DEF TakeLock, TypeOK
  <2> QED
    BY <2>1, SamePhase
<1>3. CASE BeginTurn(m)
  BY <1>3, BeginPhase
<1>4. CASE SkipTurn(m)
  BY <1>4, EndWaitPhase DEF SkipTurn, AtGate
<1>5. CASE Drain(m)
  BY <1>5, DrainPhase
<1>6. CASE Finish(m)
  BY <1>6, CloseTurnPhase DEF Finish
<1>7. CASE NewInTurn(m)
  <2>1. Phase' = Phase
    BY <1>7 DEF NewInTurn, Phase
  <2> QED
    BY <2>1
<1>8. CASE CancelCreated(m)
  <2>1. pc[m] = "created" /\ pc' = [pc EXCEPT ![m] = "cancelled"]
    BY <1>8, CancelCreatedPlaces DEF CancelCreated
  <2>2. /\ \A x \in Messages \ {m} : PhaseOf(pc'[x]) = PhaseOf(pc[x])
        /\ PhaseOf(pc[m]) = "queued" /\ PhaseOf(pc'[m]) = "closed"
    BY <2>1, Phases DEF TypeOK, Settled
  <2> QED
    BY <2>2, ClosePhase
<1>9. CASE CancelAtLock(m)
  BY <1>9, EndWaitPhase DEF CancelAtLock
<1>10. CASE CancelAtGate(m)
  BY <1>10, EndWaitPhase DEF CancelAtGate
<1>11. CASE CancelTurn(m)
  BY <1>11, CloseTurnPhase DEF CancelTurn
<1> QED
  BY <1>1, <1>2, <1>3, <1>4, <1>5, <1>6, <1>7, <1>8, <1>9, <1>10, <1>11
     DEF TaskStep, PassGate

\* A command also puts the subagents of its session away.
LEMMA RoutePhase ==
  ASSUME TypeOK, InOnePlace, NEW m \in Messages, RouteOne(m)
  PROVE  [Turns!Next]_Phase
<1> DEFINE s == SessionOf[m]
<1>0. pc[m] = "bus" /\ PhaseOf(pc[m]) = "queued"
  <2>1. Consumes(m)
    BY DEF RouteOne, DropStale, BeginControl, Defer, Inject, CreateTask
  <2> QED
    BY <2>1, HeadOnBus, Phases
<1>1. CASE DropStale(m)
  <2>1. pc' = [pc EXCEPT ![m] = "dropped"]
    BY <1>1 DEF DropStale
  <2>2. /\ \A x \in Messages \ {m} : PhaseOf(pc'[x]) = PhaseOf(pc[x])
        /\ PhaseOf(pc'[m]) = "closed"
    BY <2>1, Phases DEF TypeOK, Settled
  <2> QED
    BY <1>0, <2>2, ClosePhase
<1>2. CASE BeginControl(m)
  <2> DEFINE gone == {x \in Messages : SessionOf[x] = s /\ pc[x] = "working"}
  <2>1. pc' = [SubagentsCancelled(s) EXCEPT ![m] = "control"]
    BY <1>2 DEF BeginControl
  <2>2. \A x \in Messages : pc'[x] = IF x = m THEN "control"
                                     ELSE IF x \in gone THEN "cancelled" ELSE pc[x]
    BY <2>1 DEF SubagentsCancelled
  <2>3. \A x \in Messages : PhaseOf(pc'[x]) = IF x \in gone THEN "closed" ELSE PhaseOf(pc[x])
    BY <1>0, <2>2, Phases DEF Settled
  <2>4. \A x \in gone : Phase[x] = "out"
    BY PhaseIs, Phases
  <2>5. Phase' = [x \in Messages |-> IF x \in gone THEN "closed" ELSE Phase[x]]
    <3>1. \A x \in Messages : Phase'[x] = IF x \in gone THEN "closed" ELSE Phase[x]
      BY <2>3, PhaseIs
    <3> QED
      BY <3>1 DEF Phase
  <2>6. gone \in SUBSET Messages
    OBVIOUS
  <2> HIDE DEF gone
  <2>7. Turns!Withdraw(gone)
    BY <2>4, <2>5 DEF Turns!Withdraw
  <2> QED
    BY <2>6, <2>7 DEF Turns!Next
<1>3. CASE Defer(m) \/ Inject(m) \/ CreateTask(m)
  <2>1. PICK to \in {"deferred", "pending", "created"} : pc' = [pc EXCEPT ![m] = to]
    BY <1>3 DEF Defer, Inject, CreateTask
  <2>2. \A x \in Messages : PhaseOf(pc'[x]) = PhaseOf(pc[x])
    BY <1>0, <2>1, Phases DEF TypeOK
  <2> QED
    BY <2>2, SamePhase
<1> QED
  BY <1>1, <1>2, <1>3 DEF RouteOne

LEMMA OutsidePhase ==
  ASSUME TypeOK, NEW m \in Messages, Outside(m)
  PROVE  [Turns!Next]_Phase
<1>1. CASE Publish(m) \/ Submit(m) \/ Announce(m)
  <2>1. pc[m] \in {"unsent", "working"} /\ pc' = [pc EXCEPT ![m] = "bus"]
    BY <1>1 DEF Publish, Submit, Announce, Enqueue
  <2>2. /\ \A x \in Messages \ {m} : PhaseOf(pc'[x]) = PhaseOf(pc[x])
        /\ PhaseOf(pc[m]) = "out" /\ PhaseOf(pc'[m]) = "queued"
    BY <2>1, Phases DEF TypeOK
  <2> QED
    BY <2>2, ArrivePhase
<1>2. CASE GiveUp(m) \/ Spawn(m)
  <2>1. \A x \in Messages : PhaseOf(pc'[x]) = PhaseOf(pc[x])
    BY <1>2, Phases DEF GiveUp, Spawn, TypeOK
  <2> QED
    BY <2>1, SamePhase
<1> QED
  BY <1>1, <1>2 DEF Outside

\* The dispatch core implements SessionTurns, for any messages and sessions: no
\* message is served twice or in two turns, none joins a turn of another session
\* or one that is not running, and the turns of a session never overlap.
THEOREM LoopImplementsTurns == Spec => ImplementsTurns
<1>1. Init => Turns!Init
  <2> SUFFICES ASSUME Init PROVE Turns!Init
    OBVIOUS
  <2>1. \A x \in Messages : Phase[x] = "out"
    BY Phases DEF Init, Phase, PhaseOf
  <2> QED
    BY <2>1 DEF Turns!Init, Phase
<1>2. DispatchInv /\ [Next]_vars => [Turns!Next]_Phase
  <2> SUFFICES ASSUME DispatchInv, [Next]_vars
               PROVE  [Turns!Next]_Phase
    OBVIOUS
  <2> USE DEF DispatchInv
  <2>1. CASE EndControl
    <3>1. pc' = [pc EXCEPT ![control] = "answered"]
      BY <2>1, EndControlPlaces
    <3>2. control \in Messages /\ pc[control] = "control"
      BY <2>1 DEF EndControl, ControlJoinsAll, TypeOK
    <3>3. /\ \A x \in Messages \ {control} : PhaseOf(pc'[x]) = PhaseOf(pc[x])
          /\ PhaseOf(pc[control]) = "queued" /\ PhaseOf(pc'[control]) = "closed"
      BY <3>1, <3>2, Phases DEF TypeOK, Settled
    <3> QED
      BY <3>2, <3>3, ClosePhase
  <2>2. ASSUME NEW m \in Messages, RouteOne(m)
        PROVE  [Turns!Next]_Phase
    BY <2>2, RoutePhase
  <2>3. ASSUME NEW m \in Messages, TaskStep(m)
        PROVE  [Turns!Next]_Phase
    BY <2>3, TaskPhase
  <2>4. ASSUME NEW m \in Messages, Outside(m)
        PROVE  [Turns!Next]_Phase
    BY <2>4, OutsidePhase
  <2>5. CASE UNCHANGED vars
    <3>1. Phase' = Phase
      BY <2>5 DEF vars, Phase
    <3> QED
      BY <3>1
  <2> QED
    BY <2>1, <2>2, <2>3, <2>4, <2>5 DEF Next, RunLoop
<1> QED
  BY <1>1, <1>2, DispatchInvariant, PTL DEF Spec, ImplementsTurns, Turns!Spec
=============================================================================
