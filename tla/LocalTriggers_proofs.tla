------------------------ MODULE LocalTriggers_proofs ------------------------
(***************************************************************************)
(* Theorems about LocalTriggers, for any triggers, deliveries, limits and   *)
(* any number of faults and ends of the process.                            *)
(***************************************************************************)
EXTENDS LocalTriggers, TLAPS

USE LocalTriggersAssumption

\* What can stand against a delivery.
Causes == downs + faults

First(d) == d \in FirstOf(held)

\* A number that enqueue did not give yet.
Unused(d) ==
  /\ inbox[d] = 0 /\ processing[d] = 0 /\ held[d] = 0
  /\ submitted[d] = 0 /\ ends[d] = 0
  /\ d \notin failed

\* The attempt a file in the inbox waits for was not made.
InboxInv(d) ==
  inbox[d] > 0 =>
    submitted[d] < inbox[d] /\ inbox[d] <= 1 + Causes /\ ends[d] <= Causes

\* That of a file in processing may have been; once the process that claimed it
\* is ending, there is one more cause.
ProcessingInv(d) ==
  processing[d] > 0 =>
    /\ submitted[d] <= processing[d] /\ processing[d] <= 1 + Causes
    /\ pc \in {"down", "recover", "stop"} => processing[d] <= Causes
    /\ held[d] = 0 => ends[d] <= Causes

\* The worker tries the first delivery it holds; its turn may have begun, and
\* may have ended.
HeldInv(d) ==
  held[d] > 0 =>
    /\ pc \notin {"down", "recover", "poll"}
    /\ processing[d] \in {0, held[d]}
    /\ inbox[d] = 0 \/ (moved /\ First(d))
    /\ held[d] <= 1 + Causes
    /\ pc = "stop" \/ (pc = "retry" /\ First(d)) => held[d] <= Causes
    /\ submitted[d] <= held[d]
    /\ submitted[d] = held[d] =>
         First(d) /\ pc \in {"turn", "hung", "ran", "erred", "retry", "stop"}
    /\ ends[d] > Causes => First(d) /\ pc \in {"ran", "erred"}

DeliveryInv(d) ==
  /\ d \notin used => Unused(d)
  /\ InboxInv(d) /\ ProcessingInv(d) /\ HeldInv(d)
  /\ submitted[d] <= MaxAttempts
  /\ ends[d] <= 1 + Causes
  /\ d \in failed => MaxAttempts <= Causes

\* Between the two steps of a move, the delivery is in its new place.
MoveInv ==
  moved =>
    \/ pc = "recover" /\ \E d \in FirstOf(processing) : inbox[d] > 0 \/ d \in failed
    \/ pc \in {"retry", "stop"} /\ \E d \in FirstOf(held) : inbox[d] > 0 \/ d \in failed

Kept ==
  /\ \A d \in Deliveries : DeliveryInv(d)
  /\ MoveInv
  /\ NotLost

QueueInv == TypeOK /\ Kept

LEMMA OneFirst ==
  ASSUME NEW dir, NEW d \in FirstOf(dir), NEW e \in FirstOf(dir)
  PROVE  d = e
<1>1. d <= e /\ e <= d /\ d \in Nat /\ e \in Nat
  BY DEF FirstOf, Files
<1> QED
  BY <1>1

LEMMA FirstHas ==
  ASSUME NEW dir, NEW d \in FirstOf(dir)
  PROVE  d \in Deliveries /\ dir[d] > 0
  BY DEF FirstOf, Files

LEMMA SumType == \A m, n \in Nat : m + n \in Nat
  OBVIOUS

LEMMA CausesType ==
  ASSUME TypeOK
  PROVE  Causes \in Nat
  BY DEF TypeOK, Causes

LEMMA CausesNextType ==
  ASSUME TypeOK'
  PROVE  Causes' \in Nat
<1>1. downs' \in Nat /\ faults' \in Nat
  BY DEF TypeOK
<1> QED
  BY <1>1, SumType, Zenon DEF Causes

LEMMA CausesSame ==
  ASSUME downs' = downs, faults' = faults
  PROVE  Causes' = Causes
  BY DEF Causes

LEMMA CausesFault ==
  ASSUME TypeOK, Fault, downs' = downs
  PROVE  Causes' = Causes + 1
  BY DEF TypeOK, Causes, Fault

LEMMA CausesDown ==
  ASSUME TypeOK, downs' = downs + 1, faults' = faults
  PROVE  Causes' = Causes + 1
  BY DEF TypeOK, Causes

LEMMA DeliveryTypeOK ==
  ASSUME TypeOK, NEW d \in Deliveries
  PROVE  /\ inbox[d] \in 0..MaxAttempts
         /\ processing[d] \in 0..MaxAttempts
         /\ held[d] \in 0..MaxAttempts
         /\ submitted[d] \in Nat /\ ends[d] \in Nat
         /\ Causes \in Nat /\ MaxAttempts \in Nat \ {0}
  BY CausesType DEF TypeOK

\* A step of something other than the worker leaves a delivery where it is, or
\* deletes its files.
LEMMA DeliveryKept ==
  ASSUME TypeOK, TypeOK', NEW d \in Deliveries, DeliveryInv(d),
         d \in used => d \in used',
         inbox'[d] \in {0, inbox[d]}, processing'[d] \in {0, processing[d]},
         held' = held, pc' = pc, moved' = moved,
         submitted'[d] = submitted[d], ends'[d] = ends[d],
         d \in failed' => d \in failed,
         Causes' >= Causes
  PROVE  DeliveryInv(d)'
<1>a. Causes' \in Nat
  BY CausesNextType
<1>0. /\ Causes \in Nat /\ Causes' \in Nat
      /\ inbox[d] \in Nat /\ processing[d] \in Nat /\ held[d] \in Nat
      /\ submitted[d] \in Nat /\ ends[d] \in Nat
      /\ MaxAttempts \in Nat
  BY <1>a, DeliveryTypeOK
<1>1. First(d)' <=> First(d)
  BY DEF First, FirstOf, Files
<1>2. (d \notin used => Unused(d))'
  BY <1>0 DEF DeliveryInv, Unused
<1>3. InboxInv(d)'
  BY <1>0 DEF DeliveryInv, InboxInv
<1>4. ProcessingInv(d)'
  BY <1>0 DEF DeliveryInv, ProcessingInv
<1>5. HeldInv(d)'
  BY <1>0, <1>1 DEF DeliveryInv, HeldInv
<1>6. /\ submitted'[d] <= MaxAttempts
      /\ ends'[d] <= 1 + Causes'
      /\ d \in failed' => MaxAttempts <= Causes'
  BY <1>0 DEF DeliveryInv
<1> QED
  BY <1>2, <1>3, <1>4, <1>5, <1>6 DEF DeliveryInv

\* A delivery whose attempt did not begin, if the worker holds it.
Fresh(d) ==
  held[d] > 0 => submitted[d] < held[d] /\ ends[d] <= Causes /\ inbox[d] = 0

LEMMA FreshUnlessFirst ==
  ASSUME TypeOK, NEW d \in Deliveries, DeliveryInv(d),
         \/ ~First(d)
         \/ ~moved /\ pc \notin {"turn", "hung", "ran", "erred", "retry", "stop"}
         \/ pc \in {"down", "recover", "poll"}
  PROVE  Fresh(d)
  BY DeliveryTypeOK DEF Fresh, DeliveryInv, HeldInv

\* A step of the worker leaves such a delivery where it is, or lets go of it.
LEMMA FreshKept ==
  ASSUME TypeOK, TypeOK', NEW d \in Deliveries, DeliveryInv(d), Fresh(d),
         used' = used,
         inbox'[d] \in {0, inbox[d]}, processing'[d] \in {0, processing[d]},
         held'[d] \in {0, held[d]},
         submitted'[d] = submitted[d], ends'[d] = ends[d],
         d \in failed' => d \in failed,
         Causes' >= Causes,
         held'[d] > 0 => pc' \notin {"down", "recover", "poll"},
         held'[d] > 0 => pc' # "retry" \/ ~First(d)',
         pc' \in {"down", "recover", "stop"} =>
           pc \in {"down", "recover", "stop"} \/ Causes' > Causes,
         pc' = "stop" => pc = "stop" \/ Causes' > Causes
  PROVE  DeliveryInv(d)'
<1>a. Causes' \in Nat
  BY CausesNextType
<1>0. /\ Causes \in Nat /\ Causes' \in Nat
      /\ inbox[d] \in Nat /\ processing[d] \in Nat /\ held[d] \in Nat
      /\ submitted[d] \in Nat /\ ends[d] \in Nat
      /\ MaxAttempts \in Nat
  BY <1>a, DeliveryTypeOK
<1>1. (d \notin used => Unused(d))'
  BY <1>0 DEF DeliveryInv, Unused
<1>2. InboxInv(d)'
  BY <1>0 DEF DeliveryInv, InboxInv
<1>3. ProcessingInv(d)'
  <2>1. processing'[d] > 0 => submitted'[d] <= processing'[d] /\ processing'[d] <= 1 + Causes'
    BY <1>0 DEF DeliveryInv, ProcessingInv
  <2>2. processing'[d] > 0 /\ pc' \in {"down", "recover", "stop"} => processing'[d] <= Causes'
    BY <1>0 DEF DeliveryInv, ProcessingInv
  <2>3. processing'[d] > 0 /\ held'[d] = 0 => ends'[d] <= Causes'
    BY <1>0 DEF DeliveryInv, ProcessingInv, Fresh
  <2> QED
    BY <2>1, <2>2, <2>3 DEF ProcessingInv
<1>4. HeldInv(d)'
  <2> SUFFICES ASSUME held'[d] > 0
               PROVE  HeldInv(d)'
    BY DEF HeldInv
  <2>1. /\ held'[d] = held[d] /\ held[d] > 0
        /\ pc' \notin {"down", "recover", "poll"}
        /\ pc' # "retry" \/ ~First(d)'
    BY <1>0
  <2>2. /\ processing'[d] \in {0, held'[d]}
        /\ inbox'[d] = 0
        /\ held'[d] <= 1 + Causes'
    BY <1>0, <2>1 DEF DeliveryInv, HeldInv, Fresh
  <2>3. pc' = "stop" => held'[d] <= Causes'
    BY <1>0, <2>1 DEF DeliveryInv, HeldInv
  <2>4. submitted'[d] < held'[d] /\ ends'[d] <= Causes'
    BY <1>0, <2>1 DEF Fresh
  <2> QED
    BY <1>0, <2>1, <2>2, <2>3, <2>4 DEF HeldInv
<1>5. /\ submitted'[d] <= MaxAttempts
      /\ ends'[d] <= 1 + Causes'
      /\ d \in failed' => MaxAttempts <= Causes'
  BY <1>0 DEF DeliveryInv
<1> QED
  BY <1>1, <1>2, <1>3, <1>4, <1>5 DEF DeliveryInv

LEMMA InitGivesInv == Init => QueueInv
<1> SUFFICES ASSUME Init
             PROVE  QueueInv
  OBVIOUS
<1>1. TypeOK
  <2>1. None \in [Deliveries -> 0..MaxAttempts] /\ None \in [Deliveries -> Nat]
    BY DEF None
  <2>2. downs \in 0..MaxDowns /\ faults \in 0..MaxFaults
    BY DEF Init
  <2>3. status \in [Triggers -> {"none", "enabled", "disabled", "deleted"}]
    BY DEF Init
  <2> QED
    BY <2>1, <2>2, <2>3 DEF Init, TypeOK, Places
<1>2. ASSUME NEW d \in Deliveries
      PROVE  DeliveryInv(d)
  BY DEF Init, None, Causes, DeliveryInv, Unused, InboxInv, ProcessingInv, HeldInv
<1> QED
  BY <1>1, <1>2 DEF Init, QueueInv, Kept, MoveInv, NotLost

-----------------------------------------------------------------------------
\* Every step keeps the types.

LEMMA RewriteTypes ==
  ASSUME TypeOK, NEW d \in Deliveries, NEW n \in 1..MaxAttempts, Rewrite(d, n)
  PROVE  /\ inbox' \in [Deliveries -> 0..MaxAttempts]
         /\ processing' \in [Deliveries -> 0..MaxAttempts]
         /\ failed' \subseteq Deliveries
         /\ moved' \in BOOLEAN
<1>1. CASE Spent(n)
  BY <1>1 DEF TypeOK, Rewrite
<1>2. CASE ~Spent(n)
  <2>1. n + 1 \in 0..MaxAttempts
    BY <1>2 DEF Spent
  <2> QED
    BY <1>2, <2>1 DEF TypeOK, Rewrite
<1> QED
  BY <1>1, <1>2

LEMMA UnlinkTypes ==
  ASSUME TypeOK, NEW d \in Deliveries, Unlink(d)
  PROVE  /\ inbox' \in [Deliveries -> 0..MaxAttempts]
         /\ processing' \in [Deliveries -> 0..MaxAttempts]
         /\ failed' \subseteq Deliveries
         /\ moved' \in BOOLEAN
<1>1. 0 \in 0..MaxAttempts
  OBVIOUS
<1> QED
  BY <1>1 DEF TypeOK, Unlink

LEMMA NoneTypes ==
  None \in [Deliveries -> 0..MaxAttempts]
  BY DEF None

LEMMA ManageTypes ==
  ASSUME TypeOK, NEW t \in Triggers, Manage(t)
  PROVE  TypeOK'
<1>1. CASE Create(t)
  BY <1>1 DEF TypeOK, Create, fileVars, historyVars
<1>0. 0 \in 0..MaxAttempts
  OBVIOUS
<1>2. CASE Delete(t)
  BY <1>0, <1>2 DEF TypeOK, Delete, historyVars
<1>3. CASE DeleteOnly(t)
  BY <1>3 DEF TypeOK, DeleteOnly, Fault, fileVars, historyVars
<1>4. ASSUME NEW enabled \in BOOLEAN, Enable(t, enabled)
      PROVE  TypeOK'
  BY <1>4 DEF TypeOK, Enable, fileVars, historyVars
<1> QED
  BY <1>1, <1>2, <1>3, <1>4 DEF Manage

LEMMA WorkTypes ==
  ASSUME TypeOK, NEW d \in Deliveries, DeliveryInv(d), Work(d)
  PROVE  TypeOK'
<1>0. held[d] > 0 => d \in used
  BY DEF DeliveryInv, Unused
<1>1. CASE Recover(d)
  <2>1. d \in FirstOf(processing) /\ processing[d] \in 1..MaxAttempts
    BY <1>1, FirstHas DEF Recover, TypeOK
  <2>2. CASE Rewrite(d, processing[d])
    BY <1>1, <2>1, <2>2, RewriteTypes DEF TypeOK, Recover, historyVars
  <2>3. CASE Unlink(d)
    BY <1>1, <2>3, UnlinkTypes DEF TypeOK, Recover, historyVars
  <2> QED
    BY <1>1, <2>2, <2>3 DEF Recover
<1>2. CASE Claim(d)
  BY <1>2 DEF TypeOK, Claim, historyVars
<1>3. CASE Drop(d)
  BY <1>0, <1>3, FirstHas DEF TypeOK, Drop, Complete, Places
<1>4. CASE Submit(d)
  BY <1>4 DEF TypeOK, Submit, fileVars, Places
<1>5. CASE Finish(d)
  BY <1>0, <1>5, FirstHas DEF TypeOK, Finish, Complete, Places
<1>6. CASE Retry(d)
  <2>1. d \in FirstOf(held) /\ held[d] \in 1..MaxAttempts
    BY <1>6, FirstHas DEF Retry, TypeOK
  <2>2. CASE Rewrite(d, held[d]) /\ UNCHANGED <<pc, held>>
    BY <1>6, <2>1, <2>2, RewriteTypes DEF TypeOK, Retry, historyVars
  <2>3. CASE Unlink(d) /\ pc' = "take" /\ held' = [held EXCEPT ![d] = 0]
    <3>1. pc' \in Places /\ held' \in [Deliveries -> 0..MaxAttempts]
      BY <2>3 DEF TypeOK, Places
    <3> QED
      BY <1>6, <2>3, <3>1, UnlinkTypes DEF TypeOK, Retry, historyVars
  <2> QED
    BY <1>6, <2>2, <2>3 DEF Retry
<1>7. CASE Stop(d)
  <2>1. d \in FirstOf(held) /\ held[d] \in 1..MaxAttempts
    BY <1>7, FirstHas DEF Stop, TypeOK
  <2>2. CASE Rewrite(d, held[d]) /\ UNCHANGED <<pc, held>>
    BY <1>7, <2>1, <2>2, RewriteTypes DEF TypeOK, Stop, historyVars
  <2>3. CASE Unlink(d) /\ pc' = "down" /\ held' = None
    <3>1. pc' \in Places
      BY <2>3 DEF Places
    <3> QED
      BY <1>7, <2>3, <3>1, UnlinkTypes, NoneTypes DEF TypeOK, Stop, historyVars
  <2> QED
    BY <1>7, <2>2, <2>3 DEF Stop
<1> QED
  BY <1>1, <1>2, <1>3, <1>4, <1>5, <1>6, <1>7 DEF Work

LEMMA DeliveryTypes ==
  ASSUME TypeOK, NEW d \in Deliveries, DeliveryInv(d),
         Enqueue(d) \/ EnqueueDies(d) \/ Work(d) \/ EndsTurn(d) \/ Trip(d)
  PROVE  TypeOK'
<1>0. 1 \in 0..MaxAttempts
  OBVIOUS
<1>1. CASE Enqueue(d)
  BY <1>0, <1>1 DEF TypeOK, Enqueue, Queue
<1>2. CASE EnqueueDies(d)
  <2>1. inbox' \in [Deliveries -> 0..MaxAttempts]
    BY <1>0, <1>2 DEF TypeOK, EnqueueDies
  <2> QED
    BY <1>2, <2>1 DEF TypeOK, EnqueueDies, Queue, Fault
<1>3. CASE Work(d)
  BY <1>3, WorkTypes
<1>4. ASSUME NEW outcome \in {"ran", "erred"}, EndTurn(d, outcome)
      PROVE  TypeOK'
  BY <1>4 DEF TypeOK, EndTurn, fileVars, Places
<1>5. CASE Trip(d)
  <2>1. d \in used
    BY <1>5, FirstHas DEF Trip, DeliveryInv, Unused
  <2> QED
    BY <1>5, <2>1 DEF TypeOK, Trip, Fault, fileVars, Places
<1> QED
  BY <1>1, <1>2, <1>3, <1>4, <1>5 DEF EndsTurn

LEMMA NextTypes ==
  ASSUME TypeOK, \A d \in Deliveries : DeliveryInv(d), [Next]_vars
  PROVE  TypeOK'
<1>1. ASSUME NEW t \in Triggers, Manage(t)
      PROVE  TypeOK'
  BY <1>1, ManageTypes
<1>2. ASSUME NEW d \in Deliveries,
             Enqueue(d) \/ EnqueueDies(d) \/ Work(d) \/ EndsTurn(d) \/ Trip(d)
      PROVE  TypeOK'
  BY <1>2, DeliveryTypes
<1>3. CASE Start
  BY <1>3 DEF TypeOK, Start, fileVars, historyVars, Places
<1>4. CASE Recovered
  BY <1>4 DEF TypeOK, Recovered, fileVars, historyVars, Places
<1>5. CASE Poll
  BY <1>5 DEF TypeOK, Poll, fileVars, historyVars, Places
<1>6. CASE Claimed
  BY <1>6 DEF TypeOK, Claimed, fileVars, historyVars, Places
<1>7. CASE Done
  BY <1>7 DEF TypeOK, Done, fileVars, historyVars, Places
<1>8. CASE Cancel
  <2>1. downs' \in 0..MaxDowns
    BY <1>8 DEF TypeOK, Cancel
  <2> QED
    BY <1>8, <2>1 DEF TypeOK, Cancel, fileVars, historyVars, Places
<1>9. CASE Crash
  <2>1. downs' \in 0..MaxDowns
    BY <1>9 DEF TypeOK, Crash
  <2> QED
    BY <1>9, <2>1, NoneTypes DEF TypeOK, Crash, fileVars, historyVars, Places
<1>10. CASE LoseTurn
  BY <1>10 DEF TypeOK, LoseTurn, fileVars, historyVars, Places
<1>11. CASE UNCHANGED vars
  BY <1>11 DEF TypeOK, vars, fileVars, historyVars
<1> QED
  BY <1>1, <1>2, <1>3, <1>4, <1>5, <1>6, <1>7, <1>8, <1>9, <1>10, <1>11 DEF Next

-----------------------------------------------------------------------------
\* The invariant under the triggers' operations and `pawbot trigger`

LEMMA NotMoving ==
  ASSUME Kept, pc \notin {"recover", "retry", "stop"}
  PROVE  moved # TRUE
  BY DEF Kept, MoveInv

LEMMA ManageKeeps ==
  ASSUME QueueInv, TypeOK', NEW t \in Triggers, Manage(t)
  PROVE  Kept'
<1>1. /\ used' = used /\ held' = held /\ pc' = pc /\ moved' = moved
      /\ submitted' = submitted /\ ends' = ends
      /\ accepted' = accepted /\ settled' = settled
      /\ downs' = downs
      /\ pc \in {"poll", "turn", "hung"}
  BY DEF Manage, Create, Enable, Delete, DeleteOnly, Awaiting, fileVars, historyVars
<1>2. /\ status[t] # "deleted"
      /\ \A s \in Triggers \ {t} : status'[s] = status[s]
  BY DEF QueueInv, TypeOK, Manage, Create, Enable, Delete, DeleteOnly
<1>3. Causes' >= Causes
  <2>1. CASE DeleteOnly(t)
    <3>1. Causes' = Causes + 1
      BY <1>1, <2>1, CausesFault DEF QueueInv, DeleteOnly
    <3> QED
      BY <3>1, CausesType DEF QueueInv
  <2>2. CASE ~DeleteOnly(t)
    <3>1. faults' = faults
      BY <2>2 DEF Manage, Create, Enable, Delete
    <3> QED
      BY <1>1, <3>1, CausesSame, CausesType DEF QueueInv
  <2> QED
    BY <2>1, <2>2
<1>4. ASSUME NEW d \in Deliveries
      PROVE  /\ inbox'[d] \in {0, inbox[d]} /\ processing'[d] \in {0, processing[d]}
             /\ d \in failed' => d \in failed
             /\ \/ status'[TriggerOf[d]] = "deleted"
                \/ /\ inbox'[d] = inbox[d] /\ processing'[d] = processing[d]
                   /\ d \in failed => d \in failed'
  <2>1. CASE Delete(t)
    BY <2>1 DEF QueueInv, TypeOK, Delete
  <2>2. CASE ~Delete(t)
    <3>1. inbox' = inbox /\ processing' = processing /\ failed' = failed
      BY <2>2 DEF Manage, Create, Enable, DeleteOnly, fileVars
    <3> QED
      BY <3>1
  <2> QED
    BY <2>1, <2>2
<1>5. ASSUME NEW d \in Deliveries
      PROVE  DeliveryInv(d)'
  <2>1. DeliveryInv(d)
    BY DEF QueueInv, Kept
  <2> QED
    BY <1>1, <1>3, <1>4, <2>1, DeliveryKept DEF QueueInv
<1>6. MoveInv'
  BY <1>1, NotMoving DEF QueueInv, MoveInv
<1>7. NotLost'
  <2> SUFFICES ASSUME NEW d \in accepted' \ settled', status'[TriggerOf[d]] # "deleted"
               PROVE  inbox'[d] > 0 \/ processing'[d] > 0 \/ d \in failed'
    BY DEF NotLost
  <2>1. d \in Deliveries /\ TriggerOf[d] \in Triggers
    BY <1>1 DEF QueueInv, TypeOK
  <2>2. status[TriggerOf[d]] # "deleted"
    BY <1>2, <2>1
  <2>3. inbox[d] > 0 \/ processing[d] > 0 \/ d \in failed
    BY <1>1, <2>2 DEF QueueInv, Kept, NotLost
  <2> QED
    BY <1>4, <2>1, <2>3
<1> QED
  BY <1>5, <1>6, <1>7 DEF Kept

LEMMA QueueKeeps ==
  ASSUME QueueInv, TypeOK', NEW d \in Deliveries, Enqueue(d) \/ EnqueueDies(d)
  PROVE  Kept'
<1>1. /\ held' = held /\ pc' = pc /\ moved' = moved /\ moved = FALSE
      /\ processing' = processing /\ failed' = failed /\ status' = status
      /\ submitted' = submitted /\ ends' = ends /\ settled' = settled
      /\ d \notin used /\ used' = used \cup {d}
      /\ downs' = downs
  BY DEF QueueInv, TypeOK, Enqueue, EnqueueDies, Queue, Unlocked
<1>2. Causes' >= Causes
  <2>1. CASE Enqueue(d)
    BY <1>1, <2>1, CausesSame, CausesType DEF QueueInv, Enqueue
  <2>2. CASE EnqueueDies(d)
    <3>1. Causes' = Causes + 1
      BY <1>1, <2>2, CausesFault DEF QueueInv, EnqueueDies
    <3> QED
      BY <3>1, CausesType DEF QueueInv
  <2> QED
    BY <2>1, <2>2
<1>3. /\ inbox'[d] \in {inbox[d], 1}
      /\ \A e \in Deliveries \ {d} : inbox'[e] = inbox[e]
  BY DEF QueueInv, TypeOK, Enqueue, EnqueueDies
<1>4. ASSUME NEW e \in Deliveries
      PROVE  DeliveryInv(e)'
  <2>0. DeliveryInv(e)
    BY DEF QueueInv, Kept
  <2>1. CASE e # d
    <3>1. e \in used => e \in used'
      BY <1>1
    <3> QED
      BY <1>1, <1>2, <1>3, <2>0, <2>1, <3>1, DeliveryKept DEF QueueInv
  <2>2. CASE e = d
    <3>1. /\ inbox[d] = 0 /\ processing'[d] = 0 /\ held'[d] = 0
          /\ submitted'[d] = 0 /\ ends'[d] = 0
          /\ d \notin failed' /\ d \in used'
      BY <1>1, <2>0, <2>2 DEF DeliveryInv, Unused
    <3>2. inbox'[d] \in {0, 1}
      BY <1>3, <3>1
    <3>3. Causes' \in Nat
      BY CausesNextType
    <3>4. InboxInv(d)'
      BY <3>1, <3>2, <3>3 DEF InboxInv
    <3>5. ProcessingInv(d)' /\ HeldInv(d)'
      BY <3>1 DEF ProcessingInv, HeldInv
    <3>6. submitted'[d] <= MaxAttempts /\ ends'[d] <= 1 + Causes'
      <4>1. submitted[d] <= MaxAttempts /\ ends[d] <= 1 + Causes
        BY <2>0, <2>2 DEF DeliveryInv
      <4>2. Causes \in Nat /\ ends[d] \in Nat
        BY DeliveryTypeOK DEF QueueInv
      <4> QED
        BY <1>1, <1>2, <3>3, <4>1, <4>2
    <3> QED
      BY <2>2, <3>1, <3>4, <3>5, <3>6 DEF DeliveryInv
  <2> QED
    BY <2>1, <2>2
<1>5. MoveInv'
  BY <1>1 DEF MoveInv
<1>6. NotLost'
  <2> SUFFICES ASSUME NEW e \in accepted' \ settled', status'[TriggerOf[e]] # "deleted"
               PROVE  inbox'[e] > 0 \/ processing'[e] > 0 \/ e \in failed'
    BY DEF NotLost
  <2>1. CASE e = d
    <3>1. d \notin accepted
      BY <1>1 DEF QueueInv, TypeOK
    <3>2. Enqueue(d)
      BY <2>1, <3>1 DEF EnqueueDies
    <3> QED
      BY <2>1, <3>2 DEF Enqueue, QueueInv, TypeOK
  <2>2. CASE e # d
    <3>1. e \in accepted \ settled /\ e \in Deliveries
      BY <1>1, <2>2 DEF Enqueue, EnqueueDies, QueueInv, TypeOK
    <3>2. inbox[e] > 0 \/ processing[e] > 0 \/ e \in failed
      BY <1>1, <3>1 DEF QueueInv, Kept, NotLost
    <3> QED
      BY <1>1, <1>3, <2>2, <3>1, <3>2
  <2> QED
    BY <2>1, <2>2
<1> QED
  BY <1>4, <1>5, <1>6 DEF Kept

-----------------------------------------------------------------------------
\* The invariant under the steps of the worker that move no file

\* NotLost when files stay or are removed with their delivery settled.
LEMMA NotLostKept ==
  ASSUME QueueInv, status' = status, accepted' = accepted,
         \A d \in Deliveries :
           d \in settled' \/ ( /\ d \notin settled
                               /\ inbox[d] > 0 \/ processing[d] > 0 \/ d \in failed =>
                                    inbox'[d] > 0 \/ processing'[d] > 0 \/ d \in failed' )
  PROVE  NotLost'
  BY DEF QueueInv, TypeOK, Kept, NotLost

LEMMA WaitKeeps ==
  ASSUME QueueInv, TypeOK', Start \/ Recovered \/ Poll \/ Claimed \/ Done
  PROVE  Kept'
<1>1. /\ UNCHANGED <<status, used, fileVars, held, moved, downs, faults, historyVars>>
      /\ \/ pc = "down" /\ pc' = "recover"
         \/ pc = "recover" /\ pc' = "poll" /\ Files(processing) = {}
         \/ pc = "poll" /\ pc' = "claim"
         \/ pc = "claim" /\ pc' = "take"
         \/ pc = "take" /\ pc' = "poll" /\ Files(held) = {}
  BY DEF Start, Recovered, Poll, Claimed, Done
<1>2. moved = FALSE
  BY <1>1 DEF QueueInv, TypeOK, Kept, MoveInv, FirstOf
<1>3. Causes' = Causes /\ Causes \in Nat
  BY <1>1, CausesSame, CausesType DEF QueueInv
<1>4. ASSUME NEW d \in Deliveries
      PROVE  DeliveryInv(d)'
  <2>1. DeliveryInv(d) /\ held[d] \in Nat
    BY DeliveryTypeOK DEF QueueInv, Kept
  <2>2. Fresh(d)
    BY <1>1, <1>2, <2>1, FreshUnlessFirst DEF QueueInv
  <2>3. held'[d] > 0 => pc' \notin {"down", "recover", "poll", "retry"}
    BY <1>1, <2>1 DEF DeliveryInv, HeldInv, Files
  <2>4. /\ used' = used /\ inbox'[d] = inbox[d] /\ processing'[d] = processing[d]
        /\ held'[d] = held[d] /\ submitted'[d] = submitted[d] /\ ends'[d] = ends[d]
        /\ failed' = failed
    BY <1>1 DEF fileVars, historyVars
  <2>5. CASE pc # "recover"
    <3>1. pc' \in {"down", "recover", "stop"} => pc \in {"down", "recover", "stop"}
      BY <1>1
    <3>2. pc' # "stop"
      BY <1>1
    <3> QED
      BY <1>3, <2>1, <2>2, <2>3, <2>4, <3>1, <3>2, FreshKept DEF QueueInv
  <2>6. CASE pc = "recover"
    <3>1. pc' = "poll"
      BY <1>1, <2>6
    <3> QED
      BY <1>3, <2>1, <2>2, <2>3, <2>4, <3>1, FreshKept DEF QueueInv
  <2> QED
    BY <2>5, <2>6
<1>5. MoveInv'
  BY <1>1, <1>2 DEF MoveInv
<1>6. NotLost'
  BY <1>1 DEF QueueInv, Kept, NotLost, fileVars, historyVars
<1> QED
  BY <1>4, <1>5, <1>6 DEF Kept

\* A turn that is lost leaves its delivery where it was.
LEMMA LoseKeeps ==
  ASSUME QueueInv, TypeOK', LoseTurn
  PROVE  Kept'
<1>1. /\ UNCHANGED <<status, used, fileVars, held, moved, downs, faults, historyVars>>
      /\ pc = "turn" /\ pc' = "hung"
  BY DEF LoseTurn
<1>2. moved = FALSE
  BY <1>1, NotMoving DEF QueueInv, TypeOK
<1>3. Causes' = Causes
  BY <1>1, CausesSame
<1>4. ASSUME NEW d \in Deliveries
      PROVE  DeliveryInv(d)'
  <2>1. /\ used' = used /\ inbox'[d] = inbox[d] /\ processing'[d] = processing[d]
        /\ held'[d] = held[d] /\ submitted'[d] = submitted[d] /\ ends'[d] = ends[d]
        /\ failed' = failed /\ moved' = moved
    BY <1>1 DEF fileVars, historyVars
  <2>2. First(d)' <=> First(d)
    BY <1>1 DEF First, FirstOf, Files
  <2>3. DeliveryInv(d)
    BY DEF QueueInv, Kept
  <2>4. (d \notin used => Unused(d))'
    BY <2>1, <2>3 DEF DeliveryInv, Unused
  <2>5. InboxInv(d)'
    BY <1>1, <1>3, <2>1, <2>3 DEF DeliveryInv, InboxInv
  <2>6. ProcessingInv(d)'
    BY <1>1, <1>3, <2>1, <2>3 DEF DeliveryInv, ProcessingInv
  <2>7. HeldInv(d)'
    BY <1>1, <1>2, <1>3, <2>1, <2>2, <2>3 DEF DeliveryInv, HeldInv
  <2>8. /\ submitted'[d] <= MaxAttempts
        /\ ends'[d] <= 1 + Causes'
        /\ d \in failed' => MaxAttempts <= Causes'
    BY <1>3, <2>1, <2>3 DEF DeliveryInv
  <2> QED
    BY <2>4, <2>5, <2>6, <2>7, <2>8 DEF DeliveryInv
<1>5. MoveInv'
  BY <1>1, <1>2 DEF MoveInv
<1>6. NotLost'
  BY <1>1 DEF QueueInv, Kept, NotLost, fileVars, historyVars
<1> QED
  BY <1>4, <1>5, <1>6 DEF Kept

\* The end of the process is one more cause.
LEMMA CancelKeeps ==
  ASSUME QueueInv, TypeOK', Cancel
  PROVE  Kept'
<1>1. /\ UNCHANGED <<status, used, fileVars, held, moved, faults, historyVars>>
      /\ pc \in {"turn", "hung"} /\ pc' = "stop" /\ downs' = downs + 1
  BY DEF Cancel
<1>2. moved = FALSE
  BY <1>1, NotMoving DEF QueueInv, TypeOK
<1>3. Causes' = Causes + 1 /\ Causes \in Nat
  BY <1>1, CausesDown, CausesType DEF QueueInv
<1>4. ASSUME NEW d \in Deliveries
      PROVE  DeliveryInv(d)'
  <2>1. /\ used' = used /\ inbox'[d] = inbox[d] /\ processing'[d] = processing[d]
        /\ held'[d] = held[d] /\ submitted'[d] = submitted[d] /\ ends'[d] = ends[d]
        /\ failed' = failed
    BY <1>1 DEF fileVars, historyVars
  <2>2. First(d)' <=> First(d)
    BY <1>1 DEF First, FirstOf, Files
  <2>3. DeliveryInv(d)
    BY DEF QueueInv, Kept
  <2>4. /\ held[d] \in Nat /\ processing[d] \in Nat /\ inbox[d] \in Nat
        /\ submitted[d] \in Nat /\ ends[d] \in Nat
    BY DeliveryTypeOK DEF QueueInv
  <2>5. (d \notin used => Unused(d))'
    BY <2>1, <2>3 DEF DeliveryInv, Unused
  <2>6. InboxInv(d)'
    BY <1>3, <2>1, <2>3, <2>4 DEF DeliveryInv, InboxInv
  <2>7. ProcessingInv(d)'
    BY <1>3, <2>1, <2>3, <2>4 DEF DeliveryInv, ProcessingInv
  <2>8. HeldInv(d)'
    BY <1>1, <1>2, <1>3, <2>1, <2>2, <2>3, <2>4 DEF DeliveryInv, HeldInv
  <2>9. /\ submitted'[d] <= MaxAttempts
        /\ ends'[d] <= 1 + Causes'
        /\ d \in failed' => MaxAttempts <= Causes'
    BY <1>3, <2>1, <2>3, <2>4 DEF DeliveryInv
  <2> QED
    BY <2>5, <2>6, <2>7, <2>8, <2>9 DEF DeliveryInv
<1>5. MoveInv'
  BY <1>1, <1>2 DEF MoveInv
<1>6. NotLost'
  BY <1>1 DEF QueueInv, Kept, NotLost, fileVars, historyVars
<1> QED
  BY <1>4, <1>5, <1>6 DEF Kept

LEMMA CrashKeeps ==
  ASSUME QueueInv, TypeOK', Crash
  PROVE  Kept'
<1>1. /\ UNCHANGED <<status, used, fileVars, faults, historyVars>>
      /\ held' = None /\ moved' = FALSE
      /\ pc' = "down" /\ downs' = downs + 1
  BY DEF Crash
<1>3. Causes' = Causes + 1 /\ Causes \in Nat
  BY <1>1, CausesDown, CausesType DEF QueueInv
<1>4. ASSUME NEW d \in Deliveries
      PROVE  DeliveryInv(d)'
  <2>1. /\ used' = used /\ inbox'[d] = inbox[d] /\ processing'[d] = processing[d]
        /\ held'[d] = 0 /\ submitted'[d] = submitted[d] /\ ends'[d] = ends[d]
        /\ failed' = failed
    BY <1>1 DEF fileVars, historyVars, None
  <2>3. DeliveryInv(d)
    BY DEF QueueInv, Kept
  <2>4. /\ held[d] \in Nat /\ processing[d] \in Nat /\ inbox[d] \in Nat
        /\ submitted[d] \in Nat /\ ends[d] \in Nat
    BY DeliveryTypeOK DEF QueueInv
  <2>5. (d \notin used => Unused(d))'
    BY <2>1, <2>3 DEF DeliveryInv, Unused
  <2>6. InboxInv(d)'
    BY <1>3, <2>1, <2>3, <2>4 DEF DeliveryInv, InboxInv
  <2>7. ProcessingInv(d)'
    BY <1>3, <2>1, <2>3, <2>4 DEF DeliveryInv, ProcessingInv
  <2>8. HeldInv(d)'
    BY <2>1 DEF HeldInv
  <2>9. /\ submitted'[d] <= MaxAttempts
        /\ ends'[d] <= 1 + Causes'
        /\ d \in failed' => MaxAttempts <= Causes'
    BY <1>3, <2>1, <2>3, <2>4 DEF DeliveryInv
  <2> QED
    BY <2>5, <2>6, <2>7, <2>8, <2>9 DEF DeliveryInv
<1>5. MoveInv'
  BY <1>1 DEF MoveInv
<1>6. NotLost'
  BY <1>1 DEF QueueInv, Kept, NotLost, fileVars, historyVars
<1> QED
  BY <1>4, <1>5, <1>6 DEF Kept

LEMMA OthersFresh ==
  ASSUME QueueInv, NEW d \in FirstOf(held), NEW e \in Deliveries, e # d
  PROVE  ~First(e) /\ Fresh(e)
<1>1. ~First(e)
  BY OneFirst DEF First
<1> QED
  BY <1>1, FreshUnlessFirst DEF QueueInv, Kept

LEMMA ClaimKeeps ==
  ASSUME QueueInv, TypeOK', NEW d \in Deliveries, Claim(d)
  PROVE  Kept'
<1>1. /\ UNCHANGED <<status, used, failed, pc, moved, downs, faults, historyVars>>
      /\ pc = "claim" /\ inbox[d] > 0
      /\ inbox'[d] = 0 /\ processing'[d] = inbox[d] /\ held'[d] = inbox[d]
      /\ \A e \in Deliveries \ {d} :
           inbox'[e] = inbox[e] /\ processing'[e] = processing[e] /\ held'[e] = held[e]
  BY FirstHas DEF QueueInv, TypeOK, Claim
<1>2. moved = FALSE
  BY <1>1, NotMoving DEF QueueInv, TypeOK
<1>3. Causes' = Causes /\ Causes \in Nat
  BY <1>1, CausesSame, CausesType DEF QueueInv
<1>4. ASSUME NEW e \in Deliveries
      PROVE  DeliveryInv(e)'
  <2>1. /\ DeliveryInv(e) /\ held[e] \in Nat /\ inbox[e] \in Nat /\ processing[e] \in Nat
        /\ submitted[e] \in Nat /\ ends[e] \in Nat
    BY DeliveryTypeOK DEF QueueInv, Kept
  <2>2. /\ used' = used /\ submitted'[e] = submitted[e] /\ ends'[e] = ends[e]
        /\ failed' = failed
    BY <1>1 DEF historyVars
  <2>3. CASE e # d
    <3>1. Fresh(e)
      BY <1>1, <1>2, <2>1, FreshUnlessFirst DEF QueueInv
    <3> QED
      BY <1>1, <1>3, <2>1, <2>2, <2>3, <3>1, FreshKept DEF QueueInv
  <2>4. CASE e = d
    <3>1. /\ submitted[d] < inbox[d] /\ inbox[d] <= 1 + Causes /\ ends[d] <= Causes
          /\ d \in used
      BY <1>1, <2>1, <2>4 DEF DeliveryInv, InboxInv, Unused
    <3>2. InboxInv(d)'
      BY <1>1 DEF InboxInv
    <3>3. ProcessingInv(d)'
      BY <1>1, <1>3, <2>1, <2>2, <2>4, <3>1 DEF ProcessingInv
    <3>4. HeldInv(d)'
      BY <1>1, <1>3, <2>1, <2>2, <2>4, <3>1 DEF HeldInv
    <3>5. /\ submitted'[d] <= MaxAttempts
          /\ ends'[d] <= 1 + Causes'
          /\ d \in failed' => MaxAttempts <= Causes'
      BY <1>3, <2>1, <2>2, <2>4 DEF DeliveryInv
    <3> QED
      BY <2>2, <2>4, <3>1, <3>2, <3>3, <3>4, <3>5 DEF DeliveryInv
  <2> QED
    BY <2>3, <2>4
<1>5. MoveInv'
  BY <1>1, <1>2 DEF MoveInv
<1>6. NotLost'
  BY <1>1, NotLostKept DEF historyVars
<1> QED
  BY <1>4, <1>5, <1>6 DEF Kept

\* Drop and Finish
LEMMA CompleteKeeps ==
  ASSUME QueueInv, TypeOK', NEW d \in FirstOf(held), pc \in {"take", "ran", "erred"},
         Complete(d)
  PROVE  Kept'
<1>0. d \in Deliveries /\ held[d] > 0
  BY FirstHas
<1>1. /\ UNCHANGED <<status, used, inbox, failed, moved, downs, faults, accepted, tripped,
                     submitted, ends>>
      /\ pc' = "take" /\ settled' = settled \cup {d}
      /\ processing'[d] = 0 /\ held'[d] = 0
      /\ \A e \in Deliveries \ {d} :
           processing'[e] = processing[e] /\ held'[e] = held[e]
  BY <1>0 DEF QueueInv, TypeOK, Complete
<1>2. moved = FALSE
  BY NotMoving DEF QueueInv, TypeOK
<1>3. Causes' = Causes /\ Causes \in Nat
  BY <1>1, CausesSame, CausesType DEF QueueInv
<1>4. ASSUME NEW e \in Deliveries
      PROVE  DeliveryInv(e)'
  <2>1. /\ DeliveryInv(e) /\ held[e] \in Nat /\ inbox[e] \in Nat /\ processing[e] \in Nat
        /\ submitted[e] \in Nat /\ ends[e] \in Nat
    BY DeliveryTypeOK DEF QueueInv, Kept
  <2>2. /\ used' = used /\ submitted'[e] = submitted[e] /\ ends'[e] = ends[e]
        /\ inbox'[e] = inbox[e] /\ failed' = failed
    BY <1>1
  <2>3. CASE e # d
    <3>1. Fresh(e)
      BY <2>3, OthersFresh
    <3> QED
      BY <1>1, <1>3, <2>1, <2>2, <2>3, <3>1, FreshKept DEF QueueInv
  <2>4. CASE e = d
    <3>2. InboxInv(d)'
      BY <1>3, <2>1, <2>2, <2>4 DEF DeliveryInv, InboxInv
    <3>3. ProcessingInv(d)' /\ HeldInv(d)'
      BY <1>1 DEF ProcessingInv, HeldInv
    <3>4. d \in used'
      BY <1>0, <2>1, <2>2, <2>4 DEF DeliveryInv, Unused
    <3>5. /\ submitted'[d] <= MaxAttempts
          /\ ends'[d] <= 1 + Causes'
          /\ d \in failed' => MaxAttempts <= Causes'
      BY <1>3, <2>1, <2>2, <2>4 DEF DeliveryInv
    <3> QED
      BY <2>4, <3>2, <3>3, <3>4, <3>5 DEF DeliveryInv
  <2> QED
    BY <2>3, <2>4
<1>5. MoveInv'
  BY <1>1, <1>2 DEF MoveInv
<1>6. NotLost'
  <2>1. ASSUME NEW e \in Deliveries \ settled'
        PROVE  /\ e \notin settled /\ inbox'[e] = inbox[e] /\ processing'[e] = processing[e]
               /\ failed' = failed
    BY <1>1
  <2> QED
    BY <1>1, <2>1, NotLostKept
<1> QED
  BY <1>4, <1>5, <1>6 DEF Kept

\* The steps of a turn: the files stay where they are.
LEMMA TurnKeeps ==
  ASSUME QueueInv, TypeOK', NEW d \in Deliveries,
         Submit(d) \/ EndsTurn(d) \/ Trip(d)
  PROVE  Kept'
<1>0. d \in FirstOf(held) /\ d \in Deliveries /\ held[d] > 0 /\ First(d)
  BY FirstHas DEF Submit, EndsTurn, EndTurn, Trip, First
<1>1. /\ UNCHANGED <<status, used, fileVars, held, moved, downs, accepted, settled>>
      /\ pc \in {"take", "turn", "ran"} /\ pc' \in {"turn", "ran", "erred", "retry"}
      /\ \A e \in Deliveries \ {d} : submitted'[e] = submitted[e] /\ ends'[e] = ends[e]
  BY DEF QueueInv, TypeOK, Submit, EndsTurn, EndTurn, Trip, fileVars
<1>2. moved = FALSE
  BY <1>1, NotMoving DEF QueueInv, TypeOK
<1>3. /\ Causes \in Nat /\ Causes' \in Nat /\ Causes' >= Causes
      /\ ~Trip(d) => Causes' = Causes
      /\ Trip(d) => Causes' = Causes + 1
  <2>1. ASSUME Trip(d) PROVE Causes' = Causes + 1
    BY <1>1, <2>1, CausesFault DEF QueueInv, Trip
  <2>2. ASSUME ~Trip(d) PROVE Causes' = Causes
    BY <1>1, <2>2, CausesSame DEF Submit, EndsTurn, EndTurn
  <2>3. Causes \in Nat
    BY CausesType DEF QueueInv
  <2>4. Causes' \in Nat
    BY CausesNextType
  <2> QED
    BY <2>1, <2>2, <2>3, <2>4
<1>4. ASSUME NEW e \in Deliveries
      PROVE  DeliveryInv(e)'
  <2>1. /\ DeliveryInv(e) /\ held[e] \in Nat /\ inbox[e] \in Nat /\ processing[e] \in Nat
        /\ submitted[e] \in Nat /\ ends[e] \in Nat /\ held[e] <= MaxAttempts
    BY DeliveryTypeOK DEF QueueInv, Kept
  <2>2. /\ used' = used /\ inbox'[e] = inbox[e] /\ processing'[e] = processing[e]
        /\ held'[e] = held[e] /\ failed' = failed
        /\ First(e)' <=> First(e)
    BY <1>1 DEF fileVars, First, FirstOf, Files
  <2>3. CASE e # d
    <3>1. Fresh(e) /\ ~First(e)
      BY <1>0, <2>3, OthersFresh
    <3> QED
      BY <1>1, <1>3, <2>1, <2>2, <2>3, <3>1, FreshKept DEF QueueInv
  <2>4. CASE e = d
    <3>1. /\ inbox[d] = 0 /\ processing[d] \in {0, held[d]} /\ held[d] <= 1 + Causes
          /\ submitted[d] <= held[d]
          /\ pc = "take" => submitted[d] < held[d]
          /\ pc # "ran" => ends[d] <= Causes
          /\ ends[d] <= 1 + Causes
          /\ d \in failed => MaxAttempts <= Causes
          /\ d \in used
      <4>1. HeldInv(d) /\ d \in used
        BY <1>0, <2>1, <2>4 DEF DeliveryInv, Unused
      <4>2. inbox[d] = 0 /\ processing[d] \in {0, held[d]}
        BY <1>0, <1>2, <4>1 DEF HeldInv
      <4>3. held[d] <= 1 + Causes /\ submitted[d] <= held[d]
        BY <1>0, <4>1 DEF HeldInv
      <4>4. pc = "take" => submitted[d] < held[d]
        BY <1>0, <2>1, <2>4, <4>1, <4>3 DEF HeldInv
      <4>5. pc # "ran" => ends[d] <= Causes
        BY <1>0, <1>1, <1>3, <2>1, <2>4, <4>1 DEF HeldInv
      <4>6. ends[d] <= 1 + Causes /\ (d \in failed => MaxAttempts <= Causes)
        BY <2>1, <2>4 DEF DeliveryInv
      <4> QED
        BY <4>1, <4>2, <4>3, <4>4, <4>5, <4>6
    <3>2. /\ submitted'[d] <= held[d]
          /\ pc' = "retry" => ends'[d] <= Causes' /\ held[d] <= Causes'
          /\ pc' = "turn" => ends'[d] <= Causes'
          /\ ends'[d] <= 1 + Causes'
      <4>1. CASE Submit(d)
        <5>1. submitted'[d] = submitted[d] + 1 /\ ends' = ends /\ pc = "take" /\ pc' = "turn"
          BY <4>1 DEF Submit, QueueInv, TypeOK
        <5>2. Causes' = Causes
          BY <1>3, <5>1 DEF Trip
        <5> QED
          BY <1>3, <2>1, <2>4, <3>1, <5>1, <5>2
      <4>2. CASE EndsTurn(d)
        <5>1. /\ ends'[d] = ends[d] + 1 /\ submitted' = submitted
              /\ pc = "turn" /\ pc' \in {"ran", "erred"}
          BY <4>2 DEF EndsTurn, EndTurn, QueueInv, TypeOK
        <5>2. Causes' = Causes
          BY <1>3, <5>1 DEF Trip
        <5> QED
          BY <1>3, <2>1, <2>4, <3>1, <5>1, <5>2
      <4>3. CASE Trip(d)
        <5>1. ends' = ends /\ submitted' = submitted /\ pc' = "retry"
          BY <4>3 DEF Trip
        <5> QED
          BY <1>3, <2>1, <2>4, <3>1, <4>3, <5>1
      <4> QED
        BY <4>1, <4>2, <4>3
    <3>3. InboxInv(d)'
      BY <2>2, <2>4, <3>1 DEF InboxInv
    <3>4. submitted'[d] \in Nat /\ ends'[d] \in Nat
      BY DEF TypeOK
    <3>5. ProcessingInv(d)'
      BY <1>0, <1>1, <1>3, <2>1, <2>2, <2>4, <3>1, <3>2, <3>4 DEF ProcessingInv
    <3>6. HeldInv(d)'
      BY <1>0, <1>1, <1>3, <2>1, <2>2, <2>4, <3>1, <3>2, <3>4 DEF HeldInv
    <3>7. submitted'[d] <= MaxAttempts /\ (d \in failed' => MaxAttempts <= Causes')
      BY <1>3, <2>1, <2>2, <2>4, <3>1, <3>2, <3>4
    <3> QED
      BY <2>2, <2>4, <3>1, <3>2, <3>3, <3>5, <3>6, <3>7 DEF DeliveryInv
  <2> QED
    BY <2>3, <2>4
<1>5. MoveInv'
  BY <1>1, <1>2 DEF MoveInv
<1>6. NotLost'
  BY <1>1 DEF QueueInv, Kept, NotLost, fileVars
<1> QED
  BY <1>4, <1>5, <1>6 DEF Kept

-----------------------------------------------------------------------------
\* The invariant under the two steps of a move

LEMMA RewriteKeeps ==
  ASSUME QueueInv, TypeOK', NEW d \in Deliveries, NEW n \in 1..MaxAttempts,
         Rewrite(d, n),
         UNCHANGED <<status, used, pc, held, downs, faults, historyVars>>,
         d \in used, n <= Causes, submitted[d] <= n, ends[d] <= Causes,
         \/ pc = "recover" /\ d \in FirstOf(processing)
         \/ pc \in {"retry", "stop"} /\ d \in FirstOf(held)
  PROVE  Kept'
<1>1. /\ moved = FALSE /\ moved' = TRUE /\ processing' = processing
      /\ \/ n >= MaxAttempts /\ failed' = failed \cup {d} /\ inbox' = inbox
         \/ inbox' = [inbox EXCEPT ![d] = n + 1] /\ failed' = failed
  BY DEF Rewrite, Spent, QueueInv, TypeOK
<1>2. /\ inbox'[d] \in {inbox[d], n + 1}
      /\ \A e \in Deliveries \ {d} : inbox'[e] = inbox[e] /\ (e \in failed' => e \in failed)
      /\ \A e \in failed : e \in failed'
      /\ inbox'[d] > 0 \/ d \in failed'
      /\ d \in failed' => d \in failed \/ n >= MaxAttempts
  BY <1>1 DEF QueueInv, TypeOK
<1>3. Causes' = Causes /\ Causes \in Nat
  BY CausesSame, CausesType DEF QueueInv
<1>4. ASSUME NEW e \in Deliveries
      PROVE  DeliveryInv(e)'
  <2>1. /\ DeliveryInv(e) /\ held[e] \in Nat /\ inbox[e] \in Nat /\ processing[e] \in Nat
        /\ submitted[e] \in Nat /\ ends[e] \in Nat
    BY DeliveryTypeOK DEF QueueInv, Kept
  <2>2. /\ used' = used /\ processing'[e] = processing[e] /\ held'[e] = held[e] /\ pc' = pc
        /\ submitted'[e] = submitted[e] /\ ends'[e] = ends[e]
        /\ First(e)' <=> First(e)
    BY <1>1 DEF historyVars, First, FirstOf, Files
  <2>3. CASE e # d
    <3>1. Fresh(e)
      BY <2>1, <2>3, OthersFresh, FreshUnlessFirst DEF QueueInv
    <3>2. held'[e] > 0 => pc' \in {"retry", "stop"} /\ ~First(e)'
      <4>1. CASE pc = "recover"
        BY <2>1, <2>2, <4>1 DEF DeliveryInv, HeldInv
      <4>2. CASE pc \in {"retry", "stop"}
        BY <2>2, <2>3, <4>2, OthersFresh
      <4> QED
        BY <4>1, <4>2
    <3> QED
      BY <1>2, <1>3, <2>1, <2>2, <2>3, <3>1, <3>2, FreshKept DEF QueueInv
  <2>4. CASE e = d
    <3>1. InboxInv(d)'
      <4>1. CASE inbox'[d] = inbox[d]
        BY <1>3, <2>1, <2>2, <2>4, <4>1 DEF DeliveryInv, InboxInv
      <4>2. CASE inbox'[d] = n + 1
        BY <1>3, <2>1, <2>2, <2>4, <4>2 DEF InboxInv
      <4> QED
        BY <1>2, <4>1, <4>2
    <3>2. ProcessingInv(d)'
      BY <1>3, <2>1, <2>2, <2>4 DEF DeliveryInv, ProcessingInv
    <3>3. HeldInv(d)'
      <4>1. held[d] > 0 => First(d)
        BY <2>1, <2>4 DEF DeliveryInv, HeldInv, First
      <4> QED
        BY <1>1, <1>3, <2>1, <2>2, <2>4, <4>1 DEF DeliveryInv, HeldInv
    <3>4. /\ submitted'[d] <= MaxAttempts
          /\ ends'[d] <= 1 + Causes'
          /\ d \in failed' => MaxAttempts <= Causes'
      <4>1. n >= MaxAttempts => MaxAttempts <= Causes
        BY <1>3
      <4> QED
        BY <1>2, <1>3, <2>1, <2>2, <2>4, <4>1 DEF DeliveryInv
    <3> QED
      BY <2>2, <2>4, <3>1, <3>2, <3>3, <3>4 DEF DeliveryInv
  <2> QED
    BY <2>3, <2>4
<1>5. MoveInv'
  <2>1. FirstOf(processing)' = FirstOf(processing) /\ FirstOf(held)' = FirstOf(held)
    BY <1>1 DEF FirstOf, Files
  <2> QED
    BY <1>2, <2>1 DEF MoveInv
<1>6. NotLost'
  <2>1. ASSUME NEW e \in Deliveries
        PROVE  inbox[e] > 0 \/ processing[e] > 0 \/ e \in failed =>
                 inbox'[e] > 0 \/ processing'[e] > 0 \/ e \in failed'
    BY <1>1, <1>2
  <2> QED
    BY <2>1, NotLostKept DEF historyVars
<1> QED
  BY <1>4, <1>5, <1>6 DEF Kept

LEMMA UnlinkKeeps ==
  ASSUME QueueInv, TypeOK', NEW d \in Deliveries, Unlink(d),
         UNCHANGED <<status, used, downs, faults, historyVars>>,
         \/ pc = "recover" /\ pc' = pc /\ held' = held /\ d \in FirstOf(processing)
         \/ pc = "retry" /\ pc' = "take" /\ d \in FirstOf(held)
            /\ held' = [held EXCEPT ![d] = 0]
         \/ pc = "stop" /\ pc' = "down" /\ held' = None /\ d \in FirstOf(held)
  PROVE  Kept'
<1>1. /\ moved = TRUE /\ moved' = FALSE /\ inbox' = inbox /\ failed' = failed
      /\ processing'[d] = 0
      /\ \A e \in Deliveries \ {d} : processing'[e] = processing[e]
  BY DEF Unlink, QueueInv, TypeOK
<1>2. inbox[d] > 0 \/ d \in failed
  <2>1. CASE pc = "recover"
    <3>1. PICK e \in FirstOf(processing) : inbox[e] > 0 \/ e \in failed
      BY <1>1, <2>1 DEF QueueInv, Kept, MoveInv
    <3> QED
      BY <2>1, <3>1, OneFirst
  <2>2. CASE pc \in {"retry", "stop"}
    <3>1. PICK e \in FirstOf(held) : inbox[e] > 0 \/ e \in failed
      BY <1>1, <2>2 DEF QueueInv, Kept, MoveInv
    <3> QED
      BY <2>2, <3>1, OneFirst
  <2> QED
    BY <2>1, <2>2
<1>3. Causes' = Causes /\ Causes \in Nat
  BY CausesSame, CausesType DEF QueueInv
<1>4. ASSUME NEW e \in Deliveries
      PROVE  DeliveryInv(e)'
  <2>1. /\ DeliveryInv(e) /\ held[e] \in Nat /\ inbox[e] \in Nat /\ processing[e] \in Nat
        /\ submitted[e] \in Nat /\ ends[e] \in Nat
    BY DeliveryTypeOK DEF QueueInv, Kept
  <2>2. /\ used' = used /\ inbox'[e] = inbox[e] /\ failed' = failed
        /\ processing'[e] \in {0, processing[e]}
        /\ submitted'[e] = submitted[e] /\ ends'[e] = ends[e]
    BY <1>1 DEF historyVars
  <2>3. /\ held'[e] \in {0, held[e]}
        /\ held'[e] > 0 => pc' = "take"
        /\ pc' \in {"down", "recover", "stop"} => pc \in {"down", "recover", "stop"}
        /\ pc' # "stop"
    <3>1. pc = "recover" => held[e] = 0
      BY <2>1 DEF DeliveryInv, HeldInv
    <3> QED
      BY <2>1, <3>1 DEF None, QueueInv, TypeOK
  <2>4. CASE pc = "recover" \/ e # d
    <3>1. Fresh(e)
      BY <2>1, <2>4, OthersFresh, FreshUnlessFirst DEF QueueInv
    <3>2. Causes' >= Causes
      BY <1>3
    <3> QED
      BY <2>1, <2>2, <2>3, <3>1, <3>2, FreshKept DEF QueueInv
  <2>5. CASE pc # "recover" /\ e = d
    <3>1. held'[d] = 0 /\ processing'[d] = 0 /\ held[d] > 0
      BY <1>1, <2>5, FirstHas DEF None, QueueInv, TypeOK
    <3>2. d \in used
      BY <2>1, <2>5, <3>1 DEF DeliveryInv, Unused
    <3>3. InboxInv(d)'
      BY <1>3, <2>1, <2>2, <2>5 DEF DeliveryInv, InboxInv
    <3>4. ProcessingInv(d)' /\ HeldInv(d)'
      BY <3>1 DEF ProcessingInv, HeldInv
    <3>5. /\ submitted'[d] <= MaxAttempts
          /\ ends'[d] <= 1 + Causes'
          /\ d \in failed' => MaxAttempts <= Causes'
      BY <1>3, <2>1, <2>2, <2>5 DEF DeliveryInv
    <3> QED
      BY <2>2, <2>5, <3>2, <3>3, <3>4, <3>5 DEF DeliveryInv
  <2> QED
    BY <2>4, <2>5
<1>5. MoveInv'
  BY <1>1 DEF MoveInv
<1>6. NotLost'
  BY <1>1, <1>2, NotLostKept DEF historyVars
<1> QED
  BY <1>4, <1>5, <1>6 DEF Kept

LEMMA RecoverKeeps ==
  ASSUME QueueInv, TypeOK', NEW d \in Deliveries, Recover(d)
  PROVE  Kept'
<1>1. /\ pc = "recover" /\ d \in FirstOf(processing) /\ processing[d] > 0
      /\ UNCHANGED <<status, used, pc, held, downs, faults, historyVars>>
  BY FirstHas DEF Recover
<1>2. /\ DeliveryInv(d) /\ held[d] \in Nat /\ processing[d] \in 1..MaxAttempts
  BY <1>1, DeliveryTypeOK DEF QueueInv, Kept
<1>3. /\ d \in used /\ processing[d] <= Causes
      /\ submitted[d] <= processing[d] /\ ends[d] <= Causes
  BY <1>1, <1>2 DEF DeliveryInv, Unused, ProcessingInv, HeldInv
<1>4. CASE Rewrite(d, processing[d])
  BY <1>1, <1>2, <1>3, <1>4, RewriteKeeps
<1>5. CASE Unlink(d)
  BY <1>1, <1>5, UnlinkKeeps
<1> QED
  BY <1>4, <1>5 DEF Recover

LEMMA RetryKeeps ==
  ASSUME QueueInv, TypeOK', NEW d \in Deliveries, Retry(d) \/ Stop(d)
  PROVE  Kept'
<1>1. /\ pc \in {"retry", "stop"} /\ d \in FirstOf(held) /\ held[d] > 0 /\ First(d)
      /\ UNCHANGED <<status, used, downs, faults, historyVars>>
  BY FirstHas DEF Retry, Stop, First
<1>2. /\ DeliveryInv(d) /\ held[d] \in 1..MaxAttempts
      /\ ends[d] \in Nat /\ Causes \in Nat
  BY <1>1, DeliveryTypeOK DEF QueueInv, Kept
<1>3. HeldInv(d) /\ d \in used
  BY <1>1, <1>2 DEF DeliveryInv, Unused
<1>4. held[d] <= Causes /\ submitted[d] <= held[d] /\ ends[d] <= Causes
  BY <1>1, <1>2, <1>3 DEF HeldInv
<1>5. CASE Rewrite(d, held[d]) /\ UNCHANGED <<pc, held>>
  BY <1>1, <1>2, <1>3, <1>4, <1>5, RewriteKeeps
<1>6. CASE Unlink(d) /\ \/ pc = "retry" /\ pc' = "take" /\ held' = [held EXCEPT ![d] = 0]
                        \/ pc = "stop" /\ pc' = "down" /\ held' = None
  BY <1>1, <1>6, UnlinkKeeps
<1> QED
  BY <1>5, <1>6 DEF Retry, Stop

-----------------------------------------------------------------------------
\* The invariant holds throughout

LEMMA DeliveryKeeps ==
  ASSUME QueueInv, TypeOK', NEW d \in Deliveries,
         Enqueue(d) \/ EnqueueDies(d) \/ Work(d) \/ EndsTurn(d) \/ Trip(d)
  PROVE  Kept'
<1>1. CASE Enqueue(d) \/ EnqueueDies(d)
  BY <1>1, QueueKeeps
<1>2. CASE Recover(d)
  BY <1>2, RecoverKeeps
<1>3. CASE Claim(d)
  BY <1>3, ClaimKeeps
<1>4. CASE Drop(d) \/ Finish(d)
  <2>1. d \in FirstOf(held) /\ pc \in {"take", "ran", "erred"} /\ Complete(d)
    BY <1>4 DEF Drop, Finish, Completed
  <2> QED
    BY <2>1, CompleteKeeps
<1>5. CASE Submit(d) \/ EndsTurn(d) \/ Trip(d)
  BY <1>5, TurnKeeps
<1>6. CASE Retry(d) \/ Stop(d)
  BY <1>6, RetryKeeps
<1> QED
  BY <1>1, <1>2, <1>3, <1>4, <1>5, <1>6 DEF Work

LEMMA StutterKeeps ==
  ASSUME QueueInv, UNCHANGED vars
  PROVE  Kept'
<1>1. /\ UNCHANGED <<status, used, inbox, processing, failed, pc, held, moved, downs, faults>>
      /\ UNCHANGED <<accepted, settled, submitted, ends>>
  BY DEF vars, fileVars, historyVars
<1>2. Causes' = Causes
  BY <1>1, CausesSame
<1>3. FirstOf(held)' = FirstOf(held) /\ FirstOf(processing)' = FirstOf(processing)
  BY <1>1 DEF FirstOf, Files
<1>4. ASSUME NEW d \in Deliveries
      PROVE  DeliveryInv(d)'
  BY <1>1, <1>2, <1>3
     DEF QueueInv, Kept, DeliveryInv, Unused, InboxInv, ProcessingInv, HeldInv, First
<1>5. MoveInv' /\ NotLost'
  BY <1>1, <1>3 DEF QueueInv, Kept, MoveInv, NotLost
<1> QED
  BY <1>4, <1>5 DEF Kept

LEMMA NextKeepsInv == QueueInv /\ [Next]_vars => QueueInv'
<1> SUFFICES ASSUME QueueInv, [Next]_vars
             PROVE  QueueInv'
  OBVIOUS
<1>1. TypeOK'
  BY NextTypes DEF QueueInv, Kept
<1> SUFFICES Kept'
  BY <1>1 DEF QueueInv
<1>2. ASSUME NEW t \in Triggers, Manage(t)
      PROVE  Kept'
  BY <1>1, <1>2, ManageKeeps
<1>3. ASSUME NEW d \in Deliveries,
             Enqueue(d) \/ EnqueueDies(d) \/ Work(d) \/ EndsTurn(d) \/ Trip(d)
      PROVE  Kept'
  BY <1>1, <1>3, DeliveryKeeps
<1>4. CASE Start \/ Recovered \/ Poll \/ Claimed \/ Done
  BY <1>1, <1>4, WaitKeeps
<1>5. CASE Cancel
  BY <1>1, <1>5, CancelKeeps
<1>6. CASE Crash
  BY <1>1, <1>6, CrashKeeps
<1>7. CASE LoseTurn
  BY <1>1, <1>7, LoseKeeps
<1>8. CASE UNCHANGED vars
  BY <1>8, StutterKeeps
<1> QED
  BY <1>2, <1>3, <1>4, <1>5, <1>6, <1>7, <1>8 DEF Next

\* The inductive invariant: where the files of a delivery are, the attempts they
\* wait for, and the causes that stand for them.
THEOREM QueueInvHolds == Spec => []QueueInv
  BY InitGivesInv, NextKeepsInv, PTL DEF Spec

\* Types hold throughout: the attempt counts stay within the limit, so that no
\* file waits for an attempt past it.
THEOREM TypesHold == Spec => []TypeOK
<1>1. QueueInv => TypeOK
  BY DEF QueueInv
<1> QED
  BY <1>1, QueueInvHolds, PTL

\* Wherever a crash interrupts the moves of its file, an accepted delivery is in
\* one of the directories until it is completed or its trigger deleted.
THEOREM NothingLost == Spec => []NotLost
<1>1. QueueInv => NotLost
  BY DEF QueueInv, Kept
<1> QED
  BY <1>1, QueueInvHolds, PTL

\* Each run after the first of a delivery whose turn ended has a cause of its
\* own: an end of the process or a record that could not be written.
THEOREM RunsHaveCause == Spec => []RunAgainForCause
<1>1. ASSUME QueueInv, NEW d \in Deliveries
      PROVE  ends[d] <= 1 + downs + faults
  <2>1. ends[d] <= 1 + (downs + faults)
    BY <1>1 DEF QueueInv, Kept, DeliveryInv, Causes
  <2>2. downs \in Nat /\ faults \in Nat
    BY <1>1 DEF QueueInv, TypeOK
  <2> QED
    BY <2>1, <2>2
<1>2. QueueInv => RunAgainForCause
  BY <1>1 DEF RunAgainForCause
<1> QED
  BY <1>2, QueueInvHolds, PTL

\* A delivery is moved to failed only after _MAX_DELIVERY_ATTEMPTS causes: an
\* error of the agent never gives it up.
THEOREM GivingUpHasCause == Spec => []GivenUpForCause
<1>1. ASSUME QueueInv, NEW d \in failed
      PROVE  downs + faults >= MaxAttempts
  <2>1. d \in Deliveries /\ downs \in Nat /\ faults \in Nat
    BY <1>1 DEF QueueInv, TypeOK
  <2>2. MaxAttempts <= downs + faults
    BY <1>1, <2>1 DEF QueueInv, Kept, DeliveryInv, Causes
  <2> QED
    BY <2>1, <2>2
<1>2. QueueInv => GivenUpForCause
  BY <1>1 DEF GivenUpForCause
<1> QED
  BY <1>2, QueueInvHolds, PTL

-----------------------------------------------------------------------------
\* The order of deliveries

\* A delivery that is still to be submitted for the first time, and that
\* nothing holds up for good.
Waits(d) ==
  /\ d \in accepted /\ submitted[d] = 0
  /\ d \notin settled \cup tripped \cup failed
  /\ status[TriggerOf[d]] # "deleted"

\* Deliveries are numbered one after the other.
Numbered == \A d \in used, e \in Deliveries : e < d => e \in used

\* The recovery left no file in processing but those of the deliveries held.
Recovery ==
  pc \notin {"down", "recover"} =>
    \A d \in Deliveries : processing[d] > 0 => held[d] > 0

\* The worker lets go of a delivery without settling it after its turn began or
\* a write failed.
Begun ==
  pc \in {"turn", "hung", "ran", "erred", "retry", "stop"} =>
    \A d \in FirstOf(held) : submitted[d] > 0 \/ d \in tripped

\* Nothing later is submitted, or claimed without it.
Ahead ==
  \A d, e \in Deliveries :
    Waits(d) /\ d < e => submitted[e] = 0 /\ (held[e] > 0 => held[d] > 0)

OrderInv == Numbered /\ Recovery /\ Begun /\ Ahead

LEMMA WaitingIsQueued ==
  ASSUME QueueInv, NEW d \in Deliveries, Waits(d)
  PROVE  inbox[d] > 0 \/ processing[d] > 0
  BY DEF QueueInv, Kept, NotLost, Waits

\* A delivery starts to wait when its enqueue returns, and never again.
LEMMA WaitsBefore ==
  ASSUME QueueInv, Next, NEW d \in Deliveries, Waits(d)'
  PROVE  Waits(d) \/ Enqueue(d)
<1>0. /\ TriggerOf[d] \in Triggers /\ submitted[d] \in Nat
      /\ status \in [Triggers -> {"none", "enabled", "disabled", "deleted"}]
      /\ submitted \in [Deliveries -> Nat]
  BY DEF QueueInv, TypeOK
<1>1. ASSUME NEW t \in Triggers, Manage(t)
      PROVE  Waits(d)
  <2>1. UNCHANGED historyVars
    BY <1>1 DEF Manage, Create, Enable, Delete, DeleteOnly
  <2>2. status'[TriggerOf[d]] = status[TriggerOf[d]] \/ status[TriggerOf[d]] # "deleted"
    BY <1>0, <1>1 DEF Manage, Create, Enable, Delete, DeleteOnly
  <2>3. d \notin failed' /\ status'[TriggerOf[d]] # "deleted" => d \notin failed
    BY <1>0, <1>1 DEF Manage, Create, Enable, Delete, DeleteOnly, fileVars
  <2> QED
    BY <2>1, <2>2, <2>3 DEF Waits, historyVars
<1>2. ASSUME NEW e \in Deliveries, Enqueue(e) \/ EnqueueDies(e)
      PROVE  Waits(d) \/ Enqueue(d)
  BY <1>2 DEF Enqueue, EnqueueDies, Queue, Waits
<1>3. ASSUME NEW e \in Deliveries, Work(e)
      PROVE  Waits(d)
  <2>1. /\ accepted' = accepted /\ tripped' = tripped /\ status' = status
        /\ settled \subseteq settled'
    BY <1>3 DEF Work, Recover, Claim, Drop, Submit, Finish, Complete, Retry, Stop, historyVars
  <2>2. submitted'[d] = 0 => submitted[d] = 0
    BY <1>0, <1>3 DEF Work, Recover, Claim, Drop, Submit, Finish, Complete, Retry, Stop,
                      historyVars
  <2>3. failed \subseteq failed'
    BY <1>3 DEF Work, Recover, Claim, Drop, Submit, Finish, Complete, Retry, Stop,
                Rewrite, Unlink, fileVars
  <2> QED
    BY <2>1, <2>2, <2>3 DEF Waits
<1>4. ASSUME NEW e \in Deliveries, EndsTurn(e) \/ Trip(e)
      PROVE  Waits(d)
  BY <1>4 DEF EndsTurn, EndTurn, Trip, Waits, fileVars
<1>5. CASE Start \/ Recovered \/ Poll \/ Claimed \/ Done \/ LoseTurn \/ Cancel \/ Crash
  BY <1>5 DEF Start, Recovered, Poll, Claimed, Done, LoseTurn, Cancel, Crash, Waits, fileVars,
              historyVars
<1> QED
  BY <1>1, <1>2, <1>3, <1>4, <1>5 DEF Next

\* When nothing new waits or is submitted, and what waits is held as before.
LEMMA AheadKept ==
  ASSUME Ahead, submitted' = submitted,
         \A d \in Deliveries : Waits(d)' => Waits(d),
         \A e \in Deliveries : held'[e] \in {0, held[e]},
         \A d, e \in Deliveries : Waits(d)' /\ d < e /\ held'[e] > 0 => held'[d] = held[d]
  PROVE  Ahead'
<1> SUFFICES ASSUME NEW d \in Deliveries, NEW e \in Deliveries, Waits(d)', d < e
             PROVE  submitted'[e] = 0 /\ (held'[e] > 0 => held'[d] > 0)
  BY DEF Ahead
<1>1. submitted[e] = 0 /\ (held[e] > 0 => held[d] > 0)
  BY DEF Ahead
<1>2. held'[e] > 0 => held'[e] = held[e]
  OBVIOUS
<1> QED
  BY <1>1, <1>2

LEMMA AheadOfQueued ==
  ASSUME QueueInv, OrderInv, NEW d \in Deliveries, Enqueue(d),
         \A c \in Deliveries : Waits(c)' => Waits(c) \/ c = d
  PROVE  Ahead'
<1>1. /\ submitted' = submitted /\ held' = held /\ d \notin used
  BY DEF Enqueue, Queue
<1>2. ASSUME NEW e \in Deliveries, d < e
      PROVE  submitted[e] = 0 /\ held[e] = 0
  <2>1. e \notin used
    BY <1>1, <1>2 DEF OrderInv, Numbered
  <2> QED
    BY <2>1 DEF QueueInv, Kept, DeliveryInv, Unused
<1> QED
  BY <1>1, <1>2 DEF OrderInv, Ahead

\* The first file of the inbox is claimed: those of the deliveries ahead of it
\* that wait are in processing, and so held.
LEMMA AheadOfClaimed ==
  ASSUME QueueInv, OrderInv, NEW e \in Deliveries, Claim(e),
         \A c \in Deliveries : Waits(c)' => Waits(c)
  PROVE  Ahead'
<1>1. /\ submitted' = submitted /\ e \in FirstOf(inbox) /\ pc = "claim"
      /\ held' = [held EXCEPT ![e] = inbox[e]]
      /\ held \in [Deliveries -> 0..MaxAttempts] /\ inbox \in [Deliveries -> 0..MaxAttempts]
      /\ inbox[e] > 0
  BY FirstHas DEF Claim, historyVars, QueueInv, TypeOK
<1>2. ASSUME NEW d \in Deliveries, Waits(d), d < e
      PROVE  held[d] > 0
  <2>1. inbox[d] = 0
    BY <1>1, <1>2 DEF FirstOf, Files
  <2>2. processing[d] > 0
    BY <1>2, <2>1, WaitingIsQueued
  <2> QED
    BY <1>1, <2>2 DEF OrderInv, Recovery
<1> SUFFICES ASSUME NEW d \in Deliveries, NEW f \in Deliveries, Waits(d)', d < f
             PROVE  submitted'[f] = 0 /\ (held'[f] > 0 => held'[d] > 0)
  BY DEF Ahead
<1>3. submitted[f] = 0 /\ (held[f] > 0 => held[d] > 0)
  BY DEF OrderInv, Ahead
<1> QED
  BY <1>1, <1>2, <1>3

\* The first delivery held is submitted: none of those ahead of it waits.
LEMMA AheadOfSubmitted ==
  ASSUME QueueInv, OrderInv, NEW e \in Deliveries, Submit(e),
         \A c \in Deliveries : Waits(c)' => Waits(c)
  PROVE  Ahead'
<1>1. /\ e \in FirstOf(held) /\ held[e] > 0 /\ held' = held
      /\ submitted' = [submitted EXCEPT ![e] = @ + 1]
  BY FirstHas DEF Submit
<1>2. ASSUME NEW d \in Deliveries, Waits(d)
      PROVE  ~(d < e)
  <2> SUFFICES ASSUME d < e
               PROVE  FALSE
    OBVIOUS
  <2>1. held[d] > 0
    BY <1>1, <1>2 DEF OrderInv, Ahead
  <2> QED
    BY <1>1, <2>1 DEF FirstOf, Files
<1> SUFFICES ASSUME NEW d \in Deliveries, NEW f \in Deliveries, Waits(d)', d < f
             PROVE  submitted'[f] = 0 /\ (held'[f] > 0 => held'[d] > 0)
  BY DEF Ahead
<1>3. submitted[f] = 0 /\ (held[f] > 0 => held[d] > 0)
  BY DEF OrderInv, Ahead
<1>4. submitted'[f] = submitted[f]
  BY <1>1, <1>2 DEF QueueInv, TypeOK
<1> QED
  BY <1>1, <1>3, <1>4

LEMMA AheadNext ==
  ASSUME QueueInv, QueueInv', OrderInv, Next
  PROVE  Ahead'
<1>0. /\ held \in [Deliveries -> 0..MaxAttempts]
      /\ Ahead
  BY DEF QueueInv, TypeOK, OrderInv
<1>a. ASSUME ~(\E d \in Deliveries : Enqueue(d))
      PROVE  \A c \in Deliveries : Waits(c)' => Waits(c)
  BY <1>a, WaitsBefore
<1>1. ASSUME NEW d \in Deliveries, Enqueue(d)
      PROVE  Ahead'
  <2>1. ASSUME NEW c \in Deliveries, Enqueue(c)
        PROVE  c = d
    BY <1>1, <2>1 DEF Enqueue, Queue
  <2>2. \A c \in Deliveries : Waits(c)' => Waits(c) \/ c = d
    BY <2>1, WaitsBefore
  <2> QED
    BY <1>1, <2>2, AheadOfQueued
<1> SUFFICES ASSUME ~(\E d \in Deliveries : Enqueue(d))
             PROVE  Ahead'
  BY <1>1
<1>b. \A c \in Deliveries : Waits(c)' => Waits(c)
  BY <1>a
<1>2. ASSUME submitted' = submitted, held' = held
      PROVE  Ahead'
  BY <1>0, <1>b, <1>2, AheadKept
<1>3. ASSUME NEW t \in Triggers, Manage(t)
      PROVE  Ahead'
  BY <1>2, <1>3 DEF Manage, Create, Enable, Delete, DeleteOnly, historyVars
<1>4. ASSUME NEW e \in Deliveries, EnqueueDies(e) \/ Recover(e) \/ EndsTurn(e) \/ Trip(e)
      PROVE  Ahead'
  BY <1>2, <1>4 DEF EnqueueDies, Queue, Recover, EndsTurn, EndTurn, Trip, historyVars
<1>5. ASSUME NEW e \in Deliveries, Claim(e)
      PROVE  Ahead'
  BY <1>b, <1>5, AheadOfClaimed
<1>6. ASSUME NEW e \in Deliveries, Submit(e)
      PROVE  Ahead'
  BY <1>b, <1>6, AheadOfSubmitted
<1>7. ASSUME NEW e \in Deliveries, Drop(e) \/ Finish(e)
      PROVE  Ahead'
  <2>1. submitted' = submitted /\ held' = [held EXCEPT ![e] = 0] /\ ~Waits(e)'
    BY <1>7 DEF Drop, Finish, Complete, Waits
  <2> QED
    BY <1>0, <1>b, <2>1, AheadKept
<1>8. ASSUME NEW e \in Deliveries, Retry(e)
      PROVE  Ahead'
  <2>1. submitted' = submitted /\ tripped' = tripped /\ e \in FirstOf(held) /\ pc = "retry"
    BY <1>8 DEF Retry, historyVars
  <2>2. CASE held' = held
    BY <1>2, <2>1, <2>2
  <2>3. CASE held' = [held EXCEPT ![e] = 0]
    <3>1. submitted[e] > 0 \/ e \in tripped
      BY <2>1 DEF OrderInv, Begun
    <3>2. ~Waits(e)'
      BY <2>1, <3>1 DEF Waits
    <3> QED
      BY <1>0, <1>b, <2>1, <2>3, <3>2, AheadKept
  <2> QED
    BY <1>8, <2>2, <2>3 DEF Retry
<1>9. ASSUME NEW e \in Deliveries, Stop(e)
      PROVE  Ahead'
  <2>1. submitted' = submitted /\ (held' = held \/ held' = None)
    BY <1>9 DEF Stop, historyVars
  <2> QED
    BY <1>0, <1>b, <2>1, AheadKept DEF None
<1>10. CASE Start \/ Recovered \/ Poll \/ Claimed \/ Done \/ LoseTurn \/ Cancel
  BY <1>2, <1>10 DEF Start, Recovered, Poll, Claimed, Done, LoseTurn, Cancel, historyVars
<1>11. CASE Crash
  <2>1. submitted' = submitted /\ held' = None
    BY <1>11 DEF Crash, historyVars
  <2> QED
    BY <1>0, <1>b, <2>1, AheadKept DEF None
<1> QED
  BY <1>3, <1>4, <1>5, <1>6, <1>7, <1>8, <1>9, <1>10, <1>11 DEF Next, Work

LEMMA NumberedNext ==
  ASSUME QueueInv, Numbered, Next
  PROVE  Numbered'
<1>1. ASSUME NEW d \in Deliveries, Enqueue(d) \/ EnqueueDies(d)
      PROVE  Numbered'
  BY <1>1 DEF Enqueue, EnqueueDies, Queue, Numbered
<1>2. CASE used' = used
  BY <1>2 DEF Numbered
<1> QED
  BY <1>1, <1>2
     DEF Next, Manage, Create, Enable, Delete, DeleteOnly, Work, Recover, Claim, Drop, Submit,
         Finish, Complete, Retry, Stop, EndsTurn, EndTurn, Trip, Start, Recovered, Poll, Claimed,
         Done, LoseTurn, Cancel, Crash

LEMMA RecoveryNext ==
  ASSUME QueueInv, Recovery, Next
  PROVE  Recovery'
<1>0. /\ held \in [Deliveries -> 0..MaxAttempts]
      /\ processing \in [Deliveries -> 0..MaxAttempts]
      /\ inbox \in [Deliveries -> 0..MaxAttempts]
  BY DEF QueueInv, TypeOK
<1>1. ASSUME pc' \notin {"down", "recover"} => pc \notin {"down", "recover"}, held' = held,
             \A d \in Deliveries : processing'[d] \in {0, processing[d]}
      PROVE  Recovery'
  BY <1>0, <1>1 DEF Recovery
<1>2. ASSUME NEW t \in Triggers, Manage(t)
      PROVE  Recovery'
  <2>1. \A d \in Deliveries : processing'[d] \in {0, processing[d]}
    BY <1>2 DEF Manage, Create, Enable, Delete, DeleteOnly, fileVars
  <2> QED
    BY <1>1, <1>2, <2>1 DEF Manage, Create, Enable, Delete, DeleteOnly
<1>3. ASSUME NEW e \in Deliveries,
             Enqueue(e) \/ EnqueueDies(e) \/ Submit(e) \/ EndsTurn(e) \/ Trip(e)
      PROVE  Recovery'
  BY <1>1, <1>3 DEF Enqueue, EnqueueDies, Queue, Submit, EndsTurn, EndTurn, Trip, fileVars
<1>4. ASSUME NEW e \in Deliveries, Recover(e) \/ Stop(e)
      PROVE  Recovery'
  <2>1. CASE pc' \in {"down", "recover"}
    BY <2>1 DEF Recovery
  <2>2. CASE pc' \notin {"down", "recover"}
    <3>1. Stop(e) /\ pc' = pc /\ held' = held /\ processing' = processing /\ pc = "stop"
      BY <1>4, <2>2 DEF Recover, Stop, Rewrite
    <3> QED
      BY <1>1, <3>1
  <2> QED
    BY <2>1, <2>2
<1>5. ASSUME NEW e \in Deliveries, Claim(e)
      PROVE  Recovery'
  <2>1. /\ processing' = [processing EXCEPT ![e] = inbox[e]] /\ held' = [held EXCEPT ![e] = inbox[e]]
        /\ pc = "claim"
    BY <1>5 DEF Claim
  <2> QED
    BY <1>0, <2>1 DEF Recovery
<1>6. ASSUME NEW e \in Deliveries, Drop(e) \/ Finish(e)
      PROVE  Recovery'
  <2>1. /\ processing' = [processing EXCEPT ![e] = 0] /\ held' = [held EXCEPT ![e] = 0]
        /\ pc \notin {"down", "recover"}
    BY <1>6 DEF Drop, Finish, Complete, Completed
  <2> QED
    BY <1>0, <2>1 DEF Recovery
<1>7. ASSUME NEW e \in Deliveries, Retry(e)
      PROVE  Recovery'
  <2>1. CASE processing' = processing /\ pc' = pc /\ held' = held
    BY <1>1, <2>1
  <2>2. CASE processing' = [processing EXCEPT ![e] = 0] /\ held' = [held EXCEPT ![e] = 0]
             /\ pc = "retry"
    BY <1>0, <2>2 DEF Recovery
  <2> QED
    BY <1>7, <2>1, <2>2 DEF Retry, Rewrite, Unlink
<1>8. CASE Start \/ Crash
  BY <1>8 DEF Start, Crash, Recovery
<1>9. CASE Recovered
  BY <1>0, <1>9 DEF Recovered, Recovery, Files, fileVars
<1>10. CASE Poll \/ Claimed \/ Done \/ LoseTurn \/ Cancel
  BY <1>1, <1>10 DEF Poll, Claimed, Done, LoseTurn, Cancel, fileVars
<1> QED
  BY <1>2, <1>3, <1>4, <1>5, <1>6, <1>7, <1>8, <1>9, <1>10 DEF Next, Work

LEMMA BegunNext ==
  ASSUME QueueInv, Begun, Next
  PROVE  Begun'
<1> DEFINE Turning(place) == place \in {"turn", "hung", "ran", "erred", "retry", "stop"}
<1>0. submitted \in [Deliveries -> Nat]
  BY DEF QueueInv, TypeOK
<1>1. ASSUME Turning(pc') => Turning(pc), held' = held, submitted' = submitted,
             tripped \subseteq tripped'
      PROVE  Begun'
  <2>1. FirstOf(held)' = FirstOf(held)
    BY <1>1 DEF FirstOf, Files
  <2> QED
    BY <1>1, <2>1 DEF Begun
<1>2. ASSUME NEW t \in Triggers, Manage(t)
      PROVE  Begun'
  BY <1>1, <1>2 DEF Manage, Create, Enable, Delete, DeleteOnly, historyVars
<1>3. ASSUME NEW e \in Deliveries,
             Enqueue(e) \/ EnqueueDies(e) \/ Recover(e) \/ EndsTurn(e)
      PROVE  Begun'
  BY <1>1, <1>3 DEF Enqueue, EnqueueDies, Queue, Recover, EndsTurn, EndTurn, historyVars
<1>4. ASSUME NEW e \in Deliveries, Claim(e) \/ Drop(e) \/ Finish(e)
      PROVE  Begun'
  BY <1>4 DEF Claim, Drop, Finish, Complete, Begun
<1>5. ASSUME NEW e \in Deliveries, Submit(e) \/ Trip(e)
      PROVE  Begun'
  <2>1. /\ e \in FirstOf(held) /\ held' = held
        /\ submitted'[e] > 0 \/ e \in tripped'
    BY <1>0, <1>5 DEF Submit, Trip
  <2>2. FirstOf(held)' = FirstOf(held)
    BY <2>1 DEF FirstOf, Files
  <2>3. ASSUME NEW d \in FirstOf(held)
        PROVE  d = e
    BY <2>1, OneFirst
  <2> QED
    BY <2>1, <2>2, <2>3 DEF Begun
<1>6. ASSUME NEW e \in Deliveries, Retry(e) \/ Stop(e)
      PROVE  Begun'
  <2>1. CASE pc' = pc /\ held' = held
    BY <1>1, <1>6, <2>1 DEF Retry, Stop, historyVars
  <2>2. CASE pc' \in {"take", "down"}
    BY <2>2 DEF Begun
  <2> QED
    BY <1>6, <2>1, <2>2 DEF Retry, Stop
<1>7. CASE Start \/ Recovered \/ Poll \/ Claimed \/ Done \/ Crash
  BY <1>7 DEF Start, Recovered, Poll, Claimed, Done, Crash, Begun
<1>8. CASE LoseTurn \/ Cancel
  BY <1>1, <1>8 DEF LoseTurn, Cancel, historyVars
<1> QED
  BY <1>2, <1>3, <1>4, <1>5, <1>6, <1>7, <1>8 DEF Next, Work

LEMMA InitGivesOrder == Init => OrderInv
<1> SUFFICES ASSUME Init
             PROVE  OrderInv
  OBVIOUS
<1> QED
  BY DEF Init, OrderInv, Numbered, Recovery, Begun, Ahead, Waits

LEMMA NextKeepsOrder == QueueInv /\ QueueInv' /\ OrderInv /\ [Next]_vars => OrderInv'
<1> SUFFICES ASSUME QueueInv, QueueInv', OrderInv, [Next]_vars
             PROVE  OrderInv'
  OBVIOUS
<1>1. CASE Next
  BY <1>1, NumberedNext, RecoveryNext, BegunNext, AheadNext DEF OrderInv
<1>2. CASE UNCHANGED vars
  <2>1. FirstOf(held)' = FirstOf(held)
    BY <1>2 DEF vars, FirstOf, Files
  <2>2. \A d \in Deliveries : Waits(d)' <=> Waits(d)
    BY <1>2 DEF vars, fileVars, historyVars, Waits
  <2> QED
    BY <1>2, <2>1, <2>2
       DEF vars, fileVars, historyVars, OrderInv, Numbered, Recovery, Begun, Ahead
<1> QED
  BY <1>1, <1>2

LEMMA OrderInvHolds == Spec => []OrderInv
<1>1. Init => OrderInv
  BY InitGivesOrder
<1>2. QueueInv /\ QueueInv' /\ OrderInv /\ [Next]_vars => OrderInv'
  BY NextKeepsOrder
<1> QED
  BY <1>1, <1>2, QueueInvHolds, PTL DEF Spec

\* Batches, retries, recovery and restarts keep the order of the deliveries: one
\* is submitted before an earlier one only if that one met a failed write, was
\* given up or completed, or its trigger is deleted.
THEOREM OrderIsKept == Spec => []InOrder
<1>1. ASSUME QueueInv, OrderInv, NEW d \in accepted, NEW e \in Deliveries,
             d < e, submitted[e] > 0, submitted[d] = 0
      PROVE  d \in settled \cup tripped \cup failed \/ status[TriggerOf[d]] = "deleted"
  <2>1. d \in Deliveries
    BY <1>1 DEF QueueInv, TypeOK
  <2>2. Waits(d) => submitted[e] = 0
    BY <1>1, <2>1 DEF OrderInv, Ahead
  <2> QED
    BY <1>1, <2>2 DEF Waits
<1>2. QueueInv /\ OrderInv => InOrder
  BY <1>1 DEF InOrder
<1> QED
  BY <1>2, QueueInvHolds, OrderInvHolds, PTL

-----------------------------------------------------------------------------
\* A delivery that is done with is not taken again

\* A delivery that is done with has no file that the worker would take again;
\* two files of one delivery are the two ends of a move; and the worker holds
\* what is in processing, unless it was deleted there.
FilesInv(d) ==
  /\ d \in settled => inbox[d] = 0 /\ processing[d] = 0 /\ held[d] = 0
  /\ d \in failed =>
       /\ inbox[d] = 0
       /\ processing[d] > 0 => Spent(processing[d])
       /\ held[d] > 0 => moved /\ pc \in {"retry", "stop"} /\ First(d)
  /\ inbox[d] > 0 /\ processing[d] > 0 => inbox[d] = processing[d] + 1
  /\ held[d] > 0 => processing[d] = held[d] \/ status[TriggerOf[d]] = "deleted"

EndsInv == \A d \in Deliveries : FilesInv(d)

LEMMA MovingPlaces ==
  ASSUME QueueInv
  PROVE  moved => pc \in {"recover", "retry", "stop"}
  BY DEF QueueInv, Kept, MoveInv

LEMMA InitGivesEnds == Init => EndsInv
  BY DEF Init, None, EndsInv, FilesInv

\* What the actions of the worker have in common for a delivery whose files they
\* leave alone.
LEMMA FilesKept ==
  ASSUME QueueInv, NEW d \in Deliveries, FilesInv(d), ~moved,
         inbox'[d] = inbox[d], processing'[d] = processing[d], held'[d] \in {0, held[d]},
         d \in settled' => d \in settled,
         d \in failed' => d \in failed,
         status' = status
  PROVE  FilesInv(d)'
<1>1. held[d] \in Nat /\ processing[d] \in Nat /\ inbox[d] \in Nat
  BY DeliveryTypeOK DEF QueueInv
<1>2. d \in failed => held[d] = 0
  BY <1>1 DEF FilesInv
<1> QED
  BY <1>1, <1>2 DEF FilesInv, Spent

LEMMA FilesOfManage ==
  ASSUME QueueInv, NEW t \in Triggers, Manage(t), NEW d \in Deliveries, FilesInv(d)
  PROVE  FilesInv(d)'
<1>1. /\ UNCHANGED <<pc, held, moved>> /\ settled' = settled
      /\ d \in failed' => d \in failed
  BY DEF Manage, Create, Enable, Delete, DeleteOnly, fileVars, historyVars
<1>2. status[TriggerOf[d]] = "deleted" => status'[TriggerOf[d]] = "deleted"
  BY DEF Manage, Create, Enable, Delete, DeleteOnly, QueueInv, TypeOK
<1>3. \/ inbox'[d] = inbox[d] /\ processing'[d] = processing[d]
      \/ inbox'[d] = 0 /\ processing'[d] = 0 /\ status'[TriggerOf[d]] = "deleted"
  BY DEF Manage, Create, Enable, Delete, DeleteOnly, fileVars, QueueInv, TypeOK
<1>4. First(d)' <=> First(d)
  BY <1>1 DEF First, FirstOf, Files
<1> QED
  BY <1>1, <1>2, <1>3, <1>4 DEF FilesInv, Spent

LEMMA FilesOfQueue ==
  ASSUME QueueInv, NEW e \in Deliveries, Enqueue(e) \/ EnqueueDies(e),
         NEW d \in Deliveries, FilesInv(d)
  PROVE  FilesInv(d)'
<1>1. /\ UNCHANGED <<status, processing, failed, pc, held, moved, settled>>
      /\ inbox' \in {inbox, [inbox EXCEPT ![e] = 1]} /\ e \notin used
  BY DEF Enqueue, EnqueueDies, Queue
<1>2. First(d)' <=> First(d)
  BY <1>1 DEF First, FirstOf, Files
<1>3. CASE d = e
  <2>1. processing[d] = 0 /\ held[d] = 0 /\ d \notin settled /\ d \notin failed
    BY <1>1, <1>3 DEF QueueInv, TypeOK, Kept, DeliveryInv, Unused
  <2> QED
    BY <1>1, <2>1 DEF FilesInv
<1>4. CASE d # e
  <2>1. inbox'[d] = inbox[d]
    BY <1>1, <1>4 DEF QueueInv, TypeOK
  <2> QED
    BY <1>1, <1>2, <2>1 DEF FilesInv, Spent
<1> QED
  BY <1>3, <1>4

\* A file is written to its new place.
LEMMA FilesOfRewrite ==
  ASSUME QueueInv, EndsInv, NEW e \in Deliveries, NEW n \in 1..MaxAttempts, Rewrite(e, n),
         processing[e] \in {0, n},
         UNCHANGED <<status, pc, held, settled>>,
         \/ pc = "recover" /\ processing[e] = n
         \/ pc \in {"retry", "stop"} /\ First(e) /\ held[e] = n,
         NEW d \in Deliveries
  PROVE  FilesInv(d)'
<1>0. /\ FilesInv(d) /\ FilesInv(e) /\ HeldInv(d) /\ HeldInv(e)
      /\ held[d] \in Nat /\ processing[d] \in Nat /\ inbox[d] \in 0..MaxAttempts
      /\ inbox \in [Deliveries -> 0..MaxAttempts] /\ MaxAttempts \in Nat
  BY DeliveryTypeOK DEF EndsInv, QueueInv, Kept, DeliveryInv, TypeOK
<1>1. ~moved /\ moved' /\ processing' = processing
  BY DEF Rewrite
<1>2. First(d)' <=> First(d)
  BY DEF First, FirstOf, Files
<1>3. CASE d # e
  <2>1. inbox'[d] = inbox[d] /\ (d \in failed' => d \in failed)
    BY <1>0, <1>3 DEF Rewrite
  <2> QED
    BY <1>0, <1>1, <2>1, FilesKept
<1>4. CASE d = e
  <2>1. d \notin settled
    BY <1>0, <1>4 DEF FilesInv
  <2>2. pc = "recover" => held[d] = 0
    BY <1>0 DEF HeldInv
  <2>3. CASE Spent(n)
    <3>1. inbox' = inbox /\ failed' = failed \cup {d}
      BY <1>4, <2>3 DEF Rewrite
    <3>2. inbox[d] = 0
      BY <1>0, <1>1, <1>4, <2>2, <2>3 DEF FilesInv, HeldInv, Spent
    <3>3. processing'[d] > 0 => Spent(processing'[d])
      BY <1>1, <1>4, <2>3 DEF Spent
    <3>4. held'[d] > 0 => moved' /\ pc' \in {"retry", "stop"} /\ First(d)'
      BY <1>1, <1>2, <1>4, <2>2
    <3> QED
      BY <1>0, <1>1, <2>1, <3>1, <3>2, <3>3, <3>4 DEF FilesInv, Spent
  <2>4. CASE ~Spent(n)
    <3>1. inbox'[d] = n + 1 /\ failed' = failed
      BY <1>0, <1>4, <2>4 DEF Rewrite
    <3>2. d \notin failed
      BY <1>0, <1>1, <1>4, <2>4 DEF FilesInv
    <3>3. inbox'[d] > 0 /\ processing'[d] > 0 => inbox'[d] = processing'[d] + 1
      BY <1>1, <1>4, <3>1
    <3> QED
      BY <1>0, <1>1, <2>1, <3>1, <3>2, <3>3 DEF FilesInv
  <2> QED
    BY <2>3, <2>4
<1> QED
  BY <1>3, <1>4

\* ... and removed from the old one.
LEMMA FilesOfUnlink ==
  ASSUME QueueInv, EndsInv, NEW e \in Deliveries, Unlink(e),
         UNCHANGED <<status, settled>>,
         \/ pc = "recover" /\ held' = held
         \/ First(e) /\ held' \in {None, [held EXCEPT ![e] = 0]},
         NEW d \in Deliveries
  PROVE  FilesInv(d)'
<1>0. /\ FilesInv(d) /\ HeldInv(d)
      /\ held[d] \in Nat /\ processing[d] \in Nat /\ inbox[d] \in Nat
      /\ processing \in [Deliveries -> 0..MaxAttempts] /\ held \in [Deliveries -> 0..MaxAttempts]
  BY DeliveryTypeOK DEF EndsInv, QueueInv, Kept, DeliveryInv, TypeOK
<1>1. inbox' = inbox /\ failed' = failed /\ processing' = [processing EXCEPT ![e] = 0]
  BY DEF Unlink
<1>2. pc = "recover" => held[d] = 0
  BY <1>0 DEF HeldInv
<1>3. held'[d] \in {0, held[d]} /\ (d = e => held'[d] = 0)
  BY <1>0, <1>2 DEF None
<1>4. d \in failed => held'[d] = 0
  <2>1. CASE d = e
    BY <1>3, <2>1
  <2>2. CASE d # e
    <3>1. ~First(d) \/ pc = "recover"
      BY <2>2, OneFirst DEF First
    <3> QED
      BY <1>0, <1>2, <1>3, <3>1 DEF FilesInv
  <2> QED
    BY <2>1, <2>2
<1>5. processing'[d] \in {0, processing[d]} /\ (d # e => processing'[d] = processing[d])
  BY <1>0, <1>1
<1> QED
  BY <1>0, <1>1, <1>3, <1>4, <1>5 DEF FilesInv, Spent

LEMMA FilesOfWork ==
  ASSUME QueueInv, EndsInv, NEW e \in Deliveries, Work(e) \/ EndsTurn(e) \/ Trip(e),
         NEW d \in Deliveries
  PROVE  FilesInv(d)'
<1>0. /\ FilesInv(d) /\ HeldInv(e) /\ FilesInv(e)
      /\ held[e] \in 0..MaxAttempts /\ processing[e] \in 0..MaxAttempts
      /\ inbox[e] \in 0..MaxAttempts
      /\ MaxAttempts \in Nat
      /\ inbox \in [Deliveries -> 0..MaxAttempts]
      /\ processing \in [Deliveries -> 0..MaxAttempts]
      /\ held \in [Deliveries -> 0..MaxAttempts]
  BY DeliveryTypeOK DEF EndsInv, QueueInv, Kept, DeliveryInv, TypeOK
<1>1. CASE Recover(e)
  <2>1. /\ pc = "recover" /\ processing[e] > 0
        /\ UNCHANGED <<status, pc, held, settled>>
    BY <1>1, FirstHas DEF Recover, historyVars
  <2>2. CASE Rewrite(e, processing[e])
    BY <1>0, <2>1, <2>2, FilesOfRewrite
  <2>3. CASE Unlink(e)
    BY <2>1, <2>3, FilesOfUnlink
  <2> QED
    BY <1>1, <2>2, <2>3 DEF Recover
<1>2. CASE Retry(e) \/ Stop(e)
  <2>1. /\ pc \in {"retry", "stop"} /\ First(e) /\ held[e] > 0
        /\ UNCHANGED <<status, settled>>
    BY <1>2, FirstHas DEF Retry, Stop, First, historyVars
  <2>2. CASE Rewrite(e, held[e]) /\ UNCHANGED <<pc, held>>
    <3>1. processing[e] \in {0, held[e]}
      BY <1>0, <2>1 DEF HeldInv
    <3> QED
      BY <1>0, <2>1, <2>2, <3>1, FilesOfRewrite
  <2>3. CASE Unlink(e) /\ held' \in {None, [held EXCEPT ![e] = 0]}
    BY <2>1, <2>3, FilesOfUnlink
  <2> QED
    BY <1>2, <2>2, <2>3 DEF Retry, Stop
<1>3. CASE Claim(e)
  <2>1. /\ ~moved /\ UNCHANGED <<status, settled, failed>> /\ inbox[e] > 0
        /\ inbox' = [inbox EXCEPT ![e] = 0]
        /\ processing' = [processing EXCEPT ![e] = inbox[e]]
        /\ held' = [held EXCEPT ![e] = inbox[e]]
    BY <1>3, FirstHas, MovingPlaces DEF Claim, historyVars
  <2>2. CASE d # e
    BY <1>0, <2>1, <2>2, FilesKept
  <2>3. CASE d = e
    BY <1>0, <2>1, <2>3 DEF FilesInv
  <2> QED
    BY <2>2, <2>3
<1>4. CASE Drop(e) \/ Finish(e)
  <2>1. /\ pc \in {"take", "ran", "erred"} /\ First(e) /\ held[e] > 0 /\ Complete(e)
    BY <1>4, FirstHas DEF Drop, Finish, Completed, First
  <2>2. /\ ~moved /\ UNCHANGED <<status, inbox, failed>> /\ settled' = settled \cup {e}
        /\ processing' = [processing EXCEPT ![e] = 0] /\ held' = [held EXCEPT ![e] = 0]
    BY <2>1, MovingPlaces DEF Complete
  <2>3. CASE d # e
    BY <1>0, <2>2, <2>3, FilesKept
  <2>4. CASE d = e
    <3>1. inbox[d] = 0
      BY <1>0, <2>1, <2>2, <2>4 DEF HeldInv
    <3> QED
      BY <1>0, <2>2, <2>4, <3>1 DEF FilesInv
  <2> QED
    BY <2>3, <2>4
<1>5. CASE Submit(e) \/ EndsTurn(e) \/ Trip(e)
  <2>1. UNCHANGED <<status, inbox, processing, held, settled, failed>> /\ pc \in {"take", "turn", "ran"}
    BY <1>5 DEF Submit, EndsTurn, EndTurn, Trip, fileVars
  <2> QED
    BY <1>0, <2>1, FilesKept, MovingPlaces
<1> QED
  BY <1>1, <1>2, <1>3, <1>4, <1>5 DEF Work

LEMMA NextKeepsEnds == QueueInv /\ EndsInv /\ [Next]_vars => EndsInv'
<1> SUFFICES ASSUME QueueInv, EndsInv, [Next]_vars, NEW d \in Deliveries
             PROVE  FilesInv(d)'
  BY DEF EndsInv
<1>0. /\ FilesInv(d) /\ HeldInv(d) /\ held[d] \in Nat
      /\ processing[d] \in Nat /\ inbox[d] \in Nat
  BY DeliveryTypeOK DEF EndsInv, QueueInv, Kept, DeliveryInv
<1>1. ASSUME NEW t \in Triggers, Manage(t)
      PROVE  FilesInv(d)'
  BY <1>0, <1>1, FilesOfManage
<1>2. ASSUME NEW e \in Deliveries, Enqueue(e) \/ EnqueueDies(e)
      PROVE  FilesInv(d)'
  BY <1>0, <1>2, FilesOfQueue
<1>3. ASSUME NEW e \in Deliveries, Work(e) \/ EndsTurn(e) \/ Trip(e)
      PROVE  FilesInv(d)'
  BY <1>3, FilesOfWork
<1>4. CASE Start \/ Poll \/ Claimed \/ Done \/ LoseTurn \/ Cancel
  <2>1. /\ UNCHANGED <<status, inbox, processing, held, settled, failed>>
        /\ pc \in {"down", "poll", "claim", "take", "turn", "hung"}
    BY <1>4 DEF Start, Poll, Claimed, Done, LoseTurn, Cancel, fileVars, historyVars
  <2> QED
    BY <1>0, <2>1, FilesKept, MovingPlaces
<1>5. CASE Recovered
  <2>1. /\ UNCHANGED <<status, inbox, processing, held, settled, failed>> /\ pc = "recover"
    BY <1>5 DEF Recovered, fileVars, historyVars
  <2>2. held[d] = 0
    BY <1>0, <2>1 DEF HeldInv
  <2> QED
    BY <1>0, <2>1, <2>2 DEF FilesInv, Spent
<1>6. CASE Crash
  <2>1. /\ UNCHANGED <<status, inbox, processing, settled, failed>> /\ held'[d] = 0
    BY <1>6 DEF Crash, None, fileVars, historyVars
  <2> QED
    BY <1>0, <2>1 DEF FilesInv, Spent
<1>7. CASE UNCHANGED vars
  <2>1. First(d)' <=> First(d)
    BY <1>7 DEF vars, First, FirstOf, Files
  <2> QED
    BY <1>0, <1>7, <2>1 DEF FilesInv, Spent, vars, fileVars, historyVars
<1> QED
  BY <1>1, <1>2, <1>3, <1>4, <1>5, <1>6, <1>7 DEF Next

LEMMA EndsInvHolds == Spec => []EndsInv
<1>1. Init => EndsInv
  BY InitGivesEnds
<1>2. QueueInv /\ EndsInv /\ [Next]_vars => EndsInv'
  BY NextKeepsEnds
<1> QED
  BY <1>1, <1>2, QueueInvHolds, PTL DEF Spec

-----------------------------------------------------------------------------
\* Each step is a step of DeliveryQueue, or changes nothing of it

Closed(d) == d \in settled \cup failed \/ status[TriggerOf[d]] = "deleted"
InTurn(d) == pc \in {"turn", "hung"} /\ First(d)
Filed(d) == inbox[d] > 0 \/ processing[d] > 0

QueueStep == [Queued!Next]_<<Phase, submitted>>

LEMMA PhaseIs ==
  ASSUME NEW d \in Deliveries
  PROVE  /\ Phase[d] = IF Closed(d) THEN "closed"
                       ELSE IF InTurn(d) THEN "running"
                       ELSE IF Filed(d) THEN "waiting" ELSE "out"
         /\ Phase'[d] = IF Closed(d)' THEN "closed"
                        ELSE IF InTurn(d)' THEN "running"
                        ELSE IF Filed(d)' THEN "waiting" ELSE "out"
  BY DEF Phase, Closed, InTurn, Filed, First

LEMMA PhaseMaps ==
  /\ DOMAIN Phase = Deliveries
  /\ Phase' = [d \in Deliveries |-> Phase'[d]]
<1>1. DOMAIN Phase = Deliveries
  BY DEF Phase
<1>2. Phase' = [d \in Deliveries |-> Phase'[d]]
  BY DEF Phase
<1> QED
  BY <1>1, <1>2

\* A step that at most closes deliveries.
LEMMA QuietStep ==
  ASSUME submitted' = submitted,
         \A d \in Deliveries :
           \/ Closed(d)'
           \/ /\ ~Closed(d) /\ (InTurn(d)' <=> InTurn(d)) /\ (Filed(d)' <=> Filed(d))
  PROVE  QueueStep
<1> DEFINE set == {d \in Deliveries : Closed(d)'}
<1>1. ASSUME NEW d \in Deliveries
      PROVE  Phase'[d] = IF d \in set THEN "closed" ELSE Phase[d]
  BY <1>1, PhaseIs
<1>2. Phase' = [d \in Deliveries |-> IF d \in set THEN "closed" ELSE Phase[d]]
  BY <1>1, PhaseMaps, Zenon
<1>3. Queued!Close(set)
  BY <1>2 DEF Queued!Close
<1>4. set \in SUBSET Deliveries
  OBVIOUS
<1> QED
  BY <1>3, <1>4 DEF QueueStep, Queued!Next

\* The phase of one delivery changes.
LEMMA OnePhase ==
  ASSUME NEW e \in Deliveries, NEW p, Phase'[e] = p,
         \A d \in Deliveries \ {e} : Phase'[d] = Phase[d]
  PROVE  Phase' = [Phase EXCEPT ![e] = p]
<1>1. [Phase EXCEPT ![e] = p] = [d \in Deliveries |-> IF d = e THEN p ELSE Phase[d]]
  BY PhaseMaps
<1>2. \A d \in Deliveries : Phase'[d] = IF d = e THEN p ELSE Phase[d]
  OBVIOUS
<1> QED
  BY <1>1, <1>2, PhaseMaps, Zenon

\* A turn ends, or its process: its delivery waits again, unless its trigger was
\* deleted meanwhile.
LEMMA LeaveStep ==
  ASSUME QueueInv, EndsInv, pc \in {"turn", "hung"}, pc' \notin {"turn", "hung"},
         UNCHANGED <<status, inbox, processing, failed, settled, submitted>>
  PROVE  QueueStep
<1>1. \A d \in Deliveries : /\ Closed(d)' <=> Closed(d)
                            /\ Filed(d)' <=> Filed(d)
                            /\ ~InTurn(d)'
  BY DEF Closed, Filed, InTurn
<1>2. CASE \A d \in Deliveries : InTurn(d) => Closed(d)
  BY <1>1, <1>2, QuietStep
<1>3. ASSUME NEW e \in Deliveries, InTurn(e), ~Closed(e)
      PROVE  QueueStep
  <2>1. held[e] > 0 /\ processing[e] = held[e]
    BY <1>3, FirstHas DEF EndsInv, FilesInv, Closed, InTurn, First
  <2>2. Filed(e)
    BY <2>1 DEF Filed
  <2>3. Phase[e] = "running" /\ Phase'[e] = "waiting"
    BY <1>1, <1>3, <2>2, PhaseIs
  <2>4. \A d \in Deliveries \ {e} : ~InTurn(d)
    BY <1>3, OneFirst DEF InTurn, First
  <2>5. \A d \in Deliveries \ {e} : Phase'[d] = Phase[d]
    BY <1>1, <2>4, PhaseIs
  <2>6. Phase' = [Phase EXCEPT ![e] = "waiting"]
    BY <2>3, <2>5, OnePhase
  <2> QED
    BY <2>3, <2>6 DEF Queued!Leave, Queued!Next, QueueStep
<1> QED
  BY <1>2, <1>3

\* The turn of a delivery begins: its trigger is there, and it is not done with.
LEMMA TryStep ==
  ASSUME QueueInv, EndsInv, NEW e \in Deliveries, Submit(e)
  PROVE  QueueStep
<1>1. /\ pc = "take" /\ pc' = "turn" /\ First(e) /\ held[e] > 0
      /\ Deliverable(e)
      /\ UNCHANGED <<status, inbox, processing, failed, held, settled>>
      /\ submitted' = [submitted EXCEPT ![e] = @ + 1]
  BY FirstHas DEF Submit, First, fileVars
<1>2. /\ FilesInv(e) /\ HeldInv(e) /\ held[e] \in 0..MaxAttempts
      /\ submitted[e] \in Nat /\ MaxAttempts \in Nat
  BY DeliveryTypeOK DEF EndsInv, QueueInv, Kept, DeliveryInv, TypeOK
<1>3. ~Closed(e) /\ Filed(e)
  BY <1>1, <1>2 DEF FilesInv, Closed, Filed, Deliverable
<1>4. submitted[e] < MaxAttempts
  BY <1>1, <1>2 DEF HeldInv
<1>5. /\ \A d \in Deliveries : ~InTurn(d) /\ (Closed(d)' <=> Closed(d)) /\ (Filed(d)' <=> Filed(d))
      /\ \A d \in Deliveries : InTurn(d)' <=> First(d)
  BY <1>1 DEF InTurn, Closed, Filed, First, FirstOf, Files
<1>6. \A d \in Deliveries : Phase[d] # "running"
  BY <1>5, PhaseIs
<1>7. Phase[e] = "waiting" /\ Phase'[e] = "running"
  BY <1>1, <1>3, <1>5, PhaseIs
<1>8. \A d \in Deliveries \ {e} : Phase'[d] = Phase[d]
  BY <1>1, <1>5, OneFirst, PhaseIs DEF First
<1>9. Phase' = [Phase EXCEPT ![e] = "running"]
  BY <1>7, <1>8, OnePhase
<1> QED
  BY <1>1, <1>4, <1>6, <1>7, <1>9 DEF Queued!Try, Queued!Next, QueueStep

\* A new number is queued.
LEMMA ArriveStep ==
  ASSUME QueueInv, NEW e \in Deliveries, Enqueue(e) \/ EnqueueDies(e)
  PROVE  QueueStep
<1>1. /\ UNCHANGED <<status, processing, failed, pc, held, settled, submitted>>
      /\ inbox' \in {inbox, [inbox EXCEPT ![e] = 1]}
      /\ e \notin used /\ status[TriggerOf[e]] = "enabled"
      /\ inbox \in [Deliveries -> 0..MaxAttempts]
  BY DEF Enqueue, EnqueueDies, Queue, QueueInv, TypeOK
<1>2. Unused(e) /\ e \notin settled
  BY <1>1 DEF QueueInv, TypeOK, Kept, DeliveryInv
<1>3. \A d \in Deliveries : (Closed(d)' <=> Closed(d)) /\ (InTurn(d)' <=> InTurn(d))
  BY <1>1 DEF Closed, InTurn, First, FirstOf, Files
<1>4. \A d \in Deliveries \ {e} : Filed(d)' <=> Filed(d)
  BY <1>1 DEF Filed
<1>5. ~Closed(e) /\ ~InTurn(e) /\ ~Filed(e)
  BY <1>1, <1>2, FirstHas DEF Unused, Closed, InTurn, Filed, First
<1>6. CASE Filed(e)'
  <2>1. Phase[e] = "out" /\ Phase'[e] = "waiting"
    BY <1>3, <1>5, <1>6, PhaseIs
  <2>2. \A d \in Deliveries \ {e} : Phase'[d] = Phase[d]
    BY <1>3, <1>4, PhaseIs
  <2>3. Phase' = [Phase EXCEPT ![e] = "waiting"]
    BY <2>1, <2>2, OnePhase
  <2> QED
    BY <1>1, <2>1, <2>3 DEF Queued!Arrive, Queued!Next, QueueStep
<1>7. CASE ~Filed(e)'
  BY <1>1, <1>3, <1>4, <1>5, <1>7, QuietStep
<1> QED
  BY <1>6, <1>7

LEMMA ManageStep ==
  ASSUME QueueInv, NEW t \in Triggers, Manage(t)
  PROVE  QueueStep
<1>1. /\ UNCHANGED <<pc, held>> /\ settled' = settled /\ submitted' = submitted
  BY DEF Manage, Create, Enable, Delete, DeleteOnly, historyVars
<1>2. ASSUME NEW d \in Deliveries
      PROVE  \/ status'[TriggerOf[d]] = "deleted"
             \/ /\ status[TriggerOf[d]] # "deleted"
                /\ inbox'[d] = inbox[d] /\ processing'[d] = processing[d]
                /\ d \in failed' <=> d \in failed
  BY <1>2 DEF Manage, Create, Enable, Delete, DeleteOnly, fileVars, QueueInv, TypeOK
<1>3. \A d \in Deliveries : InTurn(d)' <=> InTurn(d)
  BY <1>1 DEF InTurn, First, FirstOf, Files
<1>4. ASSUME NEW d \in Deliveries
      PROVE  \/ Closed(d)'
             \/ ~Closed(d) /\ (Filed(d)' <=> Filed(d))
  BY <1>1, <1>2 DEF Closed, Filed
<1> QED
  BY <1>1, <1>3, <1>4, QuietStep

\* A move leaves its delivery with a file, or given up.
LEMMA MoveStep ==
  ASSUME QueueInv, NEW e \in Deliveries,
         \/ \E n \in 1..MaxAttempts : Rewrite(e, n) /\ processing[e] \in {0, n}
         \/ Unlink(e) /\ (inbox[e] > 0 \/ e \in failed),
         UNCHANGED <<status, settled, submitted>>, pc \notin {"turn", "hung"}, pc' \notin {"turn", "hung"},
         Filed(e) \/ Closed(e)
  PROVE  QueueStep
<1>0. /\ inbox \in [Deliveries -> 0..MaxAttempts] /\ processing \in [Deliveries -> 0..MaxAttempts]
      /\ inbox[e] \in Nat /\ MaxAttempts \in Nat
  BY DeliveryTypeOK DEF QueueInv, TypeOK
<1>1. \A d \in Deliveries \ {e} : (Filed(d)' <=> Filed(d)) /\ (Closed(d)' <=> Closed(d))
  BY <1>0 DEF Rewrite, Unlink, Filed, Closed
<1>2. Closed(e) => Closed(e)'
  BY DEF Rewrite, Unlink, Closed
<1>3. Filed(e)' \/ Closed(e)'
  BY <1>0 DEF Rewrite, Unlink, Filed, Closed
<1>4. \A d \in Deliveries : ~InTurn(d) /\ ~InTurn(d)'
  BY DEF InTurn
<1>5. ASSUME NEW d \in Deliveries
      PROVE  \/ Closed(d)'
             \/ ~Closed(d) /\ (Filed(d)' <=> Filed(d))
  BY <1>1, <1>2, <1>3
<1> QED
  BY <1>4, <1>5, QuietStep

LEMMA WorkStep ==
  ASSUME QueueInv, EndsInv, NEW e \in Deliveries, Work(e) \/ EndsTurn(e) \/ Trip(e)
  PROVE  QueueStep
<1>0. /\ FilesInv(e) /\ HeldInv(e)
      /\ held[e] \in 0..MaxAttempts /\ processing[e] \in 0..MaxAttempts
      /\ inbox[e] \in 0..MaxAttempts /\ MaxAttempts \in Nat
      /\ inbox \in [Deliveries -> 0..MaxAttempts]
      /\ processing \in [Deliveries -> 0..MaxAttempts]
  BY DeliveryTypeOK DEF EndsInv, QueueInv, Kept, DeliveryInv, TypeOK
<1>1. CASE Submit(e)
  BY <1>1, TryStep
<1>2. CASE EndsTurn(e)
  <2>1. /\ pc \in {"turn", "hung"} /\ pc' \notin {"turn", "hung"}
        /\ UNCHANGED <<status, inbox, processing, failed, settled, submitted>>
    BY <1>2 DEF EndsTurn, EndTurn, fileVars
  <2> QED
    BY <2>1, LeaveStep
<1>3. CASE Trip(e)
  <2>1. /\ pc \notin {"turn", "hung"} /\ pc' \notin {"turn", "hung"}
        /\ UNCHANGED <<status, inbox, processing, failed, settled, submitted>>
    BY <1>3 DEF Trip, fileVars
  <2>2. \A d \in Deliveries : /\ Closed(d)' <=> Closed(d)
                              /\ Filed(d)' <=> Filed(d)
                              /\ ~InTurn(d) /\ ~InTurn(d)'
    BY <2>1 DEF Closed, Filed, InTurn
  <2> QED
    BY <2>1, <2>2, QuietStep
<1>4. CASE Drop(e) \/ Finish(e)
  <2>1. /\ pc \notin {"turn", "hung"} /\ pc' \notin {"turn", "hung"}
        /\ UNCHANGED <<status, inbox, failed, submitted>> /\ settled' = settled \cup {e}
        /\ processing' = [processing EXCEPT ![e] = 0]
    BY <1>4 DEF Drop, Finish, Complete, Completed
  <2>2. \A d \in Deliveries \ {e} : (Closed(d)' <=> Closed(d)) /\ (Filed(d)' <=> Filed(d))
    BY <1>0, <2>1 DEF Closed, Filed
  <2>3. Closed(e)'
    BY <2>1 DEF Closed
  <2>4. \A d \in Deliveries : ~InTurn(d) /\ ~InTurn(d)'
    BY <2>1 DEF InTurn
  <2> QED
    BY <2>1, <2>2, <2>3, <2>4, QuietStep
<1>5. CASE Claim(e)
  <2>1. /\ pc \notin {"turn", "hung"} /\ pc' \notin {"turn", "hung"} /\ inbox[e] > 0
        /\ UNCHANGED <<status, failed, settled, submitted>>
        /\ inbox' = [inbox EXCEPT ![e] = 0]
        /\ processing' = [processing EXCEPT ![e] = inbox[e]]
    BY <1>5, FirstHas DEF Claim, historyVars
  <2>2. \A d \in Deliveries : (Closed(d)' <=> Closed(d)) /\ (Filed(d)' <=> Filed(d))
    BY <1>0, <2>1 DEF Closed, Filed
  <2>3. \A d \in Deliveries : ~InTurn(d) /\ ~InTurn(d)'
    BY <2>1 DEF InTurn
  <2> QED
    BY <2>1, <2>2, <2>3, QuietStep
<1>6. CASE Recover(e)
  <2>1. /\ pc = "recover" /\ pc' = "recover" /\ processing[e] > 0 /\ e \in FirstOf(processing)
        /\ UNCHANGED <<status, settled, submitted>>
    BY <1>6, FirstHas DEF Recover, historyVars
  <2>2. Filed(e)
    BY <2>1 DEF Filed
  <2>3. moved => inbox[e] > 0 \/ e \in failed
    BY <2>1, OneFirst DEF QueueInv, Kept, MoveInv
  <2>4. CASE Rewrite(e, processing[e])
    <3>1. processing[e] \in 1..MaxAttempts
      BY <1>0, <2>1
    <3> QED
      BY <2>1, <2>2, <2>4, <3>1, MoveStep
  <2>5. CASE Unlink(e)
    <3>1. moved
      BY <2>5 DEF Unlink
    <3> QED
      BY <2>1, <2>2, <2>3, <2>5, <3>1, MoveStep
  <2> QED
    BY <1>6, <2>4, <2>5 DEF Recover
<1>7. CASE Retry(e) \/ Stop(e)
  <2>1. /\ pc \in {"retry", "stop"} /\ pc' \notin {"turn", "hung"} /\ e \in FirstOf(held) /\ held[e] > 0
        /\ UNCHANGED <<status, settled, submitted>>
    BY <1>7, FirstHas DEF Retry, Stop, historyVars
  <2>2. Filed(e) \/ Closed(e)
    BY <1>0, <2>1 DEF FilesInv, Filed, Closed
  <2>3. moved => inbox[e] > 0 \/ e \in failed
    BY <2>1, OneFirst DEF QueueInv, Kept, MoveInv
  <2>4. CASE Rewrite(e, held[e])
    <3>1. held[e] \in 1..MaxAttempts /\ processing[e] \in {0, held[e]}
      BY <1>0, <2>1 DEF HeldInv
    <3> QED
      BY <2>1, <2>2, <2>4, <3>1, MoveStep
  <2>5. CASE Unlink(e)
    <3>1. moved
      BY <2>5 DEF Unlink
    <3> QED
      BY <2>1, <2>2, <2>3, <2>5, <3>1, MoveStep
  <2> QED
    BY <1>7, <2>4, <2>5 DEF Retry, Stop
<1> QED
  BY <1>1, <1>2, <1>3, <1>4, <1>5, <1>6, <1>7 DEF Work

LEMMA NextImplements == QueueInv /\ EndsInv /\ [Next]_vars => QueueStep
<1> SUFFICES ASSUME QueueInv, EndsInv, [Next]_vars
             PROVE  QueueStep
  OBVIOUS
<1>1. ASSUME NEW t \in Triggers, Manage(t)
      PROVE  QueueStep
  BY <1>1, ManageStep
<1>2. ASSUME NEW e \in Deliveries, Enqueue(e) \/ EnqueueDies(e)
      PROVE  QueueStep
  BY <1>2, ArriveStep
<1>3. ASSUME NEW e \in Deliveries, Work(e) \/ EndsTurn(e) \/ Trip(e)
      PROVE  QueueStep
  BY <1>3, WorkStep
<1>4. CASE Start \/ Recovered \/ Poll \/ Claimed \/ Done \/ Cancel \/ Crash
  <2>1. /\ UNCHANGED <<status, inbox, processing, failed, settled, submitted>> /\ pc' \notin {"turn", "hung"}
    BY <1>4 DEF Start, Recovered, Poll, Claimed, Done, Cancel, Crash, fileVars, historyVars
  <2>2. CASE pc \in {"turn", "hung"}
    BY <2>1, <2>2, LeaveStep
  <2>3. CASE pc \notin {"turn", "hung"}
    <3>1. \A d \in Deliveries : /\ Closed(d)' <=> Closed(d)
                                /\ Filed(d)' <=> Filed(d)
                                /\ ~InTurn(d) /\ ~InTurn(d)'
      BY <2>1, <2>3 DEF Closed, Filed, InTurn
    <3> QED
      BY <2>1, <3>1, QuietStep
  <2> QED
    BY <2>2, <2>3
<1>5. CASE LoseTurn \/ UNCHANGED vars
  <2>1. /\ UNCHANGED <<status, inbox, processing, failed, held, settled, submitted>>
        /\ pc' \in {"turn", "hung"} <=> pc \in {"turn", "hung"}
    BY <1>5 DEF LoseTurn, vars, fileVars, historyVars
  <2>2. \A d \in Deliveries : /\ Closed(d)' <=> Closed(d)
                              /\ Filed(d)' <=> Filed(d)
                              /\ InTurn(d)' <=> InTurn(d)
    BY <2>1 DEF Closed, Filed, InTurn, First, FirstOf, Files
  <2> QED
    BY <2>1, <2>2, QuietStep
<1> QED
  BY <1>1, <1>2, <1>3, <1>4, <1>5 DEF Next

\* The files, their moves and the worker implement DeliveryQueue, wherever the
\* moves are interrupted: one delivery at a time is in a turn, each is tried at
\* most as often as the limit says, and one that was completed, given up or
\* withdrawn with its trigger is never tried again.
THEOREM TriggersImplementQueue == Spec => ImplementsQueue
<1>1. Init => Queued!Init
  <2> SUFFICES ASSUME Init
               PROVE  Queued!Init
    OBVIOUS
  <2>1. \A d \in Deliveries : Phase[d] = "out"
    BY DEF Init, Phase, None
  <2>2. Phase = [d \in Deliveries |-> "out"]
    BY <2>1 DEF Phase
  <2> QED
    BY <2>2 DEF Init, None, Queued!Init
<1>2. QueueInv /\ EndsInv /\ [Next]_vars => [Queued!Next]_<<Phase, submitted>>
  BY NextImplements DEF QueueStep
<1> QED
  BY <1>1, <1>2, QueueInvHolds, EndsInvHolds, PTL DEF Spec, ImplementsQueue, Queued!Spec
=============================================================================
