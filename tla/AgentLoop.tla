----------------------------- MODULE AgentLoop -----------------------------
(***************************************************************************)
(* The dispatch core of pawbot: the inbound bus, AgentLoop.run(), which    *)
(* routes every inbound message, and the dispatch tasks, which serve them  *)
(* one turn at a time per session.                                         *)
(*                                                                         *)
(* A dispatch task is created for one message and a message has one task   *)
(* at most, so the task is named by its message and pc[m] is both the      *)
(* place of message m and the await at which its task is suspended:        *)
(*                                                                         *)
(*   unsent    nobody has published m yet                                  *)
(*   working   m will be the result of a subagent that is running          *)
(*   bus       in MessageBus.inbound                                       *)
(*   control   run() is handling m inline (/stop, /new, session discard)   *)
(*   deferred  in _deferred_automation_turns[session]                      *)
(*   pending   in _pending_queues[session], to be injected in its turn     *)
(*   created   its task exists and has not taken a step                    *)
(*   lock      its task waits for the session lock                         *)
(*   gate      its task holds the lock and waits for _concurrency_gate     *)
(*   running   its task is in _process_message                             *)
(*                                                                         *)
(* or one of the ends in Settled.  asyncio is single-threaded: what a task *)
(* does between two awaits that suspend it is one action.  Publishing on   *)
(* the bus does not suspend (the queue is unbounded), and neither do the   *)
(* runtime-event handlers that run at the end of a turn.                   *)
(***************************************************************************)
EXTENDS Naturals, Sequences, FiniteSets, Functions, SequencesExt

CONSTANTS
  Messages,     \* every inbound message of a behaviour, each published once
  Sessions,     \* the effective session keys
  KindOf,       \* [Messages -> Kinds]
  SessionOf,    \* [Messages -> Sessions]
  QueueCap,     \* asyncio.Queue(maxsize=20) of a turn's pending queue
  GateSize,     \* PAWBOT_MAX_CONCURRENT_REQUESTS
  None          \* the absence of a message or of a queue

\* user: input for the agent; stop, new: the commands /stop and /new;
\* discard: the runtime control that discards a session; auto: a cron or local
\* trigger turn; result: the notification of a subagent's result.
Kinds == {"user", "stop", "new", "discard", "auto", "result"}

ASSUME AgentLoopAssumption ==
  /\ KindOf \in [Messages -> Kinds]
  /\ SessionOf \in [Messages -> Sessions]
  /\ QueueCap \in Nat \ {0}
  /\ GateSize \in Nat \ {0}
  /\ None \notin Messages \cup Seq(Messages)
  /\ IsFiniteSet(Messages)

VARIABLES
  pc,         \* the place of a message, the await of its task
  bus,        \* MessageBus.inbound
  pending,    \* _pending_queues: a session's queue, or None when unregistered
  deferred,   \* _deferred_automation_turns
  locked,     \* asyncio.Lock._locked of the session locks
  lockQ,      \* the waiters of each session lock, in order
  permits,    \* the value of the semaphore _concurrency_gate
  gateQ,      \* its waiters, in order
  cancelReq,  \* tasks whose cancel() was called and not yet delivered
  control,    \* the message run() is handling inline, or None
  victims,    \* the tasks _cancel_active_tasks joins for it
  tokens,     \* SubagentManager._pending_result_sessions
  waiter,     \* AutomationTurnCoordinator._waiters, and how each ended
  cleared,    \* the /new messages whose session.clear() has run
  revoked     \* history: results outstanding when their session was stopped

vars == <<pc, bus, pending, deferred, locked, lockQ, permits, gateQ, cancelReq,
          control, victims, tokens, waiter, cleared, revoked>>

TaskPcs == {"created", "lock", "gate", "running"}
Settled == {"answered",    \* its turn, or the inline command, completed
            "failed",      \* its turn raised
            "cancelled",   \* its task, or the subagent, was cancelled
            "joined",      \* injected in the running turn of its session
            "dropped",     \* a stale subagent result, rejected
            "discarded"}   \* thrown away by /stop with the pending queue
Pcs == {"unsent", "working", "bus", "control", "deferred", "pending"}
         \cup TaskPcs \cup Settled
Verdicts == {"none", "waiting", "ok", "error", "abandoned"}

OfSession(s) == {m \in Messages : SessionOf[m] = s}
Tasks(s) == {m \in OfSession(s) : pc[m] \in TaskPcs}     \* _active_tasks[s]
Registered(s) == pending[s] # None                        \* s in _pending_queues
Cancelled(m) == m \in cancelReq

\* Variant: a result is trusted once it is on the bus.
AcceptAnything(m) == TRUE

\* SubagentManager.accept_result without consuming the token.
Accepted(m) == KindOf[m] = "result" => m \in tokens

\* Variant: the waiter is told of failures only.
ResolveErrors(m, verdict) ==
  waiter' = IF verdict = "error" THEN [waiter EXCEPT ![m] = verdict] ELSE waiter

\* AutomationTurnCoordinator.complete: the waiter, if one still waits.
Resolve(m, verdict) ==
  waiter' = IF waiter[m] = "waiting" THEN [waiter EXCEPT ![m] = verdict]
                                     ELSE waiter

\* Variant: the end of a turn forgets the deferred turns.
NextNever(s) == <<>>

\* publish_next_deferred_turn: what it publishes, and what it leaves.
NextDeferred(s) == IF deferred[s] = <<>> THEN <<>> ELSE <<Head(deferred[s])>>
LaterDeferred(s) == IF deferred[s] = <<>> THEN <<>> ELSE Tail(deferred[s])

\* The messages a turn leaves in its pending queue.
Leftovers(s) == IF Registered(s) THEN pending[s] ELSE <<>>

\* Variant: what the ending task should publish is lost.
EndTaskQuietly(m, end, sent) ==
  /\ bus' = bus
  /\ pc' = [x \in Messages |-> IF x = m THEN end
                               ELSE IF x \in Range(sent) THEN "bus" ELSE pc[x]]
  /\ cancelReq' = cancelReq \ {m}

\* Task m ends as `end` and publishes the sequence `sent` on the bus.
EndTask(m, end, sent) ==
  /\ bus' = bus \o sent
  /\ pc' = [x \in Messages |-> IF x = m THEN end
                               ELSE IF x \in Range(sent) THEN "bus" ELSE pc[x]]
  /\ cancelReq' = cancelReq \ {m}

Init ==
  /\ pc = [m \in Messages |-> "unsent"]
  /\ bus = <<>>
  /\ pending = [s \in Sessions |-> None]
  /\ deferred = [s \in Sessions |-> <<>>]
  /\ locked = [s \in Sessions |-> FALSE]
  /\ lockQ = [s \in Sessions |-> <<>>]
  /\ permits = GateSize
  /\ gateQ = <<>>
  /\ cancelReq = {}
  /\ control = None
  /\ victims = {}
  /\ tokens = {}
  /\ waiter = [m \in Messages |-> "none"]
  /\ cleared = {}
  /\ revoked = {}

-----------------------------------------------------------------------------
\* The actors that publish on the bus.

lockVars == <<locked, lockQ, permits, gateQ>>
loopVars == <<control, victims, cleared, revoked>>

Enqueue(m) == bus' = Append(bus, m) /\ pc' = [pc EXCEPT ![m] = "bus"]

\* A channel publishes an input, a command or a session discard.
Publish(m) ==
  /\ pc[m] = "unsent"
  /\ KindOf[m] \in {"user", "stop", "new", "discard"}
  /\ Enqueue(m)
  /\ UNCHANGED <<pending, deferred, lockVars, cancelReq, loopVars, tokens, waiter>>

\* AutomationTurnCoordinator.submit, with the loop running.
Submit(m) ==
  /\ pc[m] = "unsent"
  /\ KindOf[m] = "auto"
  /\ Enqueue(m)
  /\ waiter' = [waiter EXCEPT ![m] = "waiting"]
  /\ UNCHANGED <<pending, deferred, lockVars, cancelReq, loopVars, tokens>>

\* The caller of submit() is cancelled: the finally pops its waiter.
GiveUp(m) ==
  /\ waiter[m] = "waiting"
  /\ waiter' = [waiter EXCEPT ![m] = "abandoned"]
  /\ UNCHANGED <<pc, bus, pending, deferred, lockVars, cancelReq, loopVars, tokens>>

\* A turn of the session spawns the subagent that r will be the result of.
Spawn(r) ==
  /\ pc[r] = "unsent"
  /\ KindOf[r] = "result"
  /\ \E m \in OfSession(SessionOf[r]) :
        pc[m] = "running" /\ KindOf[m] # "new" /\ ~Cancelled(m)
  /\ pc' = [pc EXCEPT ![r] = "working"]
  /\ UNCHANGED <<bus, pending, deferred, lockVars, cancelReq, loopVars, tokens, waiter>>

\* SubagentManager._announce_result, by a subagent nobody cancelled.
Announce(r) ==
  /\ pc[r] = "working"
  /\ tokens' = tokens \cup {r}
  /\ Enqueue(r)
  /\ UNCHANGED <<pending, deferred, lockVars, cancelReq, loopVars, waiter>>

-----------------------------------------------------------------------------
\* AgentLoop.run: one inbound message, in the order of the code's tests.

\* The loop is at consume_inbound() and m is the next message.
Consumes(m) == control = None /\ bus # <<>> /\ m = Head(bus)

Consume == bus' = Tail(bus)

\* The first half of _cancel_active_tasks(s): every live task of the session is
\* cancelled, the subagents too, and their unconsumed results are discarded.
CancelSession(s) ==
  /\ cancelReq' = cancelReq \cup Tasks(s)
  /\ tokens' = tokens \ OfSession(s)
  /\ revoked' = revoked \cup
       {r \in OfSession(s) : KindOf[r] = "result" /\
          pc[r] \in {"working", "bus", "pending", "created", "lock", "gate"}}

\* Their subagents end without announcing anything.
SubagentsCancelled(s) ==
  [x \in Messages |-> IF SessionOf[x] = s /\ pc[x] = "working" THEN "cancelled"
                                                              ELSE pc[x]]

\* A result that was cancelled or consumed is not routed at all.
DropStale(m) ==
  /\ Consumes(m) /\ ~Accepted(m)
  /\ Consume
  /\ pc' = [pc EXCEPT ![m] = "dropped"]
  /\ UNCHANGED <<pending, deferred, lockVars, cancelReq, loopVars, tokens, waiter>>

\* /stop and the discard control always, /new when the session has an active
\* turn: run() handles them inline and joins the tasks it cancelled.
BeginControl(m) ==
  LET s == SessionOf[m] IN
  /\ Consumes(m)
  /\ \/ KindOf[m] \in {"stop", "discard"}
     \/ KindOf[m] = "new" /\ Registered(s)
  /\ Consume
  /\ CancelSession(s)
  /\ control' = m
  /\ victims' = Tasks(s)
  /\ pc' = [SubagentsCancelled(s) EXCEPT ![m] = "control"]
  /\ UNCHANGED <<pending, deferred, lockVars, waiter, cleared>>

\* defer_if_active: an automation turn waits for the session to be idle.
Defer(m) ==
  LET s == SessionOf[m] IN
  /\ Consumes(m) /\ KindOf[m] = "auto" /\ Registered(s)
  /\ Consume
  /\ deferred' = [deferred EXCEPT ![s] = Append(@, m)]
  /\ pc' = [pc EXCEPT ![m] = "deferred"]
  /\ UNCHANGED <<pending, lockVars, cancelReq, loopVars, tokens, waiter>>

\* Everything else goes to the active turn of the session ...
Injectable(m) ==
  /\ KindOf[m] \in {"user", "result"} /\ Accepted(m)
  /\ Registered(SessionOf[m])

Inject(m) ==
  LET s == SessionOf[m] IN
  /\ Consumes(m) /\ Injectable(m) /\ Len(pending[s]) < QueueCap
  /\ Consume
  /\ pending' = [pending EXCEPT ![s] = Append(@, m)]
  /\ pc' = [pc EXCEPT ![m] = "pending"]
  /\ UNCHANGED <<deferred, lockVars, cancelReq, loopVars, tokens, waiter>>

\* ... or to a task of its own: no turn is active, or its queue is full.
CreateTask(m) ==
  LET s == SessionOf[m] IN
  /\ Consumes(m) /\ Accepted(m)
  /\ KindOf[m] \in {"user", "result", "auto", "new"}
  /\ \/ ~Registered(s)
     \/ Injectable(m) /\ Len(pending[s]) >= QueueCap
  /\ Consume
  /\ pc' = [pc EXCEPT ![m] = "created"]
  /\ UNCHANGED <<pending, deferred, lockVars, cancelReq, loopVars, tokens, waiter>>

\* Variant: the command does not wait for the tasks it cancelled.
NotJoined == TRUE

\* Every task it cancelled has ended.
Joined == \A t \in victims : pc[t] \notin TaskPcs

\* The inline command goes on.  /stop also pops the session's pending queue and
\* throws away what it holds; /new clears the session.
EndControl ==
  LET m == control
      s == SessionOf[m]
      lost == IF KindOf[m] = "stop" THEN Leftovers(s) ELSE <<>> IN
  /\ control # None
  /\ Joined
  /\ control' = None
  /\ victims' = {}
  /\ tokens' = tokens \ OfSession(s)
  /\ pending' = IF KindOf[m] = "stop" THEN [pending EXCEPT ![s] = None] ELSE pending
  /\ cleared' = IF KindOf[m] = "new" THEN cleared \cup {m} ELSE cleared
  /\ pc' = [x \in Messages |-> IF x = m THEN "answered"
                               ELSE IF x \in Range(lost) THEN "discarded"
                               ELSE pc[x]]
  /\ UNCHANGED <<bus, deferred, lockVars, cancelReq, waiter, revoked>>

RouteOne(m) == \/ DropStale(m) \/ BeginControl(m) \/ Defer(m)
               \/ Inject(m) \/ CreateTask(m)
RunLoop == EndControl \/ \E m \in Messages : RouteOne(m)

-----------------------------------------------------------------------------
\* AgentLoop._dispatch: the task of message m.

\* Its first step, up to the session lock.  asyncio.Lock.acquire() queues its
\* caller; a caller that finds the lock free leaves the empty queue at once.
Start(m) ==
  LET s == SessionOf[m] IN
  /\ pc[m] = "created" /\ ~Cancelled(m)
  /\ IF Accepted(m)
     THEN /\ lockQ' = [lockQ EXCEPT ![s] = Append(@, m)]
          /\ pc' = [pc EXCEPT ![m] = "lock"]
     ELSE /\ pc' = [pc EXCEPT ![m] = "dropped"]
          /\ UNCHANGED lockQ
  /\ UNCHANGED <<bus, pending, deferred, locked, permits, gateQ, cancelReq,
                 loopVars, tokens, waiter>>

\* Variant: each task takes a lock of its own.
AtOwnLock(m) ==
  LET s == SessionOf[m] IN
  pc[m] = "lock" /\ ~Cancelled(m) /\ lockQ[s] # <<>> /\ m = Head(lockQ[s])

AtLock(m) ==
  LET s == SessionOf[m] IN
  /\ pc[m] = "lock" /\ ~Cancelled(m)
  /\ ~locked[s] /\ lockQ[s] # <<>> /\ m = Head(lockQ[s])

TakeLock(m) ==
  LET s == SessionOf[m] IN
  /\ AtLock(m)
  /\ locked' = [locked EXCEPT ![s] = TRUE]
  /\ lockQ' = [lockQ EXCEPT ![s] = Tail(@)]
  /\ gateQ' = Append(gateQ, m)
  /\ pc' = [pc EXCEPT ![m] = "gate"]
  /\ UNCHANGED <<bus, pending, deferred, permits, cancelReq, loopVars, tokens, waiter>>

\* Variant: the gate lets its waiters through without a free slot.
AtOpenGate(m) ==
  /\ pc[m] = "gate" /\ ~Cancelled(m)
  /\ gateQ # <<>> /\ m = Head(gateQ)
  /\ gateQ' = Tail(gateQ)

AtGate(m) ==
  /\ pc[m] = "gate" /\ ~Cancelled(m)
  /\ permits > 0 /\ gateQ # <<>> /\ m = Head(gateQ)
  /\ gateQ' = Tail(gateQ)

\* Variant: the session lock, the gate and the registration are not given back.
KeepLock(s) == UNCHANGED locked
KeepGate == UNCHANGED permits
KeepQueue(s) == UNCHANGED pending

\* The ends of `async with lock`, `async with gate` and of the registration.
Unlock(s) == locked' = [locked EXCEPT ![s] = FALSE]
ReleaseGate == permits' = permits + 1
Unregister(s) == pending' = [pending EXCEPT ![s] = None]

\* Lock and gate are held: the turn registers its pending queue, and
\* _process_message consumes the token of a subagent result.
BeginTurn(m) ==
  LET s == SessionOf[m] IN
  /\ AtGate(m) /\ Accepted(m)
  /\ permits' = permits - 1
  /\ pending' = [pending EXCEPT ![s] = <<>>]
  /\ tokens' = tokens \ {m}
  /\ pc' = [pc EXCEPT ![m] = "running"]
  /\ UNCHANGED <<bus, deferred, locked, lockQ, cancelReq, loopVars, waiter>>

\* The result went stale while its task waited: no turn, everything released.
\* A second line of defence: whoever discards a result's token cancels its task.
SkipTurn(m) ==
  LET s == SessionOf[m] IN
  /\ AtGate(m) /\ ~Accepted(m)
  /\ Unlock(s)
  /\ deferred' = [deferred EXCEPT ![s] = LaterDeferred(s)]
  /\ EndTask(m, "dropped", NextDeferred(s))
  /\ UNCHANGED <<pending, lockQ, permits, loopVars, tokens, waiter>>

\* async with gate, and the second test of the result under both locks.
PassGate(m) == IF Accepted(m) THEN BeginTurn(m) ELSE SkipTurn(m)

\* Variant: the message taken into the turn stays in its queue.
PeekPending(s) == UNCHANGED pending

\* pending_queue.get_nowait()
TakePending(s) == pending' = [pending EXCEPT ![s] = Tail(@)]

\* The runner takes the next queued message into the running turn
\* (_drain_pending); a result that went stale in the queue is dropped.
Drain(m) ==
  LET s == SessionOf[m]
      x == Head(pending[s]) IN
  /\ pc[m] = "running" /\ KindOf[m] # "new" /\ ~Cancelled(m)
  /\ Registered(s) /\ pending[s] # <<>>
  /\ TakePending(s)
  /\ pc' = [pc EXCEPT ![x] = IF Accepted(x) THEN "joined" ELSE "dropped"]
  /\ tokens' = tokens \ {x}
  /\ UNCHANGED <<bus, deferred, lockVars, cancelReq, loopVars, waiter>>

\* The end of every turn, however it ended: the finally blocks unregister the
\* pending queue, republish what it still holds and the next deferred turn, and
\* the gate and the lock are released.
CloseTurn(m, end) ==
  LET s == SessionOf[m] IN
  /\ EndTask(m, end, Leftovers(s) \o NextDeferred(s))
  /\ Unregister(s)
  /\ deferred' = [deferred EXCEPT ![s] = LaterDeferred(s)]
  /\ Unlock(s)
  /\ ReleaseGate
  /\ UNCHANGED <<lockQ, gateQ, loopVars, tokens>>

\* _process_message returns a response, or raises.
Finish(m) ==
  /\ pc[m] = "running" /\ KindOf[m] # "new" /\ ~Cancelled(m)
  /\ \/ Resolve(m, "ok") /\ CloseTurn(m, "answered")
     \/ Resolve(m, "error") /\ CloseTurn(m, "failed")

\* /new in a turn of its own: the command stage calls cmd_new, which cancels
\* every active task of the session.  The task that runs it is one of them: the
\* gather it then awaits is cancelled with it, before it could cancel the
\* subagents or discard their results.
NewInTurn(m) ==
  LET s == SessionOf[m] IN
  /\ pc[m] = "running" /\ KindOf[m] = "new" /\ ~Cancelled(m)
  /\ cancelReq' = cancelReq \cup Tasks(s)
  /\ UNCHANGED <<pc, bus, pending, deferred, lockVars, loopVars, tokens, waiter>>

\* CancelledError reaches the task.  Before its first step no code of _dispatch
\* runs at all.
CancelCreated(m) ==
  /\ pc[m] = "created" /\ Cancelled(m)
  /\ EndTask(m, "cancelled", <<>>)
  /\ UNCHANGED <<pending, deferred, lockVars, loopVars, tokens, waiter>>

\* At the lock or at the gate only the outer finally runs.
CancelAtLock(m) ==
  LET s == SessionOf[m] IN
  /\ pc[m] = "lock" /\ Cancelled(m)
  /\ \E i \in 1..Len(lockQ[s]) :
        lockQ[s][i] = m /\ lockQ' = [lockQ EXCEPT ![s] = RemoveAt(@, i)]
  /\ deferred' = [deferred EXCEPT ![s] = LaterDeferred(s)]
  /\ EndTask(m, "cancelled", NextDeferred(s))
  /\ UNCHANGED <<pending, locked, permits, gateQ, loopVars, tokens, waiter>>

CancelAtGate(m) ==
  LET s == SessionOf[m] IN
  /\ pc[m] = "gate" /\ Cancelled(m)
  /\ \E i \in 1..Len(gateQ) : gateQ[i] = m /\ gateQ' = RemoveAt(gateQ, i)
  /\ Unlock(s)
  /\ deferred' = [deferred EXCEPT ![s] = LaterDeferred(s)]
  /\ EndTask(m, "cancelled", NextDeferred(s))
  /\ UNCHANGED <<pending, lockQ, permits, loopVars, tokens, waiter>>

\* In the turn, its except clause reports the cancellation to the waiter first.
CancelTurn(m) ==
  /\ pc[m] = "running" /\ Cancelled(m)
  /\ Resolve(m, "error")
  /\ CloseTurn(m, "cancelled")

TaskStep(m) == \/ Start(m) \/ TakeLock(m) \/ PassGate(m)
               \/ Drain(m) \/ Finish(m) \/ NewInTurn(m)
               \/ CancelCreated(m) \/ CancelAtLock(m) \/ CancelAtGate(m)
               \/ CancelTurn(m)

Outside(m) == Publish(m) \/ Submit(m) \/ GiveUp(m) \/ Spawn(m) \/ Announce(m)

Next == RunLoop \/ \E m \in Messages : TaskStep(m) \/ Outside(m)

Spec == Init /\ [][Next]_vars
-----------------------------------------------------------------------------
\* The loop always goes on, a task whose await is over always resumes, a turn
\* ends (budgets and the LLM timeout bound it) and so does a subagent.
FairSpec == Spec /\ WF_vars(RunLoop)
                 /\ \A m \in Messages : WF_vars(TaskStep(m)) /\ WF_vars(Announce(m))

TypeOK ==
  /\ pc \in [Messages -> Pcs]
  /\ bus \in Seq(Messages)
  /\ pending \in [Sessions -> Seq(Messages) \cup {None}]
  /\ deferred \in [Sessions -> Seq(Messages)]
  /\ locked \in [Sessions -> BOOLEAN]
  /\ lockQ \in [Sessions -> Seq(Messages)]
  /\ permits \in Nat
  /\ gateQ \in Seq(Messages)
  /\ cancelReq \subseteq Messages
  /\ control \in Messages \cup {None}
  /\ victims \subseteq Messages
  /\ tokens \subseteq Messages
  /\ waiter \in [Messages -> Verdicts]
  /\ cleared \subseteq Messages
  /\ revoked \subseteq Messages

\* "Per-session serial": the lock admits one task of a session at a time, over
\* waits, cancellations and early releases, and is held exactly by that task.
SerialTurns ==
  \A s \in Sessions :
    /\ locked[s] = (\E m \in OfSession(s) : pc[m] \in {"gate", "running"})
    /\ \A m1, m2 \in OfSession(s) :
         pc[m1] \in {"gate", "running"} /\ pc[m2] \in {"gate", "running"} => m1 = m2

\* run() injects a message only where a running turn can still drain it or
\* republish it: a pending queue is registered exactly while a turn runs.
QueueHasTurn ==
  \A s \in Sessions :
    Registered(s) <=> \E m \in OfSession(s) : pc[m] = "running"

Placed(place) == {m \in Messages : pc[m] = place}
PlacedOf(s, place) == OfSession(s) \cap Placed(place)

\* No slot of the concurrency gate leaks or is handed out twice, whatever ends
\* the turns and the waits.
GateConserved ==
  permits + Cardinality(Placed("running")) = GateSize

\* A sequence lists each member of a set exactly once.
Lists(seq, set) ==
  /\ \A m \in set : \E i \in 1..Len(seq) : seq[i] = m
  /\ \A i \in 1..Len(seq) : seq[i] \in set
  /\ \A i, j \in 1..Len(seq) : seq[i] = seq[j] => i = j

\* A message that entered the loop is in one queue, once, or has one task, until
\* it is settled: routing, injection, republishing and cancellation neither lose
\* nor duplicate a message.
InOnePlace ==
  /\ Lists(bus, Placed("bus"))
  /\ Lists(gateQ, Placed("gate"))
  /\ \A s \in Sessions :
       /\ Lists(lockQ[s], PlacedOf(s, "lock"))
       /\ Lists(deferred[s], PlacedOf(s, "deferred"))
       /\ Lists(Leftovers(s), PlacedOf(s, "pending"))

\* cmd_stop pops the session's pending queue after it joined the tasks, and
\* throws away what it finds: it never finds a follow-up there.
StopDiscardsNothing == \A m \in Messages : pc[m] # "discarded"

\* A result outstanding when its session was stopped never starts a turn and is
\* never injected in one, wherever it was (docs/agent-control-flow.md:63).
RevokedStaysOut ==
  \A r \in revoked : pc[r] \notin {"running", "joined", "answered", "failed"}

\* A command that cancels the session's tasks has been published.
Disturbed(s) ==
  \E c \in OfSession(s) : KindOf[c] \in {"stop", "new", "discard"} /\ pc[c] # "unsent"

\* A deferred automation turn has someone to publish it: a live task of its
\* session, or an automation turn ahead of it on the bus.
DeferredHasPublisher ==
  \A s \in Sessions :
    deferred[s] # <<>> =>
      \/ Tasks(s) # {}
      \/ \E m \in OfSession(s) : KindOf[m] = "auto" /\ pc[m] = "bus"
      \/ Disturbed(s)

\* submit() answers its caller: the task of an automation turn does not end
\* while the caller still waits.
WaiterAnswered ==
  \A m \in Messages : waiter[m] = "waiting" => pc[m] \notin Settled

\* /new resets the chat: when the command is over the session was cleared, or
\* another command cancelled it.
NewClearsSession ==
  \A m \in Messages :
    KindOf[m] = "new" /\ pc[m] \in Settled =>
      \/ m \in cleared
      \/ \E c \in OfSession(SessionOf[m]) \ {m} :
           KindOf[c] \in {"stop", "new", "discard"} /\ pc[c] # "unsent"

\* Every input, command and result that reaches the bus is settled in the end.
EveryMessageSettles ==
  \A m \in Messages :
    KindOf[m] # "auto" /\ pc[m] = "bus" ~> pc[m] \in Settled

\* Every automation turn is answered in the end, however often it is deferred,
\* when nobody stops its session.
AutomationAnswered ==
  \A m \in Messages :
    waiter[m] = "waiting" ~> waiter[m] # "waiting" \/ Disturbed(SessionOf[m])

\* The phase SessionTurns gives the message at each place.
Phase ==
  [m \in Messages |->
     CASE pc[m] \in {"unsent", "working"} -> "out"
       [] pc[m] = "running" -> "turn"
       [] pc[m] = "joined" -> "joined"
       [] pc[m] \in Settled \ {"joined"} -> "closed"
       [] OTHER -> "queued"]

Turns == INSTANCE SessionTurns WITH phase <- Phase

\* The dispatch core implements SessionTurns: each message is served once, alone
\* or inside a running turn of its session, and turns of a session are serial.
ImplementsTurns == Turns!Spec
=============================================================================
