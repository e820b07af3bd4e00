---------------------------- MODULE LocalTriggers ----------------------------
(***************************************************************************)
(* The queue of local trigger deliveries: `pawbot trigger` enqueues a       *)
(* delivery from a process of its own (local_store.py), the gateway's       *)
(* worker claims it, submits it as a session turn and completes, retries or *)
(* gives it up (local_runner.py).  A delivery is a file that moves between  *)
(* the directories inbox, processing and failed; every method of the store  *)
(* holds its file lock, which the end of its process releases wherever the  *)
(* method was.                                                              *)
(*                                                                          *)
(* Deliveries are numbered in the order of their file names, which begin    *)
(* with the millisecond of their creation: the clock does not go back, and  *)
(* no two are of one millisecond.  triggers.json and the delivery files are *)
(* written atomically and nobody else edits them, so they can be parsed.    *)
(* A trigger's name, its run history and the audit records under runs/      *)
(* decide nothing here and are left out.  The turn itself is the one        *)
(* AgentLoop runs: here it ends somehow, or submit() is never answered.     *)
(***************************************************************************)
EXTENDS Naturals, FiniteSets

CONSTANTS
  Triggers,     \* trigger ids
  OnChannel,    \* those whose channel is enabled
  Deliveries,   \* numbers of the deliveries
  TriggerOf,    \* the trigger each of them is for
  MaxAttempts,  \* _MAX_DELIVERY_ATTEMPTS
  Batch,        \* limit of claim_deliveries
  MaxDowns,     \* bound: ends of the gateway process
  MaxFaults     \* bound: failed writes or removals of a file

ASSUME LocalTriggersAssumption ==
  /\ OnChannel \subseteq Triggers
  /\ Deliveries \in SUBSET Nat
  /\ TriggerOf \in [Deliveries -> Triggers]
  /\ MaxAttempts \in Nat \ {0}
  /\ Batch \in Nat \ {0}
  /\ MaxDowns \in Nat
  /\ MaxFaults \in Nat

VARIABLES
  status,      \* of each trigger in triggers.json
  used,        \* deliveries that enqueue has numbered
  inbox,       \* files of a directory: the attempt its delivery waits for,
  processing,  \*   attempts + 1, or 0 where there is no file
  failed,      \* files given up
  pc,          \* where the worker is
  held,        \* its deliveries, with their attempt
  moved,       \* a file was written to its new place and not yet unlinked
  downs, faults,
  accepted,    \* history: deliveries whose enqueue returned
  settled,     \* history: deliveries that complete_delivery removed
  tripped,     \* history: deliveries that met a fault
  submitted,   \* history: turns submitted for each delivery
  ends         \* history: turns of it that came to an end

fileVars == <<inbox, processing, failed>>
historyVars == <<accepted, settled, tripped, submitted, ends>>
vars == <<status, used, fileVars, pc, held, moved, downs, faults, historyVars>>

\* In "turn" and "poll" the worker waits, in "hung" for a turn that will not be
\* answered; "ran" and "erred" are after a turn, "stop" is retry_delivery on the
\* way to the end of the process.
Places == {"down", "recover", "poll", "claim", "take", "turn", "hung", "ran",
           "erred", "retry", "stop"}

Files(dir) == {d \in Deliveries : dir[d] > 0}
None == [d \in Deliveries |-> 0]

Init ==
  /\ status = [t \in Triggers |-> "none"]
  /\ used = {}
  /\ inbox = None
  /\ processing = None
  /\ failed = {}
  /\ pc = "down"
  /\ held = None
  /\ moved = FALSE
  /\ downs = 0
  /\ faults = 0
  /\ accepted = {}
  /\ settled = {}
  /\ tripped = {}
  /\ submitted = None
  /\ ends = None

\* Another process gets the store's lock.
Unlocked == pc \notin {"recover", "claim"} /\ ~moved

\* The gateway's event loop runs something other than the worker.
Awaiting == pc \in {"poll", "turn", "hung"}

Fault ==
  /\ faults < MaxFaults
  /\ faults' = faults + 1

-----------------------------------------------------------------------------
\* The triggers

Create(t) ==
  /\ Awaiting /\ status[t] = "none"
  /\ status' = [status EXCEPT ![t] = "enabled"]
  /\ UNCHANGED <<used, fileVars, pc, held, moved, downs, faults, historyVars>>

Enable(t, enabled) ==
  /\ Awaiting /\ status[t] \in {"enabled", "disabled"}
  /\ status' = [status EXCEPT ![t] = IF enabled THEN "enabled" ELSE "disabled"]
  /\ UNCHANGED <<used, fileVars, pc, held, moved, downs, faults, historyVars>>

\* The files of the trigger are removed from all three directories.
Delete(t) ==
  /\ Awaiting /\ status[t] \in {"enabled", "disabled"}
  /\ status' = [status EXCEPT ![t] = "deleted"]
  /\ inbox' = [d \in Deliveries |-> IF TriggerOf[d] = t THEN 0 ELSE inbox[d]]
  /\ processing' = [d \in Deliveries |-> IF TriggerOf[d] = t THEN 0 ELSE processing[d]]
  /\ failed' = {d \in failed : TriggerOf[d] # t}
  /\ UNCHANGED <<used, pc, held, moved, downs, faults, historyVars>>

\* None of them can be: a warning.
DeleteOnly(t) ==
  /\ Awaiting /\ status[t] \in {"enabled", "disabled"}
  /\ Fault
  /\ status' = [status EXCEPT ![t] = "deleted"]
  /\ UNCHANGED <<used, fileVars, pc, held, moved, downs, historyVars>>

-----------------------------------------------------------------------------
\* `pawbot trigger`

Queue(d) ==
  /\ Unlocked
  /\ \A e \in Deliveries : e < d => e \in used
  /\ d \notin used /\ used' = used \cup {d}
  /\ status[TriggerOf[d]] = "enabled"
  /\ UNCHANGED <<status, processing, failed, pc, held, moved, downs, settled, tripped,
                 submitted, ends>>

Enqueue(d) ==
  /\ Queue(d)
  /\ inbox' = [inbox EXCEPT ![d] = 1]
  /\ accepted' = accepted \cup {d}
  /\ UNCHANGED faults

\* The process ends after the file was written; if a later write of enqueue
\* fails instead, the file is removed again.
EnqueueDies(d) ==
  /\ Queue(d)
  /\ Fault
  /\ inbox' \in {inbox, [inbox EXCEPT ![d] = 1]}
  /\ UNCHANGED accepted

-----------------------------------------------------------------------------
\* _retry_delivery_unlocked

\* The delivery at hand.  Variant: any, as when the files are not sorted.
AnyOf(dir) == Files(dir)
FirstOf(dir) == {d \in Files(dir) : \A e \in Files(dir) : d <= e}

\* attempts + 1 >= _MAX_DELIVERY_ATTEMPTS.  Variant: attempts >= ...
SpentLate(n) == n > MaxAttempts
Spent(n) == n >= MaxAttempts

\* It is written to its new place, ...
Rewrite(d, n) ==
  /\ ~moved
  /\ moved' = TRUE
  /\ IF Spent(n)
     THEN failed' = failed \cup {d} /\ UNCHANGED inbox
     ELSE inbox' = [inbox EXCEPT ![d] = n + 1] /\ UNCHANGED failed
  /\ UNCHANGED processing

\* ... and then removed from processing.
Unlink(d) ==
  /\ moved
  /\ moved' = FALSE
  /\ processing' = [processing EXCEPT ![d] = 0]
  /\ UNCHANGED <<inbox, failed>>

-----------------------------------------------------------------------------
\* run_local_trigger_queue

Start ==
  /\ pc = "down"
  /\ pc' = "recover"
  /\ UNCHANGED <<status, used, fileVars, held, moved, downs, faults, historyVars>>

\* recover_processing_deliveries
Recover(d) ==
  /\ pc = "recover"
  /\ d \in FirstOf(processing)
  /\ Rewrite(d, processing[d]) \/ Unlink(d)
  /\ UNCHANGED <<status, used, pc, held, downs, faults, historyVars>>

Recovered ==
  /\ pc = "recover" /\ Files(processing) = {}
  /\ pc' = "poll"
  /\ UNCHANGED <<status, used, fileVars, held, moved, downs, faults, historyVars>>

Poll ==
  /\ pc = "poll" /\ Files(inbox) # {}
  /\ pc' = "claim"
  /\ UNCHANGED <<status, used, fileVars, held, moved, downs, faults, historyVars>>

\* claim_deliveries: one os.replace after the other.  Variant: the file is
\* removed once it was read.
ClaimInMemory(d) ==
  /\ pc = "claim" /\ Cardinality(Files(held)) < Batch
  /\ d \in FirstOf(inbox)
  /\ inbox' = [inbox EXCEPT ![d] = 0]
  /\ held' = [held EXCEPT ![d] = inbox[d]]
  /\ UNCHANGED <<status, used, processing, failed, pc, moved, downs, faults, historyVars>>

Claim(d) ==
  /\ pc = "claim" /\ Cardinality(Files(held)) < Batch
  /\ d \in FirstOf(inbox)
  /\ inbox' = [inbox EXCEPT ![d] = 0]
  /\ processing' = [processing EXCEPT ![d] = inbox[d]]
  /\ held' = [held EXCEPT ![d] = inbox[d]]
  /\ UNCHANGED <<status, used, failed, pc, moved, downs, faults, historyVars>>

Claimed ==
  /\ pc = "claim"
  /\ Cardinality(Files(held)) = Batch \/ Files(inbox) = {}
  /\ pc' = "take"
  /\ UNCHANGED <<status, used, fileVars, held, moved, downs, faults, historyVars>>

\* The checks of _deliver_delivery.  Variant: the trigger is not looked up again.
OnAnyTrigger(d) == TriggerOf[d] \in OnChannel
Deliverable(d) == status[TriggerOf[d]] = "enabled" /\ TriggerOf[d] \in OnChannel

\* complete_delivery
Complete(d) ==
  /\ processing' = [processing EXCEPT ![d] = 0]
  /\ held' = [held EXCEPT ![d] = 0]
  /\ settled' = settled \cup {d}
  /\ pc' = "take"
  /\ UNCHANGED <<status, used, inbox, failed, moved, downs, faults, accepted, tripped,
                 submitted, ends>>

\* _TerminalDeliveryError
Drop(d) ==
  /\ pc = "take" /\ d \in FirstOf(held)
  /\ ~Deliverable(d)
  /\ Complete(d)

\* _deliver_delivery, up to its await.
Submit(d) ==
  /\ pc = "take" /\ d \in FirstOf(held)
  /\ Deliverable(d)
  /\ pc' = "turn"
  /\ submitted' = [submitted EXCEPT ![d] = @ + 1]
  /\ UNCHANGED <<status, used, fileVars, held, moved, downs, faults, accepted, settled,
                 tripped, ends>>

\* The turn ends, well or with an AutomationTurnError.  Variant: its error is
\* handled as any other.
EndTurnOrRetry(d, outcome) ==
  /\ pc = "turn" /\ d \in FirstOf(held)
  /\ pc' = IF outcome = "erred" THEN "retry" ELSE outcome
  /\ ends' = [ends EXCEPT ![d] = @ + 1]
  /\ UNCHANGED <<status, used, fileVars, held, moved, downs, faults, accepted, settled,
                 tripped, submitted>>

EndTurn(d, outcome) ==
  /\ pc = "turn" /\ d \in FirstOf(held)
  /\ pc' = outcome
  /\ ends' = [ends EXCEPT ![d] = @ + 1]
  /\ UNCHANGED <<status, used, fileVars, held, moved, downs, faults, accepted, settled,
                 tripped, submitted>>

\* A command catches the turn's task at the lock of its session, as /stop does in
\* the counterexample to WaiterAnswered of AgentLoop: nobody completes the future
\* that submit() awaits, and the worker has no timeout.
LoseTurn ==
  /\ pc = "turn"
  /\ pc' = "hung"
  /\ UNCHANGED <<status, used, fileVars, held, moved, downs, faults, historyVars>>

\* Where a delivery whose turn ended is completed.  Variant: after a turn that
\* ended well only.
CompletedIf(place) == place = "ran"
Completed(place) == place \in {"ran", "erred"}

Finish(d) ==
  /\ Completed(pc) /\ d \in FirstOf(held)
  /\ Complete(d)

\* A record cannot be written, before the turn is submitted or after it ended
\* well: the delivery is retried.  (In a handler, the error ends the worker
\* and with it the gateway: see Crash.)
Trip(d) ==
  /\ d \in FirstOf(held)
  /\ (pc = "take" /\ Deliverable(d)) \/ pc = "ran"
  /\ Fault
  /\ pc' = "retry"
  /\ tripped' = tripped \cup {d}
  /\ UNCHANGED <<status, used, fileVars, held, moved, downs, accepted, settled, submitted,
                 ends>>

\* retry_delivery, with what the worker read when it claimed the delivery.
Retry(d) ==
  /\ pc = "retry"
  /\ d \in FirstOf(held)
  /\ \/ Rewrite(d, held[d]) /\ UNCHANGED <<pc, held>>
     \/ Unlink(d) /\ pc' = "take" /\ held' = [held EXCEPT ![d] = 0]
  /\ UNCHANGED <<status, used, downs, faults, historyVars>>

Done ==
  /\ pc = "take" /\ Files(held) = {}
  /\ pc' = "poll"
  /\ UNCHANGED <<status, used, fileVars, held, moved, downs, faults, historyVars>>

-----------------------------------------------------------------------------
\* The gateway process ends

\* The worker is cancelled while it waits: for its turn, ...
Cancel ==
  /\ pc \in {"turn", "hung"} /\ downs < MaxDowns
  /\ downs' = downs + 1
  /\ pc' = "stop"
  /\ UNCHANGED <<status, used, fileVars, held, moved, faults, historyVars>>

Stop(d) ==
  /\ pc = "stop"
  /\ d \in FirstOf(held)
  /\ \/ Rewrite(d, held[d]) /\ UNCHANGED <<pc, held>>
     \/ Unlink(d) /\ pc' = "down" /\ held' = None
  /\ UNCHANGED <<status, used, downs, faults, historyVars>>

\* ... for a delivery, or it does not end this way: a crash, or an exception in
\* one of the worker's handlers, which ends every task of the gateway.
Crash ==
  /\ pc # "down" /\ downs < MaxDowns
  /\ downs' = downs + 1
  /\ pc' = "down"
  /\ held' = None
  /\ moved' = FALSE
  /\ UNCHANGED <<status, used, fileVars, faults, historyVars>>

Manage(t) ==
  \/ Create(t) \/ Delete(t) \/ DeleteOnly(t)
  \/ \E enabled \in BOOLEAN : Enable(t, enabled)

Work(d) ==
  \/ Recover(d) \/ Claim(d)
  \/ Drop(d) \/ Submit(d) \/ Finish(d) \/ Retry(d) \/ Stop(d)

EndsTurn(d) == \E outcome \in {"ran", "erred"} : EndTurn(d, outcome)

Next ==
  \/ \E t \in Triggers : Manage(t)
  \/ \E d \in Deliveries :
       Enqueue(d) \/ EnqueueDies(d) \/ Work(d) \/ EndsTurn(d) \/ Trip(d)
  \/ Start \/ Recovered \/ Poll \/ Claimed \/ Done \/ LoseTurn \/ Cancel \/ Crash

\* A supervisor starts the gateway again, the event loop resumes the worker, and
\* a turn ends unless it is lost: the runner bounds its iterations.  That it is
\* not lost is not assumed.
Fairness ==
  /\ WF_vars(Start) /\ WF_vars(Recovered)
  /\ WF_vars(Poll) /\ WF_vars(Claimed) /\ WF_vars(Done)
  /\ WF_vars(\E d \in Deliveries : Work(d))
  /\ WF_vars(\E d \in Deliveries : EndsTurn(d))

Spec == Init /\ [][Next]_vars /\ Fairness
-----------------------------------------------------------------------------
TypeOK ==
  /\ status \in [Triggers -> {"none", "enabled", "disabled", "deleted"}]
  /\ used \subseteq Deliveries
  /\ inbox \in [Deliveries -> 0..MaxAttempts]
  /\ processing \in [Deliveries -> 0..MaxAttempts]
  /\ held \in [Deliveries -> 0..MaxAttempts]
  /\ failed \subseteq Deliveries
  /\ pc \in Places
  /\ moved \in BOOLEAN
  /\ downs \in 0..MaxDowns /\ faults \in 0..MaxFaults
  /\ accepted \subseteq used /\ settled \subseteq used /\ tripped \subseteq used
  /\ submitted \in [Deliveries -> Nat]
  /\ ends \in [Deliveries -> Nat]

\* A delivery that was queued is in one of the directories until it is settled
\* or its trigger deleted, wherever a crash interrupts the moves of its file.
NotLost ==
  \A d \in accepted \ settled :
    \/ inbox[d] > 0 \/ processing[d] > 0 \/ d \in failed
    \/ status[TriggerOf[d]] = "deleted"

\* A delivery whose turn came to an end is run again only after an end of the
\* process or a failed write of a record.
RunAgainForCause == \A d \in Deliveries : ends[d] <= 1 + downs + faults

\* A delivery is given up only when that many ends of the process and failed
\* writes stood against it: an error of the agent never does that.
GivenUpForCause == failed # {} => downs + faults >= MaxAttempts

\* A delivery overtakes an earlier one only if that one met a failed write, or
\* is done with: batches, retries and restarts keep the order.
InOrder ==
  \A d \in accepted, e \in Deliveries :
    d < e /\ submitted[e] > 0 /\ submitted[d] = 0 =>
      \/ d \in settled \cup tripped \cup failed
      \/ status[TriggerOf[d]] = "deleted"

\* The phase DeliveryQueue gives a delivery: while the worker waits for its turn
\* it runs, and it waits while it has a file that will be tried.
Phase ==
  [d \in Deliveries |->
     IF d \in settled \cup failed \/ status[TriggerOf[d]] = "deleted" THEN "closed"
     ELSE IF pc \in {"turn", "hung"} /\ d \in FirstOf(held) THEN "running"
     ELSE IF inbox[d] > 0 \/ processing[d] > 0 THEN "waiting"
     ELSE "out"]

Queued == INSTANCE DeliveryQueue WITH phase <- Phase, tries <- submitted

\* The files and the worker implement DeliveryQueue: one delivery at a time is in
\* a turn, none is tried past the limit - a crash after the turn began counts as
\* an attempt, and one between the two steps of a move leaves two files with
\* different counts - and none that was completed, given up or withdrawn is
\* tried again, although a retry may write its file anew.
ImplementsQueue == Queued!Spec

\* Every delivery leaves inbox and processing for good, unless in the end the
\* worker waits for a turn whose submit() is never answered: one such turn holds
\* up every delivery behind it until the gateway ends.
Settles ==
  \/ \A d \in Deliveries : <>[](inbox[d] = 0 /\ processing[d] = 0)
  \/ <>[](pc = "hung")
=============================================================================
