# A TLA+ verification project for pawbot

pawbot is an agent gateway in Python: chat channels, a WebUI, cron jobs, local
triggers and subagents publish messages on one bus; an asyncio loop dispatches
them to LLM turns, one at a time per session, and the answers go back to the
channels. This directory holds models of the parts whose correctness depends on
the order in which things happen, the TLC runs that check them on small
instances, and the theorems TLAPS proves for every instance.

    tlc -workers 2 -config dispatch.cfg MCAgentLoop     # one run
    tlapm CronService_proofs.tla                        # one proof module

PROJECT.json lists components, runs, theorems, hazards and findings, and maps
every definition to the lines of source it translates.

## 1. Inventory

| Component (src/pawbot/...) | State | Operations | Hard behaviours | Correct when |
|---|---|---|---|---|
| Dispatch core: `agent/loop.py` run, _dispatch; `bus/queue.py` | inbound queue, task per message, pending queue per running turn, session locks, concurrency gate | route, inject, defer, dispatch, cancel, republish leftovers | every await is an interleaving; cancellation at any of them; a queue at its limit | turns of a session are serial; no message is lost or duplicated; everything settles |
| Automation turns: `agent/automation_turns.py`, `cron_turns.py`, `triggers/local_turns.py` | futures of callers, deferred turns per session | submit, defer_if_active, complete, publish next | a future nobody resolves; a deferred turn nobody publishes | every submit() is answered |
| Subagents: `agent/subagent.py` | running tasks, tokens of unconsumed results | spawn, announce, accept, cancel by session | a result in flight while its session is stopped | a revoked result starts nothing |
| Commands: `command/builtin.py` | - | /stop, /new, discard of a session | commands run inline in the loop or inside a turn, and cancel the session's tasks | they do what they say and lose no follow-up |
| Event journal: `gateway/protocol.py` | events file, sequences file, counts in memory | append, compact, replay, validate | a crash between two files, cut lines, two writers, compaction | numbers grow; replay or gap covers every event sent |
| WebSocket resume: `channels/websocket/runtime.py`, `src/webui/src/lib/pawbot-client.ts` | subscriptions, last number per stream, outstanding resumes | hello, resume, replay, live frames | live frames between replayed ones; a resume lost with its connection | a client ends with all events or knows of a gap |
| Operation ledger: `gateway/protocol.py`, `webui/inbound_commands.py` | operations in memory, ledger file | begin, complete, unknown, join, recall, refuse, prune, close | resends over reconnects and restarts; half-open connections; expiry | a mutation runs once, and the answer is the truth |
| Cron: `cron/service.py`, `cron/bound_runner.py` | jobs in memory and in jobs.json, action.jsonl of another process, timer task, running tick | add, remove, enable, update, run, tick, rearm, merge, save | a timer cancelled while it executes; a stale list of due jobs; a reload of what an execution works on; a save that fails | an acknowledged job is not lost, an occurrence that ended is not run again by the timer, nor a job once its removal is in jobs.json |
| Local triggers: `triggers/local_store.py`, `local_runner.py` | inbox, processing, failed directories, triggers file | enqueue, claim, complete, retry, recover, delete | a worker that dies between the two steps of a move; deletion during a delivery; attempts at their limit | an accepted delivery is not lost or overtaken, is submitted at most ten times, and again only for cause |
| Tool approval: `agent/approval.py` | pending requests and their futures | request, resolve, time out, cancel | an answer that races the timeout | one verdict per request; nothing runs without approval |
| Recovery: `session/recovery.py`, `session/manager.py`, the stages of a turn | session file, checkpoint file, the session in the cache, journal of follow-ups, recovery state | checkpoint, save, overlay, restore, requeue, continue, dismiss, supersede | a crash at any step; a follow-up in three places; a continuation that waits while the user changes his mind | no input, row or checkpoint is lost or doubled; what was interrupted is not done again unasked |
| Outbound: `channels/manager.py` | outbound queue, last text per chat | coalesce deltas, suppress duplicates, send with retries | a failed send whose text was already recorded | no message is suppressed that was never delivered |
| Provider fallback: `providers/fallback_provider.py`, `admission.py` | failure counts, open-until times, permits | call, trip, probe, close | several callers at a half-open breaker | one probe; permits are returned |
| Runner: `agent/runner.py`, `budget.py`, `tools/execution.py` | messages, budgets | model call, tool calls, injection, stop | budgets at zero, tool calls without results | every tool call has one result; the loop ends |
| Pairing: `pairing/store.py` | codes, approvals | create, approve, expire | expiry while approving | only approved senders pass |
| Channels, providers, tools, config, CLI, front ends | - | I/O, parsing, rendering | outside of what a model of this kind says | - |

Messages flow: channel / WebUI / cron / trigger / subagent -> `MessageBus` ->
`AgentLoop.run` -> task of the session -> turn (runner, tools, provider) ->
outbound queue -> `ChannelManager` -> channel. The WebSocket channel also
journals every frame it sends and answers WebUI mutations through the ledger.
Cron and triggers enter through `AutomationTurnCoordinator.submit`, which waits
for the answer of the turn it published.

## 2. What is modelled

### Dispatch core: `AgentLoop`, `SessionTurns`, `MCAgentLoop`

A dispatch task is created for one message, so the task carries the message's
name, and `pc[m]` is both the place of the message and the await its task is
suspended at (the table is in the module). asyncio is single-threaded: **one
action is the code between two awaits that suspend**. Publishing does not
suspend (both queues are unbounded), and neither do the runtime-event handlers
at the end of a turn, which only publish outbound; so the end of a turn with its
finally blocks (`CloseTurn`) is one action.

| Actions | Code |
|---|---|
| `Publish`, `Submit`, `GiveUp`, `Spawn`, `Announce` | the actors that publish on the bus, and the caller of submit() |
| `DropStale`, `BeginControl`, `EndControl`, `Defer`, `Inject`, `CreateTask` | the branches of `run()`, in its order; `EndControl` is what follows the join of the cancelled tasks |
| `Start`, `TakeLock`, `PassGate` (`BeginTurn`, `SkipTurn`) | `_dispatch` up to its turn |
| `Drain`, `Finish`, `NewInTurn` | injection into the turn, its end, /new inside it |
| `CancelCreated`, `CancelAtLock`, `CancelAtGate`, `CancelTurn` | where CancelledError finds the task |

The model is slightly wider than asyncio: a task also pauses at a free lock and
at a free gate, where the real one runs on. `SkipTurn`, the second test of a
stale result under the lock, is translated but cannot fire: whoever discards a
result's token also cancels its task, so it is only one branch of `PassGate`.

`SessionTurns` is the abstract promise - a message is served once, by a turn of
its own or inside the running turn of its session, and turns of a session are
serial - and `AgentLoop` implements it (`ImplementsTurns`).

Left out: recovery admission, the gate per sender, `require_existing_session`,
shutdown, direct calls, turn continuations, user-shell background commands.

### Event journal: `EventJournal`, `MCEventJournal`

`append()` holds a file lock, so a call is one action; where it can stop - in
the line, before the sequences file, while compacting, or unheard because its
awaiting task was cancelled - is an action of its own (`FailLine`, `FailState`,
`FailCompaction`, `AppendUnheard`). Lines are never reordered, so the file is
the set of readable events in the order of their ids plus the state of its last
line. Every journal object (two processes, or one before and after `Restart`)
has its cached counts and the signature they belong to; the repository tests
two writers on one file
(`tests/gateway/test_protocol.py`, test_event_journal_cache_detects_another_writer).
`acked` is a history variable: the events whose append() returned, which are
those a client may have seen. Reads are taken to succeed.

### Operation ledger: `OperationLedger`, `MutationOnce`

One browser client, its successive connections, the gateway process and the
ledger file. `start_webui_request` has no await between its look at memory and
ledger and the start of an operation, so `Receive` is one action with its five
outcomes (`Join`, `Recall`, `Refuse`, `Begin`, `FailBegin`). A connection the
client has lost may live on in the gateway with some of its requests. A mutation
is carried out in `Apply`; a crash or close can come before or after it, and a
thread that a cancellation does not stop may carry it out late (`ApplyLate`).
`_safe_payload`, which shortens and redacts what the ledger stores, is modelled
by what it does: a recalled result may be "cut". Expiry in memory (`Kept`) and
in the ledger (`Aged`) can happen whenever the code may do it; a ledger record
lives a day, far beyond the client's timeouts, so it goes only when no client
asks for it. Reads are taken to succeed. Left out: the 409 for an id with
another payload (ids are fresh UUIDs), connections that did not negotiate
protocol 1 (they have no ledger), the locks that order the mutations of a
connection (they delay and nothing else).

`MutationOnce` is the abstract promise, without connections, processes or files:
a mutation is carried out at most once, after it was asked for and before its
operation ended; the client is told once, what is true when it hears it, or is
refused because the operation was interrupted. `OperationLedger` implements it
(`ImplementsOnce`). It allows one thing a reader may not expect: a mutation that
was refused may still be carried out, by a thread that close() could not stop.

### Local triggers: `LocalTriggers`, `DeliveryQueue`, `MCLocalTriggers`

The files of `local_store.py` in their three directories, and the gateway's one
worker. `inbox[d]` and `processing[d]` hold the attempt a delivery file waits
for, 0 where there is none; `held[d]` is what the worker read when it claimed
it, and is what it retries with. A method of the store holds a file lock, so
others see it as one step; but its process may end inside it. What moves a file
by a write and an unlink is therefore two steps, with `moved` between them.

| Actions | Code |
|---|---|
| `Create`, `Enable`, `Delete`, `DeleteOnly` | the triggers; `DeleteOnly` is a delete whose unlinks fail, which is only logged |
| `Enqueue`, `EnqueueDies` | `pawbot trigger`, in a process of its own |
| `Start`, `Recover`, `Recovered` | `recover_processing_deliveries` |
| `Poll`, `Claim`, `Claimed`, `Submit`, `EndTurn`, `Finish`, `Drop`, `Trip`, `Retry`, `Done` | `run_local_trigger_queue` and what it makes of a turn that ended, erred, or could not be recorded |
| `LoseTurn` | the turn is cancelled at the lock of its session, and nobody answers submit() |
| `Cancel`, `Stop`, `Crash` | the gateway stops while a turn runs; any other end of it |

`LoseTurn` is the outcome of `dispatch_waiter` (section 3) seen from here: the
worker waits for its turn without a timeout, and once that answer cannot come it
is "hung": it serves nothing more, with its delivery in processing, until the
gateway ends.

`DeliveryQueue` is the abstract promise: one delivery at a time is in a turn, each
at most `MaxAttempts` times, and one that was completed, given up or withdrawn
with its trigger never again. `LocalTriggers` implements it (`ImplementsQueue`),
although a retry or the recovery may write the file of such a delivery anew:
when its trigger was deleted during its turn, or between the two steps by which
it was given up.

Left out: names, run history and audit records (they decide nothing), files that
cannot be parsed, two deliveries created in one millisecond.

### Cron: `CronService`, `MCCronService`

jobs.json (`disk`), the store in memory (`mem`, `dirty` after a failed save), the
added and the removed jobs of action.jsonl (`lines`, `dels`), and the timer: `ticking`
while `_on_timer` runs, `due` the rest of its list, `cur` the job whose `on_job`
it awaits. `_load_store` reads the disk only while nothing executes and nothing
is dirty (`Reloads`); every command loads, changes, saves (`Saved`, or
`NotSaved`) and rearms the timer, which cancels a tick that is executing
(`ArmTimer`). `RunJob` and `RunEnds` are the two halves of a manual run.
`CrashInMerge` is an end of the process in `_merge_action`, after action.jsonl
was emptied and before jobs.json is written.

A failed command raises in the code: its effect is in memory, nothing was
acknowledged (`Acknowledged`). `kept`, `stopped`, `removed` and `finished` are
the history the properties speak of: adds that were acknowledged, removals or
disablings the gateway acknowledged, removals the other process acknowledged,
and occurrences the timer ran to their end.

A removal by the other process ("removed", says its tool) is a line of
action.jsonl until the gateway loads its store. A tick whose list has the job
executes it all the same, and so may one that begins while the gateway does not
load: during a manual run, or when a save had failed. `StaysStopped` excuses
that, but only while the line is there: whoever merges it has ended every list
with the job. A crash after the merge and before jobs.json is saved undoes the
removal (`removed` forgets it); the job is back at the next start.

An `on_job` waits for submit() of its turn without a timeout (`bound_runner.py`),
so it hangs if that turn is lost (`LoseTurn`, `hung`): of a tick until a command
rearms the timer, of a manual run until the gateway ends, and so long the store
is not loaded again.

Left out: cron expressions (a job is one-shot or of an interval), system jobs,
the run history, a damaged jobs.json. action.jsonl can also have "update" lines,
which `enable_job` and `update_job` append where the service is not running: only
the WebUI calls these two, in the gateway, which starts the service before it
serves the WebUI; the other process, `pawbot agent`, has the cron tool, which
adds, lists and removes.

### Recovery: `TurnRecovery`, `MCTurnRecovery`

One WebUI session: its file (`main`), the checkpoint beside it (`side`, and
`stale` where it is older than the file), the session in the cache (`mem`), the
turn that runs with its pending queue, and the bus. A session is its rows, the
`pending` flag, the checkpoint, the journal of follow-ups and the recovery
state. A row keeps what tells apart a user's input, a call, its result, the mark
of a call whose result is unknown, an answer, a notice.

| Actions | Code |
|---|---|
| `Dispatch`, `Route` | an input begins a turn (supersede, restore, close), or is journaled and queued |
| `Begin`, `CallTool`, `RunTool`, `ToolDone`, `Answer`, `Persist`, `Complete` | the stages and iterations of a turn, with the checkpoint or save of each |
| `Resume`, `SkipStale` | a continuation reaches the head of the bus |
| `Continue`, `Dismiss`, `UpdateMetadata` | the WebUI's requests |
| `Fail`, `Stop`, `Crash`, `Restart` | an exception, /stop, an end of the process, and `scan` at the next start |

`scan` passes over a session whose file gives no sign of an interruption
(`NeedsRecovery`), and looks at the file without the checkpoint beside it; the
checkpoint of such a session is restored when its next turn begins.
`Restore` appends what of the checkpoint the rows do not end with already, as
the code compares them. What a filter keeps of a sequence is `At`, which numbers
the positions kept, so that proofs can speak of them. `View` is the history a model's messages are built
from, which is where the mark of an interrupted operation gets lost (see
Findings). Some behaviours the model made visible are intended or tolerated, and
the properties name them as exceptions: `update_metadata` makes a live
checkpoint the older file until the next one is written; a dismissal while a
turn runs restores the live checkpoint, which that turn then saves again; a
stopped turn keeps only its last iteration; the follow-ups drained into a turn
that is stopped wait for the next start of the gateway.

Left out: inputs of other channels, automations and subagent results in the
session, commands, compaction, goal continuations, checkpoints of a phase the
code does not know, a scan that raises, two processes on one session.

## 3. Runs

| Run | Instance | Shows |
|---|---|---|
| `dispatch` | two inputs, a result, an automation turn and /stop of one session, an input of another; queue of one, gate of one; 230k states | all safety of the dispatch core, and `ImplementsTurns` |
| `dispatch_fair` | an input, two automation turns, /new, fairness; 22k states | every message settles, deferred turns have a publisher, automation turns are answered |
| `dispatch_waiter` | an input, an automation turn, /stop | **violated**: `WaiterAnswered` |
| `dispatch_new` | an input, /new | **violated**: `NewClearsSession` |
| `journal` | two writers, two streams, six calls, two of them interrupted; keeps 2 per stream, 3 in all; 63k states | numbers grow, replay is honest while no line is cut, the file keeps its limits |
| `journal_seq` | the same, one interrupted call | **violated**: `Validates` |
| `journal_torn` | the same, one interrupted call | **violated**: `ServesAcked` |
| `triggers` | three deliveries for two triggers, one on a channel that is off; batches of two, three attempts, two ends of the gateway, one fault; 192k states | no delivery lost, overtaken, run again or given up without cause; each leaves the queue unless the worker waits for a turn that is never answered; and `ImplementsQueue` |
| `cron` | a one-shot and a repeating job, two ticks of the clock, one edit, one end of the process, one failed write, another process that adds and removes; 860k states | no acknowledged job lost; the timer runs none after the gateway acknowledged its removal or disabling, none after a removal by the other process was merged, and no occurrence again that ran to its end; a due job is run or rescheduled unless the tick waits for a turn that is never answered |
| `recovery` | two inputs, two tool calls of an unsafe operation, two interruptions (crash, stop or exception) at any step, naming the session once; 573k states | inputs, rows and checkpoints survive once, continuations are those asked for, journaled inputs get their turn |
| `recovery_consent` | the same, a safe operation beside the unsafe one, one interruption | **violated**: `NoBlindRetry` |
| `ledger` | two mutations, two connections, one end of the process, one failed write, fairness; 410k states | at most once, honest answers, every request is answered; and `ImplementsOnce` |

Why the bounds suffice. A message takes part once, so what matters is which
kinds meet at one lock, one queue and one gate; with a queue of one and a gate
of one, "full" and "waiting" happen with two messages, and `dispatch` has more
than that of each. (`dispatch_fair` has not: it never fills a queue nor has two
sessions at the gate, so liveness is not shown for these.) Six appends to a journal that keeps two and three fill it,
compact it for either limit and go on after both faults. Two connections and one
end of the process give a resend to the same process, to another, and through a
half-open connection; a third adds another resend of the same kind. In
`triggers`, two ends and one fault reach the three attempts that give a delivery
up, a batch of two leaves a third delivery behind, and both orders of two
deliveries of one trigger around another's occur. In `cron`, two ticks let a
repeating job become due again after its first run, a one-shot job become due
while another is executed, and either be edited, removed or run by hand at that
time; one failed save with one end of the process covers what is in memory only.
In `recovery`, two interruptions give a crash during a continuation and a crash
after a stop, two inputs an input that is queued, drained, left over or
superseding, and two calls a checkpoint that replaces another. The theorems of
section 4 hold for all bounds. `QueueCap`, `GateSize`, `Keep`, `MaxRecords`,
`Batch` and `MaxAttempts` are parameters of the code (its ten attempts are three
here); `MaxEvents`, `MaxFaults`, `MaxConns`, `MaxDowns`, `MaxTime`, `MaxEdits`,
`MaxCalls` and `MaxCuts` only bound the behaviours.

Deadlock is checked in the journal runs only, where a writer can always restart.
Elsewhere the system really comes to rest: a loop whose messages are all settled
waits for the next, and so do a client that was answered or has used up its
connections, a worker with an empty inbox, a timer whose clock has ended, and a
session without inputs.

Fairness. `FairSpec` of `AgentLoop`: run() always goes on, a task whose await is
over resumes, a turn ends (budgets and the LLM timeout bound it) and so does a
subagent. Nothing is assumed of users or callers. `OperationLedger`: the event
loop resumes what is ready, an operation ends, a supervisor starts the gateway
again, and the client notices the end of its connection and makes another.
Timeouts of requests are not fair, so `Answered` speaks of a client that waits.
`LocalTriggers`, `CronService` and `TurnRecovery`: a supervisor starts the
gateway again, the event loop resumes the worker, the timer or the turn, and a
turn that goes on ends (its iterations are bounded, tools and model have
timeouts). It is not assumed that the worker or the tick hears of it:
`dispatch_waiter` shows a turn whose submit() is never answered, so `LoseTurn`
may take any turn of theirs, and fairness of `EndTurn`, `Executed` and `RunEnds`
is of turns that were not taken. `Settles` then says that every delivery leaves
the queue or the worker hangs for good, and `Runs` that no due job stays due
while the tick does not hang; a manual run that hangs is no excuse. Commands,
new messages, faults and crashes are never fair; their bounds are what makes an
end of interruptions, after which `Settles`, `Runs` and `Handled` say something.
`Runs` says that a due job does not stay due. It does not say that each due time
is met: a job due while the gateway is down is not (`_recompute_next_runs` moves
it on, and a one-shot job whose time has passed gets none and never runs).

### Findings

* `dispatch_new`: /new on an idle session runs in a task of the session whose
  tasks it cancels, its own among them, and never reaches `session.clear()`.
* `dispatch_waiter`: an automation turn cancelled before it holds its session's
  lock leaves the future of submit() unresolved for ever. Nothing that waits for
  it has a timeout, so the trigger worker or the cron tick hangs with it.
* `journal_seq`: a call that ends between line and sequences file makes the next
  event of the stream reuse its number.
* `journal_torn`: a cut last line swallows the next event, which was fsynced and
  sent, and replay reports no gap.
* `recovery_consent`: the mark that makes an interrupted, unsafe operation ask
  before it is attempted again is written to the session, but `get_history` does
  not copy it into the messages of the next turn, where `CallExecutor` looks for
  it: the operation runs unasked. docs/record-replay.md promises the opposite.

## 4. Theorems

Each proof module has the same shape: an inductive invariant, one lemma per
action, and theorems that follow from it. TLC checked each invariant before it
was proved. The only assumptions are the named ASSUMEs on the constants.

`AgentLoop_proofs`: `DispatchInv` joins `TypeOK`, `SerialTurns`, `QueueHasTurn`,
`InOnePlace` and two facts without which they are not inductive: an inline
command's victims cover the live tasks it cancelled (`ControlJoinsAll`), and a
revoked result has no token (`RevokedHasNoToken`). Queues list exactly the
messages at each place, so a lock is held iff a task of its session is past it,
and removing a waiter by its index removes that waiter and no other. From it:
`TypeCorrect`, `TurnsAreSerial`, `QueuesHaveTurns`, `MessagesInOnePlace`,
`RevokedResultsStayOut`, `StopKeepsFollowUps`.

`AgentLoopEnds_proofs` extends it. `GateIsConserved`: free slots and running
turns add up to the size of the gate; the running tasks are a finite set, and
each action adds one to it or takes one from it as it takes or gives a slot.
`DeferredTurnsHavePublisher` needs `DeferredInv`: a task that is cancelled and a
result that is stale both belong to a session a command has disturbed, so an
undisturbed one with a deferred turn has a task whose end publishes it, or an
automation turn ahead on the bus.

`AgentLoopRefines_proofs`: `LoopImplementsTurns`, the refinement of
`SessionTurns`, by one lemma per action; most steps are stutters of the abstract
promise, and the others need `SerialTurns` to show that no turn of the session
runs when one begins.

`EventJournal_proofs`: `JournalInv` says that ids and acknowledged numbers are
recorded; that lines of a stream after an acknowledged event have higher
numbers; that, with no cut line, an acknowledged event is in the file or older
than all the file has of its stream; and that, unless a call ended between the
files, lines are in order and only an unterminated one is ahead of the sequences
file. The key lemma, `RecentKeepsNewest`, says that compaction drops only what
is older than all it keeps of the stream, by comparing the cardinalities of the
events from each on. From it: `JournalTypeCorrect`, `FileValidates`,
`ReplayIsHonest` and the action property `AckedNumbersGrow`. The action property
`JournalIsBounded` rests on a second invariant, `CountsCover`: a writer whose
signature is that of the file has counts that are no lower than the file's, as
other writers change the signature. So a call either counts again or compacts in
time, and `RecentFits` says that compaction meets both limits: of a set of
events, those that have at most n from themselves on are n at the most, because
the oldest of them has all of them after it (`LastAreFew`).

`OperationLedger_proofs`: `LedgerInv` says of each request that a record in the
ledger, an operation in memory, an answer in transit and what the client was
told all agree with how its one operation went, and that a request the ledger
does not have either never began or is over for its client too. From it:
`LedgerTypeCorrect`, `MutationsRunOnce`, `AnswersAreHonest`. The refinement
`LedgerImplementsOnce` adds that nothing is in transit or in memory of a request
that was not asked for (`AskedInv`); `ServeStep` shows that what a stray thread
carries out late is of an operation that has not ended.

`LocalTriggers_proofs`: `QueueInv` relates the attempt a file waits for to what
happened to its delivery. A file in the inbox waits for an attempt that was not
made (`submitted < inbox`); one in processing may be in its attempt, and once its
process is ending there is one more cause (an end or a fault) against it; the
worker's first delivery is the only one whose turn may have begun. Causes bound
attempts, and ended turns are bounded by causes. Between the two steps of a move
the delivery is already in its new place (`MoveInv`), which is what makes an
interrupted move safe. From it: `TypesHold`, `NothingLost`, `RunsHaveCause`,
`GivingUpHasCause`.

A lost turn (`LoseKeeps`) changes nothing but where the worker waits, so all of
this holds of a worker that hangs.

`OrderIsKept` needs `OrderInv`: numbers are given in order; after the recovery
nothing is in processing but what the worker holds; it lets go of a delivery,
without settling it, only after its turn began or a write failed; and a later
delivery is neither submitted nor held while an earlier one waits that is not
held. `TriggersImplementQueue`, the refinement, needs `FilesInv`: a completed
delivery has no file; one that was given up is not in the inbox, and in
processing only with its attempts spent, so the recovery gives it up again;
two files of one delivery are the two ends of one move; and what the worker
holds is what is in processing, unless its trigger was deleted.

`CronService_proofs`: `CronInv`. Three facts carry it: while the service runs, a
kept job is in memory or still in action.jsonl, so a save over the file loses
none; no store that may be used still has an ended occurrence as the next of its
job (`Fresh`), which holds of the disk only while it may be read again; and no
store enables a job whose removal or disabling was acknowledged, since the save
that acknowledges it also ends the tick. `Storing` is the lemma behind every
action: what a save, or a failed save, of a sound store leaves. Beside it stands
`RemovedInv`, for the removals of the other process: once action.jsonl has one no
longer, the job is in no list, not in memory and not in action.jsonl, and in
jobs.json only while the memory is still to be saved over it. A merge keeps this
because the store is loaded only while no tick has a list
(`LoadedRemoved`, `RemovedStored`), and a crash because what it brings back from
jobs.json is exactly what `removed` forgets (`RemovedDown`). From both:
`CronTypesHold`, `JobsNotLost`, `StoppedJobsStay` and the action property
`OccurrencesEndOnce`.

`TurnRecovery_proofs`: three invariants, each on top of the one before.

* `TypeInv` (`TypesHold`) adds to the types what the actions need to keep them:
  where a turn is, and how file and cache agree. While the gateway runs, the
  cached session is that of the file but for its checkpoint, and is what a load
  would give, unless `update_metadata` exposed the older file.
* `KeepInv` says of the cached session, of the file's and of what a load would
  give (`SessionsSound`) that rows name an input, a call and its end at most
  once, that rows, journal and checkpoint share no names, and that a recorded
  input is a row or journaled; of a turn (`TurnSound`) that what it will save is
  not among the rows yet; and of an input (`Places`) that it is in one place
  only: the bus, the queue, the turn or the rows. `Tidied` is what every
  operation of the recovery has in common: it adds rows from the checkpoint,
  clears it only with that, and keeps a sound session sound. A dismissal while a
  turn runs restores rows that the turn saves again; the ids it spoils are the
  only exception. From it: `InputsAreKept`, `InputsAreRowsOnce`,
  `RowsAreRowsOnce`, `CheckpointsAreKept`.
* `WishInv`: only Continue sets "resuming", and every action that takes the
  user's word back also leaves that state, so a continuation that waits on the
  bus cannot begin; one that runs was wanted, or was dismissed late. From it:
  `ContinuationsAreWanted`.

Every invariant and every action property of the passing runs is proved, and so
are the three refinements. Model-checked only: liveness (`EveryMessageSettles`,
`AutomationAnswered`, `Answered`, `Settles`, `Runs`, `Handled`), which is out of
the prover's reach, as it rests on fairness. The properties of the five violation
runs are false of the code, and only their counterexamples are shown. What `At`
returns is proved from cardinalities (`Enumerates`), not by induction over the
sequence, and `From` and `Recent` of the journal likewise.

## 5. Plan

Done: `AgentLoop` with `SessionTurns`, `EventJournal`, `OperationLedger` with
`MutationOnce`, `LocalTriggers` with `DeliveryQueue`, `CronService`,
`TurnRecovery`. What would come next:

1. The resume protocol (`GatewayResume`): a client, its connections and a journal
   reduced to what `EventJournal` proves; streams per connection, resume after a
   gap, live frames inside a replay, a connection lost during a resume.
2. Recovery admission, the gate per sender and shutdown as actions of
   `AgentLoop`, composed with `TurnRecovery`.
3. `Outbound`: coalescing, suppression of duplicates, retries.
4. `ToolApproval` and `ProviderFallback`: an answer that races its timeout, and
   several callers at a half-open breaker.
5. Abstract promises for the journal (a log that a client reads with gaps) and for
   recovery (the life of an input and of a call), implemented as `SessionTurns`
   is.

### Not modelled

* The approval broker keeps one future per request in a map of one event loop:
  `resolve()` ignores a future that is done, and the waiting `request()` removes
  the entry however its wait ended. The turn that waits is an await of
  `AgentLoop`.
* The channel manager's merging and suppression depend on the texts of messages;
  the hazard of a failed send is listed with its line.
* Provider fallback, admission and the runner's budgets are counters around HTTP
  calls; what a turn leaves on disk when they end it is `Fail` of `TurnRecovery`.
* The pairing store is a file rewritten under a lock.
* The resume frames and the client's gap handling: see the plan. The hazards
  there are listed without a property.
* Channel adapters, provider clients, tools, MCP, exec sessions, configuration,
  CLI and front ends do I/O, parsing and rendering; context, memory and
  compaction assemble texts. They are most of the repository's lines, and have no
  protocol of their own that a model of this kind could say something about.
