---------------------------- MODULE TurnRecovery ----------------------------
(***************************************************************************)
(* What a restart of the gateway leaves of a turn of one WebUI session: the *)
(* session's file and its checkpoint beside it (session/manager.py), the    *)
(* checkpoints of a running turn (agent/runner.py), the journal of inputs   *)
(* that arrived during it (agent/loop.py) and the coordinator that offers   *)
(* an interrupted turn to the user (session/recovery.py).                   *)
(*                                                                          *)
(* Every input comes from the WebUI; those of other channels, automations   *)
(* and subagents, commands and compaction are left out.  A batch of tool    *)
(* calls is one call: nothing is written between two of a batch.  The       *)
(* pending queue does not fill (AgentLoop has that case), and the files can *)
(* be parsed.  Every change of a session moves its timestamp and its file's *)
(* mtime, so the two say which of the files is the later one.               *)
(***************************************************************************)
EXTENDS Naturals, FiniteSets, Sequences, FiniteSetsExt, SequencesExt

CONSTANTS
  Messages,    \* inputs of the user, each sent once
  Ops,         \* operations that a tool call asks for
  SafeOps,     \* those whose policy lets them be retried
  MaxCalls,    \* bound: tool calls the model makes
  MaxCuts      \* bound: ends of the process, turns stopped and turns that failed

ASSUME TurnRecoveryAssumption ==
  /\ Messages \cap Nat = {}
  /\ SafeOps \subseteq Ops
  /\ MaxCalls \in Nat /\ MaxCuts \in Nat

VARIABLES
  main,   \* the session's file
  side,   \* the checkpoint's file; empty where there is none
  stale,  \* it is older than the session's file
  mem,    \* the session in the cache
  up,     \* the process runs
  turn,   \* the turn that runs
  queue,  \* its pending queue
  bus,    \* inbound: inputs, and continuations as the number of their recovery
  ids,    \* the last number given to a call or an answer
  named,  \* update_metadata gave the session its name: "exposed" while the
          \*   checkpoint it made stale was not written again
  cuts,
  sent,      \* history: inputs that the run loop took
  recorded,  \* history: inputs that were written to disk
  last,      \* history: the last checkpoint
  spoiled,   \* history: numbers in checkpoints dismissed while their turn ran
  wish,      \* history: "yes" where the user's last word was Continue, "late" where
             \*   the continuation was dismissed once it ran
  dropped,   \* history: inputs of a turn that was stopped or failed
  unsure,    \* history: operations interrupted while they ran
  blind      \* history: one of them was attempted again unconfirmed

historyVars == <<sent, recorded, last, spoiled, wish, dropped, unsure, blind>>
fileVars == <<main, side, stale>>
vars == <<fileVars, mem, up, turn, queue, bus, ids, named, cuts, historyVars>>

NoOp == "none"

\* A row of the history: a user's input, an assistant's tool call, the result
\* of one, the mark of a lost one, an answer or a notice.
Row(t, id, op) == [t |-> t, id |-> id, op |-> op]
User(m) == Row("user", m, NoOp)
Notice == Row("notice", 0, NoOp)

\* The part of a sequence at a set of its positions, in order: SelectSeq, said
\* by the positions that are kept.
At(seq, K) ==
  [k \in 1..Cardinality(K) |-> seq[CHOOSE i \in K : Cardinality({j \in K : j <= i}) = k]]

Users(rows) == {r.id : r \in {q \in Range(rows) : q.t = "user"}}

\* A checkpoint is the rows it stands for: a call that is pending will be lost.
Awaiting(n, op) == <<Row("call", n, op), Row("lost", n, op)>>
Completed(n, op) == <<Row("call", n, op), Row("result", n, NoOp)>>
Final(n) == <<Row("answer", n, NoOp)>>

NoTurn == [kind |-> "none", phase |-> "none", msg |-> 0, new |-> <<>>, op |-> NoOp,
           began |-> FALSE, known |-> {}]
Turn(kind, m) == [NoTurn EXCEPT !.kind = kind, !.phase = "start", !.msg = m]

\* rec: the recovery state, with its id, the length of the history at Continue
\* and whether it can be continued.
NoSession == [rows |-> <<>>, pending |-> FALSE, cp |-> <<>>, jrnl |-> <<>>,
              rec |-> [st |-> "none", id |-> 0, base |-> 0, ok |-> TRUE]]

Open == {"resuming", "awaiting_user"}

Init ==
  /\ main = NoSession /\ mem = NoSession
  /\ side = <<>> /\ stale = TRUE
  /\ up = TRUE
  /\ turn = NoTurn
  /\ queue = <<>> /\ bus = <<>>
  /\ ids = 0 /\ cuts = 0
  /\ named = "no"
  /\ sent = {} /\ recorded = {} /\ last = <<>> /\ spoiled = {}
  /\ wish = "no"
  /\ dropped = {} /\ unsure = {} /\ blind = FALSE

-----------------------------------------------------------------------------
\* The files

\* save: the session's file is replaced, then the checkpoint's is unlinked.  A
\* crash may fall between, so that it is left here and only stale.
Save(s) ==
  /\ main' = s
  /\ stale' = TRUE
  /\ UNCHANGED side

SaveIfChanged(s) == IF s = mem THEN UNCHANGED fileVars ELSE Save(s)

\* save_runtime_checkpoint
Checkpoint(rows) ==
  /\ side' = rows
  /\ stale' = FALSE
  /\ mem' = [mem EXCEPT !.cp = rows]
  /\ last' = rows
  /\ named' = IF named = "exposed" THEN "yes" ELSE named
  /\ UNCHANGED main

\* What a load gives.  Variant: the session's file alone.
LoadedMain == main
Loaded == IF stale THEN main ELSE [main EXCEPT !.cp = side]

-----------------------------------------------------------------------------
\* session/recovery.py: the session

\* restore_runtime_checkpoint.  Variant: the checkpoint is not cleared.
RestoreAgain(s) ==
  IF s.cp = <<>> THEN s
  ELSE [s EXCEPT !.rows = @ \o s.cp, !.pending = FALSE]

Overlap(rows, cp) ==
  Max({k \in 0..Min({Len(rows), Len(cp)}) :
         SubSeq(rows, Len(rows) - k + 1, Len(rows)) = SubSeq(cp, 1, k)})

Restore(s) ==
  IF s.cp = <<>> THEN s
  ELSE [s EXCEPT !.rows = @ \o SubSeq(s.cp, Overlap(s.rows, s.cp) + 1, Len(s.cp)),
                 !.cp = <<>>,
                 !.pending = FALSE]

\* restore_pending_interruption
Close(s) ==
  IF ~s.pending THEN s
  ELSE [s EXCEPT !.rows = IF @ # <<>> /\ Last(@).t = "user" THEN Append(@, Notice) ELSE @,
                 !.pending = FALSE]

\* append_recovery_interruption
Interrupt(s) ==
  IF s.rows # <<>> /\ Last(s.rows).t \in {"lost", "notice"} THEN s
  ELSE [s EXCEPT !.rows = Append(@, Notice)]

\* _set_state.  Variant: with a new id every time.
SetNewState(s, st) == [s EXCEPT !.rec.st = st, !.rec.ok = TRUE, !.rec.id = @ + 1]
SetState(s, st) == [s EXCEPT !.rec.st = st, !.rec.ok = TRUE]
NewState(s, st) == [SetState(s, st) EXCEPT !.rec.id = @ + 1, !.rec.base = 0]

\* record_pending_followup
Journal(s, m) ==
  [s EXCEPT !.jrnl = IF m \in Range(@) THEN @ ELSE Append(@, m)]

\* acknowledge_pending_followups.  Variant: nothing is.
AckNone(s, ms) == s
Ack(s, ms) == [s EXCEPT !.jrnl = At(@, {i \in DOMAIN @ : @[i] \notin ms})]

\* admit: a newer input supersedes the recovery.
Admit(s) ==
  IF s.rec.st \notin Open THEN s
  ELSE LET r == Restore(s)
       IN SetState(IF r.pending THEN Close(r) ELSE Interrupt(r), "recovered")

\* ... and cancels its continuation.
Cancelled == mem.rec.st \in Open /\ turn.kind = "recovery"

\* turn_completed
Resolve(s) == IF s.rec.st = "resuming" THEN SetState(s, "recovered") ELSE s

\* _has_saved_continuation_context
HasContext(rows) ==
  \E u \in 1..Len(rows) :
    /\ rows[u].t = "user"
    /\ \A i \in u+1..Len(rows) : rows[i].t # "user"
    /\ \/ \E i \in u+1..Len(rows) : rows[i].t \in {"call", "lost", "notice"}
       \/ Last(rows).t = "result"

\* _recover_session
Recover(s, unfinished) ==
  CASE ~s.pending /\ s.cp = <<>> /\ s.rec.st = "resuming" ->
         SetState(s, IF Len(s.rows) > s.rec.base THEN "recovered" ELSE "awaiting_user")
    [] ~s.pending /\ s.cp = <<>> /\ s.rec.st # "resuming" ->
         IF unfinished
         THEN [NewState(s, "awaiting_user") EXCEPT !.rec.ok = HasContext(s.rows)]
         ELSE s
    [] (s.pending \/ s.cp # <<>>) /\ s.rec.st = "awaiting_user" -> s
    [] (s.pending \/ s.cp # <<>>) /\ s.rec.st = "resuming" ->
         SetState(Close(Restore(s)), "awaiting_user")
    [] OTHER ->
         NewState(Restore(s), IF s.cp # <<>> /\ Head(s.cp).t = "answer"
                              THEN "recovered" ELSE "awaiting_user")

-----------------------------------------------------------------------------
\* AgentLoop.run and _dispatch

\* The run loop takes an input from the bus: the first, or one that was not sent
\* yet, since where a new one waits changes nothing.  The inputs are alike: the
\* order in which they are sent is that of CHOOSE.
Takes(m) ==
  /\ up
  /\ IF m \in sent THEN bus # <<>> /\ Head(bus) = m
                    ELSE m = CHOOSE n \in Messages : n \notin sent
  /\ sent' = sent \cup {m}

Rest(m) == IF m \in sent THEN Tail(bus) ELSE bus

\* What the end of a turn leaves in the history variables: its inputs, and the
\* operation it was in the middle of.
EndsUnfinished ==
  /\ dropped' = dropped \cup Users(turn.new) \cup ({turn.msg} \cap Messages)
  /\ unsure' = unsure \cup IF turn.began THEN {turn.op} ELSE {}

\* An input begins a turn (_restore_turn), ...
Dispatch(m) ==
  /\ Takes(m)
  /\ turn.kind = "none" \/ Cancelled
  /\ LET s == Close(Restore(Admit(mem)))
     IN mem' = s /\ SaveIfChanged(s)
  /\ turn' = Turn("user", m)
  /\ queue' = <<>>
  /\ bus' = Rest(m) \o queue
  /\ wish' = "no"
  /\ EndsUnfinished
  /\ UNCHANGED <<up, ids, named, cuts, recorded, last, spoiled, blind>>

\* ... or is journaled and put into the queue of the one that runs.
Route(m) ==
  /\ Takes(m)
  /\ turn.kind # "none" /\ ~Cancelled
  /\ LET s == Journal(Admit(mem), m)
     IN mem' = s /\ Save(s)
  /\ queue' = Append(queue, m)
  /\ bus' = Rest(m)
  /\ wish' = IF wish = "late" THEN wish ELSE "no"
  /\ recorded' = recorded \cup {m}
  /\ UNCHANGED <<up, turn, ids, named, cuts, last, spoiled, dropped, unsure, blind>>

\* admit: a continuation that waits in the bus is stale unless ...  Variant:
\* it never is.
AnyAdmissible(s, r) == TRUE
Admissible(s, r) == s.rec.st = "resuming" /\ s.rec.id = r

Resume(r) ==
  /\ up /\ bus # <<>> /\ Head(bus) = r
  /\ Admissible(mem, r)
  /\ turn.kind = "none"
  /\ mem' = Restore(mem)
  /\ SaveIfChanged(Restore(mem))
  /\ turn' = Turn("recovery", 0)
  /\ bus' = Tail(bus)
  /\ UNCHANGED <<up, queue, ids, named, cuts, sent, recorded, last, spoiled,
                 wish, dropped, unsure, blind>>

SkipStale(r) ==
  /\ up /\ bus # <<>> /\ Head(bus) = r
  /\ ~Admissible(mem, r)
  /\ bus' = Tail(bus)
  /\ UNCHANGED <<fileVars, mem, up, turn, queue, ids, named, cuts, historyVars>>

-----------------------------------------------------------------------------
\* The turn

\* The history a model sees is made of roles, contents and calls.
View(rows) == [i \in DOMAIN rows |-> IF rows[i].t = "lost" THEN [rows[i] EXCEPT !.op = NoOp]
                                     ELSE rows[i]]
Marked(rows) == {r.op : r \in {q \in Range(rows) : q.t = "lost"}}

\* _build_turn, _persist_user_message_early
Begin ==
  /\ turn.phase = "start"
  /\ turn' = [turn EXCEPT !.phase = "model", !.known = Marked(View(mem.rows))]
  /\ IF turn.kind = "user"
     THEN LET s == [Ack(mem, {turn.msg}) EXCEPT !.rows = Append(@, User(turn.msg)),
                                                !.pending = TRUE]
          IN /\ mem' = s /\ Save(s)
             /\ recorded' = recorded \cup {turn.msg}
     ELSE UNCHANGED <<mem, fileVars, recorded>>
  /\ UNCHANGED <<up, queue, bus, ids, named, cuts, sent, last, spoiled,
                 wish, dropped, unsure, blind>>

CallTool(op) ==
  /\ turn.phase = "model" /\ ids < MaxCalls
  /\ ids' = ids + 1
  /\ turn' = [turn EXCEPT !.phase = "tools", !.op = op, !.began = FALSE,
                          !.new = Append(@, Row("call", ids', op))]
  /\ Checkpoint(Awaiting(ids', op))
  /\ UNCHANGED <<up, queue, bus, cuts, sent, recorded, spoiled, wish,
                 dropped, unsure, blind>>

\* CallExecutor.run: a marked operation that is not safe runs if it is approved.
RunTool(approved) ==
  /\ turn.phase = "tools" /\ ~turn.began
  /\ LET asked == turn.op \in turn.known \ (SafeOps \cup {NoOp})
         runs == ~asked \/ approved
     IN /\ turn' = [turn EXCEPT !.began = TRUE]
        /\ blind' = (blind \/ (runs /\ ~asked /\ turn.op \in unsure \ SafeOps))
        /\ unsure' = IF runs /\ asked THEN unsure \ {turn.op} ELSE unsure
  /\ UNCHANGED <<fileVars, mem, up, queue, bus, ids, named, cuts, sent, recorded,
                 last, spoiled, wish, dropped>>

\* The follow-ups are drained into the turn right after the checkpoint, a row
\* for each here.
ToolDone ==
  /\ turn.phase = "tools" /\ turn.began
  /\ turn' = [turn EXCEPT !.phase = "model", !.op = NoOp, !.began = FALSE,
                          !.new = (@ \o <<Row("result", ids, NoOp)>>)
                                     \o [i \in DOMAIN queue |-> User(queue[i])]]
  /\ queue' = <<>>
  /\ Checkpoint(Completed(ids, turn.op))
  /\ UNCHANGED <<up, bus, ids, cuts, sent, recorded, spoiled, wish,
                 dropped, unsure, blind>>

\* An answer goes on with the follow-ups there are.
Answer ==
  /\ turn.phase = "model"
  /\ ids' = ids + 1
  /\ turn' = [turn EXCEPT !.phase = IF queue = <<>> THEN "answered" ELSE "model",
                          !.new = (@ \o Final(ids')) \o [i \in DOMAIN queue |-> User(queue[i])]]
  /\ queue' = <<>>
  /\ Checkpoint(Final(ids'))
  /\ UNCHANGED <<up, bus, cuts, sent, recorded, spoiled, wish, dropped,
                 unsure, blind>>

\* _save_turn drops a second result of a call.
Resolved(rows, r) ==
  r.t = "result" /\ \E q \in Range(rows) : q.id = r.id /\ q.t \in {"lost", "result"}

\* Variant: it drops the inputs that were drained.
NewOutput(rows, new) == At(new, {i \in DOMAIN new : new[i].t # "user"})

NewRows(rows, new) == At(new, {i \in DOMAIN new : ~Resolved(rows, new[i])})

\* _persist_turn
Persist ==
  /\ turn.phase = "answered"
  /\ turn' = [turn EXCEPT !.phase = "saved"]
  /\ LET s == [Ack(mem, Users(turn.new)) EXCEPT !.rows = @ \o NewRows(@, turn.new),
                                                !.pending = FALSE,
                                                !.cp = <<>>]
     IN mem' = s /\ Save(s)
  /\ UNCHANGED <<up, queue, bus, ids, named, cuts, historyVars>>

\* The end of a turn publishes what is left in its queue.  Variant: drops it.
EndTurnOnly(s) ==
  /\ mem' = s /\ SaveIfChanged(s)
  /\ turn' = NoTurn
  /\ queue' = <<>>
  /\ UNCHANGED bus

EndTurn(s) ==
  /\ mem' = s /\ SaveIfChanged(s)
  /\ turn' = NoTurn
  /\ queue' = <<>>
  /\ bus' = bus \o queue

Complete ==
  /\ turn.phase = "saved"
  /\ EndTurn(Resolve(mem))
  /\ UNCHANGED <<up, ids, named, cuts, historyVars>>

\* An exception ends the turn: what it wrote stays for the next one to restore.
Fail ==
  /\ turn.phase \in {"start", "model", "tools", "answered"}
  /\ cuts < MaxCuts /\ cuts' = cuts + 1
  /\ EndTurn(Resolve(mem))
  /\ EndsUnfinished
  /\ UNCHANGED <<up, ids, named, sent, recorded, last, spoiled, wish,
                 blind>>

\* /stop
Stop ==
  /\ turn.kind # "none"
  /\ cuts < MaxCuts /\ cuts' = cuts + 1
  /\ EndTurn(Restore(mem))
  /\ EndsUnfinished
  /\ UNCHANGED <<up, ids, named, sent, recorded, last, spoiled, wish,
                 blind>>

-----------------------------------------------------------------------------
\* handle_action, by a page that knows the recovery's id

Continue ==
  /\ up /\ mem.rec.st = "awaiting_user" /\ mem.rec.ok
  /\ LET s == [SetState(mem, "resuming") EXCEPT !.rec.base = Len(mem.rows)]
     IN mem' = s /\ Save(s)
  /\ bus' = Append(bus, mem.rec.id)
  /\ wish' = "yes"
  /\ UNCHANGED <<up, turn, queue, ids, named, cuts, sent, recorded, last, spoiled,
                 dropped, unsure, blind>>

Dismiss ==
  /\ up /\ mem.rec.st # "none"
  /\ LET s == SetState(Close(Restore(mem)), "recovered")
     IN mem' = s /\ Save(s)
  /\ spoiled' = spoiled \cup IF turn.kind = "none" THEN {} ELSE {r.id : r \in Range(mem.cp)}
  /\ wish' = IF turn.kind = "recovery" THEN "late" ELSE "no"
  /\ UNCHANGED <<up, turn, queue, bus, ids, named, cuts, sent, recorded, last,
                 dropped, unsure, blind>>

-----------------------------------------------------------------------------
\* update_metadata gives a session its name, once.  It matters where there is a
\* checkpoint.
UpdateMetadata ==
  /\ up /\ named = "no"
  /\ named' = "exposed"
  /\ ~stale /\ stale' = TRUE
  /\ UNCHANGED <<main, side, mem, up, turn, queue, bus, ids, cuts, historyVars>>

\* The process ends, by a crash or by a shutdown, which leaves the checkpoint.
Crash ==
  /\ up /\ cuts < MaxCuts
  /\ cuts' = cuts + 1
  /\ up' = FALSE
  /\ turn' = NoTurn /\ queue' = <<>> /\ bus' = <<>>
  /\ mem' = NoSession
  /\ dropped' = {}
  /\ unsure' = unsure \cup IF turn.began THEN {turn.op} ELSE {}
  /\ UNCHANGED <<fileVars, ids, named, sent, recorded, last, spoiled, wish,
                 blind>>

\* _needs_recovery, of the session's file alone: whether a checkpoint has a file of
\* its own does not count.
NeedsRecovery(s) == s.pending \/ s.cp # <<>> \/ s.jrnl # <<>> \/ s.rec.st \in Open

\* scan, before any channel starts.  unfinished: the transcript of the WebUI
\* ends in a turn without a turn_end.  A session that is passed over is loaded
\* when it is first used, as it is now.
Restart(unfinished) ==
  /\ ~up /\ up' = TRUE
  /\ unfinished => main.rows # <<>>
  /\ LET s == IF unfinished \/ NeedsRecovery(main) THEN Recover(Loaded, unfinished)
              ELSE Loaded
     IN /\ mem' = s
        /\ IF s = Loaded THEN UNCHANGED fileVars ELSE Save(s)
        /\ bus' = s.jrnl
  /\ UNCHANGED <<turn, queue, ids, named, cuts, historyVars>>

Arrive == \E m \in Messages \ sent : Dispatch(m) \/ Route(m)

Receive ==
  \/ \E m \in sent : Dispatch(m) \/ Route(m)
  \/ \E r \in 0..MaxCuts : Resume(r) \/ SkipStale(r)

Run ==
  \/ Begin \/ ToolDone \/ Answer \/ Persist \/ Complete
  \/ \E op \in Ops : CallTool(op)
  \/ \E approved \in BOOLEAN : RunTool(approved)

Boot == \E unfinished \in BOOLEAN : Restart(unfinished)

Next ==
  \/ Arrive \/ Receive \/ Run \/ Boot
  \/ Fail \/ Stop \/ Continue \/ Dismiss \/ UpdateMetadata \/ Crash

\* The event loop goes on, tools and the model answer (both have timeouts), and
\* a supervisor starts the gateway again.
Fairness == WF_vars(Receive) /\ WF_vars(Run) /\ WF_vars(Boot)

Spec == Init /\ [][Next]_vars /\ Fairness
-----------------------------------------------------------------------------
Rows ==
  {r \in [t : {"user", "call", "result", "lost", "answer", "notice"},
          id : Messages \cup Nat,
          op : Ops \cup {NoOp}] :
     (r.t = "user" <=> r.id \in Messages) /\ (r.t = "notice" => r.id = 0)}

\* Those of a checkpoint.
Output == {r \in Rows : r.t \notin {"user", "notice"}}

Sessions ==
  [rows : Seq(Rows), pending : BOOLEAN, cp : Seq(Output), jrnl : Seq(Messages),
   rec : [st : Open \cup {"none", "recovered"}, id : Nat, base : Nat, ok : BOOLEAN]]

Turns ==
  [kind : {"none", "user", "recovery"},
   phase : {"none", "start", "model", "tools", "answered", "saved"},
   msg : Messages \cup {0}, new : Seq(Rows), op : Ops \cup {NoOp}, began : BOOLEAN,
   known : SUBSET (Ops \cup {NoOp})]

\* A recovery is numbered by the restart that found it.
TypeOK ==
  /\ main \in Sessions /\ mem \in Sessions
  /\ main.rec.id <= cuts /\ mem.rec.id <= cuts
  /\ side \in Seq(Output) /\ last \in Seq(Output)
  /\ stale \in BOOLEAN /\ up \in BOOLEAN
  /\ turn \in Turns
  /\ turn.kind = "none" <=> turn.phase = "none"
  /\ turn.began => turn.phase = "tools"
  /\ turn.phase = "tools" => turn.op \in Ops
  /\ queue \in Seq(Messages)
  /\ bus \in Seq(Messages \cup (0..cuts))
  /\ ids \in Nat /\ spoiled \subseteq Nat
  /\ named \in {"no", "exposed", "yes"}
  /\ cuts \in 0..MaxCuts
  /\ recorded \subseteq sent /\ sent \subseteq Messages /\ dropped \subseteq Messages
  /\ unsure \subseteq Ops
  /\ wish \in {"no", "yes", "late"} /\ blind \in BOOLEAN

\* An input that was written to disk stays there, as a row or in the journal,
\* whatever ends the turn it was queued for or drained into.
InputNotLost == \A m \in recorded : m \in Users(Loaded.rows) \cup Range(Loaded.jrnl)

\* An input is a row of the history once, however often it was published again.
InputOnce ==
  \A m \in Messages : Cardinality({i \in DOMAIN Loaded.rows : Loaded.rows[i] = User(m)}) <= 1

\* A call, its result (or the mark of its loss) and an answer are in the history
\* once: restored from a checkpoint, or saved by the turn.  Only a dismissal
\* while the turn goes on has both.
RowsOnce ==
  \A i, j \in DOMAIN Loaded.rows :
    LET a == Loaded.rows[i] b == Loaded.rows[j]
    IN i # j /\ a.id = b.id /\ a.t \notin {"user", "notice"} /\ a.id \notin spoiled =>
         "call" \in {a.t, b.t} /\ a.t # b.t

\* What the last checkpoint said is not lost, by a crash, a stop or an exception
\* at any step, unless update_metadata had made the checkpoint stale.
LastCheckpointKept ==
  named # "exposed" =>
    \A r \in Range(last) : r \in Range(Loaded.rows) \cup Range(Loaded.cp)

\* A continuation runs only while Continue is the user's last word: not if it
\* was dismissed before it began, and not beside a newer input, unless it was
\* dismissed after it began, which does not stop it.
ContinuationWanted == turn.kind = "recovery" => wish # "no"

\* A journaled input gets its turn, unless the turn it was drained into is
\* stopped or fails: then it waits for the next start of the gateway.
Handled ==
  \A m \in Messages :
    m \in Range(main.jrnl) ~> m \notin Range(main.jrnl) \/ m \in dropped

\* An operation that was interrupted while it ran is not attempted again
\* unconfirmed, unless its policy calls it safe.
NoBlindRetry == ~blind
=============================================================================
