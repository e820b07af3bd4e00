----------------------------- MODULE CronService -----------------------------
(***************************************************************************)
(* The scheduler of the gateway (cron/service.py): jobs.json, the snapshot  *)
(* of it in memory, the action.jsonl another process of pawbot appends to,  *)
(* the timer task that reloads the jobs and runs those that are due one     *)
(* after the other, and the commands and manual runs that meet it while it  *)
(* waits for a job.                                                         *)
(*                                                                          *)
(* A job is due at a time of the clock `now`.  Ids are fresh, so a removed  *)
(* job never comes back; every job is bound to a session; a job of kind     *)
(* "at" is deleted after its run, as both makers of such jobs ask.  The     *)
(* system jobs, which nobody may remove, and the run history are left out,  *)
(* and so is a jobs.json somebody else damaged.  A task that is cancelled   *)
(* ends before anything else happens.                                       *)
(*                                                                          *)
(* The other process is `pawbot agent`, whose cron tool adds, lists and     *)
(* removes; its lines are in no other order than adds before removals.  The *)
(* "update" lines that enable_job and update_job could append are left out: *)
(* only the WebUI calls these two, in the gateway, whose service runs       *)
(* before the WebUI is served.                                              *)
(***************************************************************************)
EXTENDS Naturals

CONSTANTS
  Jobs,       \* job ids
  OneShot,    \* those of kind "at"; the others are of kind "every"
  When,       \* the time of a one-shot job, the interval of another
  MaxTime,    \* bound: the clock
  MaxEdits,   \* bound: enabling, disabling and changing jobs
  MaxDowns,   \* bound: ends of the gateway process
  MaxFaults   \* bound: failed writes of jobs.json

ASSUME CronServiceAssumption ==
  /\ OneShot \subseteq Jobs
  /\ When \in [Jobs -> Nat \ {0}]
  /\ {MaxTime, MaxEdits, MaxDowns, MaxFaults} \subseteq Nat

VARIABLES
  now,
  up,        \* the service is running
  mem,       \* _store
  dirty,     \* _store_dirty
  disk,      \* jobs.json
  lines,     \* the jobs added in action.jsonl
  dels,      \* the jobs removed in it
  due,       \* due_jobs of the tick, those left, with the time each is due
  cur,       \* the one whose on_job the tick awaits
  ticking,   \* _on_timer is running
  manual,    \* jobs whose run_job awaits on_job
  hung,      \* of cur and manual, those whose on_job will never return
  edits, downs, faults,
  made,      \* history: job ids in use
  kept,      \* history: jobs whose add was acknowledged, not yet done or removed
  wrecked,   \* history: jobs a crash caught in memory only
  stopped,   \* history: jobs whose removal or disabling the gateway acknowledged
  removed,   \* history: jobs whose removal the other process acknowledged, and
             \*   no crash undid
  finished   \* history: occurrences the timer ran to their end

storeVars == <<mem, dirty, disk, lines, dels>>
tickVars == <<due, cur, ticking>>
execVars == <<tickVars, manual, hung>>
boundVars == <<edits, downs, faults>>
historyVars == <<made, kept, wrecked, stopped, removed, finished>>
vars == <<now, up, storeVars, execVars, boundVars, historyVars>>

\* The jobs of a store, those enabled, and next_run_at_ms, 0 for None.
Times == Nat
Stores == [jobs : SUBSET Jobs, on : SUBSET Jobs, next : [Jobs -> Times]]
Empty == [jobs |-> {}, on |-> {}, next |-> [j \in Jobs |-> 0]]

\* _compute_next_run
Compute(j) ==
  IF j \in OneShot THEN IF When[j] > now THEN When[j] ELSE 0
  ELSE now + When[j]

\* A store with a new job, without some (variant: they stay enabled), with a job
\* enabled or not.
With(s, j) ==
  [s EXCEPT !.jobs = @ \cup {j}, !.on = @ \cup {j}, !.next[j] = Compute(j)]
StillEnabled(s, gone) ==
  [jobs |-> s.jobs \ gone, on |-> s.on, next |-> s.next]
Without(s, gone) ==
  [jobs |-> s.jobs \ gone, on |-> s.on \ gone,
   next |-> [j \in Jobs |-> IF j \in gone THEN 0 ELSE s.next[j]]]
Switched(s, j, enabled) ==
  [s EXCEPT !.on = IF enabled THEN @ \cup {j} ELSE @ \ {j},
            !.next[j] = IF enabled THEN Compute(j) ELSE 0]

\* What the end of _execute_job makes of a store: a one-shot job is deleted.
\* Variant: its schedule is not advanced.
NotAdvanced(s, j) == IF j \in OneShot THEN Without(s, {j}) ELSE s
Advanced(s, j) ==
  IF j \in OneShot THEN Without(s, {j})
  ELSE IF j \in s.jobs THEN [s EXCEPT !.next[j] = Compute(j)] ELSE s

Init ==
  /\ now = 0
  /\ up = FALSE
  /\ mem = Empty
  /\ dirty = FALSE
  /\ disk = Empty
  /\ lines = Empty
  /\ dels = {}
  /\ due = {}
  /\ cur = {}
  /\ ticking = FALSE
  /\ manual = {}
  /\ hung = {}
  /\ edits = 0
  /\ downs = 0
  /\ faults = 0
  /\ made = {}
  /\ kept = {}
  /\ wrecked = {}
  /\ stopped = {}
  /\ removed = {}
  /\ finished = {}

-----------------------------------------------------------------------------
\* Loading and saving

\* _merge_action
Merged(s) ==
  Without([jobs |-> s.jobs \cup lines.jobs,
           on |-> s.on \cup lines.on,
           next |-> [j \in Jobs |-> IF j \in lines.jobs THEN lines.next[j] ELSE s.next[j]]],
          dels)

\* _active_executions > 0
Busy == ticking \/ manual # {}

\* When _load_store reads the disk.  Variants: also what a failed save left
\* in memory is replaced; also what an execution works on.
ReloadsDirty == ~Busy
ReloadsBusy == ~dirty
Reloads == ~dirty /\ ~Busy

Loaded == IF Reloads THEN Merged(disk) ELSE mem

\* action.jsonl is emptied when it was merged.
Consumed ==
  /\ lines' = IF Reloads THEN Empty ELSE lines
  /\ dels' = IF Reloads THEN {} ELSE dels

Fault ==
  /\ faults < MaxFaults
  /\ faults' = faults + 1

\* _save_store, after _load_store; it may fail, even after the file was replaced.
Saved(s) ==
  /\ mem' = s
  /\ disk' = s
  /\ dirty' = FALSE
  /\ Consumed
  /\ UNCHANGED faults

NotSaved(s) ==
  /\ Fault
  /\ mem' = s
  /\ disk' \in {IF Reloads THEN Loaded ELSE disk, s}
  /\ dirty' = TRUE
  /\ Consumed

\* The save in _merge_action fails, and with it what loaded the store.
LoadFails ==
  /\ up /\ Reloads
  /\ lines # Empty \/ dels # {}
  /\ Fault
  /\ mem' = Loaded
  /\ dirty' = TRUE
  /\ Consumed
  /\ UNCHANGED <<now, up, disk, execVars, edits, downs, historyVars>>

-----------------------------------------------------------------------------
\* Commands of the gateway's process

\* _arm_timer cancels the timer task, which may be the tick that awaits on_job,
\* and makes another.  Variant: the tick goes on.
LeaveTimer == UNCHANGED <<tickVars, hung>>
ArmTimer ==
  /\ due' = {}
  /\ cur' = {}
  /\ ticking' = FALSE
  /\ hung' = hung \ cur

\* A command acknowledges, and arms the timer, only if the store was saved; what
\* it was asked to undo holds no more in either case.
Acknowledged(s, keeping, stopping) ==
  \/ /\ Saved(s)
     /\ ArmTimer
     /\ kept' = keeping
     /\ stopped' = stopping
  \/ /\ NotSaved(s)
     /\ kept' = kept \cap keeping
     /\ stopped' = stopped \cap stopping
     /\ UNCHANGED <<tickVars, hung>>

AddJob(j) ==
  /\ up /\ j \notin made
  /\ made' = made \cup {j}
  /\ Acknowledged(With(Loaded, j), kept \cup {j}, stopped)
  /\ UNCHANGED <<now, up, manual, edits, downs, wrecked, removed, finished>>

RemoveJob(j) ==
  /\ up /\ j \in Loaded.jobs
  /\ Acknowledged(Without(Loaded, {j}), kept \ {j}, stopped \cup {j})
  /\ UNCHANGED <<now, up, manual, edits, downs, made, wrecked, removed, finished>>

EnableJob(j, enabled) ==
  /\ up /\ j \in Loaded.jobs
  /\ edits < MaxEdits /\ edits' = edits + 1
  /\ Acknowledged(Switched(Loaded, j, enabled), kept,
                  IF enabled THEN stopped \ {j} ELSE stopped \cup {j})
  /\ UNCHANGED <<now, up, manual, downs, made, wrecked, removed, finished>>

\* update_job; a changed schedule is the same kind of job here.
UpdateJob(j) ==
  /\ up /\ j \in Loaded.jobs
  /\ edits < MaxEdits /\ edits' = edits + 1
  /\ Acknowledged(Switched(Loaded, j, j \in Loaded.on), kept, stopped)
  /\ UNCHANGED <<now, up, manual, downs, made, wrecked, removed, finished>>

\* list_jobs, get_job and status load the store.
ListJobs ==
  /\ up /\ Reloads
  /\ Saved(Loaded)
  /\ UNCHANGED <<now, up, execVars, edits, downs, historyVars>>

\* Another process, whose instance is not running, appends to action.jsonl.
ExternalAdd(j) ==
  /\ j \notin made
  /\ made' = made \cup {j}
  /\ kept' = kept \cup {j}
  /\ lines' = With(lines, j)
  /\ UNCHANGED <<now, up, mem, dirty, disk, dels, execVars, boundVars, wrecked, stopped,
                 removed, finished>>

ExternalRemove(j) ==
  /\ j \in Merged(disk).jobs
  /\ dels' = dels \cup {j}
  /\ kept' = kept \ {j}
  /\ removed' = removed \cup {j}
  /\ UNCHANGED <<now, up, mem, dirty, disk, lines, execVars, boundVars, made, wrecked,
                 stopped, finished>>

-----------------------------------------------------------------------------
\* The timer

\* The next times of the jobs that are due.
DueIn(s) == {<<j, s.next[j]>> : j \in {i \in s.on : s.next[i] \in 1..now}}

\* _on_timer, up to its first await.
Tick ==
  /\ up /\ ~ticking /\ ~dirty
  /\ LET store == IF manual = {} THEN Merged(disk) ELSE mem IN
     /\ \/ Saved(store)
        \/ NotSaved(store) /\ DueIn(store) = {}
     /\ due' = DueIn(store)
     /\ ticking' = (due' # {})
  /\ UNCHANGED <<now, up, cur, manual, hung, edits, downs, historyVars>>

\* A tick after a failed save only saves.
TickSaves ==
  /\ up /\ ~ticking /\ dirty
  /\ Saved(mem)
  /\ UNCHANGED <<now, up, execVars, edits, downs, historyVars>>

\* _execute_job, up to on_job ...
Execute(p) ==
  /\ ticking /\ cur = {} /\ p \in due
  /\ cur' = {p}
  /\ due' = due \ {p}
  /\ UNCHANGED <<now, up, storeVars, ticking, manual, hung, boundVars, historyVars>>

\* The turn that an on_job awaits is caught at the lock of its session, as in the
\* counterexample to WaiterAnswered of AgentLoop: submit() is never answered, and
\* neither run_bound_cron_job nor the service has a timeout.
LoseTurn(x) ==
  /\ x \in cur \cup manual
  /\ hung' = hung \cup {x}
  /\ UNCHANGED <<now, up, storeVars, tickVars, manual, boundVars, historyVars>>

\* ... and after it, whether the job went well or not; nothing is saved yet.
Executed(p) ==
  /\ cur = {p} /\ p \notin hung
  /\ cur' = {}
  /\ mem' = Advanced(mem, p[1])
  /\ finished' = finished \cup {p}
  /\ kept' = IF p[1] \in OneShot THEN kept \ {p[1]} ELSE kept
  /\ UNCHANGED <<now, up, dirty, disk, lines, dels, due, ticking, manual, hung, boundVars,
                 made, wrecked, stopped, removed>>

\* The end of the tick.
TickEnds ==
  /\ ticking /\ cur = {} /\ due = {}
  /\ Saved(mem) \/ NotSaved(mem)
  /\ ticking' = FALSE
  /\ UNCHANGED <<now, up, due, cur, manual, hung, edits, downs, historyVars>>

-----------------------------------------------------------------------------
\* Manual runs

\* run_job saves what a failed save left, loads unless something is executing,
\* and awaits on_job of an enabled job.
RunJob(j) ==
  /\ up /\ j \notin manual
  /\ IF Busy
     THEN /\ disk' = IF dirty THEN mem ELSE disk
          /\ UNCHANGED <<mem, lines, dels>>
     ELSE /\ mem' = Merged(IF dirty THEN mem ELSE disk)
          /\ disk' = mem'
          /\ lines' = Empty
          /\ dels' = {}
  /\ dirty' = FALSE
  /\ j \in mem'.on
  /\ manual' = manual \cup {j}
  /\ UNCHANGED <<now, up, tickVars, hung, boundVars, historyVars>>

\* Its end does not touch a timer whose tick is executing.
RunEnds(j) ==
  /\ j \in manual \ hung
  /\ manual' = manual \ {j}
  /\ Saved(Advanced(mem, j)) \/ NotSaved(Advanced(mem, j))
  /\ kept' = IF j \in OneShot THEN kept \ {j} ELSE kept
  /\ UNCHANGED <<now, up, tickVars, hung, edits, downs, made, wrecked, stopped, removed,
                 finished>>

-----------------------------------------------------------------------------
\* The process

\* stop() and the end of the process, which save nothing.
Down ==
  /\ up /\ downs < MaxDowns
  /\ downs' = downs + 1
  /\ up' = FALSE
  /\ mem' = Empty
  /\ dirty' = FALSE
  /\ due' = {} /\ cur' = {} /\ ticking' = FALSE
  /\ manual' = {} /\ hung' = {}
  /\ UNCHANGED <<now, disk, edits, faults, made, kept, stopped, finished>>

\* What only the memory had is lost: jobs, and removals.
Crash ==
  /\ Down
  /\ wrecked' = wrecked \cup (IF dirty THEN mem.jobs \ disk.jobs ELSE {})
  /\ removed' = removed \ (IF dirty THEN disk.jobs \ (mem.jobs \cup dels) ELSE {})
  /\ UNCHANGED <<lines, dels>>

\* The process ends in _merge_action, between its two writes.
CrashInMerge ==
  /\ Reloads
  /\ Down
  /\ lines' = Empty
  /\ dels' = {}
  /\ wrecked' = wrecked \cup lines.jobs
  /\ removed' = removed \ (disk.jobs \cap dels)

\* start: every enabled job gets a time after now.
Recomputed(s) ==
  [s EXCEPT !.next = [j \in Jobs |-> IF j \in s.on THEN Compute(j) ELSE s.next[j]]]

Start ==
  /\ ~up
  /\ up' = TRUE
  /\ Saved(Recomputed(Merged(disk)))
  /\ UNCHANGED <<now, execVars, edits, downs, historyVars>>

Elapse ==
  /\ now < MaxTime
  /\ now' = now + 1
  /\ UNCHANGED <<up, storeVars, execVars, boundVars, historyVars>>

Occurrences == Jobs \X (1..MaxTime)

Command(j) ==
  \/ AddJob(j) \/ RemoveJob(j) \/ UpdateJob(j)
  \/ \E enabled \in BOOLEAN : EnableJob(j, enabled)

Next ==
  \/ \E j \in Jobs :
       Command(j) \/ ExternalAdd(j) \/ ExternalRemove(j) \/ RunJob(j) \/ RunEnds(j)
  \/ ListJobs \/ LoadFails
  \/ Tick \/ TickSaves \/ TickEnds
  \/ \E p \in Occurrences : Execute(p) \/ Executed(p) \/ LoseTurn(p)
  \/ \E j \in Jobs : LoseTurn(j)
  \/ Crash \/ CrashInMerge \/ Start \/ Elapse

\* The event loop wakes the timer and resumes its tick, a turn ends unless it is
\* lost, and a supervisor starts the gateway again.  That no turn is lost is not
\* assumed: Executed and RunEnds are not enabled for one that is.
Fairness ==
  /\ WF_vars(Tick) /\ WF_vars(TickSaves) /\ WF_vars(TickEnds)
  /\ \A p \in Occurrences : WF_vars(Execute(p)) /\ WF_vars(Executed(p))
  /\ \A j \in Jobs : WF_vars(RunEnds(j))
  /\ WF_vars(Start)

Spec == Init /\ [][Next]_vars /\ Fairness
-----------------------------------------------------------------------------
TypeOK ==
  /\ now \in 0..MaxTime
  /\ up \in BOOLEAN /\ dirty \in BOOLEAN /\ ticking \in BOOLEAN
  /\ {mem, disk, lines} \subseteq Stores
  /\ \A s \in {mem, disk, lines} : s.on \subseteq s.jobs
  /\ due \subseteq Occurrences /\ cur \subseteq Occurrences
  /\ {dels, manual, made, kept, wrecked, stopped, removed} \subseteq SUBSET Jobs
  /\ hung \subseteq cur \cup manual
  /\ finished \subseteq Occurrences
  /\ edits \in 0..MaxEdits /\ downs \in 0..MaxDowns /\ faults \in 0..MaxFaults

\* An occurrence of a job that ran to its end is never run again by the timer,
\* whatever reloads, failed saves, manual runs, cancelled ticks and restarts
\* come after it.
EndedOnce == [][\A p \in finished : cur' = {p} => cur = {p}]_vars

\* A job whose add was acknowledged is in jobs.json, in action.jsonl or in the
\* memory that is still to be saved, unless a crash came between.
NotLost ==
  \A j \in kept \ wrecked :
    \/ j \in disk.jobs \cup lines.jobs
    \/ dirty /\ j \in mem.jobs

\* The timer does not run a job whose removal or disabling the gateway
\* acknowledged, even if the job was in the list of a tick that had begun.  One
\* whose removal another process acknowledged it may run, from such a list or
\* while it may not reload, but only as long as action.jsonl has the removal:
\* once that was merged, the job is in no list and does not come back, but by a
\* crash that undoes the removal before jobs.json was saved.
StaysStopped ==
  \A p \in due \cup cur :
    /\ p[1] \notin stopped
    /\ p[1] \in removed => p[1] \in dels

\* A job that is due does not stay so: it is run, or its time is changed, unless
\* the tick awaits a turn that is never answered.  A manual run that awaits one
\* does not stop the timer.
Runs ==
  \A j \in Jobs :
    []<>( \/ ~(up /\ j \in mem.on /\ mem.next[j] \in 1..now)
          \/ cur \cap hung # {} )
=============================================================================
