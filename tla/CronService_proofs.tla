--------------------------- MODULE CronService_proofs ---------------------------
(***************************************************************************)
(* Theorems of CronService: what it promises about its jobs, for any number *)
(* of jobs, edits, failed saves and ends of the process.  Liveness (Runs)   *)
(* is model-checked only.                                                   *)
(***************************************************************************)
EXTENDS CronService, TLAPS

\* The shape of a store, its jobs among those in use, and nothing that was
\* stopped enabled.
Sound(s) ==
  /\ s \in Stores
  /\ s.on \subseteq s.jobs
  /\ s.jobs \subseteq made
  /\ \A j \in s.on : j \notin stopped

\* No occurrence that ended is still the next of its job.
Fresh(s) == \A p \in finished : p[1] \in s.on => s.next[p[1]] # p[2]

Counts ==
  /\ now \in 0..MaxTime
  /\ up \in BOOLEAN /\ dirty \in BOOLEAN /\ ticking \in BOOLEAN
  /\ manual \subseteq Jobs /\ made \subseteq Jobs /\ wrecked \subseteq Jobs
  /\ edits \in 0..MaxEdits /\ downs \in 0..MaxDowns /\ faults \in 0..MaxFaults

\* The stores.  A job waits in action.jsonl or is in a store, and one that is to
\* be kept is in the memory too while the service runs, since that may be
\* written over the file.  While the disk may be read again, it is as fresh.
StoreInv ==
  /\ Sound(mem) /\ Sound(disk) /\ Sound(lines)
  /\ dels \subseteq made /\ kept \subseteq made /\ stopped \subseteq made
  /\ \A j \in lines.jobs : j \notin mem.jobs /\ j \notin disk.jobs
  /\ \A j \in kept : j \notin dels
  /\ NotLost
  /\ up => \A j \in kept \ wrecked : j \in mem.jobs \cup lines.jobs
  /\ Fresh(mem)
  /\ up /\ Reloads => Fresh(disk)

\* The tick's occurrences: of jobs that left action.jsonl, at a time that has
\* come, and not among those that ended.
TickInv ==
  /\ \A p \in due \cup cur \cup finished :
       p \in Jobs \X (1..now) /\ p[1] \in made /\ p[1] \notin lines.jobs
  /\ \A p \in due \cup cur : p \notin finished
  /\ \A p \in due : p \notin cur
  /\ \A p \in due \cup cur : p[1] \notin stopped
  /\ ~ticking => due = {} /\ cur = {}
  /\ ~up => ~dirty /\ ~ticking /\ manual = {} /\ mem = Empty

CronInv == Counts /\ StoreInv /\ TickInv

\* A job another process removed, once action.jsonl has the removal no longer, is
\* in no list and no store, but for a jobs.json that is still to be saved.
RemovedInv ==
  /\ removed \subseteq made
  /\ \A j \in removed \ dels :
       j \notin mem.jobs \cup lines.jobs /\ (j \in disk.jobs => dirty)
  /\ \A p \in due \cup cur : p[1] \in removed => p[1] \in dels
  /\ hung \subseteq cur \cup manual

ServiceInv == CronInv /\ RemovedInv

USE CronServiceAssumption

-----------------------------------------------------------------------------
\* The operators on stores

LEMMA ComputeIsLater ==
  ASSUME Counts, NEW j \in Jobs
  PROVE  Compute(j) \in Nat /\ Compute(j) \notin 1..now
  BY DEF Compute, Counts

LEMMA EmptyFields ==
  /\ Empty \in Stores /\ Empty.jobs = {} /\ Empty.on = {}
  /\ Empty.next = [j \in Jobs |-> 0]
  BY DEF Empty, Stores, Times

LEMMA WithFields ==
  ASSUME Counts, NEW s \in Stores, NEW j \in Jobs
  PROVE  /\ With(s, j) \in Stores
         /\ With(s, j).jobs = s.jobs \cup {j}
         /\ With(s, j).on = s.on \cup {j}
         /\ \A i \in Jobs : i # j => With(s, j).next[i] = s.next[i]
  BY ComputeIsLater DEF With, Stores, Times

LEMMA WithoutFields ==
  ASSUME NEW s \in Stores, NEW gone
  PROVE  /\ Without(s, gone) \in Stores
         /\ Without(s, gone).jobs = s.jobs \ gone
         /\ Without(s, gone).on = s.on \ gone
         /\ \A i \in Jobs : i \notin gone => Without(s, gone).next[i] = s.next[i]
  BY DEF Without, Stores, Times

\* A store t in which a job of s is enabled, or disabled.
Enabled(t, s, j) ==
  /\ t \in Stores /\ t.jobs = s.jobs /\ t.on = s.on \cup {j}
  /\ t.next[j] \notin 1..now
  /\ \A i \in Jobs : i # j => t.next[i] = s.next[i]
Disabled(t, s, j) ==
  /\ t \in Stores /\ t.jobs = s.jobs /\ t.on = s.on \ {j}
  /\ \A i \in Jobs : i # j => t.next[i] = s.next[i]

LEMMA SwitchedFields ==
  ASSUME Counts, NEW s \in Stores, NEW j \in Jobs
  PROVE  Enabled(Switched(s, j, TRUE), s, j) /\ Disabled(Switched(s, j, FALSE), s, j)
<1>1. Switched(s, j, TRUE)
        = [s EXCEPT !.on = s.on \cup {j}, !.next = [s.next EXCEPT ![j] = Compute(j)]]
  BY DEF Switched, Stores
<1>2. Switched(s, j, FALSE)
        = [s EXCEPT !.on = s.on \ {j}, !.next = [s.next EXCEPT ![j] = 0]]
  BY DEF Switched, Stores
<1>3. Compute(j) \in Nat /\ Compute(j) \notin 1..now
  BY ComputeIsLater
<1>4. Enabled(Switched(s, j, TRUE), s, j)
  <2> DEFINE t == [s EXCEPT !.on = s.on \cup {j}, !.next = [s.next EXCEPT ![j] = Compute(j)]]
  <2>1. t \in Stores
    BY <1>3 DEF Stores, Times
  <2>2. t.jobs = s.jobs /\ t.on = s.on \cup {j} /\ t.next = [s.next EXCEPT ![j] = Compute(j)]
    BY DEF Stores
  <2>3. s.next \in [Jobs -> Nat]
    BY DEF Stores, Times
  <2>4. Enabled(t, s, j)
    BY <1>3, <2>1, <2>2, <2>3 DEF Enabled
  <2> HIDE DEF t
  <2> QED
    BY <1>1, <2>4 DEF t
<1>5. Disabled(Switched(s, j, FALSE), s, j)
  <2> DEFINE t == [s EXCEPT !.on = s.on \ {j}, !.next = [s.next EXCEPT ![j] = 0]]
  <2>1. t \in Stores
    BY DEF Stores, Times
  <2>2. t.jobs = s.jobs /\ t.on = s.on \ {j} /\ t.next = [s.next EXCEPT ![j] = 0]
    BY DEF Stores
  <2>3. s.next \in [Jobs -> Nat]
    BY DEF Stores, Times
  <2>4. Disabled(t, s, j)
    BY <2>1, <2>2, <2>3 DEF Disabled
  <2> HIDE DEF t
  <2> QED
    BY <1>2, <2>4 DEF t
<1> QED
  BY <1>4, <1>5

\* The end of an execution leaves no occurrence that has come.
LEMMA AdvancedFields ==
  ASSUME Counts, NEW s \in Stores, s.on \subseteq s.jobs, NEW j \in Jobs
  PROVE  /\ Advanced(s, j) \in Stores
         /\ Advanced(s, j).jobs = IF j \in OneShot THEN s.jobs \ {j} ELSE s.jobs
         /\ Advanced(s, j).on = IF j \in OneShot THEN s.on \ {j} ELSE s.on
         /\ j \in Advanced(s, j).on => Advanced(s, j).next[j] \notin 1..now
         /\ \A i \in Jobs : i # j => Advanced(s, j).next[i] = s.next[i]
<1>1. CASE j \in OneShot
  BY <1>1, WithoutFields DEF Advanced
<1>2. CASE j \notin OneShot
  BY <1>2, ComputeIsLater DEF Advanced, Stores, Times
<1> QED
  BY <1>1, <1>2

LEMMA RecomputedFields ==
  ASSUME Counts, NEW s \in Stores
  PROVE  /\ Recomputed(s) \in Stores
         /\ Recomputed(s).jobs = s.jobs
         /\ Recomputed(s).on = s.on
         /\ \A i \in s.on : Recomputed(s).next[i] \notin 1..now
  BY ComputeIsLater DEF Recomputed, Stores, Times

LEMMA MergedFields ==
  ASSUME NEW s \in Stores, lines \in Stores
  PROVE  /\ Merged(s) \in Stores
         /\ Merged(s).jobs = (s.jobs \cup lines.jobs) \ dels
         /\ Merged(s).on = (s.on \cup lines.on) \ dels
         /\ \A i \in Jobs : i \notin dels =>
              Merged(s).next[i] = IF i \in lines.jobs THEN lines.next[i] ELSE s.next[i]
<1> DEFINE both == [jobs |-> s.jobs \cup lines.jobs,
                    on |-> s.on \cup lines.on,
                    next |-> [j \in Jobs |-> IF j \in lines.jobs THEN lines.next[j]
                                                                ELSE s.next[j]]]
<1>1. /\ both \in Stores /\ both.jobs = s.jobs \cup lines.jobs
      /\ both.on = s.on \cup lines.on
      /\ \A i \in Jobs : both.next[i] = IF i \in lines.jobs THEN lines.next[i] ELSE s.next[i]
  BY DEF Stores, Times
<1>2. Merged(s) = Without(both, dels)
  BY DEF Merged
<1> HIDE DEF both
<1> QED
  BY <1>1, <1>2, WithoutFields

-----------------------------------------------------------------------------
\* What is loaded, and what a save makes of the stores

LEMMA MergedIsGood ==
  ASSUME CronInv, NEW s, Sound(s), \A j \in lines.jobs : j \notin s.jobs
  PROVE  /\ Sound(Merged(s))
         /\ Fresh(s) => Fresh(Merged(s))
         /\ (\A j \in kept \ wrecked : j \in s.jobs \cup lines.jobs)
              => \A j \in kept \ wrecked : j \in Merged(s).jobs
<1>1. s \in Stores /\ lines \in Stores /\ s.on \subseteq s.jobs /\ lines.on \subseteq lines.jobs
  BY DEF CronInv, StoreInv, Sound
<1>2. /\ Merged(s) \in Stores
      /\ Merged(s).jobs = (s.jobs \cup lines.jobs) \ dels
      /\ Merged(s).on = (s.on \cup lines.on) \ dels
      /\ \A i \in Jobs : i \notin dels =>
           Merged(s).next[i] = IF i \in lines.jobs THEN lines.next[i] ELSE s.next[i]
  BY <1>1, MergedFields
<1>3. Sound(Merged(s))
  BY <1>1, <1>2 DEF CronInv, StoreInv, Sound
<1>4. ASSUME Fresh(s), NEW p \in finished, p[1] \in Merged(s).on
      PROVE  Merged(s).next[p[1]] # p[2]
  <2>1. p[1] \in Jobs /\ p[1] \notin lines.jobs
    BY DEF CronInv, TickInv
  <2>2. p[1] \in s.on /\ p[1] \notin dels
    BY <1>1, <1>2, <1>4, <2>1
  <2> QED
    BY <1>2, <1>4, <2>1, <2>2 DEF Fresh
<1>5. ASSUME \A j \in kept \ wrecked : j \in s.jobs \cup lines.jobs
      PROVE  \A j \in kept \ wrecked : j \in Merged(s).jobs
  BY <1>2, <1>5 DEF CronInv, StoreInv
<1> QED
  BY <1>3, <1>4, <1>5 DEF Fresh

\* The jobs that wait in action.jsonl once the store is loaded.
Waiting == IF Reloads THEN {} ELSE lines.jobs

LEMMA LoadedIsGood ==
  ASSUME CronInv
  PROVE  /\ Sound(Loaded)
         /\ up => Fresh(Loaded)
         /\ \A j \in Loaded.jobs : j \notin Waiting
         /\ up => \A j \in kept \ wrecked : j \in Loaded.jobs \cup Waiting
<1>1. CASE Reloads
  <2>1. Loaded = Merged(disk) /\ ~dirty
    BY <1>1 DEF Loaded, Reloads
  <2>2. /\ Sound(disk) /\ \A j \in lines.jobs : j \notin disk.jobs
        /\ \A j \in kept \ wrecked : j \in disk.jobs \cup lines.jobs
        /\ up => Fresh(disk)
    BY <1>1, <2>1 DEF CronInv, StoreInv, NotLost
  <2> QED
    BY <1>1, <2>1, <2>2, MergedIsGood DEF Waiting
<1>2. CASE ~Reloads
  BY <1>2 DEF Loaded, Waiting, CronInv, StoreInv
<1> QED
  BY <1>1, <1>2

LEMMA ConsumedLines ==
  ASSUME Consumed
  PROVE  /\ Reloads => lines' = Empty /\ dels' = {}
         /\ ~Reloads => lines' = lines /\ dels' = dels
  BY DEF Consumed

LEMMA Storing ==
  ASSUME CronInv, NEW s, Saved(s) \/ NotSaved(s),
         finished' = finished, wrecked' = wrecked,
         s \in Stores, s.on \subseteq s.jobs, s.jobs \subseteq made',
         \A j \in s.on : j \notin stopped',
         Fresh(s),
         made \subseteq made', kept' \subseteq made', stopped' \subseteq made',
         NotSaved(s) => stopped' \subseteq stopped,
         \A j \in s.jobs : j \notin Waiting,
         \A j \in Waiting : j \in stopped' => j \in stopped,
         \A j \in kept' \ wrecked : j \in s.jobs \cup Waiting,
         \A j \in kept' : j \in kept \/ j \notin made
  PROVE  StoreInv'
<1>1. Consumed /\ mem' = s
  BY DEF Saved, NotSaved
<1>2. lines'.jobs = Waiting /\ dels' \subseteq dels
  BY <1>1, ConsumedLines, EmptyFields DEF Waiting
<1>3. Sound(lines)'
  <2>1. CASE Reloads
    BY <1>1, <2>1, ConsumedLines, EmptyFields DEF Sound
  <2>2. CASE ~Reloads
    <3>1. lines' = lines /\ Waiting = lines.jobs
      BY <1>1, <2>2, ConsumedLines DEF Waiting
    <3>2. lines.on \subseteq Waiting /\ Sound(lines)
      BY <3>1 DEF CronInv, StoreInv, Sound
    <3> QED
      BY <3>1, <3>2 DEF Sound
  <2> QED
    BY <2>1, <2>2
<1>4. Sound(mem)' /\ Fresh(mem)'
  BY <1>1 DEF Sound, Fresh
<1>5. dels' \subseteq made' /\ \A j \in kept' : j \notin dels'
  BY <1>2 DEF CronInv, StoreInv
<1>6. up' => \A j \in kept' \ wrecked' : j \in mem'.jobs \cup lines'.jobs
  BY <1>1, <1>2
<1>7. CASE Saved(s)
  <2>1. disk' = s
    BY <1>7 DEF Saved
  <2>2. Sound(disk)' /\ Fresh(disk)'
    BY <2>1 DEF Sound, Fresh
  <2>3. NotLost'
    BY <1>2, <2>1 DEF NotLost
  <2> QED
    BY <1>1, <1>2, <1>3, <1>4, <1>5, <1>6, <2>1, <2>2, <2>3 DEF StoreInv
<1>8. CASE NotSaved(s)
  <2>1. dirty' /\ stopped' \subseteq stopped
        /\ disk' \in {IF Reloads THEN Loaded ELSE disk, s}
    BY <1>8 DEF NotSaved
  <2>2. /\ Sound(IF Reloads THEN Loaded ELSE disk)
        /\ \A j \in Waiting : j \notin (IF Reloads THEN Loaded ELSE disk).jobs
    BY LoadedIsGood DEF CronInv, StoreInv, Waiting
  <2>3. Sound(disk)' /\ \A j \in Waiting : j \notin disk'.jobs
    BY <2>1, <2>2 DEF Sound
  <2>4. NotLost'
    BY <1>1, <1>2, <2>1 DEF NotLost
  <2>5. ~Reloads'
    BY <2>1 DEF Reloads
  <2> QED
    BY <1>1, <1>2, <1>3, <1>4, <1>5, <1>6, <2>3, <2>4, <2>5 DEF StoreInv
<1> QED
  BY <1>7, <1>8

\* The tick's occurrences where a step leaves the tick alone, or ends it.
LEMMA TickKept ==
  ASSUME CronInv, up, UNCHANGED <<now, up, tickVars, finished>>,
         made \subseteq made', stopped' \subseteq stopped, lines'.jobs \subseteq lines.jobs
  PROVE  TickInv'
  BY DEF CronInv, TickInv, tickVars, execVars

LEMMA TickEnded ==
  ASSUME CronInv, due' = {}, cur' = {}, ticking' = FALSE,
         UNCHANGED <<now, finished>>,
         made \subseteq made', lines'.jobs \subseteq lines.jobs,
         up' \/ (~dirty' /\ manual' = {} /\ mem' = Empty)
  PROVE  TickInv'
  BY DEF CronInv, TickInv

LEMMA SavingConsumes ==
  ASSUME NEW s, Saved(s) \/ NotSaved(s)
  PROVE  lines'.jobs \subseteq lines.jobs
  BY ConsumedLines, EmptyFields DEF Saved, NotSaved

LEMMA SavingCounts ==
  ASSUME Counts, NEW s, Saved(s) \/ NotSaved(s)
  PROVE  dirty' \in BOOLEAN /\ faults' \in 0..MaxFaults
<1>1. faults \in 0..MaxFaults /\ MaxFaults \in Nat
  BY DEF Counts
<1>2. dirty' \in BOOLEAN
  BY DEF Saved, NotSaved
<1>3. faults' = faults \/ (faults < MaxFaults /\ faults' = faults + 1)
  BY DEF Saved, NotSaved, Fault
<1> QED
  BY <1>1, <1>2, <1>3

-----------------------------------------------------------------------------
\* Commands

LEMMA Acknowledging ==
  ASSUME CronInv, up, NEW s, NEW keeping, NEW stopping,
         Acknowledged(s, keeping, stopping),
         UNCHANGED <<now, up, manual, finished, wrecked>>,
         s \in Stores, s.on \subseteq s.jobs, s.jobs \subseteq made',
         Fresh(s),
         made \subseteq made', keeping \subseteq made', stopping \subseteq made',
         \A j \in s.on : j \notin stopping,
         \A j \in s.jobs : j \notin Waiting,
         \A j \in Waiting : j \in stopping => j \in stopped,
         \A j \in keeping \ wrecked : j \in s.jobs \cup Waiting,
         \A j \in keeping : j \in kept \/ j \notin made
  PROVE  StoreInv' /\ TickInv' /\ dirty' \in BOOLEAN /\ ticking' \in BOOLEAN /\ faults' \in 0..MaxFaults
<1>1. CASE Saved(s) /\ ArmTimer /\ kept' = keeping /\ stopped' = stopping
  <2>1. ~NotSaved(s) \/ stopped' \subseteq stopped \/ Saved(s)
    BY <1>1
  <2>2. dirty' = FALSE /\ (NotSaved(s) => dirty')
    BY <1>1 DEF Saved, NotSaved
  <2>3. ~NotSaved(s)
    BY <2>2
  <2>4. StoreInv'
    BY <1>1, <2>3, Storing
  <2>5. TickInv'
    BY <1>1, TickEnded, SavingConsumes DEF ArmTimer
  <2> QED
    BY <1>1, <2>4, <2>5, SavingCounts DEF ArmTimer, CronInv
<1>2. CASE /\ NotSaved(s) /\ UNCHANGED <<tickVars, hung>>
           /\ kept' = kept \cap keeping /\ stopped' = stopped \cap stopping
  <2>1. StoreInv'
    BY <1>2, Storing
  <2>2. TickInv'
    BY <1>2, TickKept, SavingConsumes
  <2> QED
    BY <1>2, <2>1, <2>2, SavingCounts DEF tickVars, CronInv, Counts
<1> QED
  BY <1>1, <1>2 DEF Acknowledged

\* What holds of the store a command loads.
LEMMA LoadedForCommand ==
  ASSUME CronInv, up
  PROVE  /\ Loaded \in Stores /\ Loaded.on \subseteq Loaded.jobs /\ Loaded.jobs \subseteq made
         /\ made \subseteq Jobs /\ Counts /\ Fresh(Loaded)
         /\ \A j \in Loaded.on : j \notin stopped
         /\ \A j \in Loaded.jobs : j \notin Waiting
         /\ \A j \in kept \ wrecked : j \in Loaded.jobs \cup Waiting
         /\ Waiting \subseteq made /\ kept \subseteq made /\ stopped \subseteq made
         /\ \A p \in finished : p[1] \in made /\ p[1] \in Jobs /\ p[2] \in 1..now
  BY LoadedIsGood DEF CronInv, StoreInv, TickInv, Sound, Counts, Waiting

LEMMA AddJobStep ==
  ASSUME CronInv, NEW j \in Jobs, AddJob(j)
  PROVE  CronInv'
<1> DEFINE s == With(Loaded, j)
<1>1. up /\ j \notin made /\ made' = made \cup {j}
      /\ Acknowledged(s, kept \cup {j}, stopped)
      /\ UNCHANGED <<now, up, manual, edits, downs, wrecked, finished>>
  BY DEF AddJob
<1>2. /\ s \in Stores /\ s.jobs = Loaded.jobs \cup {j} /\ s.on = Loaded.on \cup {j}
      /\ \A i \in Jobs : i # j => s.next[i] = Loaded.next[i]
  BY <1>1, LoadedForCommand, WithFields
<1> HIDE DEF s
<1>3. Fresh(s)
  <2> SUFFICES ASSUME NEW p \in finished, p[1] \in s.on
               PROVE  s.next[p[1]] # p[2]
    BY DEF Fresh
  <2>1. p[1] # j /\ p[1] \in Jobs
    BY <1>1, LoadedForCommand
  <2> QED
    BY <1>1, <1>2, <2>1, LoadedForCommand DEF Fresh
<1>4. \A i \in kept \cup {j} : i \in kept \/ i \notin made
  BY <1>1
<1>5. \A i \in s.on : i \notin stopped
  BY <1>1, <1>2, LoadedForCommand
<1>6. \A i \in (kept \cup {j}) \ wrecked : i \in s.jobs \cup Waiting
  BY <1>1, <1>2, LoadedForCommand
<1>7. \A i \in s.jobs : i \notin Waiting
  BY <1>1, <1>2, LoadedForCommand
<1>8. s.on \subseteq s.jobs /\ s.jobs \subseteq made'
  BY <1>1, <1>2, LoadedForCommand
<1>9. kept \cup {j} \subseteq made' /\ stopped \subseteq made' /\ made \subseteq made'
  BY <1>1, LoadedForCommand
<1>10. StoreInv' /\ TickInv' /\ dirty' \in BOOLEAN /\ ticking' \in BOOLEAN /\ faults' \in 0..MaxFaults
  BY <1>1, <1>2, <1>3, <1>4, <1>5, <1>6, <1>7, <1>8, <1>9, Acknowledging
<1> QED
  BY <1>1, <1>10 DEF CronInv, Counts

LEMMA RemoveJobStep ==
  ASSUME CronInv, NEW j \in Jobs, RemoveJob(j)
  PROVE  CronInv'
<1> DEFINE s == Without(Loaded, {j})
<1>1. up /\ j \in Loaded.jobs
      /\ Acknowledged(s, kept \ {j}, stopped \cup {j})
      /\ UNCHANGED <<now, up, manual, edits, downs, made, wrecked, finished>>
  BY DEF RemoveJob
<1>2. /\ s \in Stores /\ s.jobs = Loaded.jobs \ {j} /\ s.on = Loaded.on \ {j}
      /\ \A i \in Jobs : i # j => s.next[i] = Loaded.next[i]
  BY <1>1, LoadedForCommand, WithoutFields
<1> HIDE DEF s
<1>3. Fresh(s)
  BY <1>1, <1>2, LoadedForCommand DEF Fresh
<1>4. /\ s.on \subseteq s.jobs /\ s.jobs \subseteq made'
      /\ kept \ {j} \subseteq made' /\ stopped \cup {j} \subseteq made'
      /\ \A i \in s.on : i \notin stopped \cup {j}
      /\ \A i \in s.jobs : i \notin Waiting
      /\ \A i \in Waiting : i \in stopped \cup {j} => i \in stopped
      /\ \A i \in (kept \ {j}) \ wrecked : i \in s.jobs \cup Waiting
  BY <1>1, <1>2, LoadedForCommand
<1>5. \A i \in kept \ {j} : i \in kept \/ i \notin made
  OBVIOUS
<1>6. made \subseteq made'
  BY <1>1
<1>7. StoreInv' /\ TickInv' /\ dirty' \in BOOLEAN /\ ticking' \in BOOLEAN /\ faults' \in 0..MaxFaults
  BY <1>1, <1>2, <1>3, <1>4, <1>5, <1>6, Acknowledging
<1> QED
  BY <1>1, <1>7 DEF CronInv, Counts

\* Enabling, disabling and changing a job.
LEMMA SwitchStep ==
  ASSUME CronInv, up, NEW j \in Jobs, NEW s, NEW stopping,
         edits < MaxEdits, edits' = edits + 1,
         Acknowledged(s, kept, stopping),
         UNCHANGED <<now, up, manual, downs, made, wrecked, finished>>,
         j \in Loaded.jobs,
         s \in Stores, s.jobs = Loaded.jobs, s.on \subseteq Loaded.on \cup {j},
         j \in s.on => s.next[j] \notin 1..now /\ j \notin stopping,
         \A i \in Jobs : i # j => s.next[i] = Loaded.next[i],
         stopping \subseteq stopped \cup {j}
  PROVE  CronInv'
<1>1. Fresh(s)
  <2> SUFFICES ASSUME NEW p \in finished, p[1] \in s.on
               PROVE  s.next[p[1]] # p[2]
    BY DEF Fresh
  <2>1. p[1] \in Jobs /\ p[2] \in 1..now /\ Fresh(Loaded)
    BY LoadedForCommand
  <2>2. CASE p[1] = j
    BY <2>1, <2>2
  <2>3. CASE p[1] # j
    BY <2>1, <2>3 DEF Fresh
  <2> QED
    BY <2>2, <2>3
<1>2. /\ s.on \subseteq s.jobs /\ s.jobs \subseteq made' /\ made \subseteq made'
      /\ kept \subseteq made' /\ stopping \subseteq made'
      /\ \A i \in s.on : i \notin stopping
      /\ \A i \in s.jobs : i \notin Waiting
      /\ \A i \in Waiting : i \in stopping => i \in stopped
      /\ \A i \in kept \ wrecked : i \in s.jobs \cup Waiting
  BY LoadedForCommand
<1>3. \A i \in kept : i \in kept \/ i \notin made
  OBVIOUS
<1>4. UNCHANGED <<now, up, manual, finished, wrecked>>
  OBVIOUS
<1>5. StoreInv' /\ TickInv' /\ dirty' \in BOOLEAN /\ ticking' \in BOOLEAN /\ faults' \in 0..MaxFaults
  BY <1>1, <1>2, <1>3, <1>4, Acknowledging
<1> QED
  BY <1>5 DEF CronInv, Counts

LEMMA EnableJobStep ==
  ASSUME CronInv, NEW j \in Jobs, NEW enabled \in BOOLEAN, EnableJob(j, enabled)
  PROVE  CronInv'
<1>1. /\ up /\ j \in Loaded.jobs /\ edits < MaxEdits /\ edits' = edits + 1
      /\ UNCHANGED <<now, up, manual, downs, made, wrecked, finished>>
      /\ Counts /\ Loaded \in Stores
  BY LoadedForCommand DEF EnableJob
<1>2. CASE enabled = TRUE
  <2> DEFINE s == Switched(Loaded, j, TRUE)
  <2>1. Acknowledged(s, kept, stopped \ {j})
    BY <1>2 DEF EnableJob
  <2>2. Enabled(s, Loaded, j)
    BY <1>1, SwitchedFields
  <2> HIDE DEF s
  <2>3. /\ s \in Stores /\ s.jobs = Loaded.jobs /\ s.on = Loaded.on \cup {j}
        /\ s.next[j] \notin 1..now
        /\ \A i \in Jobs : i # j => s.next[i] = Loaded.next[i]
    BY <2>2 DEF Enabled
  <2>4. stopped \ {j} \subseteq stopped \cup {j} /\ j \notin stopped \ {j}
    OBVIOUS
  <2> QED
    BY <1>1, <2>1, <2>3, <2>4, SwitchStep
<1>3. CASE enabled = FALSE
  <2> DEFINE s == Switched(Loaded, j, FALSE)
  <2>1. Acknowledged(s, kept, stopped \cup {j})
    BY <1>3 DEF EnableJob
  <2>2. Disabled(s, Loaded, j)
    BY <1>1, SwitchedFields
  <2> HIDE DEF s
  <2>3. /\ s \in Stores /\ s.jobs = Loaded.jobs /\ s.on = Loaded.on \ {j}
        /\ \A i \in Jobs : i # j => s.next[i] = Loaded.next[i]
    BY <2>2 DEF Disabled
  <2>4. s.on \subseteq Loaded.on \cup {j} /\ j \notin s.on
    BY <2>3
  <2> QED
    BY <1>1, <2>1, <2>3, <2>4, SwitchStep
<1> QED
  BY <1>2, <1>3

LEMMA UpdateJobStep ==
  ASSUME CronInv, NEW j \in Jobs, UpdateJob(j)
  PROVE  CronInv'
<1>1. /\ up /\ j \in Loaded.jobs /\ edits < MaxEdits /\ edits' = edits + 1
      /\ UNCHANGED <<now, up, manual, downs, made, wrecked, finished>>
      /\ Counts /\ Loaded \in Stores
  BY LoadedForCommand DEF UpdateJob
<1>2. CASE j \in Loaded.on
  <2> DEFINE s == Switched(Loaded, j, TRUE)
  <2>0. (j \in Loaded.on) = TRUE
    BY <1>2
  <2>1. Acknowledged(s, kept, stopped)
    BY <2>0 DEF UpdateJob
  <2>2. Enabled(s, Loaded, j)
    BY <1>1, SwitchedFields
  <2> HIDE DEF s
  <2>3. /\ s \in Stores /\ s.jobs = Loaded.jobs /\ s.on = Loaded.on \cup {j}
        /\ s.next[j] \notin 1..now
        /\ \A i \in Jobs : i # j => s.next[i] = Loaded.next[i]
    BY <2>2 DEF Enabled
  <2>4. stopped \subseteq stopped \cup {j} /\ j \notin stopped
    BY <1>1, <1>2, LoadedForCommand
  <2> QED
    BY <1>1, <2>1, <2>3, <2>4, SwitchStep
<1>3. CASE j \notin Loaded.on
  <2> DEFINE s == Switched(Loaded, j, FALSE)
  <2>0. (j \in Loaded.on) = FALSE
    BY <1>3
  <2>1. Acknowledged(s, kept, stopped)
    BY <2>0 DEF UpdateJob
  <2>2. Disabled(s, Loaded, j)
    BY <1>1, SwitchedFields
  <2> HIDE DEF s
  <2>3. /\ s \in Stores /\ s.jobs = Loaded.jobs /\ s.on = Loaded.on \ {j}
        /\ \A i \in Jobs : i # j => s.next[i] = Loaded.next[i]
    BY <2>2 DEF Disabled
  <2>4. s.on \subseteq Loaded.on \cup {j} /\ j \notin s.on /\ stopped \subseteq stopped \cup {j}
    BY <2>3
  <2> QED
    BY <1>1, <2>1, <2>3, <2>4, SwitchStep
<1> QED
  BY <1>2, <1>3

LEMMA CommandStep ==
  ASSUME CronInv, NEW j \in Jobs, Command(j)
  PROVE  CronInv'
  BY AddJobStep, RemoveJobStep, EnableJobStep, UpdateJobStep DEF Command

-----------------------------------------------------------------------------
\* Loads, and another process

LEMMA ListJobsStep ==
  ASSUME CronInv, ListJobs
  PROVE  CronInv'
<1>1. /\ up /\ Saved(Loaded)
      /\ UNCHANGED <<now, up, execVars, edits, downs, historyVars>>
  BY DEF ListJobs
<1>2. StoreInv'
  <2>1. ~NotSaved(Loaded)
    BY <1>1 DEF Saved, NotSaved
  <2> QED
    BY <1>1, <2>1, LoadedForCommand, Storing DEF historyVars
<1>3. TickInv'
  BY <1>1, TickKept, SavingConsumes DEF historyVars, execVars
<1> QED
  BY <1>1, <1>2, <1>3, SavingCounts DEF CronInv, Counts, tickVars, execVars, historyVars

LEMMA LoadFailsStep ==
  ASSUME CronInv, LoadFails
  PROVE  CronInv'
<1>1. /\ up /\ Reloads /\ mem' = Loaded /\ dirty' = TRUE /\ Consumed /\ Fault
      /\ UNCHANGED <<now, up, disk, execVars, edits, downs, historyVars>>
  BY DEF LoadFails
<1>2. lines' = Empty /\ dels' = {} /\ lines'.jobs = {} /\ Waiting = {}
  BY <1>1, ConsumedLines, EmptyFields DEF Waiting
<1>3. StoreInv'
  <2>1. Sound(mem)' /\ Sound(disk)' /\ Sound(lines)' /\ Fresh(mem)'
    BY <1>1, <1>2, LoadedForCommand, EmptyFields DEF CronInv, StoreInv, Sound, Fresh, historyVars
  <2>2. NotLost' /\ ~Reloads'
    BY <1>1, <1>2, LoadedForCommand DEF NotLost, Reloads, historyVars
  <2> QED
    BY <1>1, <1>2, <2>1, <2>2, LoadedForCommand DEF CronInv, StoreInv, historyVars
<1>4. TickInv'
  BY <1>1, <1>2, TickKept DEF historyVars, execVars
<1>5. faults' \in 0..MaxFaults
  BY <1>1 DEF Fault, CronInv, Counts
<1> QED
  BY <1>1, <1>3, <1>4, <1>5 DEF CronInv, Counts, tickVars, execVars, historyVars

LEMMA ExternalAddStep ==
  ASSUME CronInv, NEW j \in Jobs, ExternalAdd(j)
  PROVE  CronInv'
<1>1. /\ j \notin made /\ made' = made \cup {j} /\ kept' = kept \cup {j}
      /\ lines' = With(lines, j)
      /\ UNCHANGED <<now, up, mem, dirty, disk, dels, execVars, boundVars, wrecked,
                     stopped, finished>>
  BY DEF ExternalAdd
<1>2. /\ lines' \in Stores /\ lines'.jobs = lines.jobs \cup {j}
      /\ lines'.on = lines.on \cup {j}
  <2>1. lines \in Stores /\ Counts
    BY DEF CronInv, StoreInv, Sound
  <2> QED
    BY <1>1, <2>1, WithFields
<1>3. Sound(mem)' /\ Sound(disk)' /\ Sound(lines)'
  BY <1>1, <1>2 DEF CronInv, StoreInv, Sound
<1>4. Fresh(mem)' /\ (up' /\ Reloads' => Fresh(disk)')
  BY <1>1 DEF CronInv, StoreInv, Fresh, Reloads, Busy, tickVars, execVars
<1>5. NotLost' /\ (up' => \A i \in kept' \ wrecked' : i \in mem'.jobs \cup lines'.jobs)
  BY <1>1, <1>2 DEF CronInv, StoreInv, NotLost
<1>6. \A i \in lines'.jobs : i \notin mem'.jobs /\ i \notin disk'.jobs
  BY <1>1, <1>2 DEF CronInv, StoreInv, Sound
<1>7. \A i \in kept' : i \notin dels'
  BY <1>1 DEF CronInv, StoreInv
<1>8. StoreInv'
  BY <1>1, <1>3, <1>4, <1>5, <1>6, <1>7 DEF CronInv, StoreInv
<1>9. TickInv'
  BY <1>1, <1>2 DEF CronInv, TickInv, tickVars, execVars
<1> QED
  BY <1>1, <1>8, <1>9 DEF CronInv, Counts, tickVars, execVars, boundVars

LEMMA ExternalRemoveStep ==
  ASSUME CronInv, NEW j \in Jobs, ExternalRemove(j)
  PROVE  CronInv'
<1>1. /\ j \in Merged(disk).jobs /\ dels' = dels \cup {j} /\ kept' = kept \ {j}
      /\ UNCHANGED <<now, up, mem, dirty, disk, lines, execVars, boundVars, made,
                     wrecked, stopped, finished>>
  BY DEF ExternalRemove
<1>2. j \in made
  BY <1>1, MergedIsGood DEF CronInv, StoreInv, Sound
<1>3. Sound(mem)' /\ Sound(disk)' /\ Sound(lines)'
  BY <1>1 DEF CronInv, StoreInv, Sound
<1>4. Fresh(mem)' /\ (up' /\ Reloads' => Fresh(disk)')
  BY <1>1 DEF CronInv, StoreInv, Fresh, Reloads, Busy, tickVars, execVars
<1>5. StoreInv'
  BY <1>1, <1>2, <1>3, <1>4 DEF CronInv, StoreInv, NotLost
<1>6. TickInv'
  BY <1>1 DEF CronInv, TickInv, tickVars, execVars
<1> QED
  BY <1>1, <1>5, <1>6 DEF CronInv, Counts, tickVars, execVars, boundVars

-----------------------------------------------------------------------------
\* The timer

\* The store a tick, a start or a manual run reads from the disk.
LEMMA DiskForTick ==
  ASSUME CronInv, ~dirty
  PROVE  /\ Sound(Merged(disk))
         /\ \A j \in kept \ wrecked : j \in Merged(disk).jobs
         /\ up /\ Reloads => Fresh(Merged(disk))
<1>1. /\ Sound(disk) /\ \A j \in lines.jobs : j \notin disk.jobs
      /\ \A j \in kept \ wrecked : j \in disk.jobs \cup lines.jobs
      /\ up /\ Reloads => Fresh(disk)
  BY DEF CronInv, StoreInv, NotLost
<1> QED
  BY <1>1, MergedIsGood

LEMMA TickStep ==
  ASSUME CronInv, Tick
  PROVE  CronInv'
<1> DEFINE s == IF manual = {} THEN Merged(disk) ELSE mem
<1>1. /\ up /\ ~ticking /\ ~dirty
      /\ Saved(s) \/ NotSaved(s)
      /\ due' = DueIn(s) /\ ticking' = (due' # {})
      /\ UNCHANGED <<now, up, cur, manual, hung, edits, downs, historyVars>>
  BY DEF Tick
<1>2. s = Loaded
  BY <1>1 DEF Loaded, Reloads, Busy
<1> HIDE DEF s
<1>3. /\ s \in Stores /\ s.on \subseteq s.jobs /\ s.jobs \subseteq made /\ made \subseteq Jobs
      /\ Fresh(s) /\ (\A j \in s.on : j \notin stopped)
      /\ \A j \in s.jobs : j \notin Waiting
      /\ \A j \in kept \ wrecked : j \in s.jobs \cup Waiting
  BY <1>1, <1>2, LoadedForCommand
<1>4. StoreInv'
  <2>1. stopped' = stopped /\ kept' = kept /\ made' = made /\ wrecked' = wrecked
        /\ finished' = finished
    BY <1>1 DEF historyVars
  <2>2. kept \subseteq made /\ stopped \subseteq made
    BY DEF CronInv, StoreInv
  <2> QED
    BY <1>1, <1>3, <2>1, <2>2, Storing
<1>5. lines'.jobs = Waiting
  BY <1>1, ConsumedLines, EmptyFields DEF Waiting, Saved, NotSaved
<1>6. ASSUME NEW p \in due'
      PROVE  /\ p \in Jobs \X (1..now) /\ p[1] \in made /\ p[1] \notin lines'.jobs
             /\ p \notin finished /\ p[1] \notin stopped
  <2>1. PICK j \in s.on : p = <<j, s.next[j]>> /\ s.next[j] \in 1..now
    BY <1>1 DEF DueIn
  <2>2. p[1] = j /\ p[2] = s.next[j] /\ j \in Jobs
    BY <1>3, <2>1
  <2>3. p \notin finished
    BY <1>3, <2>1, <2>2 DEF Fresh
  <2> QED
    BY <1>3, <1>5, <2>1, <2>2, <2>3
<1>7. cur = {} /\ cur' = {}
  BY <1>1 DEF CronInv, TickInv
<1>8. \A p \in finished : p \in Jobs \X (1..now) /\ p[1] \in made /\ p[1] \notin lines'.jobs
  BY <1>5 DEF CronInv, TickInv, Waiting
<1>9. TickInv'
  BY <1>1, <1>6, <1>7, <1>8 DEF TickInv, historyVars
<1>10. ticking' \in BOOLEAN
  BY <1>1
<1> QED
  BY <1>1, <1>4, <1>9, <1>10, SavingCounts DEF CronInv, Counts, historyVars

LEMMA TickSavesStep ==
  ASSUME CronInv, TickSaves
  PROVE  CronInv'
<1>1. /\ up /\ dirty /\ Saved(mem)
      /\ UNCHANGED <<now, up, execVars, edits, downs, historyVars>>
  BY DEF TickSaves
<1>2. Loaded = mem
  BY <1>1 DEF Loaded, Reloads
<1>3. ~NotSaved(mem)
  BY <1>1 DEF Saved, NotSaved
<1>4. StoreInv'
  BY <1>1, <1>2, <1>3, LoadedForCommand, Storing DEF historyVars
<1>5. TickInv'
  BY <1>1, TickKept, SavingConsumes DEF historyVars, execVars
<1> QED
  BY <1>1, <1>4, <1>5, SavingCounts DEF CronInv, Counts, tickVars, execVars, historyVars

LEMMA TickEndsStep ==
  ASSUME CronInv, TickEnds
  PROVE  CronInv'
<1>1. /\ ticking /\ cur = {} /\ due = {} /\ ticking' = FALSE
      /\ Saved(mem) \/ NotSaved(mem)
      /\ UNCHANGED <<now, up, due, cur, manual, hung, edits, downs, historyVars>>
  BY DEF TickEnds
<1>2. up /\ Loaded = mem
  BY <1>1 DEF Loaded, Reloads, Busy, CronInv, TickInv, Counts
<1>3. StoreInv'
  BY <1>1, <1>2, LoadedForCommand, Storing DEF historyVars
<1>4. lines'.jobs \subseteq lines.jobs
  BY <1>1, SavingConsumes
<1>5. TickInv'
  BY <1>1, <1>2, <1>4 DEF CronInv, TickInv, historyVars
<1> QED
  BY <1>1, <1>3, <1>5, SavingCounts DEF CronInv, Counts, historyVars

LEMMA ExecuteStep ==
  ASSUME CronInv, NEW p, Execute(p)
  PROVE  CronInv'
<1>1. /\ ticking /\ cur = {} /\ p \in due /\ cur' = {p} /\ due' = due \ {p}
      /\ UNCHANGED <<now, up, storeVars, ticking, manual, hung, boundVars, historyVars>>
  BY DEF Execute
<1>2. StoreInv'
  BY <1>1 DEF CronInv, StoreInv, Sound, Fresh, NotLost, Reloads, Busy, storeVars, historyVars
<1>3. TickInv'
  BY <1>1 DEF CronInv, TickInv, storeVars, historyVars
<1> QED
  BY <1>1, <1>2, <1>3 DEF CronInv, Counts, storeVars, boundVars, historyVars

LEMMA LoseTurnStep ==
  ASSUME CronInv, NEW x, LoseTurn(x)
  PROVE  CronInv'
  BY DEF LoseTurn, CronInv, Counts, StoreInv, TickInv, Sound, Fresh, NotLost, Reloads, Busy,
         storeVars, tickVars, boundVars, historyVars

LEMMA ExecutedStep ==
  ASSUME CronInv, NEW p, Executed(p)
  PROVE  CronInv'
<1> DEFINE j == p[1]
           s == Advanced(mem, j)
<1>1. /\ cur = {p} /\ cur' = {} /\ mem' = s
      /\ finished' = finished \cup {p}
      /\ kept' = IF j \in OneShot THEN kept \ {j} ELSE kept
      /\ UNCHANGED <<now, up, dirty, disk, lines, dels, due, ticking, manual, hung, boundVars, made,
                     wrecked, stopped>>
  BY DEF Executed
<1>2. /\ p \in Jobs \X (1..now) /\ j \in made /\ j \notin lines.jobs
      /\ p \notin due /\ ticking /\ up
  BY <1>1 DEF CronInv, TickInv
<1>3. j \in Jobs /\ p[2] \in 1..now
  BY <1>2
<1>4. /\ s \in Stores
      /\ s.jobs = IF j \in OneShot THEN mem.jobs \ {j} ELSE mem.jobs
      /\ s.on = IF j \in OneShot THEN mem.on \ {j} ELSE mem.on
      /\ j \in s.on => s.next[j] \notin 1..now
      /\ \A i \in Jobs : i # j => s.next[i] = mem.next[i]
  <2>1. Counts /\ mem \in Stores /\ mem.on \subseteq mem.jobs
    BY DEF CronInv, StoreInv, Sound
  <2> QED
    BY <1>3, <2>1, AdvancedFields
<1> HIDE DEF j, s
<1>5. Sound(mem)' /\ Sound(disk)' /\ Sound(lines)'
  BY <1>1, <1>4 DEF CronInv, StoreInv, Sound
<1>6. Fresh(mem)'
  <2> SUFFICES ASSUME NEW q \in finished', q[1] \in s.on
               PROVE  s.next[q[1]] # q[2]
    BY <1>1 DEF Fresh
  <2>1. q[1] \in Jobs /\ q[2] \in 1..now
    BY <1>1, <1>2 DEF CronInv, TickInv
  <2>2. CASE q[1] = j
    BY <1>4, <2>1, <2>2
  <2>3. CASE q[1] # j
    <3>1. q \in finished /\ q[1] \in mem.on
      BY <1>1, <1>4, <2>3 DEF j
    <3>2. Fresh(mem)
      BY DEF CronInv, StoreInv
    <3> QED
      BY <1>4, <2>1, <2>3, <3>1, <3>2 DEF Fresh
  <2> QED
    BY <2>2, <2>3
<1>7. ~Reloads'
  BY <1>1, <1>2 DEF Reloads, Busy
<1>8. NotLost' /\ \A i \in kept' \ wrecked' : i \in mem'.jobs \cup lines'.jobs
  BY <1>1, <1>2, <1>4 DEF CronInv, StoreInv, NotLost
<1>9. StoreInv'
  BY <1>1, <1>4, <1>5, <1>6, <1>7, <1>8 DEF CronInv, StoreInv
<1>10. TickInv'
  <2>1. \A q \in due' \cup cur' \cup finished' :
          q \in Jobs \X (1..now') /\ q[1] \in made' /\ q[1] \notin lines'.jobs
    BY <1>1, <1>2 DEF CronInv, TickInv, j
  <2>2. \A q \in due' \cup cur' : q \notin finished'
    BY <1>1, <1>2 DEF CronInv, TickInv
  <2> QED
    BY <1>1, <1>2, <2>1, <2>2 DEF CronInv, TickInv
<1> QED
  BY <1>1, <1>9, <1>10 DEF CronInv, Counts, boundVars

-----------------------------------------------------------------------------
\* Manual runs

LEMMA RunJobStep ==
  ASSUME CronInv, NEW j \in Jobs, RunJob(j)
  PROVE  CronInv'
<1>1. /\ up /\ dirty' = FALSE /\ manual' = manual \cup {j}
      /\ UNCHANGED <<now, up, tickVars, hung, boundVars, historyVars>>
  BY DEF RunJob
<1>2. ~Reloads'
  BY <1>1 DEF Reloads, Busy
<1>3. StoreInv' /\ lines'.jobs \subseteq lines.jobs
  <2>1. CASE Busy
    <3>1. disk' = (IF dirty THEN mem ELSE disk) /\ UNCHANGED <<mem, lines, dels>>
      BY <2>1 DEF RunJob
    <3>2. Sound(disk)' /\ Sound(mem)' /\ Sound(lines)' /\ Fresh(mem)'
      BY <1>1, <3>1 DEF CronInv, StoreInv, Sound, Fresh, historyVars
    <3>3. NotLost'
      BY <1>1, <3>1 DEF CronInv, StoreInv, NotLost, historyVars
    <3> QED
      BY <1>1, <1>2, <3>1, <3>2, <3>3 DEF CronInv, StoreInv, historyVars
  <2>2. CASE ~Busy
    <3> DEFINE s == Merged(IF dirty THEN mem ELSE disk)
    <3>1. mem' = s /\ disk' = s /\ lines' = Empty /\ dels' = {}
      BY <2>2 DEF RunJob
    <3>2. Sound(s) /\ Fresh(s) /\ \A i \in kept \ wrecked : i \in s.jobs
      <4>1. CASE dirty
        <5>1. s = Merged(mem)
          BY <4>1
        <5> QED
          BY <1>1, <5>1, MergedIsGood DEF CronInv, StoreInv
      <4>2. CASE ~dirty
        <5>1. s = Merged(disk) /\ Reloads
          BY <2>2, <4>2 DEF Reloads
        <5> QED
          BY <1>1, <4>2, <5>1, DiskForTick
      <4> QED
        BY <4>1, <4>2
    <3> HIDE DEF s
    <3>3. Sound(disk)' /\ Sound(mem)' /\ Sound(lines)' /\ Fresh(mem)'
      BY <1>1, <3>1, <3>2, EmptyFields DEF Sound, Fresh, historyVars
    <3>4. NotLost'
      BY <1>1, <3>1, <3>2 DEF NotLost, historyVars
    <3> QED
      BY <1>1, <1>2, <3>1, <3>2, <3>3, <3>4, EmptyFields DEF CronInv, StoreInv, historyVars
  <2> QED
    BY <2>1, <2>2
<1>4. TickInv'
  BY <1>1, <1>3, TickKept DEF historyVars
<1> QED
  BY <1>1, <1>3, <1>4 DEF CronInv, Counts, tickVars, execVars, boundVars, historyVars

LEMMA RunEndsStep ==
  ASSUME CronInv, NEW j \in Jobs, RunEnds(j)
  PROVE  CronInv'
<1> DEFINE s == Advanced(mem, j)
<1>1. /\ j \in manual /\ manual' = manual \ {j}
      /\ Saved(s) \/ NotSaved(s)
      /\ kept' = IF j \in OneShot THEN kept \ {j} ELSE kept
      /\ UNCHANGED <<now, up, tickVars, hung, edits, downs, made, wrecked, stopped, finished>>
  BY DEF RunEnds
<1>2. up /\ Loaded = mem
  BY <1>1 DEF Loaded, Reloads, Busy, CronInv, TickInv
<1>3. /\ s \in Stores
      /\ s.jobs = IF j \in OneShot THEN mem.jobs \ {j} ELSE mem.jobs
      /\ s.on = IF j \in OneShot THEN mem.on \ {j} ELSE mem.on
      /\ j \in s.on => s.next[j] \notin 1..now
      /\ \A i \in Jobs : i # j => s.next[i] = mem.next[i]
  <2>1. Counts /\ mem \in Stores /\ mem.on \subseteq mem.jobs
    BY DEF CronInv, StoreInv, Sound
  <2> QED
    BY <2>1, AdvancedFields
<1> HIDE DEF s
<1>4. Fresh(s)
  <2> SUFFICES ASSUME NEW q \in finished, q[1] \in s.on
               PROVE  s.next[q[1]] # q[2]
    BY DEF Fresh
  <2>1. q[1] \in Jobs /\ q[2] \in 1..now
    BY <1>2, LoadedForCommand
  <2>2. q[1] \in mem.on /\ Fresh(mem)
    BY <1>3 DEF CronInv, StoreInv
  <2> QED
    BY <1>3, <2>1, <2>2 DEF Fresh
<1>5. /\ s.on \subseteq s.jobs /\ s.jobs \subseteq made'
      /\ \A i \in s.on : i \notin stopped'
      /\ made \subseteq made' /\ kept' \subseteq made' /\ stopped' \subseteq made'
      /\ \A i \in s.jobs : i \notin Waiting
      /\ \A i \in Waiting : i \in stopped' => i \in stopped
      /\ \A i \in kept' \ wrecked : i \in s.jobs \cup Waiting
      /\ \A i \in kept' : i \in kept \/ i \notin made
      /\ NotSaved(s) => stopped' \subseteq stopped
  BY <1>1, <1>2, <1>3, LoadedForCommand
<1>6. StoreInv'
  BY <1>1, <1>3, <1>4, <1>5, Storing
<1>7. TickInv'
  BY <1>1, <1>2, TickKept, SavingConsumes
<1> QED
  BY <1>1, <1>6, <1>7, SavingCounts DEF CronInv, Counts, tickVars

-----------------------------------------------------------------------------
\* The process and the clock

LEMMA DownStep ==
  ASSUME CronInv, Down, wrecked \subseteq wrecked', wrecked' \subseteq Jobs,
         \/ /\ UNCHANGED <<lines, dels>>
            /\ dirty => \A j \in mem.jobs : j \in disk.jobs \cup wrecked'
         \/ /\ ~dirty /\ lines' = Empty /\ dels' = {}
            /\ lines.jobs \subseteq wrecked'
  PROVE  CronInv'
<1>1. /\ up /\ up' = FALSE /\ mem' = Empty /\ dirty' = FALSE
      /\ due' = {} /\ cur' = {} /\ ticking' = FALSE /\ manual' = {}
      /\ downs < MaxDowns /\ downs' = downs + 1
      /\ UNCHANGED <<now, disk, edits, faults, made, kept, stopped, finished>>
  BY DEF Down
<1>2. Sound(mem)' /\ Sound(disk)' /\ Sound(lines)' /\ Fresh(mem)'
  BY <1>1, EmptyFields DEF CronInv, StoreInv, Sound, Fresh
<1>3. NotLost'
  BY <1>1, EmptyFields DEF CronInv, StoreInv, NotLost
<1>4. StoreInv'
  BY <1>1, <1>2, <1>3, EmptyFields DEF CronInv, StoreInv
<1>5. lines'.jobs \subseteq lines.jobs
  BY EmptyFields
<1>6. TickInv'
  BY <1>1, <1>5, TickEnded
<1>7. Counts'
  <2>1. MaxDowns \in Nat /\ downs \in 0..MaxDowns
    BY DEF CronInv, Counts
  <2>2. downs' \in 0..MaxDowns
    BY <1>1, <2>1
  <2> QED
    BY <1>1, <2>2 DEF CronInv, Counts
<1> QED
  BY <1>4, <1>6, <1>7 DEF CronInv

LEMMA CrashStep ==
  ASSUME CronInv, Crash
  PROVE  CronInv'
<1>1. Down /\ UNCHANGED <<lines, dels>>
  BY DEF Crash
<1>2. wrecked' = wrecked \cup (IF dirty THEN mem.jobs \ disk.jobs ELSE {})
  BY DEF Crash
<1>3. mem.jobs \subseteq Jobs /\ wrecked \subseteq Jobs
  BY DEF CronInv, StoreInv, Sound, Counts
<1>4. /\ wrecked \subseteq wrecked' /\ wrecked' \subseteq Jobs
      /\ dirty => \A j \in mem.jobs : j \in disk.jobs \cup wrecked'
  BY <1>2, <1>3
<1> QED
  BY <1>1, <1>4, DownStep

LEMMA CrashInMergeStep ==
  ASSUME CronInv, CrashInMerge
  PROVE  CronInv'
<1>1. /\ Down /\ ~dirty /\ lines' = Empty /\ dels' = {}
      /\ wrecked' = wrecked \cup lines.jobs
  BY DEF CrashInMerge, Reloads
<1>2. lines.jobs \subseteq Jobs /\ wrecked \subseteq Jobs
  BY DEF CronInv, StoreInv, Sound, Counts
<1> QED
  BY <1>1, <1>2, DownStep

LEMMA StartStep ==
  ASSUME CronInv, Start
  PROVE  CronInv'
<1> DEFINE s == Recomputed(Merged(disk))
<1>1. /\ ~up /\ up' = TRUE /\ Saved(s)
      /\ UNCHANGED <<now, execVars, edits, downs, historyVars>>
  BY DEF Start
<1>2. ~dirty /\ Reloads /\ Waiting = {}
  BY <1>1 DEF CronInv, TickInv, Reloads, Busy, Waiting
<1>3. /\ Sound(Merged(disk))
      /\ \A j \in kept \ wrecked : j \in Merged(disk).jobs
  BY <1>2, DiskForTick
<1>4. /\ s \in Stores /\ s.jobs = Merged(disk).jobs /\ s.on = Merged(disk).on
      /\ \A i \in Merged(disk).on : s.next[i] \notin 1..now
  BY <1>3, RecomputedFields DEF Sound, CronInv
<1> HIDE DEF s
<1>5. Fresh(s)
  <2>1. \A p \in finished : p[2] \in 1..now
    BY DEF CronInv, TickInv
  <2> QED
    BY <1>4, <2>1 DEF Fresh
<1>6. ~NotSaved(s)
  BY <1>1 DEF Saved, NotSaved
<1>7. kept \subseteq made /\ stopped \subseteq made
  BY DEF CronInv, StoreInv
<1>8. StoreInv'
  BY <1>1, <1>2, <1>3, <1>4, <1>5, <1>6, <1>7, Storing DEF Sound, historyVars
<1>9. lines'.jobs \subseteq lines.jobs
  BY <1>1, SavingConsumes
<1>10. TickInv'
  BY <1>1, <1>9 DEF CronInv, TickInv, tickVars, execVars, historyVars
<1> QED
  BY <1>1, <1>8, <1>10, SavingCounts DEF CronInv, Counts, tickVars, execVars, historyVars

LEMMA ElapseStep ==
  ASSUME CronInv, Elapse
  PROVE  CronInv'
<1>1. /\ now < MaxTime /\ now' = now + 1
      /\ UNCHANGED <<up, storeVars, execVars, boundVars, historyVars>>
  BY DEF Elapse
<1>2. now \in Nat /\ MaxTime \in Nat /\ now' \in 0..MaxTime
  BY <1>1 DEF CronInv, Counts
<1>3. 1..now \subseteq 1..now'
  BY <1>1, <1>2
<1>4. StoreInv'
  BY <1>1 DEF CronInv, StoreInv, Sound, Fresh, NotLost, Reloads, Busy, storeVars, tickVars,
              execVars, historyVars
<1>5. TickInv'
  BY <1>1, <1>3 DEF CronInv, TickInv, storeVars, tickVars, execVars, historyVars
<1> QED
  BY <1>1, <1>2, <1>4, <1>5 DEF CronInv, Counts, storeVars, tickVars, execVars, boundVars,
                                historyVars

-----------------------------------------------------------------------------
\* The removals another process acknowledged

LEMMA LoadedRemoved ==
  ASSUME ServiceInv
  PROVE  /\ \A j \in removed : j \in Loaded.jobs \cup Waiting => j \in dels /\ ~Reloads
         /\ Reloads => due = {} /\ cur = {} /\ ~dirty
         /\ \A j \in removed : j \in made
<1>1. /\ Reloads => due = {} /\ cur = {} /\ ~dirty
      /\ \A j \in removed : j \in made
  BY DEF ServiceInv, CronInv, TickInv, RemovedInv, Reloads, Busy
<1>2. CASE Reloads
  <2>1. Loaded.jobs = (disk.jobs \cup lines.jobs) \ dels
    BY <1>2, MergedFields DEF Loaded, ServiceInv, CronInv, StoreInv, Sound
  <2> QED
    BY <1>1, <1>2, <2>1 DEF Waiting, ServiceInv, RemovedInv
<1>3. CASE ~Reloads
  BY <1>1, <1>3 DEF Waiting, Loaded, ServiceInv, RemovedInv
<1> QED
  BY <1>1, <1>2, <1>3

\* A step that saves a store, or fails to, whose jobs were loaded or are new.
LEMMA RemovedStored ==
  ASSUME ServiceInv, NEW s, Saved(s) \/ NotSaved(s),
         removed' = removed, made \subseteq made',
         \A j \in s.jobs : j \in Loaded.jobs \/ j \notin made,
         \A p \in due' \cup cur' : p \in due \cup cur \/ p[1] \in Loaded.jobs,
         hung' \subseteq cur' \cup manual'
  PROVE  RemovedInv'
<1>1. /\ mem' = s /\ Consumed
      /\ disk' = s \/ dirty'
  BY DEF Saved, NotSaved
<1>2. /\ lines'.jobs = Waiting
      /\ Reloads => dels' = {}
      /\ ~Reloads => dels' = dels
  BY <1>1, ConsumedLines, EmptyFields DEF Waiting
<1>3. ASSUME NEW j \in removed, j \notin dels'
      PROVE  j \notin s.jobs \cup Waiting
  BY <1>2, <1>3, LoadedRemoved
<1>4. ASSUME NEW p \in due' \cup cur', p[1] \in removed
      PROVE  p[1] \in dels'
  <2>1. CASE p \in due \cup cur
    BY <1>2, <1>4, <2>1, LoadedRemoved DEF ServiceInv, RemovedInv
  <2>2. CASE p[1] \in Loaded.jobs
    BY <1>2, <1>4, <2>2, LoadedRemoved
  <2> QED
    BY <2>1, <2>2
<1>5. removed' \subseteq made'
  BY LoadedRemoved
<1> QED
  BY <1>1, <1>2, <1>3, <1>4, <1>5 DEF RemovedInv

LEMMA SwitchedJobs ==
  ASSUME NEW s \in Stores, NEW j, NEW enabled
  PROVE  Switched(s, j, enabled).jobs = s.jobs
  BY DEF Switched, Stores

LEMMA RemovedCommand ==
  ASSUME ServiceInv, NEW j \in Jobs, Command(j)
  PROVE  RemovedInv'
<1>1. Counts /\ Loaded \in Stores
  BY LoadedIsGood DEF Sound, ServiceInv, CronInv
<1>2. ASSUME NEW s, NEW keeping, NEW stopping, Acknowledged(s, keeping, stopping),
             manual' = manual, removed' = removed, made \subseteq made',
             \A i \in s.jobs : i \in Loaded.jobs \/ i \notin made
      PROVE  RemovedInv'
  <2>1. /\ Saved(s) \/ NotSaved(s)
        /\ \/ due' = {} /\ cur' = {} /\ hung' = hung \ cur
           \/ UNCHANGED <<due, cur, hung>>
    BY <1>2 DEF Acknowledged, ArmTimer, tickVars
  <2>2. hung' \subseteq cur' \cup manual'
    BY <1>2, <2>1 DEF ServiceInv, RemovedInv
  <2>3. \A p \in due' \cup cur' : p \in due \cup cur \/ p[1] \in Loaded.jobs
    BY <2>1
  <2> QED
    BY <1>2, <2>1, <2>2, <2>3, RemovedStored
<1>3. CASE AddJob(j)
  <2>1. /\ Acknowledged(With(Loaded, j), kept \cup {j}, stopped)
        /\ j \notin made /\ made' = made \cup {j} /\ UNCHANGED <<manual, removed>>
    BY <1>3 DEF AddJob
  <2>2. With(Loaded, j).jobs = Loaded.jobs \cup {j}
    BY <1>1, WithFields
  <2> QED
    BY <1>2, <2>1, <2>2
<1>4. CASE RemoveJob(j)
  <2>1. /\ Acknowledged(Without(Loaded, {j}), kept \ {j}, stopped \cup {j})
        /\ UNCHANGED <<made, manual, removed>>
    BY <1>4 DEF RemoveJob
  <2>2. Without(Loaded, {j}).jobs = Loaded.jobs \ {j}
    BY <1>1, WithoutFields
  <2> QED
    BY <1>2, <2>1, <2>2
<1>5. CASE UpdateJob(j)
  <2>1. /\ Acknowledged(Switched(Loaded, j, j \in Loaded.on), kept, stopped)
        /\ UNCHANGED <<made, manual, removed>>
    BY <1>5 DEF UpdateJob
  <2>2. Switched(Loaded, j, j \in Loaded.on).jobs = Loaded.jobs
    BY <1>1, SwitchedJobs
  <2> QED
    BY <1>2, <2>1, <2>2
<1>6. ASSUME NEW enabled \in BOOLEAN, EnableJob(j, enabled)
      PROVE  RemovedInv'
  <2> DEFINE stopping == IF enabled THEN stopped \ {j} ELSE stopped \cup {j}
  <2>1. /\ Acknowledged(Switched(Loaded, j, enabled), kept, stopping)
        /\ UNCHANGED <<made, manual, removed>>
    BY <1>6 DEF EnableJob
  <2>2. Switched(Loaded, j, enabled).jobs = Loaded.jobs
    BY <1>1, SwitchedJobs
  <2> HIDE DEF stopping
  <2> QED
    BY <1>2, <2>1, <2>2
<1> QED
  BY <1>3, <1>4, <1>5, <1>6 DEF Command

LEMMA RemovedLoading ==
  ASSUME ServiceInv, ListJobs \/ LoadFails \/ TickSaves \/ TickEnds
  PROVE  RemovedInv'
<1>1. hung \subseteq cur \cup manual
  BY DEF ServiceInv, RemovedInv
<1>2. CASE ListJobs
  BY <1>1, <1>2, RemovedStored DEF ListJobs, execVars, tickVars, historyVars
<1>3. CASE LoadFails
  <2>1. /\ Reloads /\ mem' = Loaded /\ dirty' = TRUE /\ Consumed
        /\ UNCHANGED <<due, cur, hung, manual, made, removed>>
    BY <1>3 DEF LoadFails, execVars, tickVars, historyVars
  <2>2. lines'.jobs = {} /\ Waiting = {} /\ due' = {} /\ cur' = {}
    BY <2>1, ConsumedLines, EmptyFields, LoadedRemoved DEF Waiting
  <2> QED
    BY <2>1, <2>2, LoadedRemoved DEF RemovedInv, ServiceInv
<1>4. CASE TickSaves
  <2>1. Loaded = mem
    BY <1>4 DEF TickSaves, Loaded, Reloads
  <2> QED
    BY <1>1, <1>4, <2>1, RemovedStored DEF TickSaves, execVars, tickVars, historyVars
<1>5. CASE TickEnds
  <2>1. Loaded = mem
    BY <1>5 DEF TickEnds, Loaded, Reloads, Busy
  <2> QED
    BY <1>1, <1>5, <2>1, RemovedStored DEF TickEnds, historyVars
<1> QED
  BY <1>2, <1>3, <1>4, <1>5

LEMMA RemovedExternal ==
  ASSUME ServiceInv, NEW j \in Jobs, ExternalAdd(j) \/ ExternalRemove(j)
  PROVE  RemovedInv'
<1>1. CASE ExternalAdd(j)
  <2>1. /\ j \notin made /\ made' = made \cup {j} /\ lines' = With(lines, j)
        /\ UNCHANGED <<mem, dirty, disk, dels, due, cur, hung, manual, removed>>
    BY <1>1 DEF ExternalAdd, execVars, tickVars
  <2>2. lines'.jobs = lines.jobs \cup {j}
    BY <2>1, WithFields DEF ServiceInv, CronInv, StoreInv, Sound
  <2> QED
    BY <2>1, <2>2 DEF ServiceInv, RemovedInv
<1>2. CASE ExternalRemove(j)
  <2>1. /\ j \in Merged(disk).jobs /\ dels' = dels \cup {j} /\ removed' = removed \cup {j}
        /\ UNCHANGED <<mem, dirty, disk, lines, due, cur, hung, manual, made>>
    BY <1>2 DEF ExternalRemove, execVars, tickVars
  <2>2. j \in made
    BY <2>1, MergedIsGood DEF ServiceInv, CronInv, StoreInv, Sound
  <2> QED
    BY <2>1, <2>2 DEF ServiceInv, RemovedInv
<1> QED
  BY <1>1, <1>2

LEMMA RemovedTick ==
  ASSUME ServiceInv, Tick
  PROVE  RemovedInv'
<1> DEFINE s == IF manual = {} THEN Merged(disk) ELSE mem
<1>1. /\ ~ticking /\ ~dirty
      /\ Saved(s) \/ NotSaved(s)
      /\ due' = DueIn(s)
      /\ UNCHANGED <<cur, manual, hung, made, removed>>
  BY DEF Tick, historyVars
<1>2. s = Loaded
  BY <1>1 DEF Loaded, Reloads, Busy
<1> HIDE DEF s
<1>3. s.on \subseteq s.jobs
  BY <1>2, LoadedIsGood DEF Sound, ServiceInv
<1>4. \A p \in due' : p[1] \in Loaded.jobs
  BY <1>1, <1>2, <1>3 DEF DueIn
<1>5. hung' \subseteq cur' \cup manual'
  BY <1>1 DEF ServiceInv, RemovedInv
<1> QED
  BY <1>1, <1>2, <1>4, <1>5, RemovedStored

LEMMA RemovedExecution ==
  ASSUME ServiceInv, NEW p, Execute(p) \/ Executed(p) \/ LoseTurn(p)
  PROVE  RemovedInv'
<1>1. CASE Execute(p)
  BY <1>1 DEF Execute, ServiceInv, RemovedInv, storeVars, historyVars
<1>2. CASE LoseTurn(p)
  BY <1>2 DEF LoseTurn, ServiceInv, RemovedInv, storeVars, tickVars, historyVars
<1>3. CASE Executed(p)
  <2> DEFINE s == Advanced(mem, p[1])
  <2>1. /\ cur = {p} /\ p \notin hung /\ cur' = {} /\ mem' = s
        /\ UNCHANGED <<dirty, disk, lines, dels, due, manual, hung, made, removed>>
    BY <1>3 DEF Executed
  <2>2. p[1] \in Jobs /\ Counts /\ mem \in Stores /\ mem.on \subseteq mem.jobs
    BY <2>1 DEF ServiceInv, CronInv, StoreInv, Sound, TickInv
  <2>3. s.jobs \subseteq mem.jobs
    BY <2>2, AdvancedFields
  <2> HIDE DEF s
  <2> QED
    BY <2>1, <2>3 DEF ServiceInv, RemovedInv
<1> QED
  BY <1>1, <1>2, <1>3

LEMMA RemovedManual ==
  ASSUME ServiceInv, NEW j \in Jobs, RunJob(j) \/ RunEnds(j)
  PROVE  RemovedInv'
<1>1. CASE RunJob(j)
  <2>1. /\ dirty' = FALSE /\ manual' = manual \cup {j}
        /\ UNCHANGED <<due, cur, ticking, hung, made, removed>>
    BY <1>1 DEF RunJob, tickVars, historyVars
  <2>2. CASE Busy
    <3>1. disk' = (IF dirty THEN mem ELSE disk) /\ UNCHANGED <<mem, lines, dels>>
      BY <1>1, <2>2 DEF RunJob
    <3> QED
      BY <2>1, <3>1 DEF ServiceInv, RemovedInv
  <2>3. CASE ~Busy
    <3> DEFINE s == IF dirty THEN mem ELSE disk
    <3>1. /\ mem' = Merged(s) /\ disk' = Merged(s) /\ lines'.jobs = {} /\ dels' = {}
          /\ due = {} /\ cur = {}
      BY <1>1, <2>3, EmptyFields DEF RunJob, Busy, ServiceInv, CronInv, TickInv
    <3>2. Merged(s).jobs = (s.jobs \cup lines.jobs) \ dels
      BY MergedFields DEF ServiceInv, CronInv, StoreInv, Sound
    <3>3. \A i \in removed : i \notin Merged(s).jobs
      BY <3>2 DEF ServiceInv, RemovedInv
    <3> HIDE DEF s
    <3> QED
      BY <2>1, <3>1, <3>3 DEF ServiceInv, RemovedInv
  <2> QED
    BY <2>2, <2>3
<1>2. CASE RunEnds(j)
  <2> DEFINE s == Advanced(mem, j)
  <2>1. /\ j \in manual \ hung /\ manual' = manual \ {j}
        /\ Saved(s) \/ NotSaved(s)
        /\ UNCHANGED <<due, cur, hung, made, removed>>
    BY <1>2 DEF RunEnds, tickVars
  <2>2. Loaded = mem /\ Counts /\ mem \in Stores /\ mem.on \subseteq mem.jobs
    BY <2>1 DEF Loaded, Reloads, Busy, ServiceInv, CronInv, StoreInv, Sound
  <2>3. s.jobs \subseteq mem.jobs
    BY <2>2, AdvancedFields
  <2> HIDE DEF s
  <2>4. hung' \subseteq cur' \cup manual'
    BY <2>1 DEF ServiceInv, RemovedInv
  <2> QED
    BY <2>1, <2>2, <2>3, <2>4, RemovedStored
<1> QED
  BY <1>1, <1>2

\* A crash undoes the removals that were merged and not saved, and no other.
LEMMA RemovedDown ==
  ASSUME ServiceInv, Crash \/ CrashInMerge
  PROVE  RemovedInv'
<1>1. /\ mem' = Empty /\ dirty' = FALSE /\ due' = {} /\ cur' = {} /\ hung' = {}
      /\ UNCHANGED <<disk, made>>
  BY DEF Crash, CrashInMerge, Down
<1>2. CASE Crash
  <2>1. /\ removed' = removed \ (IF dirty THEN disk.jobs \ (mem.jobs \cup dels) ELSE {})
        /\ UNCHANGED <<lines, dels>>
    BY <1>2 DEF Crash
  <2> QED
    BY <1>1, <2>1, EmptyFields DEF ServiceInv, RemovedInv
<1>3. CASE CrashInMerge
  <2>1. /\ ~dirty /\ removed' = removed \ (disk.jobs \cap dels)
        /\ lines' = Empty /\ dels' = {}
    BY <1>3 DEF CrashInMerge, Reloads
  <2> QED
    BY <1>1, <2>1, EmptyFields DEF ServiceInv, RemovedInv
<1> QED
  BY <1>2, <1>3

LEMMA RemovedStart ==
  ASSUME ServiceInv, Start
  PROVE  RemovedInv'
<1> DEFINE s == Recomputed(Merged(disk))
<1>1. ~up /\ Saved(s) /\ UNCHANGED <<due, cur, hung, manual, made, removed>>
  BY DEF Start, execVars, tickVars, historyVars
<1>2. Loaded = Merged(disk) /\ ~dirty
  BY <1>1 DEF Loaded, Reloads, Busy, ServiceInv, CronInv, TickInv
<1>3. s.jobs = Loaded.jobs
  BY <1>2, DiskForTick, RecomputedFields DEF Sound, ServiceInv, CronInv
<1> HIDE DEF s
<1>4. hung' \subseteq cur' \cup manual'
  BY <1>1 DEF ServiceInv, RemovedInv
<1> QED
  BY <1>1, <1>3, <1>4, RemovedStored

LEMMA RemovedInvNext == ServiceInv /\ [Next]_vars => RemovedInv'
<1> SUFFICES ASSUME ServiceInv, [Next]_vars
             PROVE  RemovedInv'
  OBVIOUS
<1>1. CASE UNCHANGED vars
  BY <1>1 DEF ServiceInv, RemovedInv, vars, storeVars, execVars, tickVars, historyVars
<1>2. CASE Elapse
  BY <1>2 DEF Elapse, ServiceInv, RemovedInv, storeVars, execVars, tickVars, historyVars
<1> QED
  BY <1>1, <1>2, RemovedCommand, RemovedLoading, RemovedExternal, RemovedTick,
     RemovedExecution, RemovedManual, RemovedDown, RemovedStart DEF Next

-----------------------------------------------------------------------------
\* The theorems

LEMMA CronInvInit == Init => CronInv
<1> SUFFICES ASSUME Init
             PROVE  CronInv
  OBVIOUS
<1>0. MaxTime \in Nat /\ MaxEdits \in Nat /\ MaxDowns \in Nat /\ MaxFaults \in Nat
  OBVIOUS
<1>1. Counts
  <2>1. /\ now = 0 /\ edits = 0 /\ downs = 0 /\ faults = 0
        /\ up = FALSE /\ dirty = FALSE /\ ticking = FALSE
        /\ manual = {} /\ made = {} /\ wrecked = {}
    BY DEF Init
  <2>2. now \in 0..MaxTime /\ edits \in 0..MaxEdits /\ downs \in 0..MaxDowns
        /\ faults \in 0..MaxFaults
    BY <1>0, <2>1
  <2> QED
    BY <2>1, <2>2 DEF Counts
<1>2. StoreInv
  BY EmptyFields DEF Init, StoreInv, Sound, Fresh, NotLost
<1>3. TickInv
  BY EmptyFields DEF Init, TickInv
<1> QED
  BY <1>1, <1>2, <1>3 DEF CronInv

LEMMA CronInvNext == CronInv /\ [Next]_vars => CronInv'
<1> SUFFICES ASSUME CronInv, [Next]_vars
             PROVE  CronInv'
  OBVIOUS
<1>1. CASE UNCHANGED vars
  BY <1>1 DEF CronInv, Counts, StoreInv, TickInv, Sound, Fresh, NotLost, Reloads,
              Busy, vars, storeVars, tickVars, execVars, boundVars, historyVars
<1>2. ASSUME NEW j \in Jobs,
             Command(j) \/ ExternalAdd(j) \/ ExternalRemove(j) \/ RunJob(j) \/ RunEnds(j)
      PROVE  CronInv'
  BY <1>2, CommandStep, ExternalAddStep, ExternalRemoveStep, RunJobStep, RunEndsStep
<1>3. CASE ListJobs \/ LoadFails
  BY <1>3, ListJobsStep, LoadFailsStep
<1>4. CASE Tick \/ TickSaves \/ TickEnds
  BY <1>4, TickStep, TickSavesStep, TickEndsStep
<1>5. ASSUME NEW p \in Occurrences, Execute(p) \/ Executed(p)
      PROVE  CronInv'
  BY <1>5, ExecuteStep, ExecutedStep
<1>7. ASSUME NEW x, LoseTurn(x)
      PROVE  CronInv'
  BY <1>7, LoseTurnStep
<1>6. CASE Crash \/ CrashInMerge \/ Start \/ Elapse
  BY <1>6, CrashStep, CrashInMergeStep, StartStep, ElapseStep
<1> QED
  BY <1>1, <1>2, <1>3, <1>4, <1>5, <1>6, <1>7 DEF Next

LEMMA ServiceInvTypes == ServiceInv => TypeOK
<1> SUFFICES ASSUME ServiceInv
             PROVE  TypeOK
  OBVIOUS
<1>1. Counts /\ now \in 0..MaxTime /\ MaxTime \in Nat
  BY DEF ServiceInv, CronInv, Counts
<1>2. \A s \in {mem, disk, lines} : s \in Stores /\ s.on \subseteq s.jobs
  BY DEF ServiceInv, CronInv, StoreInv, Sound
<1>3. due \subseteq Occurrences /\ cur \subseteq Occurrences /\ finished \subseteq Occurrences
  <2>1. 1..now \subseteq 1..MaxTime
    BY <1>1
  <2> QED
    BY <2>1 DEF ServiceInv, CronInv, TickInv, Occurrences
<1>4. {dels, manual, made, kept, wrecked, stopped, removed} \subseteq SUBSET Jobs
  <2>1. /\ dels \subseteq Jobs /\ manual \subseteq Jobs /\ made \subseteq Jobs
        /\ kept \subseteq Jobs /\ wrecked \subseteq Jobs /\ stopped \subseteq Jobs
        /\ removed \subseteq Jobs
    BY DEF ServiceInv, CronInv, StoreInv, Counts, RemovedInv
  <2> QED
    BY <2>1
<1> QED
  BY <1>1, <1>2, <1>3, <1>4 DEF TypeOK, Counts, ServiceInv, RemovedInv

\* The invariant of the service.
THEOREM CronInvariant == Spec => []ServiceInv
<1>1. Init => ServiceInv
  BY CronInvInit, EmptyFields DEF Init, ServiceInv, RemovedInv
<1>2. ServiceInv /\ [Next]_vars => ServiceInv'
  BY CronInvNext, RemovedInvNext DEF ServiceInv
<1> QED
  BY <1>1, <1>2, PTL DEF Spec

\* Every variable of the service keeps its type.
THEOREM CronTypesHold == Spec => []TypeOK
<1>1. ServiceInv => TypeOK
  BY ServiceInvTypes
<1> QED
  BY <1>1, CronInvariant, PTL

\* A job whose add was acknowledged is in jobs.json, in action.jsonl or in a
\* memory that is still to be saved, unless a crash came between: neither a
\* reload nor a save of what an execution works on drops it.
THEOREM JobsNotLost == Spec => []NotLost
<1>1. ServiceInv => NotLost
  BY DEF ServiceInv, CronInv, StoreInv
<1> QED
  BY <1>1, CronInvariant, PTL

\* The timer does not run a job whose removal or disabling the gateway
\* acknowledged, though the list of the tick was computed before; nor one whose
\* removal another process acknowledged, once action.jsonl was merged, unless a
\* crash undid the removal before jobs.json was saved.
THEOREM StoppedJobsStay == Spec => []StaysStopped
<1>1. ServiceInv => StaysStopped
  BY DEF ServiceInv, CronInv, TickInv, RemovedInv, StaysStopped
<1> QED
  BY <1>1, CronInvariant, PTL

\* No occurrence of a job that ran to its end is run by the timer again.
THEOREM OccurrencesEndOnce == Spec => EndedOnce
<1> DEFINE Once == \A p \in finished : cur' = {p} => cur = {p}
<1>1. ServiceInv /\ [Next]_vars => [Once]_vars
  <2> SUFFICES ASSUME ServiceInv, Next, NEW p \in finished, cur' = {p}
               PROVE  cur = {p}
    OBVIOUS
  <2>1. ASSUME cur' = {} \/ cur' = cur
        PROVE  cur = {p}
    BY <2>1
  <2>2. ASSUME NEW j \in Jobs,
               Command(j) \/ ExternalAdd(j) \/ ExternalRemove(j) \/ RunJob(j) \/ RunEnds(j)
        PROVE  cur' = {} \/ cur' = cur
    BY <2>2 DEF Command, AddJob, RemoveJob, EnableJob, UpdateJob, Acknowledged, ArmTimer,
                ExternalAdd, ExternalRemove, RunJob, RunEnds, execVars, tickVars
  <2>3. ASSUME NEW q \in Occurrences, Execute(q)
        PROVE  cur = {p}
    <3>1. q \in due /\ cur' = {q}
      BY <2>3 DEF Execute
    <3>2. q = p
      BY <3>1
    <3> QED
      BY <3>1, <3>2 DEF ServiceInv, CronInv, TickInv
  <2>4. ASSUME NEW q, Executed(q) \/ LoseTurn(q)
        PROVE  cur' = {} \/ cur' = cur
    BY <2>4 DEF Executed, LoseTurn, tickVars
  <2>5. CASE ListJobs \/ LoadFails \/ Tick \/ TickSaves \/ TickEnds
    BY <2>5 DEF ListJobs, LoadFails, Tick, TickSaves, TickEnds, execVars, tickVars
  <2>6. CASE Crash \/ CrashInMerge \/ Start \/ Elapse
    BY <2>6 DEF Crash, CrashInMerge, Down, Start, Elapse, execVars, tickVars
  <2> QED
    BY <2>1, <2>2, <2>3, <2>4, <2>5, <2>6 DEF Next
<1> QED
  BY <1>1, CronInvariant, PTL DEF Spec, EndedOnce
=============================================================================
