---------------------------- MODULE EventJournal ----------------------------
(***************************************************************************)
(* GatewayEventJournal: the events the gateway sends to its clients, kept  *)
(* in a file of one line per event and numbered per stream from a second   *)
(* file, so that a client that missed some can ask for them again.         *)
(*                                                                         *)
(* append() runs under a file lock, so what one call does is one action,   *)
(* whatever process calls it; it writes the line, replaces the sequences   *)
(* file and compacts, and can fail or be killed between any two of these:  *)
(* each place where it stops is an action of its own.                      *)
(*                                                                         *)
(* Lines are never reordered, so the file is the set `kept` of the events  *)
(* that can be read back, in the order of their event_id, and the state of *)
(* its last line.  A line that cannot be decoded is skipped by every       *)
(* reader, which is to say that it is not there.  Reads succeed.           *)
(***************************************************************************)
EXTENDS Naturals, FiniteSets

CONSTANTS
  Streams,      \* the stream ids, "client:chat" and "client:control"
  Writers,      \* the journal objects that share the file, one per process
  Keep,         \* max_events_per_stream, 512
  MaxRecords,   \* _MAX_EVENT_RECORDS, 4096
  MaxEvents,    \* bound: calls of append() in a behaviour
  MaxFaults     \* bound: calls of append() that do not run to their end

ASSUME EventJournalAssumption ==
  /\ Keep \in Nat \ {0}
  /\ MaxRecords \in Nat \ {0}
  /\ MaxEvents \in Nat
  /\ MaxFaults \in Nat

VARIABLES
  kept,     \* the readable lines of the events file
  tail,     \* how its last line ends: "newline", or cut: "garbage", "whole"
  seqs,     \* the sequences file: the last number of each stream
  made,     \* event ids handed out
  cache,    \* _event_count and _stream_counts of each writer
  fresh,    \* the writers whose _cached_signature is that of the file
  acked,    \* history: the events append() returned, which are then sent
  faults,   \* history: interrupted calls, and two kinds of them
  torn,     \*   a line was cut
  behind    \*   a line was written and the sequences file was not replaced

vars == <<kept, tail, seqs, made, cache, fresh, acked, faults, torn, behind>>

Events == [id : Nat \ {0}, stream : Streams, seq : Nat \ {0}]
Tails == {"newline", "garbage", "whole"}

In(set, s) == {e \in set : e.stream = s}

\* _refresh_counts_locked counts the file when another writer changed it.
CountsOf(set) == [total |-> Cardinality(set),
                  of |-> [s \in Streams |-> Cardinality(In(set, s))]]

\* Variant: the counts in memory are trusted.
Remembered(w) == cache[w]

Refreshed(w) == IF w \in fresh THEN cache[w] ELSE CountsOf(kept)

\* The counts after one more event of s.
Counted(w, s) ==
  LET c == Refreshed(w) IN
  [total |-> c.total + 1, of |-> [c.of EXCEPT ![s] = @ + 1]]

\* Variants: the next number from the lines in the file; the last one again.
NumberedByFile(s) ==
  [id |-> made + 1, stream |-> s, seq |-> Cardinality(In(kept, s)) + 1]
NumberedAgain(s) == [id |-> made + 1, stream |-> s, seq |-> seqs[s]]

NewEvent(s) == [id |-> made + 1, stream |-> s, seq |-> seqs[s] + 1]

\* The unterminated line, when it can be read.
Unterminated ==
  IF tail = "whole" THEN {e \in kept : \A f \in kept : f.id <= e.id} ELSE {}

\* Writing e.  After a cut line it continues that line: neither can be read.
Written(e) == IF tail = "newline" THEN kept \cup {e} ELSE kept \ Unterminated

Init ==
  /\ kept = {}
  /\ tail = "newline"
  /\ seqs = [s \in Streams |-> 0]
  /\ made = 0
  /\ cache = [w \in Writers |-> CountsOf({})]
  /\ fresh = {}
  /\ acked = {}
  /\ faults = 0
  /\ torn = FALSE
  /\ behind = FALSE

-----------------------------------------------------------------------------
\* _compact_locked

\* Events of a set from e on: all of them, and those of its stream.
From(set, e) == {f \in set : e.id <= f.id}

\* Variant: compaction keeps the first events of each stream.
OldestFirst(set, n) ==
  {e \in set : Cardinality({f \in In(set, e.stream) : f.id <= e.id}) <= n}

LastOfStreams(set, n) ==
  {e \in set : Cardinality(From(In(set, e.stream), e)) <= n}

LastOf(set, n) == {e \in set : Cardinality(From(set, e)) <= n}

\* Large limits leave headroom, to compact in batches.
StreamKeep ==
  IF Keep <= 16 THEN Keep
  ELSE IF (Keep * 3) \div 4 >= 16 THEN (Keep * 3) \div 4 ELSE 16
RecordKeep == IF MaxRecords = 1 THEN 1 ELSE (MaxRecords * 3) \div 4

Within(set) ==
  /\ Cardinality(set) <= MaxRecords
  /\ \A s \in Streams : Cardinality(In(set, s)) <= Keep

Recent(set) ==
  LET best == LastOfStreams(set, StreamKeep) IN
  IF Cardinality(best) > MaxRecords THEN LastOf(best, RecordKeep) ELSE best

Due(counts, s) == counts.total > MaxRecords \/ counts.of[s] > Keep
-----------------------------------------------------------------------------
\* append(), as far as it gets.

\* The line of a new event of s is written, and the sequences file replaced.
Record(s) ==
  /\ made < MaxEvents
  /\ made' = made + 1
  /\ tail' = "newline"
  /\ seqs' = [seqs EXCEPT ![s] = NewEvent(s).seq]

\* The rest of the call, when it is not interrupted: it counts the event and
\* compacts the file if its limits are exceeded.
NoCompaction(w, s) ==
  LET k == Written(NewEvent(s)) IN
  /\ ~Due(Counted(w, s), s) \/ Within(k)
  /\ kept' = k
  /\ cache' = [cache EXCEPT ![w] = Counted(w, s)]
  /\ fresh' = {w}

Compaction(w, s) ==
  LET k == Written(NewEvent(s)) IN
  /\ Due(Counted(w, s), s) /\ ~Within(k)
  /\ kept' = Recent(k)
  /\ cache' = [cache EXCEPT ![w] = CountsOf(Recent(k))]
  /\ fresh' = {w}

\* append() returns the event, which is then sent.
Append(w, s) ==
  /\ Record(s)
  /\ NoCompaction(w, s) \/ Compaction(w, s)
  /\ acked' = acked \cup {NewEvent(s)}
  /\ UNCHANGED <<faults, torn, behind>>

Interrupted == faults < MaxFaults /\ faults' = faults + 1

\* The task that awaits append() is cancelled while the thread runs it.
AppendUnheard(w, s) ==
  /\ Interrupted
  /\ Record(s)
  /\ NoCompaction(w, s) \/ Compaction(w, s)
  /\ UNCHANGED <<acked, torn, behind>>

\* Compaction fails while it writes its temporary file.
FailCompaction(w, s) ==
  LET k == Written(NewEvent(s)) IN
  /\ Interrupted
  /\ Record(s)
  /\ Due(Counted(w, s), s) /\ ~Within(k)
  /\ kept' = k
  /\ cache' = [cache EXCEPT ![w] = Counted(w, s)]
  /\ fresh' = {w}
  /\ UNCHANGED <<acked, torn, behind>>

\* The call ends after the line and before the sequences file is replaced.
FailState(w, s) ==
  /\ Interrupted
  /\ made < MaxEvents
  /\ made' = made + 1
  /\ kept' = Written(NewEvent(s))
  /\ tail' = "newline"
  /\ cache' = [cache EXCEPT ![w] = Refreshed(w)]
  /\ fresh' = {}
  /\ behind' = TRUE
  /\ UNCHANGED <<seqs, acked, torn>>

\* The disk is full, or the machine stops, in the line: part of it is written,
\* or all of it without its newline.
FailLine(w, s, cut) ==
  /\ Interrupted
  /\ made < MaxEvents
  /\ made' = made + 1
  /\ \/ cut = "whole" /\ tail = "newline" /\ kept' = kept \cup {NewEvent(s)}
     \/ cut = "garbage" /\ kept' = kept \ Unterminated
  /\ tail' = cut
  /\ cache' = [cache EXCEPT ![w] = Refreshed(w)]
  /\ fresh' = {}
  /\ torn' = TRUE
  /\ UNCHANGED <<seqs, acked, behind>>

\* The process of writer w is started again.
Restart(w) ==
  /\ cache' = [cache EXCEPT ![w] = CountsOf({})]
  /\ fresh' = fresh \ {w}
  /\ UNCHANGED <<kept, tail, seqs, made, acked, faults, torn, behind>>

WriterStep(w, s) == \/ Append(w, s) \/ AppendUnheard(w, s)
                    \/ FailCompaction(w, s) \/ FailState(w, s)
                    \/ \E cut \in {"garbage", "whole"} : FailLine(w, s, cut)

Next == \E w \in Writers : Restart(w) \/ \E s \in Streams : WriterStep(w, s)

Spec == Init /\ [][Next]_vars
-----------------------------------------------------------------------------
\* replay(): what a client that has everything up to `after` is given.

Latest(s) == seqs[s]

Replayed(s, after) == {e \in In(kept, s) : e.seq > after}

Gap(s, after) ==
  \/ In(kept, s) = {} /\ Latest(s) > after
  \/ In(kept, s) # {} /\ \A e \in In(kept, s) : after + 1 < e.seq

TypeOK ==
  /\ kept \subseteq Events
  /\ tail \in Tails
  /\ seqs \in [Streams -> Nat]
  /\ made \in Nat
  /\ cache \in [Writers -> [total : Nat, of : [Streams -> Nat]]]
  /\ fresh \subseteq Writers
  /\ acked \subseteq Events
  /\ faults \in 0..MaxFaults
  /\ torn \in BOOLEAN
  /\ behind \in BOOLEAN

\* "Per-stream monotonic sequence numbers", as the clients see them: whichever
\* process writes, crashes or fails, and whatever compaction removed, an event
\* that is sent has a higher number than every event sent before on its stream.
AcksGrow ==
  [][\A e \in acked' \ acked : \A f \in acked :
       f.stream = e.stream => f.seq < e.seq]_vars

\* Every event sent that a client may ask for is replayed to it, or it is told
\* of a gap.
ServesAcked ==
  \A e \in acked : \A after \in 0..(e.seq - 1) :
    e \in Replayed(e.stream, after) \/ Gap(e.stream, after)

\* ... as long as no line was cut, whatever else went wrong.
HonestReplay == ~torn => ServesAcked

\* validate() finds no "duplicate or descending seq" in the file.
Validates ==
  \A e, f \in kept : e.stream = f.stream /\ e.id < f.id => e.seq < f.seq

\* ... as long as no call ended between its two files.
ValidatesUnlessBehind == ~behind => Validates

\* A call that returns leaves the file within its limits, for the stream it
\* wrote to, although another process wrote to the file since it last counted.
BoundedJournal ==
  [][\A w \in Writers, s \in Streams :
       Append(w, s) => /\ Cardinality(kept') <= MaxRecords
                       /\ Cardinality(In(kept', s)) <= Keep]_vars
=============================================================================
