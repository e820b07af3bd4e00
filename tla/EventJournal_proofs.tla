------------------------ MODULE EventJournal_proofs ------------------------
(***************************************************************************)
(* Theorems about EventJournal, for any streams, writers, limits and       *)
(* number of interrupted calls.                                            *)
(***************************************************************************)
EXTENDS EventJournal, FiniteSetTheorems, WellFoundedInduction, TLAPS

USE EventJournalAssumption

\* Ids are handed out once, and a number that was sent is in the sequences file.
NumbersRecorded ==
  /\ \A e \in kept \cup acked : e.id <= made
  /\ \A e \in acked : e.seq <= seqs[e.stream]

\* The lines of a stream that follow an event that was sent have higher numbers,
\* and an event that was sent is in the file or older than all the file has.
AckedInOrder ==
  /\ \A e \in acked, f \in kept :
       e.stream = f.stream /\ e.id < f.id => e.seq < f.seq
  /\ ~torn =>
       /\ tail = "newline"
       /\ \A e \in acked :
            e \in kept \/ \A f \in In(kept, e.stream) : e.id < f.id

\* Unless a call ended between the two files, only an unterminated line has a
\* number that the sequences file does not have.
LinesInOrder ==
  ~behind =>
    /\ Validates
    /\ \A e \in kept \ Unterminated : e.seq <= seqs[e.stream]

JournalInv ==
  TypeOK /\ IsFiniteSet(kept) /\ NumbersRecorded /\ AckedInOrder /\ LinesInOrder

LEMMA InFinite ==
  ASSUME NEW set, IsFiniteSet(set), NEW s
  PROVE  IsFiniteSet(In(set, s)) /\ Cardinality(In(set, s)) \in Nat
<1>1. In(set, s) \subseteq set
  BY DEF In
<1> QED
  BY <1>1, FS_Subset, FS_CardinalityType

LEMMA CountsType ==
  ASSUME NEW set, IsFiniteSet(set)
  PROVE  CountsOf(set) \in [total : Nat, of : [Streams -> Nat]]
  BY InFinite, FS_CardinalityType DEF CountsOf

\* Compaction leaves events out, and of each stream only the oldest: an event it
\* leaves out is older than every event of its stream that it leaves in.
LEMMA RecentKeepsNewest ==
  ASSUME NEW set \in SUBSET Events, IsFiniteSet(set),
         NEW e \in set \ Recent(set), NEW f \in Recent(set), e.stream = f.stream
  PROVE  e.id < f.id
<1>1. SUFFICES ASSUME f.id <= e.id
               PROVE  FALSE
  BY DEF Recent, LastOf, LastOfStreams, Events
<1>2. ASSUME NEW t, IsFiniteSet(t), NEW n,
             f \in t, e \in t, t \subseteq Events, n \in Nat,
             Cardinality(From(t, f)) <= n
      PROVE  Cardinality(From(t, e)) <= n
  <2>1. From(t, e) \subseteq From(t, f)
    BY <1>1, <1>2 DEF From, Events
  <2>2. IsFiniteSet(From(t, f))
    BY <1>2, FS_Subset DEF From
  <2>3. /\ Cardinality(From(t, e)) <= Cardinality(From(t, f))
        /\ Cardinality(From(t, f)) \in Nat
        /\ Cardinality(From(t, e)) \in Nat
    BY <2>1, <2>2, FS_Subset, FS_CardinalityType
  <2> QED
    BY <1>2, <2>3
<1>3. StreamKeep \in Nat /\ RecordKeep \in Nat
  BY DEF StreamKeep, RecordKeep
<1> DEFINE best == LastOfStreams(set, StreamKeep)
<1>4. f \in best /\ best \subseteq set /\ IsFiniteSet(best)
  BY FS_Subset DEF Recent, LastOf, LastOfStreams
<1>5. e \in best
  <2>1. In(set, e.stream) = In(set, f.stream)
    OBVIOUS
  <2>2. f \in In(set, e.stream) /\ e \in In(set, e.stream)
    BY <1>4 DEF In
  <2>3. In(set, e.stream) \subseteq Events /\ IsFiniteSet(In(set, e.stream))
    BY InFinite DEF In
  <2>4. Cardinality(From(In(set, e.stream), f)) <= StreamKeep
    BY <1>4, <2>1 DEF LastOfStreams
  <2> QED
    BY <1>2, <1>3, <2>2, <2>3, <2>4 DEF LastOfStreams
<1>6. CASE Cardinality(best) > MaxRecords
  <2>1. Recent(set) = LastOf(best, RecordKeep)
    BY <1>6 DEF Recent
  <2>2. Cardinality(From(best, f)) <= RecordKeep
    BY <2>1 DEF LastOf
  <2>3. Cardinality(From(best, e)) <= RecordKeep
    BY <1>2, <1>3, <1>4, <1>5, <2>2
  <2> QED
    BY <1>5, <2>1, <2>3 DEF LastOf
<1>7. CASE ~(Cardinality(best) > MaxRecords)
  BY <1>5, <1>7 DEF Recent
<1> QED
  BY <1>6, <1>7

\* What the calls that write a whole line and number it have in common.
Recorded(s) ==
  /\ made' = made + 1
  /\ tail' = "newline"
  /\ seqs' = [seqs EXCEPT ![s] = seqs[s] + 1]
  /\ kept' \subseteq Written(NewEvent(s))
  /\ IsFiniteSet(kept')
  /\ \A e \in Written(NewEvent(s)) \ kept', f \in kept' :
       e.stream = f.stream => e.id < f.id
  /\ cache' \in [Writers -> [total : Nat, of : [Streams -> Nat]]]
  /\ fresh' \subseteq Writers
  /\ torn' = torn
  /\ behind' = behind

LEMMA NewEventType ==
  ASSUME TypeOK, NEW s \in Streams
  PROVE  /\ NewEvent(s) \in Events
         /\ NewEvent(s).id = made + 1
         /\ NewEvent(s).stream = s
         /\ NewEvent(s).seq = seqs[s] + 1
  BY DEF TypeOK, NewEvent, Events

LEMMA WrittenFacts ==
  ASSUME TypeOK, IsFiniteSet(kept), NEW s \in Streams
  PROVE  /\ Written(NewEvent(s)) \subseteq kept \cup {NewEvent(s)}
         /\ Written(NewEvent(s)) \in SUBSET Events
         /\ IsFiniteSet(Written(NewEvent(s)))
<1>1. Written(NewEvent(s)) \subseteq kept \cup {NewEvent(s)}
  BY DEF Written
<1>2. IsFiniteSet(kept \cup {NewEvent(s)})
  BY FS_AddElement
<1>3. IsFiniteSet(Written(NewEvent(s)))
  BY <1>1, <1>2, FS_Subset
<1>4. kept \cup {NewEvent(s)} \subseteq Events
  BY NewEventType DEF TypeOK
<1> QED
  BY <1>1, <1>3, <1>4

\* The rest of a call that records its event, compacted or not.
LEMMA CallRecords ==
  ASSUME JournalInv, NEW w \in Writers, NEW s \in Streams, Record(s),
         \/ NoCompaction(w, s)
         \/ Compaction(w, s)
         \/ /\ kept' = Written(NewEvent(s))
            /\ cache' = [cache EXCEPT ![w] = Counted(w, s)]
            /\ fresh' = {w},
         torn' = torn, behind' = behind
  PROVE  Recorded(s)
<1> DEFINE k == Written(NewEvent(s))
<1> USE DEF JournalInv
<1>1. /\ k \in SUBSET Events
      /\ IsFiniteSet(k)
  BY WrittenFacts
<1>2. Recent(k) \subseteq k
  BY DEF Recent, LastOf, LastOfStreams
<1>3. Counted(w, s) \in [total : Nat, of : [Streams -> Nat]]
  <2>1. Refreshed(w) \in [total : Nat, of : [Streams -> Nat]]
    BY CountsType DEF Refreshed, TypeOK
  <2> QED
    BY <2>1 DEF Counted
<1>4. CountsOf(Recent(k)) \in [total : Nat, of : [Streams -> Nat]]
  BY <1>1, <1>2, FS_Subset, CountsType
<1>5. /\ kept' \subseteq k
      /\ IsFiniteSet(kept')
      /\ fresh' \subseteq Writers
  BY <1>1, <1>2, FS_Subset DEF NoCompaction, Compaction
<1>6. cache' \in [Writers -> [total : Nat, of : [Streams -> Nat]]]
  <2>1. cache \in [Writers -> [total : Nat, of : [Streams -> Nat]]]
    BY DEF TypeOK
  <2> QED
    BY <1>3, <1>4, <2>1 DEF NoCompaction, Compaction
<1>7. \A e \in k \ kept', f \in kept' : e.stream = f.stream => e.id < f.id
  <2>1. CASE kept' = k
    BY <2>1
  <2>2. CASE kept' = Recent(k)
    BY <1>1, <2>2, RecentKeepsNewest
  <2> QED
    BY <2>1, <2>2 DEF NoCompaction, Compaction
<1> QED
  BY <1>5, <1>6, <1>7, NewEventType DEF Record, Recorded

\* A recorded event keeps the invariant, whether it is acknowledged or not.
LEMMA RecordedKeepsInv ==
  ASSUME JournalInv, NEW s \in Streams, Recorded(s),
         \/ acked' = acked
         \/ acked' = acked \cup {NewEvent(s)},
         faults' \in 0..MaxFaults
  PROVE  JournalInv'
<1> DEFINE new == NewEvent(s)
<1>1. /\ new \in Events
      /\ new.id = made + 1
      /\ new.stream = s
      /\ new.seq = seqs[s] + 1
  BY NewEventType DEF JournalInv
<1>2. /\ Written(new) \subseteq kept \cup {new}
      /\ Written(new) \in SUBSET Events
  BY WrittenFacts DEF JournalInv
<1>3. /\ made \in Nat
      /\ made' = made + 1
      /\ seqs \in [Streams -> Nat]
      /\ seqs' = [seqs EXCEPT ![s] = seqs[s] + 1]
      /\ kept' \subseteq Written(new)
      /\ kept \subseteq Events
      /\ acked \subseteq Events
      /\ acked' \subseteq acked \cup {new}
      /\ \A t \in Streams : seqs[t] <= seqs'[t]
      /\ tail' = "newline"
      /\ torn' = torn
      /\ behind' = behind
  BY DEF JournalInv, TypeOK, Recorded
<1>4. TypeOK'
  BY <1>1, <1>2, <1>3 DEF JournalInv, TypeOK, Recorded, Tails
<1>5. NumbersRecorded'
  BY <1>1, <1>2, <1>3 DEF JournalInv, NumbersRecorded, Events
<1>6. AckedInOrder'
  <2>1. ASSUME NEW e \in acked', NEW f \in kept', e.stream = f.stream, e.id < f.id
        PROVE  e.seq < f.seq
    BY <1>1, <1>2, <1>3, <2>1 DEF JournalInv, NumbersRecorded, AckedInOrder, Events
  <2>2. ASSUME ~torn', NEW e \in acked', e \notin kept',
               NEW f \in In(kept', e.stream)
        PROVE  e.id < f.id
    <3>1. Written(new) = kept \cup {new}
      BY <1>3, <2>2 DEF JournalInv, AckedInOrder, Written
    <3>2. f \in kept' /\ f.stream = e.stream
      BY <2>2 DEF In
    <3>3. CASE e \in Written(new)
      BY <3>2, <3>3, <2>2 DEF Recorded
    <3>4. CASE e \notin Written(new)
      BY <1>1, <1>2, <1>3, <2>2, <3>1, <3>2, <3>4
      DEF JournalInv, NumbersRecorded, AckedInOrder, In, Events
    <3> QED
      BY <3>3, <3>4
  <2> QED
    BY <1>3, <2>1, <2>2 DEF AckedInOrder
<1>7. LinesInOrder'
  <2> SUFFICES ASSUME ~behind'
               PROVE  /\ Validates'
                      /\ \A e \in kept' : e.seq <= seqs'[e.stream]
    BY DEF LinesInOrder
  <2>1. \A e \in Written(new) \ {new} : e \in kept \ Unterminated
    BY <1>2 DEF Written, Unterminated
  <2>2. \A e \in Written(new) \ {new} : e.seq <= seqs[e.stream]
    BY <1>3, <2>1 DEF JournalInv, LinesInOrder
  <2>3. \A e \in kept' : e.seq <= seqs'[e.stream]
    BY <1>1, <1>2, <1>3, <2>2 DEF Events
  <2>4. ASSUME NEW e \in kept', NEW f \in kept', e.stream = f.stream, e.id < f.id
        PROVE  e.seq < f.seq
    <3>1. CASE f = new
      BY <1>1, <1>2, <1>3, <2>2, <2>4, <3>1 DEF Events
    <3>2. CASE f # new
      BY <1>1, <1>2, <1>3, <2>4, <3>2
      DEF JournalInv, LinesInOrder, Validates, NumbersRecorded, Events
    <3> QED
      BY <3>1, <3>2
  <2> QED
    BY <2>3, <2>4 DEF Validates
<1> QED
  BY <1>4, <1>5, <1>6, <1>7 DEF JournalInv, Recorded

LEMMA FailStateKeepsInv ==
  ASSUME JournalInv, NEW w \in Writers, NEW s \in Streams, FailState(w, s)
  PROVE  JournalInv'
<1> DEFINE new == NewEvent(s)
<1>1. /\ new \in Events
      /\ new.id = made + 1
      /\ new.stream = s
      /\ new.seq = seqs[s] + 1
  BY NewEventType DEF JournalInv
<1>2. /\ kept' = Written(new)
      /\ kept' \subseteq kept \cup {new}
      /\ kept' \in SUBSET Events
      /\ IsFiniteSet(kept')
  BY WrittenFacts DEF JournalInv, FailState
<1>3. /\ made \in Nat
      /\ made' = made + 1
      /\ seqs \in [Streams -> Nat]
      /\ acked \subseteq Events
      /\ tail' = "newline"
      /\ behind' = TRUE
      /\ UNCHANGED <<seqs, acked, torn>>
  BY DEF JournalInv, TypeOK, FailState
<1>4. TypeOK'
  <2>1. cache' \in [Writers -> [total : Nat, of : [Streams -> Nat]]]
    BY CountsType DEF JournalInv, TypeOK, FailState, Refreshed
  <2>2. faults' \in 0..MaxFaults
    BY DEF JournalInv, TypeOK, FailState, Interrupted
  <2> QED
    BY <1>2, <1>3, <2>1, <2>2 DEF JournalInv, TypeOK, FailState, Tails
<1>5. NumbersRecorded'
  BY <1>1, <1>2, <1>3 DEF JournalInv, NumbersRecorded, Events
<1>6. AckedInOrder'
  <2>1. ASSUME NEW e \in acked', NEW f \in kept', e.stream = f.stream, e.id < f.id
        PROVE  e.seq < f.seq
    BY <1>1, <1>2, <1>3, <2>1 DEF JournalInv, NumbersRecorded, AckedInOrder, Events
  <2>2. ASSUME ~torn', NEW e \in acked'
        PROVE  e \in kept' \/ \A f \in In(kept', e.stream) : e.id < f.id
    BY <1>1, <1>2, <1>3, <2>2
    DEF JournalInv, NumbersRecorded, AckedInOrder, Written, In, Events
  <2> QED
    BY <1>3, <2>1, <2>2 DEF AckedInOrder
<1>7. LinesInOrder'
  BY <1>3 DEF LinesInOrder
<1> QED
  BY <1>2, <1>4, <1>5, <1>6, <1>7 DEF JournalInv

LEMMA FailLineKeepsInv ==
  ASSUME JournalInv, NEW w \in Writers, NEW s \in Streams,
         NEW cut \in {"garbage", "whole"}, FailLine(w, s, cut)
  PROVE  JournalInv'
<1> DEFINE new == NewEvent(s)
<1>1. /\ new \in Events
      /\ new.id = made + 1
      /\ new.stream = s
      /\ new.seq = seqs[s] + 1
  BY NewEventType DEF JournalInv
<1>2. /\ kept' \subseteq kept \cup {new}
      /\ kept' \subseteq Events
      /\ IsFiniteSet(kept')
  BY <1>1, FS_AddElement, FS_Subset DEF JournalInv, TypeOK, FailLine
<1>3. /\ made \in Nat
      /\ made' = made + 1
      /\ seqs \in [Streams -> Nat]
      /\ kept \subseteq Events
      /\ acked \subseteq Events
      /\ tail' = cut
      /\ torn' = TRUE
      /\ UNCHANGED <<seqs, acked, behind>>
  BY DEF JournalInv, TypeOK, FailLine
<1>4. TypeOK'
  <2>1. cache' \in [Writers -> [total : Nat, of : [Streams -> Nat]]]
    BY CountsType DEF JournalInv, TypeOK, FailLine, Refreshed
  <2>2. faults' \in 0..MaxFaults
    BY DEF JournalInv, TypeOK, FailLine, Interrupted
  <2> QED
    BY <1>2, <1>3, <2>1, <2>2 DEF JournalInv, TypeOK, FailLine, Tails
<1>5. NumbersRecorded'
  BY <1>1, <1>2, <1>3 DEF JournalInv, NumbersRecorded, Events
<1>6. AckedInOrder'
  <2>1. ASSUME NEW e \in acked', NEW f \in kept', e.stream = f.stream, e.id < f.id
        PROVE  e.seq < f.seq
    BY <1>1, <1>2, <1>3, <2>1 DEF JournalInv, NumbersRecorded, AckedInOrder, Events
  <2> QED
    BY <1>3, <2>1 DEF AckedInOrder
<1>7. LinesInOrder'
  <2> SUFFICES ASSUME ~behind'
               PROVE  /\ Validates'
                      /\ \A e \in kept' \ Unterminated' : e.seq <= seqs'[e.stream]
    BY DEF LinesInOrder
  <2>1. CASE cut = "whole"
    <3>1. /\ tail = "newline"
          /\ kept' = kept \cup {new}
      BY <2>1 DEF FailLine
    <3>2. \A e \in kept : e.id <= made /\ e.seq <= seqs[e.stream]
      BY <1>3, <3>1 DEF JournalInv, NumbersRecorded, LinesInOrder, Unterminated
    <3>3. new \in Unterminated'
      BY <1>1, <1>3, <2>1, <3>1, <3>2 DEF Unterminated, Events
    <3>4. \A e \in kept' \ Unterminated' : e.seq <= seqs'[e.stream]
      BY <1>3, <3>1, <3>2, <3>3
    <3>5. ASSUME NEW e \in kept', NEW f \in kept', e.stream = f.stream,
                 e.id < f.id
          PROVE  e.seq < f.seq
      <4>1. CASE f = new
        BY <1>1, <1>3, <3>1, <3>2, <3>5, <4>1 DEF Events
      <4>2. CASE f # new
        BY <1>1, <1>3, <3>1, <3>2, <3>5, <4>2
        DEF JournalInv, LinesInOrder, Validates, Events
      <4> QED
        BY <4>1, <4>2
    <3> QED
      BY <3>4, <3>5 DEF Validates
  <2>2. CASE cut = "garbage"
    <3>1. kept' = kept \ Unterminated
      BY <2>2 DEF FailLine
    <3> QED
      BY <1>3, <3>1 DEF JournalInv, LinesInOrder, Validates
  <2> QED
    BY <2>1, <2>2
<1> QED
  BY <1>2, <1>4, <1>5, <1>6, <1>7 DEF JournalInv

LEMMA RestartKeepsInv ==
  ASSUME JournalInv, NEW w \in Writers, Restart(w)
  PROVE  JournalInv'
<1>1. CountsOf({}) \in [total : Nat, of : [Streams -> Nat]]
  BY CountsType, FS_EmptySet
<1>2. TypeOK'
  BY <1>1 DEF JournalInv, TypeOK, Restart
<1> QED
  BY <1>2 DEF JournalInv, NumbersRecorded, AckedInOrder, LinesInOrder, Validates,
              Unterminated, In, Restart

LEMMA StuttersKeepInv ==
  ASSUME JournalInv, UNCHANGED vars
  PROVE  JournalInv'
  BY DEF JournalInv, TypeOK, NumbersRecorded, AckedInOrder, LinesInOrder,
         Validates, Unterminated, In, vars

LEMMA InitGivesInv == Init => JournalInv
<1> SUFFICES ASSUME Init
             PROVE  JournalInv
  OBVIOUS
<1>1. CountsOf({}) \in [total : Nat, of : [Streams -> Nat]]
  BY CountsType, FS_EmptySet
<1>2. cache \in [Writers -> [total : Nat, of : [Streams -> Nat]]]
  BY <1>1 DEF Init
<1>3. TypeOK
  <2>1. seqs \in [Streams -> Nat] /\ made \in Nat /\ faults \in 0..MaxFaults
    BY DEF Init
  <2>2. /\ kept \subseteq Events /\ acked \subseteq Events
        /\ fresh \subseteq Writers
        /\ tail \in Tails
        /\ torn \in BOOLEAN /\ behind \in BOOLEAN
    BY DEF Init, Tails
  <2> QED
    BY <1>2, <2>1, <2>2 DEF TypeOK
<1> QED
  BY <1>3, FS_EmptySet DEF Init, JournalInv, NumbersRecorded, AckedInOrder,
                           LinesInOrder, Validates, In

LEMMA WriterKeepsInv ==
  ASSUME JournalInv, NEW w \in Writers, NEW s \in Streams, WriterStep(w, s)
  PROVE  JournalInv'
<1> USE DEF JournalInv, TypeOK
<1>1. CASE Append(w, s)
  BY <1>1, CallRecords, RecordedKeepsInv DEF Append
<1>2. CASE AppendUnheard(w, s)
  BY <1>2, CallRecords, RecordedKeepsInv DEF AppendUnheard, Interrupted
<1>3. CASE FailCompaction(w, s)
  <2>1. /\ Record(s)
        /\ kept' = Written(NewEvent(s))
        /\ cache' = [cache EXCEPT ![w] = Counted(w, s)]
        /\ fresh' = {w}
        /\ UNCHANGED <<acked, torn, behind>>
        /\ faults' \in 0..MaxFaults
    BY <1>3 DEF FailCompaction, Interrupted
  <2> QED
    BY <2>1, CallRecords, RecordedKeepsInv
<1>4. CASE FailState(w, s)
  BY <1>4, FailStateKeepsInv
<1>5. CASE \E cut \in {"garbage", "whole"} : FailLine(w, s, cut)
  BY <1>5, FailLineKeepsInv
<1> QED
  BY <1>1, <1>2, <1>3, <1>4, <1>5 DEF WriterStep

\* The inductive invariant holds, whoever writes, fails or restarts.
THEOREM JournalInvariant == Spec => []JournalInv
<1>1. JournalInv /\ [Next]_vars => JournalInv'
  BY WriterKeepsInv, RestartKeepsInv, StuttersKeepInv DEF Next
<1> QED
  BY <1>1, InitGivesInv, PTL DEF Spec

\* Every variable of the journal keeps its type.
THEOREM JournalTypeCorrect == Spec => []TypeOK
<1>1. JournalInv => TypeOK
  BY DEF JournalInv
<1> QED
  BY <1>1, JournalInvariant, PTL

\* Unless a call ended between the two files, validate() finds nothing, even
\* after cut lines, failed compactions and restarts of any number of writers.
THEOREM FileValidates == Spec => []ValidatesUnlessBehind
<1>1. JournalInv => ValidatesUnlessBehind
  BY DEF JournalInv, LinesInOrder, ValidatesUnlessBehind
<1> QED
  BY <1>1, JournalInvariant, PTL

\* An event that was sent is replayed to whoever misses it, or a gap is
\* reported, for any limits of the journal, as long as no line was cut.
THEOREM ReplayIsHonest == Spec => []HonestReplay
<1>1. JournalInv => HonestReplay
  <2> SUFFICES ASSUME JournalInv, ~torn, NEW e \in acked,
                      NEW after \in 0..(e.seq - 1),
                      e \notin Replayed(e.stream, after)
               PROVE  Gap(e.stream, after)
    BY DEF HonestReplay, ServesAcked
  <2>1. /\ e \in Events
        /\ kept \subseteq Events
        /\ seqs \in [Streams -> Nat]
        /\ e.seq <= seqs[e.stream]
    BY DEF JournalInv, TypeOK, NumbersRecorded
  <2>2. e.seq \in Nat /\ e.stream \in Streams /\ after \in Nat /\ after < e.seq
    BY <2>1 DEF Events
  <2>3. e \notin kept
    BY <2>2 DEF Replayed, In
  <2>4. \A f \in In(kept, e.stream) : e.seq < f.seq
    BY <2>3 DEF JournalInv, AckedInOrder, In
  <2>5. CASE In(kept, e.stream) = {}
    BY <2>1, <2>2, <2>5 DEF Gap, Latest
  <2>6. CASE In(kept, e.stream) # {}
    <3>1. \A f \in In(kept, e.stream) : f.seq \in Nat
      BY <2>1 DEF In, Events
    <3> QED
      BY <2>2, <2>4, <2>6, <3>1 DEF Gap
  <2> QED
    BY <2>5, <2>6
<1> QED
  BY <1>1, JournalInvariant, PTL

\* The numbers a client sees on a stream grow, whichever process numbers the
\* event and whatever happened to the calls before it.
THEOREM AckedNumbersGrow == Spec => AcksGrow
<1>1. JournalInv /\ [Next]_vars =>
        [\A e \in acked' \ acked : \A f \in acked :
           f.stream = e.stream => f.seq < e.seq]_vars
  <2> SUFFICES ASSUME JournalInv, Next,
                      NEW e \in acked' \ acked, NEW f \in acked,
                      f.stream = e.stream
               PROVE  f.seq < e.seq
    BY DEF vars
  <2>1. PICK w \in Writers, s \in Streams : Append(w, s)
    BY DEF Next, WriterStep, Restart, AppendUnheard, FailCompaction, FailState,
           FailLine
  <2>2. e = NewEvent(s)
    BY <2>1 DEF Append
  <2>3. /\ e.seq = seqs[s] + 1
        /\ e.stream = s
    BY <2>2, NewEventType DEF JournalInv
  <2>4. /\ f.seq <= seqs[s]
        /\ f.seq \in Nat
        /\ seqs[s] \in Nat
    BY <2>3 DEF JournalInv, NumbersRecorded, TypeOK, Events
  <2> QED
    BY <2>3, <2>4
<1> QED
  BY <1>1, JournalInvariant, PTL DEF Spec, AcksGrow

-----------------------------------------------------------------------------
\* The limits of the file

AtLeast(counts, set) ==
  /\ Cardinality(set) <= counts.total
  /\ \A s \in Streams : Cardinality(In(set, s)) <= counts.of[s]

\* A writer that sees the file as it left it counts at least what can be read.
\* Never less: a line that cannot be decoded is counted by who wrote it.
CountsCover == \A w \in fresh : AtLeast(cache[w], kept)

LEMMA CountsAreExact ==
  ASSUME NEW set, IsFiniteSet(set)
  PROVE  AtLeast(CountsOf(set), set)
  BY InFinite, FS_CardinalityType DEF CountsOf, AtLeast

LEMMA RefreshedCounts ==
  ASSUME JournalInv, CountsCover, NEW w \in Writers
  PROVE  /\ Refreshed(w) \in [total : Nat, of : [Streams -> Nat]]
         /\ AtLeast(Refreshed(w), kept)
  BY CountsType, CountsAreExact DEF JournalInv, TypeOK, CountsCover, Refreshed

\* ... and one more with the line it writes.
LEMMA CountedCounts ==
  ASSUME JournalInv, CountsCover, NEW w \in Writers, NEW s \in Streams
  PROVE  /\ Counted(w, s) \in [total : Nat, of : [Streams -> Nat]]
         /\ AtLeast(Counted(w, s), Written(NewEvent(s)))
<1> DEFINE e == NewEvent(s)
           k == Written(e)
           c == Refreshed(w)
           d == Counted(w, s)
<1>1. c \in [total : Nat, of : [Streams -> Nat]] /\ AtLeast(c, kept)
  BY RefreshedCounts
<1>2. d = [total |-> c.total + 1, of |-> [c.of EXCEPT ![s] = @ + 1]]
  BY DEF Counted
<1>3. k \subseteq kept \cup {e} /\ IsFiniteSet(k) /\ IsFiniteSet(kept) /\ e.stream = s
  BY WrittenFacts, NewEventType DEF JournalInv
<1> HIDE DEF c, d, e, k
<1>4. /\ d \in [total : Nat, of : [Streams -> Nat]]
      /\ d.total = c.total + 1
      /\ \A r \in Streams : d.of[r] = IF r = s THEN c.of[r] + 1 ELSE c.of[r]
  BY <1>1, <1>2
<1>5. ASSUME NEW a, NEW b, IsFiniteSet(a), IsFiniteSet(b), b \subseteq a \cup {e}
      PROVE  /\ Cardinality(a) \in Nat /\ Cardinality(b) \in Nat
             /\ Cardinality(b) <= Cardinality(a) + 1
  <2>1. IsFiniteSet(a \cup {e}) /\ Cardinality(a \cup {e}) \in {Cardinality(a), Cardinality(a) + 1}
    BY <1>5, FS_AddElement
  <2>2. Cardinality(b) <= Cardinality(a \cup {e})
    BY <1>5, <2>1, FS_Subset
  <2>3. Cardinality(a) \in Nat /\ Cardinality(b) \in Nat
    BY <1>5, FS_CardinalityType
  <2> QED
    BY <2>1, <2>2, <2>3
<1>6. Cardinality(k) <= d.total
  <2>1. /\ Cardinality(kept) \in Nat /\ Cardinality(k) \in Nat
        /\ Cardinality(k) <= Cardinality(kept) + 1
    BY <1>3, <1>5
  <2>2. Cardinality(kept) <= c.total /\ c.total \in Nat
    BY <1>1 DEF AtLeast
  <2> QED
    BY <1>4, <2>1, <2>2
<1>7. ASSUME NEW r \in Streams
      PROVE  Cardinality(In(k, r)) <= d.of[r]
  <2>1. /\ IsFiniteSet(In(kept, r)) /\ IsFiniteSet(In(k, r))
        /\ Cardinality(In(kept, r)) \in Nat /\ Cardinality(In(k, r)) \in Nat
    BY <1>3, InFinite
  <2>2. Cardinality(In(kept, r)) <= c.of[r] /\ c.of[r] \in Nat
    BY <1>1 DEF AtLeast
  <2>3. CASE r = s
    <3>1. In(k, r) \subseteq In(kept, r) \cup {e}
      BY <1>3 DEF In
    <3>2. Cardinality(In(k, r)) <= Cardinality(In(kept, r)) + 1
      BY <1>5, <2>1, <3>1
    <3>3. d.of[r] = c.of[r] + 1
      BY <1>4, <2>3
    <3> QED
      BY <2>1, <2>2, <3>2, <3>3
  <2>4. CASE r # s
    <3>1. In(k, r) \subseteq In(kept, r)
      BY <1>3, <2>4 DEF In
    <3>2. Cardinality(In(k, r)) <= Cardinality(In(kept, r))
      BY <2>1, <3>1, FS_Subset
    <3>3. d.of[r] = c.of[r]
      BY <1>4, <2>4
    <3> QED
      BY <2>1, <2>2, <3>2, <3>3
  <2> QED
    BY <2>3, <2>4
<1>8. AtLeast(d, k)
  BY <1>6, <1>7 DEF AtLeast
<1> QED
  BY <1>4, <1>8 DEF d, k, e

\* The events that have at most n from themselves on are n at the most: all of
\* them are from the oldest of them on.
LEMMA LastAreFew ==
  ASSUME NEW set \in SUBSET Events, IsFiniteSet(set), NEW n \in Nat
  PROVE  Cardinality({e \in set : Cardinality(From(set, e)) <= n}) <= n
<1> DEFINE last == {e \in set : Cardinality(From(set, e)) <= n}
           N == {e.id : e \in last}
<1>1. CASE last = {}
  BY <1>1, FS_EmptySet
<1>2. CASE last # {}
  <2>1. N \subseteq Nat /\ N # {}
    BY <1>2 DEF Events
  <2>2. PICK y \in N : \A z \in N : ~(<<z, y>> \in OpToRel(<, Nat))
    BY <2>1, NatLessThanWellFounded, WFMin, Zenon
  <2>4. PICK e \in last : y = e.id
    OBVIOUS
  <2>3. \A z \in N : y <= z
    <3> SUFFICES ASSUME NEW z \in N PROVE y <= z
      OBVIOUS
    <3> HIDE DEF N
    <3>1. y \in Nat /\ z \in Nat
      BY <2>1
    <3>2. ~(z < y)
      BY <2>2, <3>1 DEF OpToRel
    <3> QED
      BY <3>1, <3>2
  <2>5. last \subseteq From(set, e)
    BY <2>3, <2>4 DEF From
  <2>6. IsFiniteSet(From(set, e)) /\ Cardinality(From(set, e)) <= n
    BY FS_Subset DEF From
  <2> HIDE DEF last
  <2>7. Cardinality(last) <= Cardinality(From(set, e)) /\ IsFiniteSet(last)
    BY <2>5, <2>6, FS_Subset
  <2>8. Cardinality(last) \in Nat /\ Cardinality(From(set, e)) \in Nat
    BY <2>6, <2>7, FS_CardinalityType
  <2> QED
    BY <2>6, <2>7, <2>8 DEF last
<1> QED
  BY <1>1, <1>2

\* What compaction leaves is within the limits.
LEMMA RecentFits ==
  ASSUME NEW set \in SUBSET Events, IsFiniteSet(set)
  PROVE  /\ IsFiniteSet(Recent(set))
         /\ Cardinality(Recent(set)) <= MaxRecords
         /\ \A s \in Streams : Cardinality(In(Recent(set), s)) <= Keep
<1> DEFINE best == LastOfStreams(set, StreamKeep)
<1>1. /\ StreamKeep \in Nat /\ StreamKeep <= Keep
      /\ RecordKeep \in Nat /\ RecordKeep <= MaxRecords
  BY DEF StreamKeep, RecordKeep
<1>2. best \subseteq set /\ IsFiniteSet(best)
  BY FS_Subset DEF LastOfStreams
<1>3. Recent(set) = IF Cardinality(best) > MaxRecords THEN LastOf(best, RecordKeep) ELSE best
  BY DEF Recent
<1>4. ASSUME NEW s \in Streams
      PROVE  Cardinality(In(best, s)) <= Keep /\ IsFiniteSet(In(best, s))
  <2> DEFINE t == In(set, s)
  <2>1. t \in SUBSET Events /\ IsFiniteSet(t)
    BY InFinite DEF In
  <2>2. In(best, s) = {e \in t : Cardinality(From(t, e)) <= StreamKeep}
    BY DEF In, LastOfStreams
  <2> HIDE DEF t, best
  <2>3. Cardinality(In(best, s)) <= StreamKeep
    BY <1>1, <2>1, <2>2, LastAreFew
  <2>4. IsFiniteSet(In(best, s)) /\ Cardinality(In(best, s)) \in Nat
    BY <1>2, InFinite
  <2> QED
    BY <1>1, <2>3, <2>4
<1> HIDE DEF best
<1>5. Cardinality(Recent(set)) <= MaxRecords
  <2>1. CASE Cardinality(best) > MaxRecords
    <3>1. Recent(set) = LastOf(best, RecordKeep)
      BY <1>3, <2>1
    <3>2. Cardinality(Recent(set)) <= RecordKeep
      BY <1>1, <1>2, <3>1, LastAreFew DEF LastOf
    <3>3. Cardinality(Recent(set)) \in Nat
      BY <1>2, <3>1, FS_Subset, FS_CardinalityType DEF LastOf
    <3> QED
      BY <1>1, <3>2, <3>3
  <2>2. CASE ~(Cardinality(best) > MaxRecords)
    <3>1. Recent(set) = best /\ Cardinality(best) \in Nat
      BY <1>2, <1>3, <2>2, FS_CardinalityType
    <3> QED
      BY <2>2, <3>1
  <2> QED
    BY <2>1, <2>2
<1>6. Recent(set) \subseteq best
  BY <1>3 DEF LastOf
<1>7. ASSUME NEW s \in Streams
      PROVE  Cardinality(In(Recent(set), s)) <= Keep
  <2>1. In(Recent(set), s) \subseteq In(best, s)
    BY <1>6 DEF In
  <2>2. /\ Cardinality(In(Recent(set), s)) <= Cardinality(In(best, s))
        /\ IsFiniteSet(In(Recent(set), s))
    BY <1>4, <2>1, FS_Subset
  <2>3. Cardinality(In(Recent(set), s)) \in Nat /\ Cardinality(In(best, s)) \in Nat
    BY <1>4, <2>2, FS_CardinalityType
  <2> QED
    BY <1>4, <2>2, <2>3
<1>8. IsFiniteSet(Recent(set))
  BY <1>2, <1>6, FS_Subset
<1> QED
  BY <1>5, <1>7, <1>8

LEMMA CoverKept ==
  ASSUME JournalInv, CountsCover, [Next]_vars
  PROVE  CountsCover'
<1>1. cache \in [Writers -> [total : Nat, of : [Streams -> Nat]]] /\ fresh \subseteq Writers
  BY DEF JournalInv, TypeOK
<1>2. CASE UNCHANGED vars
  BY <1>2 DEF CountsCover, AtLeast, In, vars
<1>3. ASSUME NEW w \in Writers, Restart(w)
      PROVE  CountsCover'
  BY <1>1, <1>3 DEF Restart, CountsCover, AtLeast, In
<1>4. ASSUME NEW w \in Writers, NEW s \in Streams, WriterStep(w, s)
      PROVE  CountsCover'
  <2> DEFINE k == Written(NewEvent(s))
             covered(d, set) == /\ kept' = set /\ fresh' = {w}
                                /\ cache' = [cache EXCEPT ![w] = d]
                                /\ AtLeast(d, set)
  <2>1. ASSUME NEW d, NEW set, covered(d, set)
        PROVE  CountsCover'
    BY <1>1, <2>1 DEF CountsCover, AtLeast, In
  <2>2. AtLeast(Counted(w, s), k)
    BY CountedCounts
  <2>3. AtLeast(CountsOf(Recent(k)), Recent(k))
    BY WrittenFacts, RecentFits, CountsAreExact DEF JournalInv
  <2> HIDE DEF k
  <2>4. CASE NoCompaction(w, s) \/ FailCompaction(w, s)
    <3>1. covered(Counted(w, s), k)
      BY <2>2, <2>4 DEF NoCompaction, FailCompaction, k
    <3> QED
      BY <2>1, <3>1
  <2>5. CASE Compaction(w, s)
    <3>1. covered(CountsOf(Recent(k)), Recent(k))
      BY <2>3, <2>5 DEF Compaction, k
    <3> QED
      BY <2>1, <3>1
  <2>6. CASE fresh' = {}
    BY <2>6 DEF CountsCover
  <2> QED
    BY <1>4, <2>4, <2>5, <2>6 DEF WriterStep, Append, AppendUnheard, FailState, FailLine
<1> QED
  BY <1>2, <1>3, <1>4 DEF Next

\* A call that returns leaves the file within its limits, for the stream it
\* wrote to, whichever process wrote the lines before it and wherever a call
\* was interrupted.
THEOREM JournalIsBounded == Spec => BoundedJournal
<1>1. Init => CountsCover
  BY DEF Init, CountsCover
<1>2. JournalInv /\ CountsCover /\ [Next]_vars =>
        [\A w \in Writers, s \in Streams :
           Append(w, s) => /\ Cardinality(kept') <= MaxRecords
                           /\ Cardinality(In(kept', s)) <= Keep]_vars
  <2> SUFFICES ASSUME JournalInv, CountsCover,
                      NEW w \in Writers, NEW s \in Streams, Append(w, s)
               PROVE  /\ Cardinality(kept') <= MaxRecords
                      /\ Cardinality(In(kept', s)) <= Keep
    OBVIOUS
  <2> DEFINE k == Written(NewEvent(s))
  <2>1. k \in SUBSET Events /\ IsFiniteSet(k)
    BY WrittenFacts DEF JournalInv
  <2>2. /\ Counted(w, s) \in [total : Nat, of : [Streams -> Nat]]
        /\ AtLeast(Counted(w, s), k)
    BY CountedCounts
  <2>3. Cardinality(k) \in Nat /\ Cardinality(In(k, s)) \in Nat
    BY <2>1, InFinite, FS_CardinalityType
  <2>4. CASE NoCompaction(w, s)
    <3>1. kept' = k /\ (~Due(Counted(w, s), s) \/ Within(k))
      BY <2>4 DEF NoCompaction
    <3> HIDE DEF k
    <3>2. CASE Within(k)
      BY <3>1, <3>2 DEF Within
    <3>3. CASE ~Due(Counted(w, s), s)
      <4> DEFINE c == Counted(w, s)
      <4>1. c.total \in Nat /\ c.of[s] \in Nat
        BY <2>2
      <4>2. Cardinality(k) <= c.total /\ Cardinality(In(k, s)) <= c.of[s]
        BY <2>2 DEF AtLeast
      <4>3. c.total <= MaxRecords /\ c.of[s] <= Keep
        BY <3>3, <4>1 DEF Due
      <4> HIDE DEF c
      <4> QED
        BY <2>3, <3>1, <4>1, <4>2, <4>3
    <3> QED
      BY <3>1, <3>2, <3>3
  <2>5. CASE Compaction(w, s)
    BY <2>1, <2>5, RecentFits DEF Compaction
  <2> QED
    BY <2>4, <2>5 DEF Append
<1> QED
  BY <1>1, <1>2, CoverKept, JournalInvariant, PTL DEF Spec, BoundedJournal
=============================================================================
