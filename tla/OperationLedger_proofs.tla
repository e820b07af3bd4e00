------------------------ MODULE OperationLedger_proofs ------------------------
(***************************************************************************)
(* Theorems about OperationLedger, for any requests and any number of      *)
(* connections, ends of the process and failed writes.                     *)
(***************************************************************************)
EXTENDS OperationLedger, TLAPS

USE OperationLedgerAssumption

Untouched(r) == runs[r] = 0 /\ ended[r] = "no" /\ r \notin stray

\* What an operation that ended has left, in memory or in the ledger.
Left(r, a) ==
  /\ a \in {"result", "cut"} => runs[r] = 1 /\ ended[r] = "result"
  /\ a = "error" => ended[r] = "error"
  /\ a = "cut" => r \in Altered
  /\ a = "refused" => r \in interrupted

\* A request that the ledger does not have never began, or is over.
FreshOrGone(r) ==
  ledger[r] = "none" =>
    \/ Untouched(r) /\ task[r] = "none" /\ r \notin interrupted
    \/ Gone(r)

\* The operation in memory.
TaskInv(r) ==
  /\ task[r] \in Running =>
       /\ ledger[r] = "running" /\ r \in cached
       /\ ended[r] = "no" /\ r \notin stray
       /\ runs[r] = IF task[r] = "queued" THEN 0 ELSE 1
  /\ task[r] \in Outcomes => ended[r] = task[r] /\ Left(r, task[r])

\* The ledger.
LedgerEntryInv(r) ==
  /\ ledger[r] \in Answers => Left(r, ledger[r])
  /\ ledger[r] = "unknown" => r \in interrupted
  /\ ledger[r] = "running" => task[r] \in Running \/ r \in interrupted

\* An operation that may still run in a thread did not.
RunsInv(r) ==
  /\ runs[r] \in {0, 1}
  /\ r \in stray => runs[r] = 0 /\ ended[r] = "no" /\ task[r] = "none"
  /\ ended[r] = "result" => runs[r] = 1

RequestInv(r) ==
  FreshOrGone(r) /\ TaskInv(r) /\ LedgerEntryInv(r) /\ RunsInv(r)
    /\ Left(r, client[r])

LedgerInv ==
  /\ TypeOK
  /\ \A r \in Requests : RequestInv(r)
  /\ \A m \in answers : Left(m[1], m[2])

LEMMA LeftKept ==
  ASSUME NEW r, NEW a, Left(r, a),
         runs'[r] = runs[r], ended'[r] = ended[r],
         r \in interrupted => r \in interrupted'
  PROVE  Left(r, a)'
  BY DEF Left

\* A step that does not touch a request.
LEMMA RequestKept ==
  ASSUME NEW r, RequestInv(r),
         client'[r] = client[r], task'[r] = task[r], ledger'[r] = ledger[r],
         runs'[r] = runs[r], ended'[r] = ended[r],
         r \in stray' <=> r \in stray,
         r \in interrupted' <=> r \in interrupted,
         task[r] \in Running /\ r \in cached => r \in cached',
         Gone(r) => Gone(r)'
  PROVE  RequestInv(r)'
<1>1. FreshOrGone(r)'
  BY DEF RequestInv, FreshOrGone, Untouched
<1>2. TaskInv(r)' /\ LedgerEntryInv(r)' /\ Left(r, client[r])'
  BY DEF RequestInv, TaskInv, LedgerEntryInv, Left
<1>3. RunsInv(r)'
  BY DEF RequestInv, RunsInv
<1> QED
  BY <1>1, <1>2, <1>3 DEF RequestInv, Left

LEMMA InitGivesInv == Init => LedgerInv
<1> SUFFICES ASSUME Init
             PROVE  LedgerInv
  OBVIOUS
<1>1. TypeOK
  BY DEF Init, TypeOK, Conns, Answers, Outcomes, Running
<1>2. ASSUME NEW r \in Requests
      PROVE  RequestInv(r)
  BY DEF Init, RequestInv, FreshOrGone, Untouched, TaskInv, LedgerEntryInv,
         RunsInv, Left, Running, Outcomes, Answers
<1> QED
  BY <1>1, <1>2 DEF Init, LedgerInv

LEMMA ConnectKeepsInv == LedgerInv /\ Connect => LedgerInv'
<1> SUFFICES ASSUME LedgerInv, Connect
             PROVE  LedgerInv'
  OBVIOUS
<1> USE DEF LedgerInv
<1>1. TypeOK'
  <2>1. /\ opened' \in 1..MaxConns /\ opened' = opened + 1
        /\ opened \in 0..MaxConns
    BY DEF TypeOK, Connect
  <2>2. socket' \in 0..opened' /\ opened' \in 0..MaxConns
    BY <2>1 DEF Connect
  <2>3. alive' \subseteq 1..opened'
    BY <2>1 DEF TypeOK, Connect
  <2>4. sent' \subseteq Conns \X Requests
    BY <2>1 DEF TypeOK, Connect, Conns
  <2> QED
    BY <2>2, <2>3, <2>4 DEF TypeOK, Connect, historyVars
<1>2. ASSUME NEW r \in Requests
      PROVE  RequestInv(r)'
  <2>1. Gone(r) => Gone(r)'
    BY DEF Gone, Connect
  <2> QED
    BY <2>1, RequestKept DEF Connect, historyVars
<1> QED
  BY <1>1, <1>2, LeftKept DEF Connect, historyVars

LEMMA DisconnectKeepsInv == LedgerInv /\ Disconnect => LedgerInv'
<1> SUFFICES ASSUME LedgerInv, Disconnect
             PROVE  LedgerInv'
  OBVIOUS
<1> USE DEF LedgerInv
<1>1. PICK lost \in SUBSET {m \in sent : m[1] = socket} : sent' = sent \ lost
  BY DEF Disconnect
<1>2. TypeOK'
  BY <1>1 DEF TypeOK, Disconnect, serverVars, historyVars
<1>3. ASSUME NEW r \in Requests
      PROVE  RequestInv(r)'
  <2>1. Gone(r) => Gone(r)'
    BY <1>1 DEF Gone, Disconnect
  <2> QED
    BY <2>1, RequestKept DEF Disconnect, serverVars, historyVars
<1> QED
  BY <1>2, <1>3 DEF Disconnect

LEMMA UseKeepsInv ==
  ASSUME LedgerInv, NEW r \in Requests, Use(r)
  PROVE  LedgerInv'
<1> USE DEF LedgerInv
<1>1. CASE Request(r)
  <2>1. /\ client' = [client EXCEPT ![r] = "pending"]
        /\ client[r] = "new"
        /\ sent' \subseteq sent \cup {<<socket, r>>}
        /\ socket # 0
        /\ UNCHANGED <<socket, opened, answers, serverVars, ledger, downs, faults,
                       historyVars>>
    BY <1>1 DEF Request
  <2>2. TypeOK'
    BY <2>1 DEF TypeOK, Conns, serverVars, historyVars
  <2>3. ASSUME NEW q \in Requests \ {r}
        PROVE  RequestInv(q)'
    <3>1. Gone(q) => Gone(q)'
      BY <2>1 DEF Gone
    <3> QED
      BY <2>1, <3>1, RequestKept DEF TypeOK, serverVars, historyVars
  <2>4. RequestInv(r)'
    <3>1. client'[r] = "pending" /\ ~Gone(r)
      BY <2>1 DEF Gone, TypeOK
    <3> QED
      BY <2>1, <3>1
      DEF RequestInv, FreshOrGone, Untouched, TaskInv, LedgerEntryInv, RunsInv, Left,
          serverVars, historyVars
  <2> QED
    BY <2>1, <2>2, <2>3, <2>4, LeftKept DEF historyVars
<1>2. CASE TimeOut(r)
  <2>1. /\ client' = [client EXCEPT ![r] = "timeout"]
        /\ client[r] = "pending"
        /\ UNCHANGED <<socket, opened, sent, answers, serverVars, ledger, downs,
                       faults, historyVars>>
    BY <1>2 DEF TimeOut
  <2>2. TypeOK'
    BY <2>1 DEF TypeOK, serverVars, historyVars
  <2>3. ASSUME NEW q \in Requests \ {r}
        PROVE  RequestInv(q)'
    BY <2>1, <2>3, RequestKept DEF Gone, TypeOK, serverVars, historyVars
  <2>4. RequestInv(r)'
    <3>1. client'[r] = "timeout" /\ ~Gone(r)
      BY <2>1 DEF Gone, TypeOK
    <3> QED
      BY <2>1, <3>1
      DEF RequestInv, FreshOrGone, Untouched, TaskInv, LedgerEntryInv, RunsInv, Left,
          serverVars, historyVars
  <2> QED
    BY <2>1, <2>2, <2>3, <2>4, LeftKept DEF historyVars
<1>3. ASSUME NEW a \in Answers, Hear(r, a)
      PROVE  LedgerInv'
  <2>1. /\ <<r, a>> \in answers
        /\ answers' \subseteq answers
        /\ client' = [client EXCEPT ![r] = IF client[r] = "pending" THEN a ELSE client[r]]
        /\ UNCHANGED <<socket, opened, sent, serverVars, ledger, downs, faults,
                       historyVars>>
    BY <1>3 DEF Hear
  <2>2. Left(r, a)
    BY <2>1
  <2>3. TypeOK'
    BY <2>1 DEF TypeOK, serverVars, historyVars
  <2>4. ASSUME NEW q \in Requests \ {r}
        PROVE  RequestInv(q)'
    BY <2>1, <2>4, RequestKept DEF Gone, TypeOK, serverVars, historyVars
  <2>5. RequestInv(r)'
    <3>1. client'[r] \in {client[r], a} /\ (Gone(r) => Gone(r)')
      BY <2>1 DEF Gone, TypeOK, Answers, Outcomes
    <3> QED
      BY <2>1, <2>2, <3>1
      DEF RequestInv, FreshOrGone, Untouched, TaskInv, LedgerEntryInv, RunsInv, Left,
          serverVars, historyVars
  <2> QED
    BY <2>1, <2>3, <2>4, <2>5, LeftKept DEF historyVars
<1> QED
  BY <1>1, <1>2, <1>3 DEF Use

\* An answer that is sent says what is left of its operation.
LEMMA ReplyHonest ==
  ASSUME NEW c, NEW r, NEW a, Reply(c, r, a), Left(r, a)',
         \A m \in answers : Left(m[1], m[2])'
  PROVE  \A m \in answers' : Left(m[1], m[2])'
<1>1. answers' \subseteq answers \cup {<<r, a>>}
  BY DEF Reply
<1> QED
  BY <1>1

LEMMA ReceiveKeepsInv ==
  ASSUME LedgerInv, NEW c \in Conns, NEW r \in Requests, Receive(c, r)
  PROVE  LedgerInv'
<1> USE DEF LedgerInv
<1>1. PICK live \in Kept :
        Join(c, r, live) \/ Recall(c, r, live) \/ Refuse(c, r, live)
          \/ Begin(c, r, live) \/ FailBegin(c, r, live)
  BY DEF Receive
<1>2. /\ <<c, r>> \in sent /\ ~Gone(r)
      /\ live \subseteq cached
      /\ \A q \in Requests : task[q] \in Running /\ q \in cached => q \in live
      /\ sent' \subseteq sent
      /\ UNCHANGED <<client, socket, opened, up, stray, downs, runs, ended, interrupted>>
      /\ live \subseteq cached'
  BY <1>1
  DEF Receive, Kept, Gone, Outcomes, Running, clientVars, historyVars, Join, Recall,
      Refuse, Begin, FailBegin
<1>3. \A q \in Requests : Gone(q) => Gone(q)'
  BY <1>2 DEF Gone
<1>4. \A m \in answers : Left(m[1], m[2])'
  BY <1>2, LeftKept
<1>5. CASE /\ Join(c, r, live) \/ Recall(c, r, live) \/ Refuse(c, r, live)
                \/ FailBegin(c, r, live)
  <2>1. UNCHANGED <<task, ledger>> /\ cached' = live
    BY <1>5 DEF Join, Recall, Refuse, FailBegin
  <2>2. \A q \in Requests : RequestInv(q)'
    BY <1>2, <1>3, <2>1, RequestKept
  <2>3. \A m \in answers' : Left(m[1], m[2])'
    <3>1. CASE Join(c, r, live) \/ FailBegin(c, r, live)
      BY <1>4, <3>1 DEF Join, FailBegin
    <3>2. CASE Recall(c, r, live)
      <4>1. Left(r, ledger[r])
        BY <3>2 DEF Recall, RequestInv, LedgerEntryInv
      <4>2. Left(r, ledger[r])'
        BY <1>2, <2>1, <4>1, LeftKept DEF Left
      <4> QED
        BY <1>4, <2>1, <3>2, <4>2, ReplyHonest DEF Recall, Left
    <3>3. CASE Refuse(c, r, live)
      <4>1. r \in interrupted
        BY <1>2, <3>3 DEF Refuse, RequestInv, LedgerEntryInv, TaskInv
      <4>2. Left(r, "refused")'
        BY <1>2, <4>1 DEF Left
      <4> QED
        BY <1>4, <3>3, <4>2, ReplyHonest DEF Refuse
    <3> QED
      BY <1>5, <3>1, <3>2, <3>3
  <2>4. answers' \subseteq Requests \X Answers
    <3>1. CASE Recall(c, r, live)
      BY <3>1 DEF Recall, Reply, TypeOK
    <3>2. CASE Refuse(c, r, live)
      BY <3>2 DEF Refuse, Reply, TypeOK, Answers
    <3> QED
      BY <1>5, <3>1, <3>2 DEF Join, FailBegin, TypeOK
  <2>5. TypeOK'
    <3>1. /\ alive' \subseteq alive
          /\ delivering' \subseteq delivering \cup {<<c, r>>}
      BY <1>5 DEF Join, Recall, Refuse, FailBegin, Waiting
    <3>2. faults' \in 0..MaxFaults
      BY <1>5 DEF TypeOK, Join, Recall, Refuse, FailBegin
    <3>3. cached' \subseteq Requests /\ sent' \subseteq Conns \X Requests
      BY <1>2, <2>1 DEF TypeOK
    <3> QED
      BY <1>2, <2>1, <2>4, <3>1, <3>2, <3>3 DEF TypeOK
  <2> QED
    BY <2>2, <2>3, <2>5
<1>6. CASE Begin(c, r, live)
  <2>1. /\ ledger[r] = "none"
        /\ ledger' = [ledger EXCEPT ![r] = "running"]
        /\ task' = [task EXCEPT ![r] = "queued"]
        /\ cached' = live \cup {r}
        /\ UNCHANGED <<answers, alive, faults>>
    BY <1>6 DEF Begin, NotHeardOf
  <2>2. TypeOK'
    BY <1>2, <1>6, <2>1 DEF TypeOK, Begin, Waiting, Running
  <2>3. ASSUME NEW q \in Requests \ {r}
        PROVE  RequestInv(q)'
    BY <1>2, <1>3, <2>1, RequestKept DEF TypeOK
  <2>4. RequestInv(r)'
    <3>1. Untouched(r) /\ task[r] = "none"
      BY <1>2, <2>1 DEF RequestInv, FreshOrGone
    <3>2. ledger'[r] = "running" /\ task'[r] = "queued" /\ r \in cached'
      BY <2>1 DEF TypeOK
    <3> QED
      BY <1>2, <3>1, <3>2
      DEF RequestInv, FreshOrGone, Untouched, TaskInv, LedgerEntryInv, RunsInv, Left,
          Running, Outcomes, Answers
  <2> QED
    BY <1>4, <2>1, <2>2, <2>3, <2>4
<1> QED
  BY <1>1, <1>5, <1>6

LEMMA ApplyKeepsInv ==
  ASSUME LedgerInv, NEW r \in Requests, Apply(r) \/ ApplyLate(r)
  PROVE  LedgerInv'
<1> USE DEF LedgerInv
<1>1. /\ runs' = [runs EXCEPT ![r] = runs[r] + 1]
      /\ task' \in {task, [task EXCEPT ![r] = "applied"]}
      /\ stray' \in {stray, stray \ {r}}
      /\ UNCHANGED <<client, socket, opened, sent, answers, up, alive, cached,
                     delivering, ledger, downs, faults, ended, interrupted>>
  BY DEF Apply, ApplyLate, clientVars
<1>2. runs[r] = 0 /\ ended[r] = "no"
  BY DEF Apply, ApplyLate, RequestInv, TaskInv, RunsInv, Running
<1>3. TypeOK'
  BY <1>1, <1>2 DEF TypeOK, Running
<1>4. ASSUME NEW q \in Requests \ {r}
      PROVE  RequestInv(q)'
  BY <1>1, <1>4, RequestKept DEF Gone, TypeOK
<1>5. \A a : Left(r, a) => Left(r, a)'
  BY <1>1, <1>2 DEF Left
<1>6. RequestInv(r)'
  <2>1. /\ runs'[r] = 1
        /\ Gone(r) => Gone(r)'
    BY <1>1, <1>2 DEF Gone, TypeOK
  <2>2. CASE Apply(r)
    <3>1. task[r] = "queued" /\ task'[r] = "applied" /\ stray' = stray
      BY <2>2 DEF Apply, TypeOK
    <3> QED
      BY <1>1, <1>2, <1>5, <2>1, <3>1
      DEF RequestInv, FreshOrGone, Untouched, TaskInv, LedgerEntryInv, RunsInv,
          Running, Outcomes
  <2>3. CASE ApplyLate(r)
    <3>1. r \in stray /\ task[r] = "none" /\ task' = task /\ stray' = stray \ {r}
      BY <2>3 DEF ApplyLate, RequestInv, RunsInv
    <3> QED
      BY <1>1, <1>2, <1>5, <2>1, <3>1
      DEF RequestInv, FreshOrGone, Untouched, TaskInv, LedgerEntryInv, RunsInv,
          Running, Outcomes
  <2> QED
    BY <2>2, <2>3
<1>7. ASSUME NEW m \in answers
      PROVE  Left(m[1], m[2])'
  <2>1. m[1] \in Requests /\ Left(m[1], m[2])
    BY DEF TypeOK
  <2>2. CASE m[1] = r
    BY <1>5, <2>1, <2>2
  <2>3. CASE m[1] # r
    BY <1>1, <2>1, <2>3, LeftKept DEF TypeOK
  <2> QED
    BY <2>2, <2>3
<1> QED
  BY <1>1, <1>3, <1>4, <1>6, <1>7

\* What the two ways an operation can end have in common.
LEMMA EndKeepsInv ==
  ASSUME LedgerInv, NEW r \in Requests, NEW outcome \in Outcomes,
         End(r, outcome) \/ EndUnrecorded(r, outcome)
  PROVE  LedgerInv'
<1> USE DEF LedgerInv
<1>1. /\ task[r] \in Running
      /\ outcome = "result" => task[r] = "applied"
      /\ task' = [task EXCEPT ![r] = outcome]
      /\ ended' = [ended EXCEPT ![r] = outcome]
      /\ cached' \subseteq cached
      /\ \A q \in Requests : task[q] \in Running /\ q \in cached => q \in cached'
      /\ UNCHANGED <<client, socket, opened, sent, answers, up, alive, delivering,
                     stray, downs, runs>>
  BY DEF End, EndUnrecorded, OutcomesOf, Kept, Outcomes, Running, clientVars
<1>2. /\ ledger[r] = "running" /\ ended[r] = "no" /\ r \notin stray
      /\ outcome = "result" => runs[r] = 1
  BY <1>1 DEF RequestInv, TaskInv, Running
<1>3. /\ \A q \in Requests \ {r} :
           ledger'[q] = ledger[q] \/ (ledger'[q] = "none" /\ q \in Aged)
      /\ interrupted \subseteq interrupted'
      /\ interrupted' \subseteq interrupted \cup {r}
      /\ \/ ledger'[r] = Stored(r, outcome)
         \/ ledger'[r] = "running" /\ r \in interrupted'
  <2>1. CASE End(r, outcome)
    BY <2>1 DEF End
  <2>2. CASE EndUnrecorded(r, outcome)
    BY <1>2, <2>2 DEF EndUnrecorded
  <2> QED
    BY <2>1, <2>2
<1>4. Stored(r, outcome) \in {"cut"} \cup Outcomes
  BY DEF Stored, Outcomes
<1>5. TypeOK'
  <2>1. ledger' \in [Requests -> {"none", "running", "unknown", "cut"} \cup Outcomes]
    <3>1. CASE End(r, outcome)
      BY <1>4, <3>1 DEF End, TypeOK
    <3>2. CASE EndUnrecorded(r, outcome)
      BY <3>2 DEF EndUnrecorded, TypeOK
    <3> QED
      BY <3>1, <3>2
  <2>2. faults' \in 0..MaxFaults
    BY DEF TypeOK, End, EndUnrecorded
  <2>3. /\ task' \in [Requests -> {"none"} \cup Running \cup Outcomes]
        /\ ended' \in [Requests -> {"no"} \cup Outcomes]
        /\ interrupted' \subseteq Requests
        /\ cached' \subseteq Requests
    BY <1>1, <1>3 DEF TypeOK
  <2> QED
    BY <1>1, <2>1, <2>2, <2>3 DEF TypeOK
<1>6. \A a : Left(r, a) => Left(r, a)'
  BY <1>1, <1>2, <1>3 DEF Left, TypeOK
<1>7. Left(r, outcome)' /\ Left(r, Stored(r, outcome))'
  <2>1. ended'[r] = outcome /\ runs'[r] = runs[r]
    BY <1>1 DEF TypeOK
  <2> QED
    BY <1>2, <2>1 DEF Left, Stored, Outcomes
<1>8. ASSUME NEW q \in Requests \ {r}
      PROVE  RequestInv(q)'
  <2>1. /\ client'[q] = client[q] /\ task'[q] = task[q] /\ runs'[q] = runs[q]
        /\ ended'[q] = ended[q]
        /\ q \in interrupted' <=> q \in interrupted
        /\ Gone(q) => Gone(q)'
    BY <1>1, <1>3 DEF Gone, TypeOK
  <2>2. CASE ledger'[q] = ledger[q]
    BY <1>1, <2>1, <2>2, RequestKept
  <2>3. CASE ledger'[q] = "none" /\ q \in Aged
    <3>1. Gone(q)' /\ task[q] \notin Running
      BY <2>1, <2>3 DEF Aged, RequestInv, TaskInv
    <3> QED
      BY <1>1, <2>1, <2>3, <3>1
      DEF RequestInv, FreshOrGone, TaskInv, LedgerEntryInv, RunsInv, Left, Answers,
          Outcomes
  <2> QED
    BY <1>3, <2>2, <2>3
<1>9. RequestInv(r)'
  <2>1. task'[r] = outcome /\ ended'[r] = outcome /\ outcome \notin Running
    BY <1>1 DEF TypeOK, Outcomes, Running
  <2>2. FreshOrGone(r)'
    BY <1>3, <1>4 DEF FreshOrGone, Outcomes
  <2>3. TaskInv(r)'
    BY <1>7, <2>1 DEF TaskInv
  <2>4. LedgerEntryInv(r)'
    BY <1>3, <1>4, <1>7 DEF LedgerEntryInv, Answers, Outcomes
  <2>5. RunsInv(r)'
    BY <1>1, <1>2, <2>1 DEF RequestInv, RunsInv
  <2>6. Left(r, client[r])'
    BY <1>1, <1>6 DEF RequestInv, Left
  <2> QED
    BY <1>1, <2>2, <2>3, <2>4, <2>5, <2>6 DEF RequestInv
<1>10. ASSUME NEW m \in answers
       PROVE  Left(m[1], m[2])'
  <2>1. m[1] \in Requests /\ Left(m[1], m[2])
    BY DEF TypeOK
  <2>2. CASE m[1] = r
    BY <1>6, <2>1, <2>2
  <2>3. CASE m[1] # r
    BY <1>1, <1>3, <2>1, <2>3, LeftKept DEF TypeOK
  <2> QED
    BY <2>2, <2>3
<1> QED
  BY <1>1, <1>5, <1>8, <1>9, <1>10

LEMMA DeliverKeepsInv ==
  ASSUME LedgerInv, NEW c \in Conns, NEW r \in Requests, Deliver(c, r)
  PROVE  LedgerInv'
<1> USE DEF LedgerInv
<1>1. /\ task[r] \in Outcomes
      /\ Reply(c, r, task[r])
      /\ delivering' \subseteq delivering
      /\ UNCHANGED <<client, socket, opened, sent, up, alive, cached, task, stray,
                     ledger, downs, faults, runs, ended, interrupted>>
  BY DEF Deliver, HasEnded, clientVars, historyVars
<1>2. TypeOK'
  <2>1. answers' \subseteq Requests \X Answers
    BY <1>1 DEF TypeOK, Reply, Answers
  <2> QED
    BY <1>1, <2>1 DEF TypeOK
<1>3. \A q \in Requests : RequestInv(q)'
  BY <1>1, RequestKept DEF Gone
<1>4. \A m \in answers' : Left(m[1], m[2])'
  <2>1. Left(r, task[r])'
    BY <1>1 DEF RequestInv, TaskInv, Left
  <2>2. \A m \in answers : Left(m[1], m[2])'
    BY <1>1, LeftKept
  <2> QED
    BY <1>1, <2>1, <2>2, ReplyHonest
<1> QED
  BY <1>2, <1>3, <1>4

LEMMA DownKeepsInv ==
  ASSUME LedgerInv, Crash \/ Close
  PROVE  LedgerInv'
<1> USE DEF LedgerInv
<1>1. /\ Down
      /\ UNCHANGED <<client, socket, opened, answers, faults, runs, ended>>
      /\ sent' = {} /\ alive' = {} /\ cached' = {} /\ delivering' = {}
      /\ task' = [r \in Requests |-> "none"]
      /\ interrupted' = interrupted \cup {r \in Requests : task[r] \in Running}
  BY DEF Crash, Close, Down, clientVars
<1>2. \A r \in Requests : r \in stray' => r \in stray \/ task[r] = "queued"
  BY DEF Crash, Close, Running
<1>3. ASSUME NEW r \in Requests
      PROVE  \/ ledger'[r] = ledger[r]
             \/ ledger'[r] = "unknown" /\ task[r] \in Running
  BY DEF Crash, Close
<1>4. TypeOK'
  <2>1. ledger' \in [Requests -> {"none", "running", "unknown", "cut"} \cup Outcomes]
    BY DEF Crash, Close, TypeOK
  <2>2. stray' \subseteq Requests
    BY DEF Crash, Close, TypeOK
  <2>3. downs' \in 0..MaxDowns
    <3>1. downs \in 0..MaxDowns /\ downs < MaxDowns /\ downs' = downs + 1
      BY <1>1 DEF Down, TypeOK
    <3> QED
      BY <3>1
  <2>4. up' \in BOOLEAN
    BY <1>1 DEF Down
  <2> QED
    BY <1>1, <2>1, <2>2, <2>3, <2>4 DEF TypeOK
<1>5. ASSUME NEW r \in Requests
      PROVE  RequestInv(r)'
  <2>1. task'[r] = "none"
    BY <1>1
  <2>2. Gone(r) => Gone(r)'
    BY <1>1 DEF Gone
  <2>3. \A a : Left(r, a) => Left(r, a)'
    BY <1>1 DEF Left
  <2>4. RunsInv(r)'
    BY <1>1, <1>2, <2>1 DEF RequestInv, RunsInv, TaskInv, Running
  <2>5. LedgerEntryInv(r)'
    BY <1>1, <1>3, <2>1, <2>3 DEF RequestInv, LedgerEntryInv, Answers, Outcomes
  <2>6. FreshOrGone(r)'
    <3>1. SUFFICES ASSUME ledger'[r] = "none"
                   PROVE  \/ (Untouched(r) /\ task[r] = "none" /\ r \notin interrupted)'
                          \/ Gone(r)'
      BY DEF FreshOrGone
    <3>2. ledger[r] = "none"
      BY <1>3, <3>1
    <3>3. CASE Gone(r)
      BY <2>2, <3>3
    <3>4. CASE Untouched(r) /\ task[r] = "none" /\ r \notin interrupted
      BY <1>1, <1>2, <2>1, <3>4 DEF Untouched, Running
    <3> QED
      BY <3>2, <3>3, <3>4 DEF RequestInv, FreshOrGone
  <2>7. TaskInv(r)'
    BY <2>1 DEF TaskInv, Running, Outcomes
  <2> QED
    BY <1>1, <2>3, <2>4, <2>5, <2>6, <2>7 DEF RequestInv
<1>6. \A m \in answers : Left(m[1], m[2])'
  BY <1>1 DEF Left
<1> QED
  BY <1>1, <1>4, <1>5, <1>6

LEMMA StutterKeepsInv ==
  ASSUME LedgerInv, Start \/ UNCHANGED vars
  PROVE  LedgerInv'
<1> USE DEF LedgerInv
<1>1. /\ UNCHANGED <<client, socket, opened, sent, answers, alive, cached, task,
                     delivering, stray, ledger, downs, faults, runs, ended, interrupted>>
      /\ up' \in {up, TRUE}
  BY DEF Start, vars, clientVars, serverVars, historyVars
<1>2. TypeOK'
  BY <1>1 DEF TypeOK
<1>3. \A r \in Requests : RequestInv(r)'
  BY <1>1, RequestKept DEF Gone
<1> QED
  BY <1>1, <1>2, <1>3, LeftKept

\* The inductive invariant: what is left of every request, in memory, in the
\* ledger, in transit and with the client, is how its one operation went.
THEOREM LedgerInvariant == Spec => []LedgerInv
<1>1. ASSUME LedgerInv, NEW r \in Requests, Serve(r)
      PROVE  LedgerInv'
  BY <1>1, ReceiveKeepsInv, ApplyKeepsInv, EndKeepsInv, DeliverKeepsInv DEF Serve
<1>2. LedgerInv /\ [Next]_vars => LedgerInv'
  BY <1>1, UseKeepsInv, ConnectKeepsInv, DisconnectKeepsInv, DownKeepsInv,
     StutterKeepsInv
  DEF Next
<1> QED
  BY <1>2, InitGivesInv, PTL DEF Spec

\* Every variable of the ledger's model keeps its type.
THEOREM LedgerTypeCorrect == Spec => []TypeOK
<1>1. LedgerInv => TypeOK
  BY DEF LedgerInv
<1> QED
  BY <1>1, LedgerInvariant, PTL

\* A mutation is carried out at most once, for any number of requests,
\* connections, ends of the process and failed writes.
THEOREM MutationsRunOnce == Spec => []AtMostOnce
<1>1. LedgerInv => AtMostOnce
  <2>1. LedgerInv => \A r \in Requests : runs[r] \in {0, 1}
    BY DEF LedgerInv, RequestInv, RunsInv
  <2>2. \A n \in {0, 1} : n <= 1
    OBVIOUS
  <2> QED
    BY <2>1, <2>2, Zenon DEF AtMostOnce
<1> QED
  BY <1>1, LedgerInvariant, PTL

\* What the client is told of a mutation is how it ended.
THEOREM AnswersAreHonest == Spec => []HonestAnswer
<1>1. LedgerInv => HonestAnswer
  BY DEF LedgerInv, RequestInv, Left, HonestAnswer
<1> QED
  BY <1>1, LedgerInvariant, PTL

-----------------------------------------------------------------------------
\* The gateway and its ledger implement MutationOnce

\* A request is in transit, and its operation exists, after it was asked for.
AskedInv(r) ==
  task[r] # "none" \/ r \in stray \/ (\E c \in Conns : <<c, r>> \in sent) =>
    client[r] # "new"

AllAsked == \A r \in Requests : AskedInv(r)

\* A request stays asked for.
LEMMA AskedKept ==
  ASSUME NEW r, AskedInv(r),
         client[r] # "new" => client'[r] # "new",
         task'[r] # "none" => task[r] # "none" \/ (\E c \in Conns : <<c, r>> \in sent),
         r \in stray' => r \in stray \/ task[r] # "none",
         \A c \in Conns : <<c, r>> \in sent' => <<c, r>> \in sent \/ client'[r] # "new"
  PROVE  AskedInv(r)'
  BY DEF AskedInv

LEMMA NextKeepsAsked == LedgerInv /\ AllAsked /\ [Next]_vars => AllAsked'
<1> SUFFICES ASSUME LedgerInv, AllAsked, [Next]_vars, NEW r \in Requests
             PROVE  AskedInv(r)'
  BY DEF AllAsked
<1>0. /\ AskedInv(r)
      /\ client \in [Requests -> {"new", "pending", "timeout"} \cup Answers]
      /\ task \in [Requests -> {"none"} \cup Running \cup Outcomes]
      /\ sent \subseteq Conns \X Requests
  BY DEF AllAsked, LedgerInv, TypeOK
<1>1. ASSUME NEW q \in Requests, Use(q)
      PROVE  AskedInv(r)'
  <2>1. /\ UNCHANGED <<task, stray>>
        /\ client[r] # "new" => client'[r] # "new"
        /\ \A c \in Conns : <<c, r>> \in sent' => <<c, r>> \in sent \/ client'[r] # "new"
    BY <1>0, <1>1 DEF Use, Request, TimeOut, Hear, serverVars, Answers, Outcomes
  <2> QED
    BY <1>0, <2>1, AskedKept
<1>2. ASSUME NEW q \in Requests, NEW c \in Conns, Receive(c, q)
      PROVE  AskedInv(r)'
  <2>1. /\ client' = client /\ stray' = stray /\ sent' \subseteq sent
        /\ <<c, q>> \in sent
        /\ task' \in {task, [task EXCEPT ![q] = "queued"]}
    BY <1>2 DEF Receive, Join, Recall, Refuse, Begin, FailBegin, clientVars
  <2>2. task'[r] # "none" => task[r] # "none" \/ (\E b \in Conns : <<b, r>> \in sent)
    BY <1>0, <2>1
  <2> QED
    BY <1>0, <2>1, <2>2, AskedKept
<1>3. ASSUME NEW q \in Requests,
             \/ Apply(q) \/ ApplyLate(q)
             \/ \E outcome \in Outcomes : End(q, outcome) \/ EndUnrecorded(q, outcome)
             \/ \E c \in Conns : Deliver(c, q)
      PROVE  AskedInv(r)'
  <2>1. /\ client' = client /\ sent' = sent /\ stray' \subseteq stray
        /\ \A x \in Requests : task'[x] # "none" => task[x] # "none"
    BY <1>0, <1>3 DEF Apply, ApplyLate, End, EndUnrecorded, Deliver, clientVars, Running
  <2> QED
    BY <1>0, <2>1, AskedKept
<1>4. CASE Connect
  <2>1. /\ UNCHANGED <<client, task, stray>>
        /\ \A c \in Conns : <<c, r>> \in sent' => <<c, r>> \in sent \/ client[r] = "pending"
    BY <1>4 DEF Connect
  <2> QED
    BY <1>0, <2>1, AskedKept
<1>5. CASE Disconnect \/ Start \/ UNCHANGED vars
  <2>1. UNCHANGED <<client, task, stray>> /\ sent' \subseteq sent
    BY <1>5 DEF Disconnect, Start, vars, clientVars, serverVars
  <2> QED
    BY <1>0, <2>1, AskedKept
<1>6. CASE Crash \/ Close
  <2>1. /\ client' = client /\ sent' = {} /\ task'[r] = "none"
        /\ r \in stray' => r \in stray \/ task[r] # "none"
    BY <1>6 DEF Crash, Close, Down, clientVars
  <2> QED
    BY <1>0, <2>1, AskedKept
<1> QED
  BY <1>1, <1>2, <1>3, <1>4, <1>5, <1>6 DEF Next, Serve

LEMMA AllAskedHolds == Spec => []AllAsked
<1>1. Init => AllAsked
  BY DEF Init, AllAsked, AskedInv
<1>2. LedgerInv /\ AllAsked /\ [Next]_vars => AllAsked'
  BY NextKeepsAsked
<1> QED
  BY <1>1, <1>2, LedgerInvariant, PTL DEF Spec

OnceStep == [Mutation!Next]_<<client, runs, ended, interrupted>>

LEMMA UseStep ==
  ASSUME LedgerInv, NEW r \in Requests, Use(r)
  PROVE  OnceStep
<1>0. UNCHANGED <<runs, ended, interrupted>>
  BY DEF Use, Request, TimeOut, Hear, historyVars
<1>1. CASE Request(r)
  <2>1. Mutation!Ask(r)
    BY <1>0, <1>1 DEF Request, Mutation!Ask, Mutation!Asked
  <2> QED
    BY <2>1 DEF OnceStep, Mutation!Next
<1>2. CASE TimeOut(r)
  <2>1. Mutation!Tell(r, "timeout")
    BY <1>0, <1>2 DEF TimeOut, Mutation!Tell
  <2> QED
    BY <2>1 DEF OnceStep, Mutation!Next
<1>3. ASSUME NEW a \in Answers, Hear(r, a)
      PROVE  OnceStep
  <2>1. CASE client[r] = "pending"
    <3>1. Left(r, a)
      BY <1>3 DEF LedgerInv, Hear
    <3>2. Mutation!Truth(r, a)
      BY <3>1 DEF Left, Mutation!Truth, Answers, Outcomes
    <3>3. Mutation!Tell(r, a)
      BY <1>0, <1>3, <2>1, <3>2 DEF Hear, LedgerInv, TypeOK, Mutation!Tell
    <3> QED
      BY <3>3 DEF OnceStep, Mutation!Next, Answers, Outcomes
  <2>2. CASE client[r] # "pending"
    <3>1. client' = client
      BY <1>3, <2>2 DEF Hear, LedgerInv, TypeOK
    <3> QED
      BY <1>0, <3>1 DEF OnceStep
  <2> QED
    BY <2>1, <2>2
<1> QED
  BY <1>1, <1>2, <1>3 DEF Use

LEMMA ServeStep ==
  ASSUME LedgerInv, AllAsked, NEW r \in Requests, Serve(r)
  PROVE  OnceStep
<1>0. /\ RequestInv(r) /\ AskedInv(r) /\ client' = client
      /\ runs \in [Requests -> Nat]
  BY DEF LedgerInv, TypeOK, AllAsked, Serve, Apply, ApplyLate, End, EndUnrecorded, Receive,
         Deliver, clientVars
<1>1. CASE Apply(r) \/ ApplyLate(r)
  <2>1. /\ runs' = [runs EXCEPT ![r] = @ + 1] /\ UNCHANGED <<ended, interrupted>>
        /\ task[r] = "queued" \/ r \in stray
    BY <1>1 DEF Apply, ApplyLate
  <2>2. runs[r] = 0 /\ ended[r] = "no" /\ client[r] # "new"
    BY <1>0, <2>1 DEF RequestInv, TaskInv, RunsInv, AskedInv, Running
  <2>3. runs' = [runs EXCEPT ![r] = 1]
    BY <1>0, <2>1, <2>2
  <2>4. Mutation!CarryOut(r)
    BY <1>0, <2>1, <2>2, <2>3 DEF Mutation!CarryOut, Mutation!Asked
  <2> QED
    BY <2>4 DEF OnceStep, Mutation!Next
<1>2. ASSUME NEW outcome \in Outcomes, End(r, outcome) \/ EndUnrecorded(r, outcome)
      PROVE  OnceStep
  <2>1. PICK lost \in SUBSET {r} : interrupted' = interrupted \cup lost
    <3>1. interrupted' = interrupted \cup {} \/ interrupted' = interrupted \cup {r}
      BY <1>2 DEF End, EndUnrecorded
    <3> QED
      BY <3>1
  <2>2. /\ task[r] \in Running /\ outcome \in OutcomesOf(r)
        /\ ended' = [ended EXCEPT ![r] = outcome] /\ runs' = runs
    BY <1>2 DEF End, EndUnrecorded
  <2>3. ended[r] = "no" /\ client[r] # "new"
    BY <1>0, <2>2 DEF RequestInv, TaskInv, AskedInv, Running
  <2>4. outcome = "error" \/ (outcome = "result" /\ runs[r] = 1)
    BY <1>0, <2>2 DEF RequestInv, TaskInv, OutcomesOf, Outcomes, Running
  <2>5. Mutation!End(r, outcome, lost)
    BY <1>0, <2>1, <2>2, <2>3, <2>4 DEF Mutation!End, Mutation!Asked
  <2> QED
    BY <2>5 DEF OnceStep, Mutation!Next, Outcomes
<1>3. ASSUME NEW c \in Conns, Receive(c, r) \/ Deliver(c, r)
      PROVE  OnceStep
  BY <1>0, <1>3 DEF Receive, Deliver, historyVars, OnceStep
<1> QED
  BY <1>1, <1>2, <1>3 DEF Serve

LEMMA DownStep ==
  ASSUME LedgerInv, AllAsked, Crash \/ Close
  PROVE  OnceStep
<1> DEFINE set == {r \in Requests : task[r] \in Running}
<1>1. interrupted' = interrupted \cup set /\ UNCHANGED <<client, runs, ended>>
  BY DEF Crash, Close, Down, clientVars
<1>2. ASSUME NEW r \in set
      PROVE  ended[r] = "no" /\ client[r] # "new"
  BY <1>2 DEF LedgerInv, AllAsked, RequestInv, TaskInv, AskedInv, Running
<1>3. Mutation!Interrupt(set)
  BY <1>1, <1>2 DEF Mutation!Interrupt, Mutation!Asked
<1> QED
  BY <1>3 DEF OnceStep, Mutation!Next

\* The gateway, whatever becomes of its connections, processes and writes,
\* implements MutationOnce: no mutation is carried out unasked, twice or after
\* its operation ended, and what the client is told, once, is true for good.
THEOREM LedgerImplementsOnce == Spec => ImplementsOnce
<1>1. Init => Mutation!Init
  BY DEF Init, Mutation!Init
<1>2. LedgerInv /\ AllAsked /\ [Next]_vars => [Mutation!Next]_<<client, runs, ended, interrupted>>
  <2> SUFFICES ASSUME LedgerInv, AllAsked, [Next]_vars
               PROVE  OnceStep
    BY DEF OnceStep
  <2>1. CASE Connect \/ Disconnect \/ Start \/ UNCHANGED vars
    BY <2>1 DEF Connect, Disconnect, Start, vars, clientVars, historyVars, OnceStep
  <2> QED
    BY <2>1, UseStep, ServeStep, DownStep DEF Next
<1> QED
  BY <1>1, <1>2, LedgerInvariant, AllAskedHolds, PTL DEF Spec, ImplementsOnce, Mutation!Spec
=============================================================================
