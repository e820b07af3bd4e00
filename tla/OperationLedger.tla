--------------------------- MODULE OperationLedger ---------------------------
(***************************************************************************)
(* A mutation the WebUI asks of the gateway: pawbot-client.ts sends it with *)
(* a request id and sends it again after every reconnect until it is       *)
(* answered or times out; inbound_commands.py joins the resent request to  *)
(* the operation in memory, or answers it from GatewayOperationLedger,     *)
(* which survives the process, or refuses it.                              *)
(*                                                                         *)
(* Request ids are fresh UUIDs, so an id never comes with two payloads and *)
(* the 409 for that case is left out.  Every connection negotiated         *)
(* protocol 1, without which the ledger is not used.  The lock that orders *)
(* the operations of a connection only delays them.  Reads succeed.        *)
(***************************************************************************)
EXTENDS Naturals

CONSTANTS
  Requests,    \* request ids
  Altered,     \* those whose result _safe_payload cuts or redacts
  MaxConns,    \* bound: connections of the client
  MaxDowns,    \* bound: ends of the gateway process
  MaxFaults    \* bound: failed writes of the ledger

ASSUME OperationLedgerAssumption ==
  /\ Altered \subseteq Requests
  /\ MaxConns \in Nat
  /\ MaxDowns \in Nat
  /\ MaxFaults \in Nat

VARIABLES
  client,      \* of each request: "new", "pending", "timeout" or its answer
  socket,      \* the client's connection, 0 while it has none
  opened,      \* connections made so far
  sent,        \* requests in transit, with their connection
  answers,     \* answers in transit on the client's connection
  up,          \* the gateway process runs
  alive,       \* its connections
  cached,      \* request_operations
  task,        \* the operation task of each request
  delivering,  \* request_tasks: who waits for the outcome of an operation
  stray,       \* cancelled operations whose thread may still run
  ledger,      \* the status of each request in the file
  downs, faults,
  runs,        \* history: how often each mutation was carried out
  ended,       \* history: how each operation ended
  interrupted  \* history: operations that ended with the process, or could
               \*   not be completed in the ledger

clientVars == <<client, socket, opened>>
serverVars == <<up, alive, cached, task, delivering, stray>>
historyVars == <<runs, ended, interrupted>>
vars == <<clientVars, sent, answers, serverVars, ledger, downs, faults, historyVars>>

Conns == 1..MaxConns
Outcomes == {"result", "error"}
Answers == Outcomes \cup {"cut", "refused"}   \* "refused" is the 409
Running == {"queued", "applied"}

\* complete() stores what _safe_payload leaves of a result.  Variant: every
\* operation that ended is completed with a result.
StoredAsOk(r, outcome) == "result"
Stored(r, outcome) ==
  IF outcome = "result" /\ r \in Altered THEN "cut" ELSE outcome

\* What prune_request_operations may leave: operations that ended expire.
\* Variant: any may.
KeptAny == {cached \ old : old \in SUBSET cached}
Kept == {cached \ old : old \in SUBSET {r \in cached : task[r] \in Outcomes}}

\* A day after an operation ended nobody asks for it.
Gone(r) ==
  /\ client[r] \notin {"new", "pending"}
  /\ \A c \in Conns : <<c, r>> \notin sent

\* What _prune may remove from the ledger.
Aged == {r \in Requests : Gone(r) /\ ledger[r] \notin {"none", "running"}}

Init ==
  /\ client = [r \in Requests |-> "new"]
  /\ socket = 0
  /\ opened = 0
  /\ sent = {}
  /\ answers = {}
  /\ up = TRUE
  /\ alive = {}
  /\ cached = {}
  /\ task = [r \in Requests |-> "none"]
  /\ delivering = {}
  /\ stray = {}
  /\ ledger = [r \in Requests |-> "none"]
  /\ downs = 0
  /\ faults = 0
  /\ runs = [r \in Requests |-> 0]
  /\ ended = [r \in Requests |-> "no"]
  /\ interrupted = {}

-----------------------------------------------------------------------------
\* The client

\* handleOpen: every pending request is sent again.
Connect ==
  /\ socket = 0 /\ up /\ opened < MaxConns
  /\ opened' = opened + 1
  /\ socket' = opened'
  /\ alive' = alive \cup {opened'}
  /\ sent' = sent \cup {<<opened', r>> : r \in {q \in Requests : client[q] = "pending"}}
  /\ UNCHANGED <<client, answers, up, cached, task, delivering, stray, ledger,
                 downs, faults, historyVars>>

\* requestMutation; on a connection the gateway no longer has, it is lost.
Request(r) ==
  /\ client[r] = "new" /\ socket # 0
  /\ client' = [client EXCEPT ![r] = "pending"]
  /\ sent' = IF socket \in alive THEN sent \cup {<<socket, r>>} ELSE sent
  /\ UNCHANGED <<socket, opened, answers, serverVars, ledger, downs, faults, historyVars>>

\* The timer of the request.
TimeOut(r) ==
  /\ client[r] = "pending"
  /\ client' = [client EXCEPT ![r] = "timeout"]
  /\ UNCHANGED <<socket, opened, sent, answers, serverVars, ledger, downs, faults,
                 historyVars>>

\* The connection is lost, with any of the requests on it; the gateway, which
\* learns of it later, still serves the others.
Disconnect ==
  /\ socket # 0
  /\ socket' = 0
  /\ sent' \in {sent \ lost : lost \in SUBSET {m \in sent : m[1] = socket}}
  /\ answers' = {}
  /\ UNCHANGED <<client, opened, serverVars, ledger, downs, faults, historyVars>>

\* A webui_response; an answer to a request that is not pending is ignored.
Hear(r, a) ==
  /\ <<r, a>> \in answers
  /\ answers' = answers \ {<<r, a>>}
  /\ client' = [client EXCEPT ![r] = IF @ = "pending" THEN a ELSE @]
  /\ UNCHANGED <<socket, opened, sent, serverVars, ledger, downs, faults, historyVars>>

-----------------------------------------------------------------------------
\* The gateway

\* An answer sent on a connection the client has left is lost.
Reply(c, r, a) == answers' = IF c = socket THEN answers \cup {<<r, a>>} ELSE answers

\* The deliveries with one more, for each connection that asks.  Variant: one
\* for each request.
WaitingOnce(c, r) ==
  IF \E d \in Conns : <<d, r>> \in delivering THEN delivering
  ELSE delivering \cup {<<c, r>>}
Waiting(c, r) == delivering \cup {<<c, r>>}

\* The operation is in memory, whichever connection asked for it first.
Join(c, r, live) ==
  /\ r \in live
  /\ cached' = live
  /\ delivering' = Waiting(c, r)
  /\ sent' = sent \ {<<c, r>>}
  /\ UNCHANGED <<answers, alive, task, ledger, faults>>

\* The ledger has its result.
Recall(c, r, live) ==
  /\ r \notin live /\ ledger[r] \in Answers
  /\ cached' = live
  /\ Reply(c, r, ledger[r])
  /\ sent' = sent \ {<<c, r>>}
  /\ UNCHANGED <<alive, task, delivering, ledger, faults>>

\* The ledger has that it began, and not how it ended.
Refuse(c, r, live) ==
  /\ r \notin live /\ ledger[r] \in {"running", "unknown"}
  /\ cached' = live
  /\ Reply(c, r, "refused")
  /\ sent' = sent \ {<<c, r>>}
  /\ UNCHANGED <<alive, task, delivering, ledger, faults>>

\* The ledger has nothing of it.  Variant: or only that it began.
NotEnded(r) == ledger[r] \in {"none", "running", "unknown"}
NotHeardOf(r) == ledger[r] = "none"

Begin(c, r, live) ==
  /\ r \notin live /\ NotHeardOf(r)
  /\ ledger' = [ledger EXCEPT ![r] = "running"]
  /\ task' = [task EXCEPT ![r] = "queued"]
  /\ cached' = live \cup {r}
  /\ delivering' = Waiting(c, r)
  /\ sent' = sent \ {<<c, r>>}
  /\ UNCHANGED <<answers, alive, faults>>

\* The ledger cannot be written: the error ends the connection.
FailBegin(c, r, live) ==
  /\ r \notin live /\ NotHeardOf(r)
  /\ faults < MaxFaults /\ faults' = faults + 1
  /\ cached' = live
  /\ alive' = alive \ {c}
  /\ sent' = {m \in sent : m[1] # c}
  /\ UNCHANGED <<answers, task, delivering, ledger>>

\* start_webui_request: there is no await between its look at the operations
\* and at the ledger and the start of an operation.
Receive(c, r) ==
  /\ <<c, r>> \in sent /\ c \in alive
  /\ \E live \in Kept :
       Join(c, r, live) \/ Recall(c, r, live) \/ Refuse(c, r, live)
         \/ Begin(c, r, live) \/ FailBegin(c, r, live)
  /\ UNCHANGED <<clientVars, up, stray, downs, historyVars>>

\* dispatch_webui_mutation changes what the mutation is about.
Apply(r) ==
  /\ task[r] = "queued"
  /\ task' = [task EXCEPT ![r] = "applied"]
  /\ runs' = [runs EXCEPT ![r] = @ + 1]
  /\ UNCHANGED <<clientVars, sent, answers, up, alive, cached, delivering, stray, ledger,
                 downs, faults, ended, interrupted>>

\* ... in a thread that the cancellation of its task did not stop.
ApplyLate(r) ==
  /\ r \in stray
  /\ stray' = stray \ {r}
  /\ runs' = [runs EXCEPT ![r] = @ + 1]
  /\ UNCHANGED <<clientVars, sent, answers, up, alive, cached, task, delivering, ledger,
                 downs, faults, ended, interrupted>>

\* What an operation that came this far may return.
OutcomesOf(r) == IF task[r] = "applied" THEN Outcomes ELSE {"error"}

\* The task ends, and its callback mark_complete completes it in the ledger and
\* in memory.
End(r, outcome) ==
  /\ task[r] \in Running /\ outcome \in OutcomesOf(r)
  /\ task' = [task EXCEPT ![r] = outcome]
  /\ ended' = [ended EXCEPT ![r] = outcome]
  /\ cached' \in Kept
  /\ \E old \in SUBSET Aged :
       ledger' = [q \in Requests |->
                    IF q = r THEN Stored(r, outcome)
                    ELSE IF q \in old THEN "none" ELSE ledger[q]]
  /\ UNCHANGED <<clientVars, sent, answers, up, alive, delivering, stray, downs, faults,
                 runs, interrupted>>

\* The ledger cannot be written: the callback fails.
EndUnrecorded(r, outcome) ==
  /\ task[r] \in Running /\ outcome \in OutcomesOf(r)
  /\ faults < MaxFaults /\ faults' = faults + 1
  /\ task' = [task EXCEPT ![r] = outcome]
  /\ ended' = [ended EXCEPT ![r] = outcome]
  /\ interrupted' = interrupted \cup {r}
  /\ UNCHANGED <<clientVars, sent, answers, up, alive, cached, delivering, stray, ledger,
                 downs, runs>>

\* The outcome deliver_webui_request waits for.  Variant: it does not wait.
NoWait(r) == TRUE
HasEnded(r) == task[r] \in Outcomes

\* deliver_webui_request
Deliver(c, r) ==
  /\ <<c, r>> \in delivering /\ HasEnded(r)
  /\ delivering' = delivering \ {<<c, r>>}
  /\ Reply(c, r, task[r])
  /\ UNCHANGED <<clientVars, sent, up, alive, cached, task, stray, ledger, downs, faults,
                 historyVars>>

\* The process ends: connections, operations and deliveries end with it.
Down ==
  /\ up /\ downs < MaxDowns
  /\ downs' = downs + 1
  /\ up' = FALSE
  /\ alive' = {}
  /\ sent' = {}
  /\ cached' = {}
  /\ delivering' = {}
  /\ task' = [r \in Requests |-> "none"]
  /\ interrupted' = interrupted \cup {r \in Requests : task[r] \in Running}
  /\ UNCHANGED <<clientVars, answers, faults, runs, ended>>

Crash == Down /\ stray' = {} /\ UNCHANGED ledger

\* close() marks what it cancels; what it cancels in a thread may go on.
Close ==
  /\ Down
  /\ ledger' = [r \in Requests |-> IF task[r] \in Running THEN "unknown" ELSE ledger[r]]
  /\ stray' = stray \cup {r \in Requests : task[r] = "queued"}

Start ==
  /\ ~up
  /\ up' = TRUE
  /\ UNCHANGED <<clientVars, sent, answers, alive, cached, task, delivering, stray, ledger,
                 downs, faults, historyVars>>

Serve(r) ==
  \/ Apply(r) \/ ApplyLate(r)
  \/ \E outcome \in Outcomes : End(r, outcome) \/ EndUnrecorded(r, outcome)
  \/ \E c \in Conns : Receive(c, r) \/ Deliver(c, r)

Use(r) == Request(r) \/ TimeOut(r) \/ \E a \in Answers : Hear(r, a)

Next ==
  \/ \E r \in Requests : Use(r) \/ Serve(r)
  \/ Connect \/ Disconnect \/ Crash \/ Close \/ Start

\* The event loop resumes what is ready, an operation ends, a supervisor starts
\* the gateway again, and the client learns of the end of its connection and
\* makes another.  Nothing says that a request times out.
Fairness ==
  /\ WF_vars(Start) /\ WF_vars(Connect)
  /\ WF_vars(socket \notin alive /\ Disconnect)
  /\ \A r \in Requests :
       /\ WF_vars(\E outcome \in Outcomes : End(r, outcome))
       /\ \A a \in Answers : WF_vars(Hear(r, a))
       /\ \A c \in Conns : WF_vars(Receive(c, r)) /\ WF_vars(Deliver(c, r))

Spec == Init /\ [][Next]_vars /\ Fairness
-----------------------------------------------------------------------------
TypeOK ==
  /\ client \in [Requests -> {"new", "pending", "timeout"} \cup Answers]
  /\ opened \in 0..MaxConns /\ socket \in 0..opened
  /\ sent \subseteq Conns \X Requests
  /\ answers \subseteq Requests \X Answers
  /\ up \in BOOLEAN
  /\ alive \subseteq 1..opened
  /\ cached \subseteq Requests
  /\ task \in [Requests -> {"none"} \cup Running \cup Outcomes]
  /\ delivering \subseteq Conns \X Requests
  /\ stray \subseteq Requests
  /\ ledger \in [Requests -> {"none", "running", "unknown", "cut"} \cup Outcomes]
  /\ downs \in 0..MaxDowns /\ faults \in 0..MaxFaults
  /\ runs \in [Requests -> Nat]
  /\ ended \in [Requests -> {"no"} \cup Outcomes]
  /\ interrupted \subseteq Requests

\* A mutation is carried out at most once, however often its request is sent,
\* on however many connections and to however many processes.
AtMostOnce == \A r \in Requests : runs[r] <= 1

\* What the client is told is how the one operation of its request ended: ok is
\* said of a mutation that was carried out, with its result or what the ledger
\* keeps of it.
HonestAnswer ==
  \A r \in Requests :
    /\ client[r] \in {"result", "cut"} => runs[r] = 1 /\ ended[r] = "result"
    /\ client[r] = "error" => ended[r] = "error"
    /\ client[r] = "cut" => r \in Altered

\* The gateway, its connections and the ledger implement MutationOnce: nothing is
\* carried out unasked or after its operation ended, not even by a thread that a
\* cancellation did not stop; the client is told once, what is true when it hears
\* it and stays so; and a request is refused only if the process ended while its
\* operation ran, or the operation's end could not be written.
Mutation == INSTANCE MutationOnce
ImplementsOnce == Mutation!Spec

\* A request that is sent is answered, whichever connections and processes are
\* lost, unless the client stays without a connection.
Answered ==
  \A r \in Requests :
    client[r] = "pending" ~>
      (client[r] # "pending" \/ (socket = 0 /\ opened = MaxConns))
=============================================================================
