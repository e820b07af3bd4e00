----------------------------- MODULE MutationOnce -----------------------------
(***************************************************************************)
(* What the gateway promises of a mutation a client asks for, whatever     *)
(* connections, processes and ledgers come between: it is carried out once *)
(* at most, only after it was asked for and never after its operation      *)
(* ended; and the client is told once, how it ended, or is refused because *)
(* the operation was interrupted and nobody knows.                         *)
(***************************************************************************)
EXTENDS Naturals

CONSTANTS Requests, Altered

VARIABLES
  client,      \* of each request: "new", "pending", "timeout" or its answer
  runs,        \* how often its mutation was carried out
  ended,       \* how its operation ended: "no", "result" or "error"
  interrupted  \* requests whose operation may have ended unrecorded

Init ==
  /\ client = [r \in Requests |-> "new"]
  /\ runs = [r \in Requests |-> 0]
  /\ ended = [r \in Requests |-> "no"]
  /\ interrupted = {}

Asked(r) == client[r] # "new"

\* What may be said of a request.
Truth(r, a) ==
  \/ a = "result" /\ ended[r] = "result"
  \/ a = "cut" /\ ended[r] = "result" /\ r \in Altered
  \/ a = "error" /\ ended[r] = "error"
  \/ a = "refused" /\ r \in interrupted

Ask(r) ==
  /\ ~Asked(r)
  /\ client' = [client EXCEPT ![r] = "pending"]
  /\ UNCHANGED <<runs, ended, interrupted>>

Tell(r, a) ==
  /\ client[r] = "pending" /\ (a = "timeout" \/ Truth(r, a))
  /\ client' = [client EXCEPT ![r] = a]
  /\ UNCHANGED <<runs, ended, interrupted>>

CarryOut(r) ==
  /\ Asked(r) /\ runs[r] = 0 /\ ended[r] = "no"
  /\ runs' = [runs EXCEPT ![r] = 1]
  /\ UNCHANGED <<client, ended, interrupted>>

\* An operation ends, with a result if its mutation was carried out; what it
\* ended with may be lost.
End(r, outcome, lost) ==
  /\ Asked(r) /\ ended[r] = "no"
  /\ outcome = "error" \/ (outcome = "result" /\ runs[r] = 1)
  /\ ended' = [ended EXCEPT ![r] = outcome]
  /\ interrupted' = interrupted \cup lost
  /\ UNCHANGED <<client, runs>>

\* A process ends, and operations with it.
Interrupt(set) ==
  /\ \A r \in set : Asked(r) /\ ended[r] = "no"
  /\ interrupted' = interrupted \cup set
  /\ UNCHANGED <<client, runs, ended>>

Next ==
  \/ \E r \in Requests :
       \/ Ask(r) \/ CarryOut(r)
       \/ \E a \in {"timeout", "result", "cut", "error", "refused"} : Tell(r, a)
       \/ \E outcome \in {"result", "error"}, lost \in SUBSET {r} : End(r, outcome, lost)
  \/ \E set \in SUBSET Requests : Interrupt(set)

Spec == Init /\ [][Next]_<<client, runs, ended, interrupted>>
=============================================================================
