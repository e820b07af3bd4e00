---------------------------- MODULE SessionTurns ----------------------------
(***************************************************************************)
(* What the dispatch core of pawbot promises, whatever queues and locks it *)
(* uses: a message is served once, by a turn of its own or inside the turn *)
(* of its session that is running, and the turns of a session are serial.  *)
(***************************************************************************)
CONSTANTS Messages, Sessions, SessionOf

VARIABLE phase   \* "out": not in the loop; "queued"; "turn"; "joined"; "closed"

Phases == {"out", "queued", "turn", "joined", "closed"}

\* m has the running turn of session s.
Serves(m, s) == SessionOf[m] = s /\ phase[m] = "turn"

Init == phase = [m \in Messages |-> "out"]

Arrive(m) == phase[m] = "out" /\ phase' = [phase EXCEPT ![m] = "queued"]

\* Results that will never come: their subagents were cancelled.
Withdraw(set) ==
  /\ \A m \in set : phase[m] = "out"
  /\ phase' = [m \in Messages |-> IF m \in set THEN "closed" ELSE phase[m]]

Begin(m) ==
  /\ phase[m] = "queued"
  /\ ~ \E x \in Messages : Serves(x, SessionOf[m])
  /\ phase' = [phase EXCEPT ![m] = "turn"]

Join(m) ==
  /\ phase[m] = "queued"
  /\ \E x \in Messages : Serves(x, SessionOf[m])
  /\ phase' = [phase EXCEPT ![m] = "joined"]

\* A turn ends; a message that needs none, or was rejected, is put away.
Close(m) ==
  /\ phase[m] \in {"queued", "turn"}
  /\ phase' = [phase EXCEPT ![m] = "closed"]

Next == \/ \E m \in Messages : Arrive(m) \/ Begin(m) \/ Join(m) \/ Close(m)
        \/ \E set \in SUBSET Messages : Withdraw(set)

Spec == Init /\ [][Next]_phase
=============================================================================
