---------------------------- MODULE DeliveryQueue ----------------------------
(***************************************************************************)
(* What the trigger queue of pawbot promises, whatever files it moves: one *)
(* delivery at a time is in a turn, each has its limit of turns, and one   *)
(* that was completed, given up or withdrawn with its trigger is never     *)
(* tried again.                                                            *)
(***************************************************************************)
EXTENDS Naturals

CONSTANTS Deliveries, MaxAttempts

VARIABLES
  phase,   \* of each delivery: "out", "waiting", "running" or "closed"
  tries    \* turns it had

Init ==
  /\ phase = [d \in Deliveries |-> "out"]
  /\ tries = [d \in Deliveries |-> 0]

Arrive(d) ==
  /\ phase[d] = "out"
  /\ phase' = [phase EXCEPT ![d] = "waiting"]
  /\ UNCHANGED tries

Try(d) ==
  /\ phase[d] = "waiting" /\ tries[d] < MaxAttempts
  /\ \A e \in Deliveries : phase[e] # "running"
  /\ phase' = [phase EXCEPT ![d] = "running"]
  /\ tries' = [tries EXCEPT ![d] = @ + 1]

\* The turn ends, or its process does.
Leave(d) ==
  /\ phase[d] = "running"
  /\ phase' = [phase EXCEPT ![d] = "waiting"]
  /\ UNCHANGED tries

\* Completed or given up; the deletion of a trigger withdraws all of its own,
\* one whose turn is running too.
Close(set) ==
  /\ phase' = [d \in Deliveries |-> IF d \in set THEN "closed" ELSE phase[d]]
  /\ UNCHANGED tries

Next ==
  \/ \E d \in Deliveries : Arrive(d) \/ Try(d) \/ Leave(d)
  \/ \E set \in SUBSET Deliveries : Close(set)

Spec == Init /\ [][Next]_<<phase, tries>>
=============================================================================
