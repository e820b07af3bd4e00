---------------------------- MODULE MCAgentLoop ----------------------------
(***************************************************************************)
(* Small instances of AgentLoop: which messages exist, what each one is    *)
(* and which session it is for.                                            *)
(***************************************************************************)
EXTENDS AgentLoop

CONSTANTS s1, s2, u1, u2, u3, v1, r1, a1, a2, stop1, new1, drop1

MCKindOf ==
  [m \in Messages |->
     CASE m \in {u1, u2, u3, v1} -> "user"
       [] m = r1 -> "result"
       [] m \in {a1, a2} -> "auto"
       [] m = stop1 -> "stop"
       [] m = new1 -> "new"
       [] m = drop1 -> "discard"]

MCSessionOf == [m \in Messages |-> IF m = v1 THEN s2 ELSE s1]

\* u1 and u2 are interchangeable: same kind, same session.
MCSymmetry == Permutations({u1, u2})
=============================================================================
