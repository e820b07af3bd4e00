--------------------------- MODULE MCTurnRecovery ---------------------------
(***************************************************************************)
(* Two inputs; an operation that can be retried safely and one that cannot. *)
(***************************************************************************)
EXTENDS TurnRecovery

CONSTANTS m1, m2

MCMessages == {m1, m2}
MCOps == {"read", "write"}
MCOneOp == {"write"}
MCSafeOps == {"read"}
MCNoOps == {}
=============================================================================
