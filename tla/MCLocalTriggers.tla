--------------------------- MODULE MCLocalTriggers ---------------------------
(***************************************************************************)
(* Two triggers, the second on a channel that is not enabled, and three     *)
(* deliveries of which the first and the last are for the first trigger.    *)
(***************************************************************************)
EXTENDS LocalTriggers, TLC

CONSTANTS t1, t2

MCTriggers == {t1, t2}
MCOnChannel == {t1}
MCDeliveries == 1..3
MCTriggerOf == 1 :> t1 @@ 2 :> t2 @@ 3 :> t1
=============================================================================
