---------------------------- MODULE MCCronService ----------------------------
(***************************************************************************)
(* A one-shot job and a job that repeats.                                   *)
(***************************************************************************)
EXTENDS CronService, TLC

CONSTANTS once, often

MCJobs == {once, often}
MCOneShot == {once}
MCWhen == once :> 1 @@ often :> 1
=============================================================================
