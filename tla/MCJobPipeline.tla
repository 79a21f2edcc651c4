---------------------------- MODULE MCJobPipeline ----------------------------
(* One cron job that is due every other minute and publishes for each row,   *)
(* and one that is due every minute and also executed when the scheduler     *)
(* starts.                                                                   *)
EXTENDS JobPipeline, TLC

CONSTANTS c1, c2, r1, r2

MCSchedule == (c1 :> {1, 3}) @@ (c2 :> 0..3)
MCTargets == (c1 :> {r1, r2}) @@ (c2 :> {})
=============================================================================
