----------------------------- MODULE MCScheduler -----------------------------
(* Small instances of Scheduler for TLC. *)
EXTENDS Scheduler, TLC

CONSTANTS w1, w2, t1, t2

\* A task of every second period and one of every period.
TaskIntervals == t1 :> 2 @@ t2 :> 1
=============================================================================
