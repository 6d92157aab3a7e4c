--------------------------- MODULE MCScheduler ---------------------------
(* Small instances of the job queue for TLC. *)
EXTENDS Scheduler

CONSTANTS d1, d2

MCDir == {d1, d2}

=============================================================================
