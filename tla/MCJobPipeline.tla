--------------------------- MODULE MCJobPipeline ---------------------------
(* JobPipeline with a job of two files for two backends. *)
EXTENDS JobPipeline

CONSTANTS b1, b2

TwoBackends == {b1, b2}
TwoFiles == <<"f1", "f2">>

=============================================================================
