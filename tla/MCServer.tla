------------------------------ MODULE MCServer ------------------------------
(* Two directories and a slot for each; one restart.                           *)
EXTENDS Server

CONSTANTS a, b

=============================================================================
