------------------------------ MODULE MCUpload ------------------------------
(* Three uploads of one file, two by one user, the third by a user whose name  *)
(* is a number.                                                                *)
EXTENDS Upload, TLC

CONSTANTS r1, r2, r3, alice

Requests == {r1, r2, r3}
Subjects == {alice, 1}
Users == r1 :> alice @@ r2 :> alice @@ r3 :> 1

=============================================================================
