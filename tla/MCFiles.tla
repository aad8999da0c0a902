------------------------------ MODULE MCFiles -------------------------------
(* What is written: one byte, or more than a file may have left.           *)
EXTENDS Files

MCWrites == {<<1>>, <<1, 2>>}
=============================================================================
