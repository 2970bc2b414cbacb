------------------------------ MODULE MCOperations ------------------------------
(* Two items sent at the same time, each in up to three attempts.                 *)
EXTENDS Operations, TLC

Symmetric == Permutations(Op)
=================================================================================
