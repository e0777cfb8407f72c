------------------------------ MODULE MCInput -------------------------------
(* InputPath over two workers.                                             *)
EXTENDS InputPath

CONSTANTS w1, w2

MCWorkers == {w1, w2}
=============================================================================
