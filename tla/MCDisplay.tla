----------------------------- MODULE MCDisplay ------------------------------
(* DisplaySession over three workers.                                      *)
EXTENDS DisplaySession

CONSTANTS f1, f2, f3

MCFiles == {f1, f2, f3}
=============================================================================
