-------------------------- MODULE MCRecorderClient --------------------------
(* RecorderClient for TLC; the calls are interchangeable.                  *)
EXTENDS RecorderClient, TLC

CONSTANTS c1, c2, c3, c4, c5

Symmetry == Permutations(Task)
=============================================================================
