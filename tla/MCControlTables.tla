--------------------------- MODULE MCControlTables ---------------------------
(* ControlTables for TLC: a camera with one control of each unit in the     *)
(* lists, and one that they lack.                                           *)
EXTENDS ControlTables, TLC

CONSTANTS c1, c2, c3, exposure, brightness, digital_mult

\* Three values, of which the device cannot take the last.
MCFit == [v \in Value |-> IF v = 3 THEN 2 ELSE v]

Symmetry == Permutations(Call)
=============================================================================
