------------------------------ MODULE MCDetector ------------------------------
(* Detector for TLC.                                                       *)
EXTENDS Detector

CONSTANTS d1
=============================================================================
