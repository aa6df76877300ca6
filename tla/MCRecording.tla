----------------------------- MODULE MCRecording -----------------------------
(* Recording for TLC.                                                      *)
EXTENDS Recording
=============================================================================
