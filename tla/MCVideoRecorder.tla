-------------------------- MODULE MCVideoRecorder --------------------------
(* VideoRecorder for TLC.                                                  *)
EXTENDS VideoRecorder
=============================================================================
