---------------------------- MODULE MCUvcPlugin ----------------------------
(* UvcPlugin for TLC.                                                      *)
EXTENDS UvcPlugin

CONSTANTS d1, f1, h1, h2
=============================================================================
