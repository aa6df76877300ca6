------------------------------ MODULE MCPreview ------------------------------
(* Preview for TLC.                                                        *)
EXTENDS Preview

CONSTANTS s1, s2
=============================================================================
