-------------------------- MODULE MCHolderRegistry --------------------------
(* HolderRegistry for TLC: one device, one isolate besides the platform    *)
(* thread, and two addresses, so that a holder and its successor coexist.  *)
EXTENDS HolderRegistry

CONSTANTS d1, f1, h1, h2
=============================================================================
