---------------------------- MODULE MCProviderGate ----------------------------
(* A TLC instance of ProviderGate. *)
EXTENDS ProviderGate, TLC

CONSTANTS c1, c2, j1
=============================================================================
