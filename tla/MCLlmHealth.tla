----------------------------- MODULE MCLlmHealth -----------------------------
(* A TLC instance of LlmHealth. *)
EXTENDS LlmHealth, TLC
=============================================================================
