---------------------------- MODULE MCAssistant -----------------------------
(* An instance of Assistant for TLC. *)
EXTENDS Assistant

=============================================================================
