---------------------------- MODULE MCLiveScreen ----------------------------
(* Instances of LiveScreen for TLC. *)
EXTENDS LiveScreen

=============================================================================
