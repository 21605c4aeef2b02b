----------------------------- MODULE MCScreens ------------------------------
(* An instance of Screens for TLC. *)
EXTENDS Screens

=============================================================================
