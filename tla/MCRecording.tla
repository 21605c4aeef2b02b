----------------------------- MODULE MCRecording -----------------------------
(***************************************************************************)
(* Two mics are what the registry's races need; one mic, five chunks and   *)
(* two full disks are what it takes to use a keystream position twice.     *)
(***************************************************************************)
EXTENDS Recording
=============================================================================
