------------------------ MODULE MCThreadInterruption ------------------------
(* The instance of ThreadInterruption for TLC. *)
EXTENDS ThreadInterruption
=============================================================================
