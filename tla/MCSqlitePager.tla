---------------------------- MODULE MCSqlitePager ----------------------------
(* The instance of SqlitePager for TLC. *)
EXTENDS SqlitePager
=============================================================================
