---------------------------- MODULE MCPunishment -----------------------------
(* Instance of Punishment for TLC. *)
EXTENDS Punishment

(* A ban, a warning and a suspension. *)
Durations == {-1, 0, 24}
==============================================================================
