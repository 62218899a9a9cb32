---------------------------- MODULE MCSseClient -----------------------------
(***************************************************************************)
(* Two models and two pieces besides the empty one: enough for an answer   *)
(* whose pieces could be swapped, doubled or lost.                         *)
(***************************************************************************)
EXTENDS SseClient

CONSTANTS phi, qwen, hi, there, nothing

MCModels == {phi, qwen}
MCPieces == {hi, there, nothing}
=============================================================================
