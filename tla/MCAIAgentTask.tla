--------------------------- MODULE MCAIAgentTask ---------------------------
(* Instances of AIAgentTask for TLC. *)
EXTENDS AIAgentTask

CONSTANTS a, b
=============================================================================
