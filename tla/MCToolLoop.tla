------------------------------ MODULE MCToolLoop ------------------------------
(* ToolLoop for TLC: the bounds come from the configuration. *)
EXTENDS ToolLoop
=============================================================================
