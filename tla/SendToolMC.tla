----------------------------- MODULE SendToolMC -----------------------------
(* Instances of SendTool for TLC. *)
EXTENDS SendTool, TLC
=============================================================================
