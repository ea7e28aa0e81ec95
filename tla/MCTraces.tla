------------------------------ MODULE MCTraces ------------------------------
(***************************************************************************)
(* A small run for TLC: what compaction does with the text is the concern  *)
(* of MCAgentLoop, so no reply shows anything.                             *)
(***************************************************************************)
EXTENDS Traces

Silent == {{}}
=============================================================================
