----------------------------- MODULE MCRunStream ----------------------------
(***************************************************************************)
(* A small instance of RunStream for TLC.  Compaction is left to           *)
(* MCAgentLoop: the trigger is out of reach.                               *)
(***************************************************************************)
EXTENDS RunStream

Spoken == {{WorkTopic}}
=============================================================================
