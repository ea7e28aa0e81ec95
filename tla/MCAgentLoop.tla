---------------------------- MODULE MCAgentLoop -----------------------------
(***************************************************************************)
(* Small instances of AgentLoop for TLC.  The sets a cfg cannot write down *)
(* (sets of topics) are named here.                                        *)
(***************************************************************************)
EXTENDS AgentLoop

Spoken == {{WorkTopic}}
SpokenOrSilent == {{}, {WorkTopic}}
=============================================================================
