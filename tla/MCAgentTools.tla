---------------------------- MODULE MCAgentTools ----------------------------
(***************************************************************************)
(* Instances of AgentTools for TLC.                                        *)
(***************************************************************************)
EXTENDS AgentTools
=============================================================================
