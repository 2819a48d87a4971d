--------------------------- MODULE MCDynamicNodes ---------------------------
(***************************************************************************)
(* Instances of DynamicNodes for TLC.                                      *)
(***************************************************************************)
EXTENDS DynamicNodes
=============================================================================
