--------------------------- MODULE MCRunLifecycle ---------------------------
(***************************************************************************)
(* Instances of RunLifecycle for TLC.                                      *)
(***************************************************************************)
EXTENDS RunLifecycle, TLC

CONSTANTS h1, h2, p1, p2, p3

Symmetry ==
  Permutations(Handlers) \cup Permutations(Operations)
=============================================================================
