--------------------------- MODULE MCSlaveRuntime ---------------------------
(* A small instance of SlaveRuntime for TLC. *)
EXTENDS SlaveRuntime, TLC

CONSTANTS r1, d1

\* A promoted package: its coordinates share the digest.
OneDigest == [r \in Refs |-> d1]

OneCoordinate == [a \in Attempts |-> r1]

\* Crashes are free; failing docker commands and services come alone.
CrashesAreFree ==
  [kind \in FaultKinds |-> CASE kind = "crash" -> 0
                             [] kind \in {"docker", "sick"} -> MaxLoad
                             [] OTHER -> 1]

Symmetry == Permutations(Handlers)
=============================================================================
