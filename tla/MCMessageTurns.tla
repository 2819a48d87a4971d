--------------------------- MODULE MCMessageTurns ---------------------------
(* Small instances of MessageTurns for TLC. *)
EXTENDS MessageTurns, TLC

CONSTANTS r1, r2, c1, c2, d1, d2

\* Each request in a conversation of its own, or both in one.
Apart == (r1 :> c1) @@ (r2 :> c2)
Together == [r \in Requests |-> c1]

Symmetry == Permutations({r1, r2})
=============================================================================
