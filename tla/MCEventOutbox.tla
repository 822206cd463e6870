--------------------------- MODULE MCEventOutbox ---------------------------
(* EventOutbox on a small instance.  The safety run uses the symmetry of    *)
(* dispatchers and of operators; the liveness run must not.                 *)
EXTENDS EventOutbox, TLC

Symmetry == Permutations(Workers) \cup Permutations(Operators)
=============================================================================
