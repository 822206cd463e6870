----------------------------- MODULE MCSessions -----------------------------
(* Sessions with interchangeable session ids and login requests.           *)
EXTENDS Sessions, TLC

Symmetry == Permutations(Session) \cup Permutations(Attempt)
=============================================================================
