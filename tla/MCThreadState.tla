--------------------------- MODULE MCThreadState ---------------------------
(* Instances of ThreadState for TLC. *)
EXTENDS ThreadState, TLC

Symmetry == Permutations(Threads) \cup Permutations(Workers) \cup Permutations(Requests)
=============================================================================
