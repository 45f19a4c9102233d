------------------------- MODULE MCCoreRevocation -------------------------
(* Small instances of CoreRevocation for TLC. *)
EXTENDS CoreRevocation, TLC

Symmetry == Permutations(Workers) \cup Permutations(SessionIds)

=============================================================================
