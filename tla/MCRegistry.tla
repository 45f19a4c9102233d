----------------------------- MODULE MCRegistry -----------------------------
(* Small instance of Registry for TLC. *)
EXTENDS Registry, TLC

\* Agents and surfaces are only compared for equality.
Symmetry == Permutations(Agents) \cup Permutations(Surfaces)

=============================================================================
