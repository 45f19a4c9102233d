-------------------------- MODULE MCScannerControl --------------------------
(* Small instances of ScannerControl for TLC. *)
EXTENDS ScannerControl, TLC

Symmetry == Permutations(Versions) \cup Permutations(Handlers)

=============================================================================
