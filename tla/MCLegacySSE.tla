---------------------------- MODULE MCLegacySSE ----------------------------
(* Small instance of LegacySSE for TLC; no symmetry, for the sake of liveness. *)
EXTENDS LegacySSE, TLC

=============================================================================
