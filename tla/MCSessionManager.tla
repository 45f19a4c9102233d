-------------------------- MODULE MCSessionManager --------------------------
(* Small instance of SessionManager for TLC. *)
EXTENDS SessionManager, TLC

\* Identifiers, routes and endpoints are only compared for equality.
Symmetry == Permutations(SessionIds) \cup Permutations(Routes)
              \cup Permutations(Endpoints)

=============================================================================
