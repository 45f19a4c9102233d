---------------------------- MODULE MCCoreProcess ----------------------------
(* Small instances of CoreProcess for TLC. *)
EXTENDS CoreProcess

=============================================================================
