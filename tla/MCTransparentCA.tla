--------------------------- MODULE MCTransparentCA ---------------------------
(* Small instance of TransparentCA for TLC. *)
EXTENDS TransparentCA
=============================================================================
