--------------------------- MODULE MCIdleTimeout ----------------------------
(* Instances of IdleTimeout for TLC. *)
EXTENDS IdleTimeout

=============================================================================
