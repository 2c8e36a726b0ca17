----------------------------- MODULE MCSessions -----------------------------
(* Instances of Sessions for TLC. *)
EXTENDS Sessions

CONSTANTS c1, c2, c3

MCConns == {c1, c2, c3}

=============================================================================
