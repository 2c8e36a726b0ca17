----------------------------- MODULE MCListener -----------------------------
(* Instances of Listener for TLC. *)
EXTENDS Listener

CONSTANTS c1, c2, c3

MCConns == {c1, c2, c3}
MCTLSConns == {c1, c2}
MCSilent == {c1}

=============================================================================
