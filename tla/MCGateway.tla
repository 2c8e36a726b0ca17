----------------------------- MODULE MCGateway ------------------------------
(* Instances of Gateway for TLC. *)
EXTENDS Gateway

CONSTANTS c1, c2

MCConns == {c1, c2}
MCTLSConns == {c1}

=============================================================================
