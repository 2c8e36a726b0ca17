------------------------------ MODULE MCProbe -------------------------------
(* Instances of Probe for TLC. *)
EXTENDS Probe

\* One prefix of a letter that has one, and of both letters that have two.
MCWords == {"GET", "POST", "PRI", "SEARCH"}

\* Around the lengths that are asked for, and one byte beyond the hash.
MCCuts == {1, 3, 4, 5, 24, 31, 32, 33}

=============================================================================
