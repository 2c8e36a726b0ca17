------------------------------- MODULE MCDial -------------------------------
(* Instances of Dial for TLC. *)
EXTENDS Dial

=============================================================================
