------------------------------ MODULE MCRounds ------------------------------
(* Instances of Rounds for TLC: three statements, three manager ids. *)
EXTENDS Rounds
=============================================================================
