--------------------------- MODULE MCTurnHandoff ---------------------------
(* Instances of TurnHandoff for TLC: two or three workers. *)
EXTENDS TurnHandoff
=============================================================================
