---------------------------- MODULE MCTurnRegistry ---------------------------
(* TurnRegistry with a few requests for one thread.                             *)
EXTENDS TurnRegistry, TLC

Symmetry == Permutations(Requests)
==============================================================================
