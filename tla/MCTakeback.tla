----------------------------- MODULE MCTakeback ----------------------------
(* The human players are interchangeable: no action or property tells them *)
(* apart.                                                                  *)
EXTENDS Takeback, TLC

HumanSymmetry == Permutations(Humans)
============================================================================
