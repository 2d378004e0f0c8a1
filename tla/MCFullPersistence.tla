-------------------------- MODULE MCFullPersistence ------------------------
(* Handlers are interchangeable. *)
EXTENDS FullPersistence, TLC

HandlerSymmetry == Permutations(Handlers)
============================================================================
