----------------------------- MODULE MCGameRoom ----------------------------
(* Sockets are interchangeable. *)
EXTENDS GameRoom

SocketSymmetry == Permutations(Sockets)
============================================================================
