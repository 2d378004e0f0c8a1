---- MODULE MCLobbyBroker ----
(* LobbyBroker for TLC: sockets, codes and tokens are interchangeable. *)
EXTENDS LobbyBroker, TLC

Symmetric == Permutations(Conns) \cup Permutations(Codes) \cup Permutations(Tokens)
====
