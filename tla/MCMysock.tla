------------------------------ MODULE MCMysock ------------------------------
(* A server with two clients and room for both (MysockServer.cfg), and one *)
(* connection, made or accepted, with data (MysockConnection.cfg).         *)
EXTENDS Mysock

(* Clients are told apart only by comparing their addresses. *)
Clients == Permutations(Peer)
=============================================================================
