----------------------------- MODULE MCWsGateway -----------------------------
(***************************************************************************)
(* Instances of WsGateway for TLC.  Sockets and users are interchangeable. *)
(***************************************************************************)
EXTENDS WsGateway, TLC

Symmetry == Permutations(Sockets) \cup Permutations(Users)
=============================================================================
