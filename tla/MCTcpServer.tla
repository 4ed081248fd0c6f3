----------------------------- MODULE MCTcpServer -----------------------------
(***************************************************************************)
(* TcpServer on small instances.  The clients are interchangeable.         *)
(***************************************************************************)
EXTENDS TcpServer, TLC

Symmetry == Permutations(Peers)
=============================================================================
