-------------------------- MODULE MCTcpConnection --------------------------
(* TcpConnection with a table of MaxPoll slots and as many descriptors as  *)
(* the table has room for clients, so that it can fill and accept can fail.*)
EXTENDS TcpConnection, TLC

Symmetry == Permutations(Socks)
=============================================================================
