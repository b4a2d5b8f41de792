----------------------------- MODULE PollTable -----------------------------
(* What compress_poll_socket_array makes of a table of descriptors, without *)
(* its two indices.  TcpConnection checks that its loop computes this;      *)
(* NyanChat, where the steps of the loop do not matter, uses it.            *)
EXTENDS Integers, FiniteSets

CONSTANT NoFd      \* -1, what a closed slot holds

Kept(f, a, k) == {j \in a .. k : f[j] # NoFd}
Holes(f, j)   == {h \in 0 .. j : f[h] = NoFd}

(* With n descriptors left in slots 0..k, the ones below n stay where they *)
(* are and the m-th hole takes the m-th descriptor from the end.           *)
Compacted(f, k) ==
    LET n == Cardinality(Kept(f, 0, k)) IN
    [j \in 0 .. n - 1 |->
        IF f[j] # NoFd THEN f[j]
        ELSE f[CHOOSE p \in Kept(f, n, k) :
                 Cardinality(Kept(f, p, k)) = Cardinality(Holes(f, j))]]
=============================================================================
