----------------------------- MODULE MCNyanChat -----------------------------
(* Two or three clients, each in a directory of its own.                   *)
EXTENDS NyanChat, TLC

OwnDir == [c \in Clients |-> c]

NameSymmetry == Permutations(Names)
Symmetry     == NameSymmetry \cup Permutations(Leavers)
=============================================================================
