------------------------------ MODULE MCClient ------------------------------
(* Client with a table of one slot, that grows to two when the second       *)
(* message is sent and to four when the third is; everybody works in one    *)
(* directory.                                                              *)
EXTENDS Client

Home == [c \in Clients |-> "home"]
=============================================================================
