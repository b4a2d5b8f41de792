-------------------------------- MODULE Chat --------------------------------
(***************************************************************************)
(* What NyanChat promises its users: one conversation.  There is one order *)
(* of the texts, and everybody reads in that order; as long as nobody has  *)
(* left, each text once and without a gap from the first one that is read. *)
(* Afterwards a text may come twice to the same user.                      *)
(***************************************************************************)
EXTENDS Naturals, Sequences

CONSTANTS Users, Texts

VARIABLES
    log,      \* the texts, in the order of the conversation
    read,     \* what each user has read
    at,       \* where in the log each of them is, 0 at first
    all       \* has nobody left?

vars == <<log, read, at, all>>

Init ==
    /\ log = <<>>
    /\ read = [u \in Users |-> <<>>]
    /\ at = [u \in Users |-> 0]
    /\ all = TRUE

Say(t) ==
    /\ log' = Append(log, t)
    /\ UNCHANGED <<read, at, all>>

Read(u, k) ==
    /\ at[u] <= k
    /\ all => at[u] \in {0, k - 1}
    /\ read' = [read EXCEPT ![u] = Append(@, log[k])]
    /\ at' = [at EXCEPT ![u] = k]
    /\ UNCHANGED <<log, all>>

Leave ==
    /\ all' = FALSE
    /\ UNCHANGED <<log, read, at>>

Next ==
    \/ \E t \in Texts : Say(t)
    \/ \E u \in Users, k \in 1 .. Len(log) : Read(u, k)
    \/ Leave

Spec == Init /\ [][Next]_vars
=============================================================================
