---------------------------- MODULE MCLibraries ----------------------------
(***************************************************************************)
(* The four sequential parts, one of which runs: their state spaces are    *)
(* added and not multiplied.                                               *)
(***************************************************************************)
EXTENDS MCInputLine, Hashmap, CodeErrors

CONSTANTS ann, bob, cid, dan      \* four pseudos

(* All collide; ann and bob do, and cid with them in a table of four only; *)
(* ann and bob collide in a table of four and not in one of eight.         *)
MCHashes ==
    { [k \in Keys |-> 0],
      [k \in Keys |-> CASE k \in {ann, bob} -> 1 [] k = cid -> 5 [] OTHER -> 2],
      [k \in Keys |-> CASE k = ann -> 3 [] k = bob -> 7 [] OTHER -> 0] }

MCTexts == {<<{0, 3, 5, 6}, 0 .. 7>>}

VARIABLE library

Init ==
    /\ library \in {"hashmap", "code_errors", "history", "input"}
    /\ HashmapInit /\ CodeInit /\ InputInit
    /\ library # "hashmap" => hash = [k \in Keys |-> 0]
    /\ library # "input" => seq0 = "other" /\ seq1 = "other"

RunHashmap ==
    library = "hashmap" /\ HashmapNext /\ UNCHANGED <<library, cvars, ivars>>
RunCode ==
    library = "code_errors" /\ CodeNext /\ UNCHANGED <<library, hvars, ivars>>
RunHistory ==
    library = "history" /\ HistoryNext
    /\ UNCHANGED <<library, hvars, cvars, tty, seq0, seq1, line, connected, ended>>
RunInput ==
    library = "input" /\ InputNext /\ UNCHANGED <<library, hvars, cvars>>

Next == RunHashmap \/ RunCode \/ RunHistory \/ RunInput
Spec == Init /\ [][Next]_<<library, hvars, cvars, ivars>>
=============================================================================
