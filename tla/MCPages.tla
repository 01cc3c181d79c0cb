------------------------------ MODULE MCPages ------------------------------
(***************************************************************************)
(* Small instances of what happens around a page that is served: the local *)
(* copies of its files, and the count of its views.  The two share no      *)
(* state, so they are explored side by side: part says which of them a     *)
(* behaviour is about, and the other stays as it started.  So do the       *)
(* lookups, which MCServing explores.                                      *)
(***************************************************************************)
EXTENDS Pages, TLC

VARIABLE part

MCInit ==
    /\ part \in {"copies", "views"}
    /\ Copies!Init /\ Views!Init
    /\ Init /\ \A k \in Key : leader[k]

MCNext ==
    \/ part = "copies" /\ Copies!Next /\ UNCHANGED <<part, vars, viewVars>>
    \/ part = "views" /\ Views!Next /\ UNCHANGED <<part, vars, copyVars>>

MCSpec == MCInit /\ [][MCNext]_<<part, vars, copyVars, viewVars>>

Symmetries == Permutations(Reader) \cup Permutations(Asset) \cup Permutations(Primary)
=============================================================================
