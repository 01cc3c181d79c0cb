---------------------------- MODULE MCPublishing ----------------------------
(***************************************************************************)
(* Small instances of how an account publishes: its projects, and its      *)
(* upload links.  They are explored side by side: part says which of them  *)
(* a behaviour is about, and the other stays as it started.  One link is   *)
(* used by two requests at a time, with two bodies; two links, for one     *)
(* project or for two, with one body and fewer faults.                     *)
(***************************************************************************)
EXTENDS MCProjects, Publishing

VARIABLE part

MCInit ==
    /\ part \in {"projects", "links", "rivals"}
    /\ Init
    /\ Links!Init

MCNext ==
    \/ part = "projects" /\ Next /\ UNCHANGED <<part, linkVars>>
    \/ /\ part = "links" /\ Links!Next /\ UNCHANGED <<part, vars>>
       /\ Len(tickets') <= 1
    \/ /\ part = "rivals" /\ Links!Next /\ UNCHANGED <<part, vars>>
       /\ edits' = 0 /\ faults' <= 1
       /\ \A r \in Server : puts'[r] # Links!Idle => puts'[r].body = 1

MCSpec == MCInit /\ [][MCNext]_<<part, vars, linkVars>>

Symmetries == KeySymmetry \cup Permutations(Server)
=============================================================================
