----------------------------- MODULE MCAccounts -----------------------------
(***************************************************************************)
(* Small instances of the ways to be let in: browser sessions, project     *)
(* passwords and agents' connections.  They share no state, so they are    *)
(* explored side by side: part says which of them a behaviour is about,    *)
(* and the others stay as they started.  The pair of model values that     *)
(* stands for requests also stands for replicas, and that of accounts for  *)
(* passwords: only their number matters.                                   *)
(***************************************************************************)
EXTENDS Accounts, TLC

VARIABLE part

(* Budgets of two attempts a minute, one of them at the project. *)
MCLimits == [global |-> 2, session |-> 2, project |-> 1]

(* One change of the owner beside a visitor, while no disk is lost; or the   *)
(* owner's two tabs without visitors, on a live project, while disks are lost. *)
(* A disk holds one record in the first case and two in the second.          *)
Visits ==
    /\ Unlocking!Next /\ UNCHANGED lost
    /\ Cardinality({t \in Tab : changes'[t] # None}) <= 1
    /\ \A p \in Replica : Cardinality(files'[p]) <= 1
Changes ==
    /\ Unlocking!Next /\ UNCHANGED <<time, unlocks, active, budgets>> /\ project'.live
    /\ \A p \in Replica : Cardinality(files'[p]) <= 2

(* One connection after the other through a chain of credentials, or two     *)
(* consents at a time.                                                       *)
Chain    == Agents!Next /\ Len(pending') <= 1
Consents == Agents!Next /\ Len(creds') <= 2 /\ \A g \in DOMAIN provider' : provider'[g] <= 1

MCInit ==
    /\ part \in {"sessions", "visits", "changes", "chain", "consents"}
    /\ Init
    /\ Unlocking!Init /\ (part \notin {"visits", "changes"} => project.password = None)
    /\ Agents!Init

MCNext ==
    \/ part = "sessions" /\ Next /\ UNCHANGED <<part, unlockVars, agentVars>>
    \/ part = "visits" /\ Visits /\ UNCHANGED <<part, vars, agentVars>>
    \/ part = "changes" /\ Changes /\ UNCHANGED <<part, vars, agentVars>>
    \/ part = "chain" /\ Chain /\ UNCHANGED <<part, vars, unlockVars>>
    \/ part = "consents" /\ Consents /\ UNCHANGED <<part, vars, unlockVars>>

MCSpec == MCInit /\ [][MCNext]_<<part, vars, unlockVars, agentVars>>

Symmetries == Permutations(Uid) \cup Permutations(Request) \cup Permutations(Tab)
=============================================================================
