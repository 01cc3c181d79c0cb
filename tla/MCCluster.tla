----------------------------- MODULE MCCluster -----------------------------
(***************************************************************************)
(* Small instances of how the cluster comes to be, changes and is          *)
(* recovered, and of the transactions it carries out.  Each module models  *)
(* the others' work as far as it depends on it, so they are explored side  *)
(* by side: part says which of them a behaviour is about, and the others   *)
(* stay as they started.                                                   *)
(***************************************************************************)
EXTENDS Transactions, Histories, TLC

CONSTANTS c1, c2, k1, n1, n2, n3, n4

MCHome == (c1 :> n1) @@ (c2 :> n2)

VARIABLES
    part,
    listed, rest, policy, node, recovered, changes

survivorVars == <<listed, rest, policy, node, recovered, changes>>

Kinds(c, kinds) == tx'[c].kind \in kinds \cup {None}

(* A client reads while another writes; or both write, on leaders of the      *)
(* present release, whose hints are up to date, and one of them only sets k1. *)
Mixed ==
    \/ part = "reads" /\ Kinds(c1, {"reader", "snapshot"}) /\ Kinds(c2, Writing)
    \/ /\ part = "writes" /\ Kinds(c1, Writing) /\ Kinds(c2, Writing)
       /\ \A c \in Client : ~tx'[c].legacy /\ (net'[c] # None => net'[c].hint \in {leader, None})
       /\ net'[c1] # None => net'[c1].key = k1 /\ ~net'[c1].delete

(* Two members may each recover, with crashes in between; and with one crash *)
(* a node that recovers alone and one that enrols.                           *)
Pair == INSTANCE Recovery WITH Node <- Member, Founders <- {n1}, MaxCrash <- 1, None <- Nil

(* Two survivors, with votes, of a larger membership. *)
Survivors == INSTANCE AutoRecovery WITH
    Survivor <- {1, 2}, Learner <- {}, Window <- 2, MaxPos <- 2, MaxChange <- 2

(* Hosts of a policy of three voters: they stop and come back, in a cluster   *)
(* of three or one that starts alone, or move to another address.            *)
Moves == INSTANCE Membership WITH
    Node <- Host, Address <- {1, 2}, Sizes <- {3}, None <- Nil, leader <- head

MCInit ==
    /\ part \in {"reads", "writes", "pair", "peers", "survivors", "members", "moves", "genesis"}
    /\ Init /\ (part \notin {"reads", "writes"} => leader = n1)
    /\ IF part = "peers" THEN Rec!Init ELSE Pair!Init
    /\ Survivors!Init
    /\ IF part = "moves" THEN Moves!Init ELSE Group!Init
    /\ part \notin {"members", "moves"} => head = n1 /\ Group!Voters = {n1, n2, n3}
    /\ Seed!Init

MCNext ==
    /\ UNCHANGED part
    /\ \/ /\ Next /\ Mixed
          /\ UNCHANGED <<recoveryVars, survivorVars, memberVars, genesisVars>>
       \/ /\ \/ part = "pair" /\ Pair!Next
             \/ part = "peers" /\ Rec!Next
          /\ UNCHANGED <<vars, survivorVars, memberVars, genesisVars>>
       \/ /\ part = "survivors" /\ Survivors!Next
          /\ UNCHANGED <<vars, recoveryVars, memberVars, genesisVars>>
       \/ /\ \/ part = "members" /\ Group!Next
             \/ part = "moves" /\ Moves!Next
          /\ UNCHANGED <<vars, recoveryVars, survivorVars, genesisVars>>
       \/ /\ part = "genesis" /\ Seed!Next
          /\ UNCHANGED <<vars, recoveryVars, survivorVars, memberVars>>

MCSpec ==
    MCInit /\ [][MCNext]_<<part, vars, recoveryVars, survivorVars, memberVars, genesisVars>>

-----------------------------------------------------------------------------
(* The automatic recovery is carried out by one of those who agree on it.    *)
RecoveriesApart == Survivors!RecoveredOnce
=============================================================================
