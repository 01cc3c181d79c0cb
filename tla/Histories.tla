------------------------------ MODULE Histories ------------------------------
(***************************************************************************)
(* The Raft histories of a deployment, how the first comes to be (Genesis) *)
(* and how forced recoveries fork it (Recovery), and the members that      *)
(* share one (Membership).                                                 *)
(***************************************************************************)
EXTENDS Integers, Sequences, FiniteSets

CONSTANTS
    Rank,       \* nodes of a deployment that starts, by rank
    MaxRestart, \* bound: their crashes and resets
    Member,     \* nodes of a deployment that recovers
    Founders,   \* those of them that vote at first
    MaxFork, MaxGen, MaxCrash, MaxConn,
    Host,       \* nodes of a deployment whose members come and go
    Address, Sizes, Policy, MinVoters, MaxVoters, MaxMembers, MaxRequest, MaxFault,
    Nil

VARIABLES
    order, known, dirs, started, founders, restarts,
    disk, proc, watermark, dials, conns, forks, crashes,
    config, pending, records, floor, hosts, head, control, requests, faults

genesisVars  == <<order, known, dirs, started, founders, restarts>>
recoveryVars == <<disk, proc, watermark, dials, conns, forks, crashes>>
memberVars   == <<config, pending, records, floor, hosts, head, control, requests, faults>>

Seed == INSTANCE Genesis WITH
    Node <- Rank, MaxCrash <- MaxRestart, None <- Nil,
    disk <- dirs, proc <- started, crashes <- restarts

Rec == INSTANCE Recovery WITH Node <- Member, None <- Nil

Group == INSTANCE Membership WITH Node <- Host, None <- Nil, leader <- head

ASSUME HistoriesAssumption == Seed!GenesisAssumption /\ Rec!RecoveryAssumption /\ Group!MembershipAssumption

(* There is one history: one node founds it, although all of them look for   *)
(* one; no entry of a fork ever reaches a node of another; and no two forks  *)
(* are spoken for by one generation.                                         *)
OneHistory ==
    Seed!OneGenesis /\ Rec!HistoriesApart /\ Rec!GenerationOnce

(* Absence alone never takes the voters below the policy's number.            *)
FloorKept == Group!FloorKept

(* A retired node votes again only when it was admitted again.                *)
VoteAdmitted == Group!VoteAdmitted
=============================================================================
