------------------------------ MODULE Accounts ------------------------------
(***************************************************************************)
(* Browser sessions beside the passwords of a private project and agents'  *)
(* connections: the ways somebody is let in.  They share no state; a       *)
(* visitor of Unlock is a session, and what Unlock needs of it is that     *)
(* Revoke may happen at any time.                                          *)
(***************************************************************************)
EXTENDS Sessions

CONSTANTS
    Tab, Visitor, Secret, Limits, Workers, Hour, Ends, MaxPolicy,   \* as in Unlock
    Replica, Account, Quota, MaxPending, MaxGrants, MaxCred, MaxToken   \* as in AgentAuth

VARIABLES
    time, project, files, lost, changes, unlocks, active, budgets, entries, attempts,
    pending, grants, owners, creds, cache, provider, req, ended, stored

unlockVars == <<time, project, files, lost, changes, unlocks, active, budgets, entries, attempts>>
agentVars == <<pending, grants, owners, creds, cache, provider, req, ended, stored>>

Unlocking == INSTANCE Unlock WITH clock <- time, grants <- entries

Agents == INSTANCE AgentAuth WITH Uid <- Account

ASSUME UnlockingAssumption == Unlocking!UnlockAssumption

ASSUME AgentsAssumption == Agents!AgentAssumption

-----------------------------------------------------------------------------
(* A grant to a visitor rests on the password that was in force when it was  *)
(* tried.                                                                    *)
GrantBacked == Unlocking!GrantBacked

(* The password a private project refers to is stored. *)
PasswordDurable == Unlocking!PasswordDurable

(* A connection that ended never becomes live again. *)
EndedStaysEnded == Agents!EndedStaysEnded

(* A live connection has one credential to spend and the newest token. *)
RotationExact == Agents!RotationExact

(* Limits hold whatever interleaves: sessions created and rotated a minute,  *)
(* attempts at a password a minute, connections of an account.               *)
BudgetsKept == BudgetsHold /\ Unlocking!BudgetsExact /\ Agents!ConnectionsListed
=============================================================================
