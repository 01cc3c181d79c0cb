----------------------------- MODULE Publishing -----------------------------
(***************************************************************************)
(* How an account publishes: its projects, changed by its browser and its  *)
(* agent key (Projects), beside its upload links (UploadLinks).  The links *)
(* model projects as far as they depend on them, so the two share no       *)
(* state.                                                                  *)
(***************************************************************************)
EXTENDS Projects

CONSTANTS
    Server,                              \* Replica of UploadLinks
    Body, MaxTicket, MaxEdit, MaxFault   \* as in UploadLinks

VARIABLES tickets, sites, uploads, installed, puts, published, edits, faults

linkVars == <<tickets, sites, uploads, installed, puts, published, edits, faults>>

Links == INSTANCE UploadLinks WITH Replica <- Server

ASSUME LinksAssumed == Links!LinksAssumption

-----------------------------------------------------------------------------
(* A link publishes at most once, what it was made for, and its receipt is   *)
(* that publication.                                                         *)
LinkHonoured == Links!LinkHonoured

(* "Failed validation/upload does not consume the ticket"                    *)
(* (docs/AGENT_SIGNIN.md).                                                   *)
FailureKeepsLink == Links!FailureKeepsLink
=============================================================================
