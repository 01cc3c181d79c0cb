---------------------------- MODULE UploadLinks ----------------------------
(***************************************************************************)
(* Upload links of agents: a ticket that publishes one version without any *)
(* other credential (internal/httpserver/agent_connections.go, the upload  *)
(* handler of projects.go, internal/project/publisher.go, and the ticket's *)
(* part in Reserve and activate of raft_rules.go).                         *)
(*                                                                         *)
(* Every transaction is one step of the replicated store; a request takes  *)
(* the ticket's lease, reserves, installs, activates and gives the lease   *)
(* back.  It may be repeated, with another body too, fail anywhere, or     *)
(* commit and report an error.  What names, contents and quotas refuse is  *)
(* in module Projects: here it is a request that fails.  The replicas'     *)
(* clocks differ: a lease may lapse while its holder is at work.           *)
(***************************************************************************)
EXTENDS Naturals, Sequences, FiniteSets

CONSTANTS
    Replica,    \* a request at a time is in progress at a replica
    Body,       \* contents that a request may carry
    MaxTicket,  \* bound: tickets
    MaxEdit,    \* bound: changes the owner makes in the browser
    MaxFault,   \* bound: crashes, commits that report an error, leases that lapse
    None

VARIABLES
    tickets,    \* agent_upload_tickets/, by number
    sites,      \* projects/: 0 exists already, t is the one that ticket t creates
    uploads,    \* operations/: uploads[t], whose key is the ticket's digest
    installed,  \* versions on the volume, by site and body
    puts,       \* puts[r]: the request in progress
    published,  \* ghost: published[t], the publications made with a ticket
    edits, faults

vars == <<tickets, sites, uploads, installed, puts, published, edits, faults>>

Ticket == 1..MaxTicket
Site == 0..MaxTicket
Idle == [pc |-> "idle"]

\* What a ticket's receipt says, a project, and an operation.
Receipts == [site : Site, rev : Nat, body : Body, private : BOOLEAN]
SiteRec  == [status : {"reserved", "active", "deleted"}, rev : Nat, pending : Ticket \cup {None},
             body : Body \cup {None}]
Upload   == [state : {"pending", "complete", "aborted"}, body : Body, base : Nat, overdue : BOOLEAN]

\* None is no record.
LinksAssumption == MaxTicket \in Nat /\ None \notin Receipts \cup SiteRec \cup Upload

Init ==
    /\ tickets = <<>>
    /\ sites = [s \in Site |-> IF s = 0 THEN [status |-> "active", rev |-> 1, pending |-> None, body |-> None]
                                        ELSE None]
    /\ uploads = [t \in Ticket |-> None]
    /\ installed = {<<0, None>>}
    /\ puts = [r \in Replica |-> Idle]
    /\ published = [t \in Ticket |-> <<>>]
    /\ edits = 0 /\ faults = 0

\* Requests in progress with a ticket.
Using(t) == {r \in Replica : puts[r] # Idle /\ puts[r].ticket = t}

Fault == faults < MaxFault /\ faults' = faults + 1

Live(s) == sites[s] # None /\ sites[s].status = "active"

(* uploadLink: for a new project, with or without a password, or for a new   *)
(* version of the revision that the project has now.                         *)
UploadLink(update, secret) ==
    LET t == Len(tickets) + 1 IN
    /\ t \in Ticket
    /\ update => Live(0) /\ ~secret
    /\ tickets' = Append(tickets,
           [site |-> IF update THEN 0 ELSE t, rev |-> IF update THEN sites[0].rev ELSE 0,
            secret |-> secret, life |-> "open", lease |-> None, held |-> FALSE, result |-> None])
    /\ UNCHANGED <<sites, uploads, installed, puts, published, edits, faults>>

(* authorizeUploadTicket. *)
Authorized(t) == tickets[t].life = "open" /\ tickets[t].result = None

(* The handler's first transaction.  If it reports an error the request ends *)
(* there, and its lease, if it was stored, stays.                            *)
TakeLease(r, t, b) ==
    /\ puts[r] = Idle
    /\ t \in DOMAIN tickets /\ Authorized(t) /\ ~tickets[t].held
    /\ tickets' = [tickets EXCEPT ![t].lease = r, ![t].held = TRUE]
    /\ \/ /\ puts' = [puts EXCEPT ![r] = [pc |-> "leased", ticket |-> t, body |-> b,
                                          private |-> tickets[t].secret]]
          /\ UNCHANGED faults
       \/ Fault /\ UNCHANGED puts
    /\ UNCHANGED <<sites, uploads, installed, published, edits>>

Goes(r, pc) == puts' = [puts EXCEPT ![r].pc = pc]

(* GetAgentUploadProject, for a ticket with a target. *)
Inspect(r) ==
    /\ puts[r].pc = "leased"
    /\ tickets[puts[r].ticket].site = 0 => Authorized(puts[r].ticket) /\ Live(0)
    /\ Goes(r, "staged")
    /\ UNCHANGED <<tickets, sites, uploads, installed, published, edits, faults>>

(* Mutant of SameRequest: any body resumes the operation. *)
SameRequestAny(t, b) == uploads[t].state # "aborted"

(* The fingerprint is that of the reservation, whose content is the body's. *)
SameRequest(t, b) == uploads[t].body = b /\ uploads[t].state # "aborted"

(* Reserve finds the operation of an earlier request. *)
Resumes(t, b) ==
    /\ uploads[t] # None /\ SameRequest(t, b)
    /\ sites[tickets[t].site].status # "deleted"
    /\ uploads[t].state = "complete" \/ ~uploads[t].overdue
    /\ UNCHANGED <<sites, uploads>>

(* The target is as the ticket saw it. *)
AsSeen(t) == Live(0) /\ sites[0].rev = tickets[t].rev /\ sites[0].pending = None

Reserves(t, b) ==
    LET s == tickets[t].site IN
    /\ uploads[t] = None
    /\ IF s = 0
       THEN /\ AsSeen(t)
            /\ sites' = [sites EXCEPT ![0].pending = t]
       ELSE /\ sites[s] = None
            /\ sites' = [sites EXCEPT ![s] = [status |-> "reserved", rev |-> 0, pending |-> t, body |-> None]]
    /\ uploads' = [uploads EXCEPT ![t] = [state |-> "pending", body |-> b, base |-> sites'[s].rev,
                                          overdue |-> FALSE]]

(* Reserve, and the early return of an operation that is complete. *)
Reserve(r) ==
    LET t == puts[r].ticket IN
    /\ puts[r].pc = "staged" /\ Authorized(t)
    /\ Resumes(t, puts[r].body) \/ Reserves(t, puts[r].body)
    /\ \/ /\ Goes(r, IF uploads'[t].state = "complete" THEN "release" ELSE "reserved")
          /\ UNCHANGED faults
       \/ Fault /\ Goes(r, "release")
    /\ UNCHANGED <<tickets, installed, published, edits>>

(* The staged tree becomes a version, and a password's record is stored. *)
Install(r) ==
    /\ puts[r].pc = "reserved"
    /\ installed' = installed \cup {<<tickets[puts[r].ticket].site, puts[r].body>>}
    /\ Goes(r, "installed")
    /\ UNCHANGED <<tickets, sites, uploads, published, edits, faults>>

(* The operation is pending, in time, and that of the project. *)
Current(t) ==
    LET p == sites[tickets[t].site] IN
    /\ p.status # "deleted"
    /\ uploads[t].state = "pending" /\ ~uploads[t].overdue
    /\ p.pending = t /\ p.rev = uploads[t].base

Receipt(t, p) == [tickets EXCEPT ![t].result = p, ![t].lease = None, ![t].held = FALSE]

(* Activate and ActivatePrivate: the project and the ticket change at once. *)
Activate(r) ==
    LET t == puts[r].ticket
        s == tickets[t].site
        p == [site |-> s, rev |-> sites[s].rev + 1, body |-> uploads[t].body, private |-> puts[r].private]
    IN
    /\ puts[r].pc = "installed" /\ Authorized(t) /\ Current(t)
    /\ sites' = [sites EXCEPT ![s] = [status |-> "active", rev |-> p.rev, pending |-> None, body |-> p.body]]
    /\ uploads' = [uploads EXCEPT ![t].state = "complete"]
    /\ tickets' = Receipt(t, p)
    /\ published' = [published EXCEPT ![t] = Append(@, p)]
    /\ Goes(r, "release")
    /\ UNCHANGED <<installed, edits, faults>>

(* A body that is not valid, a busy or full server, a refusal of Reserve or  *)
(* Activate, storage that fails, five minutes that pass.                     *)
Fails(r) ==
    /\ puts[r].pc \in {"leased", "staged", "reserved", "installed"}
    /\ Goes(r, "release")
    /\ UNCHANGED <<tickets, sites, uploads, installed, published, edits, faults>>

(* The deferred transaction. *)
Release(r) ==
    LET t == puts[r].ticket IN
    /\ puts[r].pc = "release"
    /\ \/ /\ tickets[t].lease = r
          /\ tickets' = [tickets EXCEPT ![t].lease = None, ![t].held = FALSE]
       \/ tickets[t].lease # r /\ UNCHANGED tickets
    /\ puts' = [puts EXCEPT ![r] = Idle]
    /\ UNCHANGED <<sites, uploads, installed, published, edits, faults>>

(* The process stops, or the last transaction fails. *)
Crash(r) ==
    /\ puts[r] # Idle /\ Fault
    /\ puts' = [puts EXCEPT ![r] = Idle]
    /\ UNCHANGED <<tickets, sites, uploads, installed, published, edits>>

-----------------------------------------------------------------------------
(* Six minutes pass for a lease, fifteen for an operation, thirty for a      *)
(* ticket; an hour later its record is deleted.                              *)
LeaseLapses(t) ==
    /\ tickets[t].held /\ Fault
    /\ tickets' = [tickets EXCEPT ![t].held = FALSE]
    /\ UNCHANGED <<sites, uploads, installed, puts, published, edits>>

UploadLapses(t) ==
    /\ uploads[t] # None /\ uploads[t].state = "pending" /\ ~uploads[t].overdue
    /\ uploads' = [uploads EXCEPT ![t].overdue = TRUE]
    /\ UNCHANGED <<tickets, sites, installed, puts, published, edits, faults>>

TicketExpires(t) ==
    /\ tickets[t].life = "open"
    /\ tickets' = [tickets EXCEPT ![t].life = "expired"]
    /\ UNCHANGED <<sites, uploads, installed, puts, published, edits, faults>>

Reap(t) ==
    /\ tickets[t].life = "expired" /\ Using(t) = {}
    /\ tickets' = [tickets EXCEPT ![t].life = "gone"]
    /\ UNCHANGED <<sites, uploads, installed, puts, published, edits, faults>>

(* RecoverExpired aborts an operation that is overdue. *)
AbortExpired(t) ==
    LET s == tickets[t].site IN
    /\ uploads[t] # None /\ uploads[t].state = "pending" /\ uploads[t].overdue
    /\ sites[s].pending = t
    /\ uploads' = [uploads EXCEPT ![t].state = "aborted"]
    /\ sites' = [sites EXCEPT ![s].pending = None, ![s].status = IF s = t THEN "deleted" ELSE @]
    /\ UNCHANGED <<tickets, installed, puts, published, edits, faults>>

(* The owner changes or deletes a project in the browser. *)
Edit(s) ==
    /\ edits < MaxEdit /\ Live(s) /\ sites[s].pending = None
    /\ \/ sites' = [sites EXCEPT ![s].rev = @ + 1]
       \/ sites' = [sites EXCEPT ![s].rev = @ + 1, ![s].status = "deleted"]
    /\ edits' = edits + 1
    /\ UNCHANGED <<tickets, uploads, installed, puts, published, faults>>

Next ==
    \/ \E update, secret \in BOOLEAN : UploadLink(update, secret)
    \/ \E r \in Replica :
        \/ \E t \in Ticket, b \in Body : TakeLease(r, t, b)
        \/ Inspect(r) \/ Reserve(r) \/ Install(r) \/ Activate(r)
        \/ Fails(r) \/ Release(r) \/ Crash(r)
    \/ \E t \in DOMAIN tickets :
        LeaseLapses(t) \/ UploadLapses(t) \/ TicketExpires(t) \/ Reap(t) \/ AbortExpired(t)
    \/ \E s \in Site : Edit(s)

Spec == Init /\ [][Next]_vars

-----------------------------------------------------------------------------
(* A link publishes at most once, whatever is repeated, overlaps or fails:   *)
(* on top of the revision it was made for, with the password it was made     *)
(* with, a version that is on the volume; and the receipt that retries get   *)
(* is that publication.                                                      *)
LinkHonoured ==
    /\ \A t \in DOMAIN tickets : LET k == tickets[t] IN
        /\ published[t] = IF k.result = None THEN <<>> ELSE <<k.result>>
        /\ k.result # None =>
            k.result.rev = k.rev + 1 /\ k.result.private = k.secret /\ k.result.site = k.site
    /\ \A s \in Site : Live(s) => <<s, sites[s].body>> \in installed

(* "Failed validation/upload does not consume the ticket"                    *)
(* (docs/AGENT_SIGNIN.md): while a link is valid, unused and idle, and what  *)
(* it would replace is unchanged, nothing stands in the way of a retry.      *)
FailureKeepsLink ==
    \A t \in DOMAIN tickets :
        /\ Authorized(t) /\ Using(t) = {}
        /\ tickets[t].site = 0 => Live(0) /\ sites[0].rev = tickets[t].rev /\ sites[0].pending \in {None, t}
        => uploads[t] = None \/ (uploads[t].state = "pending" /\ ~uploads[t].overdue)
=============================================================================
