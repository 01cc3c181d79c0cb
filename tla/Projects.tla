------------------------------ MODULE Projects ------------------------------
(***************************************************************************)
(* The project repository of internal/project (RaftRepository): two-phase  *)
(* publication, names, duplicate detection, quotas, ownership, revisions   *)
(* and expiry.                                                             *)
(*                                                                         *)
(* One action is one committed metadata transaction; that a transaction is *)
(* atomic is the promise of internal/metadata over the replicated store.   *)
(* A request that returns an error, an idempotent retry and a read change  *)
(* nothing and have no action: a refused request is a guard that is false. *)
(* A session that expires or is revoked only makes its actor refused from  *)
(* then on, so authorisation is membership in the constant set Actor.      *)
(*                                                                         *)
(* Time is abstracted to deadlines that any pending operation, anonymous     *)
(* project or transfer link may pass at any moment.                        *)
(* The deployment without a storage pool is modelled (StorageOffers = nil, *)
(* StorageApp = "", one storage generation per project and digest).        *)
(***************************************************************************)
EXTENDS Naturals, Sequences, FiniteSets

CONSTANTS
    Anonymous,   \* anonymous browser identities
    Account,     \* Firebase accounts
    Actor,       \* request identities: [anon, uid, agent]
    Key,         \* idempotency keys
    Name,        \* project names
    Reserved,    \* names whose bare slug is a route of the server
    Digest,      \* content digests
    Secret,      \* project passwords
    Bytes,       \* Bytes[d]: size of the content with digest d
    Floor,       \* minimum charge of a version (1 MiB in versionCharge)
    Limit,       \* Limit[kind]: AnonymousLimit and AccountLimit
    ByteLimit,   \* ByteLimit[kind]
    MaxAliases,  \* aliases a project may accumulate (100 in Rename)
    MaxRev,      \* bound: project revisions explored
    None

ASSUME SizesAssumption ==
    /\ Bytes \in [Digest -> Nat] /\ Floor \in Nat \ {0}
    /\ MaxAliases \in Nat /\ MaxRev \in Nat
    /\ Limit \in [{"anonymous", "firebase"} -> Nat]
    /\ ByteLimit \in [{"anonymous", "firebase"} -> Nat]

ASSUME IdentitiesAssumption ==
    /\ Anonymous \cap Account = {} /\ None \notin Anonymous \cup Account \cup Digest
    /\ Actor \subseteq [anon : Anonymous \cup {None}, uid : Account \cup {None}, agent : BOOLEAN]
    /\ \A a \in Actor : a.anon # None \/ a.uid # None

Owner == Anonymous \cup Account
OpId  == Owner \X Key            \* operationID(actor, key)
Pid   == OpId                    \* a project's ID is a prefix of its creating operation's
Slug  == Name \X (Digest \cup {None})
Kind(o) == IF o \in Anonymous THEN "anonymous" ELSE "firebase"

VARIABLES
    projects,   \* projects/<id>
    ops,        \* operations/<id>
    slugs,      \* slugs/<slug>: the project it names
    digests,    \* digests/<digest>: [project, op]
    quotas,     \* quotas/<owner>: [count, charged]
    index,      \* owner_projects/<owner>
    transfers,  \* transfers/<id>: [owner, expired]
    removed     \* revision_removals and retirements: <<project, digest>>

vars == <<projects, ops, slugs, digests, quotas, index, transfers, removed>>

\* A prepared password file: the policy revision it was stored for, its secret.
\* A project is private while it names one (Private, PasswordDigest and
\* PasswordRevision are only ever assigned together).
Password == [rev : Nat, secret : Secret]

Project ==
    [owner : Owner, slug : Slug, suffix : Digest \cup {None}, aliases : Nat,
     digest : Digest \cup {None}, charged : Nat, rev : Nat, policy : Nat,
     password : Password \cup {None}, watermark : BOOLEAN, status : {"reserved", "active", "deleted"},
     pending : OpId \cup {None}, expired : BOOLEAN]

Operation ==
    [owner : Owner, project : Pid, digest : Digest, base : Nat, new : BOOLEAN,
     state : {"pending", "overdue", "complete", "aborted"}]

IndexEntry == [project : Pid, op : OpId \cup {None}]

\* None stands for an absent record or an empty field.
ASSUME NoneAssumption ==
    /\ None \notin Pid /\ None \notin Project /\ None \notin Operation
    /\ None \notin IndexEntry /\ None \notin [owner : Owner, expired : BOOLEAN]

Init ==
    /\ projects = [p \in Pid |-> None]
    /\ ops = [o \in OpId |-> None]
    /\ slugs = [s \in Slug |-> None]
    /\ digests = [d \in Digest |-> None]
    /\ quotas = [o \in Owner |-> [count |-> 0, charged |-> 0]]
    /\ index = [o \in Owner |-> {}]
    /\ transfers = [p \in Pid |-> None]
    /\ removed = {}

-----------------------------------------------------------------------------
(* repository.go, byte_quota.go *)

\* Actor.Owner and Actor.Owns
OwnerOf(a) == IF a.uid # None THEN a.uid ELSE a.anon
Owns(a, o) == o \in {a.anon, a.uid}

Known(p) == projects[p] # None
Live(p)  == Known(p) /\ projects[p].status = "active" /\ ~projects[p].expired

\* The stored state is "pending" in both cases; overdue is pending past ExpiresAt.
Pending(o) == ops[o] # None /\ ops[o].state \in {"pending", "overdue"}

VersionCharge(d) == IF Bytes[d] < Floor THEN Floor ELSE Bytes[d]

FitsBytes(current, extra, limit) == extra > 0 /\ current <= limit /\ extra <= limit - current

\* Mutant of Editable: an upload in progress does not block other changes.
EditableWhilePending(a, p) ==
    /\ ~a.agent
    /\ Live(p) /\ Owns(a, projects[p].owner)
    /\ projects[p].rev < MaxRev

\* The common preamble of the management operations: authorize (which refuses
\* agent keys), ownership, liveness, If-Match revision, no upload in progress.
Editable(a, p) ==
    /\ ~a.agent
    /\ Live(p) /\ Owns(a, projects[p].owner)
    /\ projects[p].pending = None
    /\ projects[p].rev < MaxRev

\* A project of o ends: its count is given back, its bytes are not.
Uncount(o) == [quotas EXCEPT ![o].count = @ - 1]

\* Mutant of NextPolicy.
SamePolicy(p) == projects[p].policy

NextPolicy(p) == projects[p].policy + 1

\* Mutant of NotRetired: nothing is checked.
RetiredIgnored(p, d) == TRUE

\* checkNotRetired, and the revision_removals check of checkStorageOperation.
NotRetired(p, d) == <<p, d>> \notin removed

\* Mutant of ClearTransfer: the link is left behind.
TransferKept(p) == UNCHANGED transfers

ClearTransfer(p) == transfers' = [transfers EXCEPT ![p] = None]

-----------------------------------------------------------------------------
(* slugs.go, slug_owner.go *)

\* Mutant of SlugOwner: a reservation that is not active yet does not count.
SlugOwnerActive(s) ==
    IF slugs[s] = None \/ projects[slugs[s]].status # "active" THEN None ELSE slugs[s]

\* slugOwner: a slug record counts only while its project is not deleted.
SlugOwner(s) ==
    IF slugs[s] = None \/ projects[slugs[s]].status = "deleted" THEN None ELSE slugs[s]

\* chooseSlug: the bare name, then the name with a suffix of the seed; routes of
\* the server are skipped.  The five suffix lengths are one candidate here.
Candidates(name, seed) ==
    IF name \in Reserved THEN <<<<name, seed>>>> ELSE <<<<name, None>>, <<name, seed>>>>

Available(s, p) == SlugOwner(s) \in {None, p}

\* The first available candidate, if any.
IsChoice(s, name, seed, p) ==
    \E i \in DOMAIN Candidates(name, seed) :
        /\ s = Candidates(name, seed)[i] /\ Available(s, p)
        /\ \A j \in 1..(i - 1) : ~Available(Candidates(name, seed)[j], p)

-----------------------------------------------------------------------------
(* Reserve *)

\* Mutant of DigestFree: uploads in progress elsewhere are not considered.
DigestFreeLive(d, p) ==
    digests[d] # None /\ digests[d].project # p =>
        ~(Live(digests[d].project) /\ projects[digests[d].project].digest = d)

\* The digest index lets p publish d unless another project serves it or is
\* about to.
DigestFree(d, p) ==
    digests[d] # None /\ digests[d].project # p =>
        LET q == digests[d].project
        IN  /\ ~(Live(q) /\ projects[q].digest = d)
            /\ ~(/\ projects[q].status # "deleted" /\ ~projects[q].expired
                 /\ projects[q].pending = digests[d].op)

Operation0(a, p, d, base, new) ==
    [owner |-> OwnerOf(a), project |-> p, digest |-> d, base |-> base, new |-> new,
     state |-> "pending"]

\* A new project: name, digest and quota are reserved in one transaction.
ReserveNew(a, key, name, d) ==
    LET o == <<OwnerOf(a), key>>
        owner == OwnerOf(a)
        q == quotas[owner]
    IN  /\ ops[o] = None /\ projects[o] = None
        /\ NotRetired(o, d)
        /\ DigestFree(d, o)
        /\ q.count < Limit[Kind(owner)]
        /\ FitsBytes(q.charged, VersionCharge(d), ByteLimit[Kind(owner)])
        /\ \E s \in Slug :
            /\ IsChoice(s, name, d, o)
            /\ slugs' = [slugs EXCEPT ![s] = o]
            /\ projects' = [projects EXCEPT ![o] =
                [owner |-> owner, slug |-> s, suffix |-> s[2], aliases |-> 0, digest |-> None,
                 charged |-> VersionCharge(d), rev |-> 0, policy |-> 1, password |-> None,
                 watermark |-> TRUE, status |-> "reserved", pending |-> o, expired |-> FALSE]]
        /\ ops' = [ops EXCEPT ![o] = Operation0(a, o, d, 0, TRUE)]
        /\ digests' = [digests EXCEPT ![d] = [project |-> o, op |-> o]]
        /\ quotas' = [quotas EXCEPT ![owner] =
                        [count |-> q.count + 1, charged |-> q.charged + VersionCharge(d)]]
        /\ index' = [index EXCEPT ![owner] = @ \cup {o}]
        /\ UNCHANGED <<transfers, removed>>

\* A new version of a live project (not for agent keys); charged to the
\* project's owner, who need not be the operation's.
ReserveUpdate(a, key, p, d) ==
    LET o == <<OwnerOf(a), key>>
        owner == projects[p].owner
        q == quotas[owner]
    IN  /\ Editable(a, p) /\ ops[o] = None
        /\ NotRetired(p, d)
        /\ DigestFree(d, p)
        /\ projects[p].charged > 0 /\ projects[p].charged <= q.charged
        /\ FitsBytes(q.charged, VersionCharge(d), ByteLimit[Kind(owner)])
        /\ ops' = [ops EXCEPT ![o] = Operation0(a, p, d, projects[p].rev, FALSE)]
        /\ projects' = [projects EXCEPT ![p].charged = @ + VersionCharge(d), ![p].pending = o]
        /\ digests' = [digests EXCEPT ![d] = [project |-> p, op |-> o]]
        /\ quotas' = [quotas EXCEPT ![owner].charged = @ + VersionCharge(d)]
        /\ UNCHANGED <<slugs, index, transfers, removed>>

-----------------------------------------------------------------------------
(* activate, abort *)

\* The index entries of p's previously active digest and of d after p serves d.
Reindexed(p, d) ==
    [e \in Digest |->
        IF e = d THEN [project |-> p, op |-> None]
        ELSE IF /\ e = projects[p].digest /\ digests[e] # None
                /\ digests[e].project = p
             THEN None ELSE digests[e]]

\* Activate and, with a password, ActivatePrivate: the password was prepared for
\* the next policy revision and only a new project may start private.
Activate(a, o, pw) ==
    LET op == ops[o]
        p  == op.project
    IN  /\ op # None /\ op.owner = OwnerOf(a)
        /\ op.state = "pending"
        /\ Owns(a, projects[p].owner)
        /\ projects[p].status # "deleted" /\ ~projects[p].expired
        /\ NotRetired(p, op.digest)
        /\ projects[p].pending = o /\ projects[p].rev = op.base
        /\ pw # None => op.new /\ pw.rev = NextPolicy(p)
        /\ digests[op.digest] = [project |-> p, op |-> o]
        /\ digests' = Reindexed(p, op.digest)
        /\ projects' = [projects EXCEPT
             ![p].digest = op.digest, ![p].status = "active", ![p].pending = None,
             ![p].password = IF pw # None THEN pw ELSE @,
             ![p].policy = IF pw # None THEN NextPolicy(p) ELSE @, ![p].rev = @ + 1]
        /\ ops' = [ops EXCEPT ![o].state = "complete"]
        /\ UNCHANGED <<slugs, quotas, index, transfers, removed>>

\* The digest index entry after o is aborted: a later reservation keeps it, and
\* so does the project if it already serves the digest.
ReleasedEntry(o) ==
    LET op == ops[o]
        p  == op.project
    IN  IF digests[op.digest] # [project |-> p, op |-> o] THEN digests[op.digest]
        ELSE IF projects[p].digest = op.digest THEN [project |-> p, op |-> None] ELSE None

\* abort: release the digest and, for a new project, the name and the count.
\* The bytes stay charged.
Release(o) ==
    LET op == ops[o]
        p  == op.project
        owner == projects[p].owner
    IN  /\ projects[p].pending = o
        /\ op.new => quotas[owner].count > 0
        /\ digests' = [digests EXCEPT ![op.digest] = ReleasedEntry(o)]
        /\ projects' = [projects EXCEPT
             ![p].pending = None, ![p].status = IF op.new THEN "deleted" ELSE @]
        /\ ops' = [ops EXCEPT ![o].state = "aborted"]
        /\ quotas' = IF op.new THEN Uncount(owner) ELSE quotas
        /\ slugs' = [slugs EXCEPT ![projects[p].slug] = IF op.new THEN None ELSE @]
        /\ index' = [index EXCEPT ![owner] = IF op.new THEN @ \ {p} ELSE @]
        /\ UNCHANGED <<transfers, removed>>

Abort(a, o) ==
    /\ Pending(o)
    /\ ops[o].owner = OwnerOf(a) /\ Owns(a, projects[ops[o].project].owner)
    /\ Release(o)

\* Mutant of AbortExpired: only uploads of live projects are recovered.
AbortExpiredLive(o) ==
    /\ ops[o] # None /\ ops[o].state = "overdue" /\ Live(ops[o].project)
    /\ Release(o)

\* Maintain: the scan is rechecked inside the transaction.
AbortExpired(o) ==
    /\ ops[o] # None /\ ops[o].state = "overdue"
    /\ Release(o)

-----------------------------------------------------------------------------
(* Ownership: Claim, CreateTransfer, RevokeTransfer, RedeemTransfer *)

\* Mutant of MovedQuotas: the bytes are not moved.
MovedCountOnly(p, uid) ==
    [quotas EXCEPT ![projects[p].owner].count = @ - 1, ![uid].count = @ + 1]

MovedQuotas(p, uid) ==
    LET old == quotas[projects[p].owner]
        new == quotas[uid]
        charged == projects[p].charged
    IN  [quotas EXCEPT
           ![projects[p].owner] = [count |-> old.count - 1, charged |-> old.charged - charged],
           ![uid] = [count |-> new.count + 1, charged |-> new.charged + charged]]

\* moveToAccount: count and bytes follow the project to the account.
MoveToAccount(p, uid) ==
    LET old == quotas[projects[p].owner]
        new == quotas[uid]
        charged == projects[p].charged
    IN  /\ new.count < Limit["firebase"]
        /\ old.count >= 1 /\ charged > 0 /\ charged <= old.charged
        /\ FitsBytes(new.charged, charged, ByteLimit["firebase"])
        /\ quotas' = MovedQuotas(p, uid)
        /\ index' = [index EXCEPT ![projects[p].owner] = @ \ {p}, ![uid] = @ \cup {p}]
        /\ projects' = [projects EXCEPT ![p].owner = uid, ![p].rev = @ + 1]
        /\ ClearTransfer(p)
        /\ UNCHANGED <<ops, slugs, digests, removed>>

Claim(a, p) ==
    /\ a.uid # None /\ Editable(a, p)
    /\ projects[p].owner \in Anonymous
    /\ MoveToAccount(p, a.uid)

CreateTransfer(a, p) ==
    /\ Editable(a, p) /\ projects[p].owner \in Anonymous
    /\ transfers' = [transfers EXCEPT ![p] = [owner |-> projects[p].owner, expired |-> FALSE]]
    /\ UNCHANGED <<projects, ops, slugs, digests, quotas, index, removed>>

\* Revocation does not wait for an upload in progress.
RevokeTransfer(a, p) ==
    /\ ~a.agent /\ Live(p) /\ Owns(a, projects[p].owner)
    /\ projects[p].owner \in Anonymous
    /\ transfers[p] # None
    /\ ClearTransfer(p)
    /\ UNCHANGED <<projects, ops, slugs, digests, quotas, index, removed>>

\* Anyone with the current link and an account may take the project over.
RedeemTransfer(a, p) ==
    /\ ~a.agent /\ a.uid # None
    /\ transfers[p] # None /\ ~transfers[p].expired
    /\ Live(p) /\ projects[p].owner = transfers[p].owner /\ projects[p].owner \in Anonymous
    /\ projects[p].pending = None /\ projects[p].rev < MaxRev
    /\ MoveToAccount(p, a.uid)

-----------------------------------------------------------------------------
(* Rename, SetPrivacy, SetWatermark, SelectRevision, RemoveRevision *)

\* Old names stay as aliases; only names new to the project count.
Rename(a, p, name) ==
    LET seed == IF projects[p].suffix # None THEN projects[p].suffix ELSE projects[p].digest
    IN  /\ Editable(a, p)
        /\ \E s \in Slug :
            /\ IsChoice(s, name, seed, p) /\ s # projects[p].slug
            /\ slugs[s] # p => projects[p].aliases < MaxAliases
            /\ slugs' = [slugs EXCEPT ![s] = p]
            /\ projects' = [projects EXCEPT
                 ![p].slug = s, ![p].suffix = s[2], ![p].rev = @ + 1, ![p].policy = NextPolicy(p),
                 ![p].aliases = IF slugs[s] # p THEN @ + 1 ELSE @]
        /\ UNCHANGED <<ops, digests, quotas, index, transfers, removed>>

\* pw = None makes the project public; otherwise pw must have been prepared for
\* exactly the next policy revision.
SetPrivacy(a, p, pw) ==
    /\ Editable(a, p)
    /\ pw # None => pw.rev = NextPolicy(p)
    /\ projects' = [projects EXCEPT ![p].password = pw, ![p].rev = @ + 1,
                                    ![p].policy = NextPolicy(p)]
    /\ UNCHANGED <<ops, slugs, digests, quotas, index, transfers, removed>>

SetWatermark(a, p, enabled) ==
    /\ Editable(a, p) /\ projects[p].watermark # enabled
    /\ projects' = [projects EXCEPT ![p].watermark = enabled, ![p].rev = @ + 1]
    /\ UNCHANGED <<ops, slugs, digests, quotas, index, transfers, removed>>

\* availableRevision: a completed publication of p that was not removed.
AvailableRevision(o, p) ==
    /\ ops[o] # None /\ ops[o].project = p /\ ops[o].state = "complete"
    /\ NotRetired(p, ops[o].digest)

SelectRevision(a, p, o) ==
    /\ Editable(a, p) /\ AvailableRevision(o, p)
    /\ ops[o].digest # projects[p].digest
    /\ digests[ops[o].digest] # None => digests[ops[o].digest].project = p
    /\ digests' = Reindexed(p, ops[o].digest)
    /\ projects' = [projects EXCEPT ![p].digest = ops[o].digest,
                                    ![p].rev = @ + 1, ![p].policy = NextPolicy(p)]
    /\ UNCHANGED <<ops, slugs, quotas, index, transfers, removed>>

RemoveRevision(a, p, o) ==
    /\ Editable(a, p) /\ AvailableRevision(o, p)
    /\ ops[o].digest # projects[p].digest
    /\ removed' = removed \cup {<<p, ops[o].digest>>}
    /\ projects' = [projects EXCEPT ![p].rev = @ + 1]
    /\ UNCHANGED <<ops, slugs, digests, quotas, index, transfers>>

-----------------------------------------------------------------------------
(* Tombstone, expireProject *)

\* The project is deleted: its digest, its count and its place in the owner's
\* index go; its charge and its slug records stay.
Bury(p) ==
    LET owner == projects[p].owner
    IN  /\ quotas[owner].count > 0
        /\ digests' = [d \in Digest |->
             IF d = projects[p].digest /\ digests[d] # None /\ digests[d].project = p
             THEN None ELSE digests[d]]
        /\ quotas' = Uncount(owner)
        /\ index' = [index EXCEPT ![owner] = @ \ {p}]
        /\ projects' = [projects EXCEPT ![p].status = "deleted",
                                        ![p].rev = @ + 1, ![p].policy = NextPolicy(p)]
        /\ UNCHANGED <<ops, slugs, removed>>

Tombstone(a, p) ==
    /\ ~a.agent /\ Known(p) /\ Owns(a, projects[p].owner)
    /\ projects[p].status # "deleted" /\ projects[p].rev >= 1 /\ projects[p].pending = None
    /\ Bury(p)
    /\ ClearTransfer(p)

\* Mutant of ExpireProject: a project with a transfer link is kept.
ExpireUnlinked(p) ==
    /\ Known(p) /\ projects[p].status = "active" /\ projects[p].owner \in Anonymous
    /\ projects[p].expired /\ projects[p].pending = None /\ transfers[p] = None
    /\ Bury(p)
    /\ UNCHANGED transfers

ExpireProject(p) ==
    /\ Known(p) /\ projects[p].status = "active" /\ projects[p].owner \in Anonymous
    /\ projects[p].expired /\ projects[p].pending = None
    /\ Bury(p)
    /\ UNCHANGED transfers

-----------------------------------------------------------------------------
(* The passage of time (external): deadlines of 15 minutes, 7 days, 24 hours. *)

OperationDeadline(o) ==
    /\ ops[o] # None /\ ops[o].state = "pending"
    /\ ops' = [ops EXCEPT ![o].state = "overdue"]
    /\ UNCHANGED <<projects, slugs, digests, quotas, index, transfers, removed>>

\* Only anonymous projects have a deadline; moveToAccount removes it.
ProjectDeadline(p) ==
    /\ Known(p) /\ projects[p].status # "deleted" /\ ~projects[p].expired
    /\ projects[p].owner \in Anonymous
    /\ projects' = [projects EXCEPT ![p].expired = TRUE]
    /\ UNCHANGED <<ops, slugs, digests, quotas, index, transfers, removed>>

TransferDeadline(p) ==
    /\ transfers[p] # None /\ ~transfers[p].expired
    /\ transfers' = [transfers EXCEPT ![p].expired = TRUE]
    /\ UNCHANGED <<projects, ops, slugs, digests, quotas, index, removed>>

NextPasswords(p) == {[rev |-> NextPolicy(p), secret |-> s] : s \in Secret}

Publish(a) ==
    \/ \E k \in Key, d \in Digest :
        \/ \E name \in Name : ReserveNew(a, k, name, d)
        \/ \E p \in Pid : ReserveUpdate(a, k, p, d)
    \/ \E o \in OpId : \/ Activate(a, o, None) \/ Abort(a, o)
                       \/ /\ ops[o] # None
                          /\ \E pw \in NextPasswords(ops[o].project) : Activate(a, o, pw)

Manage(a) ==
    \E p \in Pid :
        \/ Claim(a, p) \/ CreateTransfer(a, p) \/ RevokeTransfer(a, p) \/ RedeemTransfer(a, p)
        \/ Tombstone(a, p)
        \/ \E name \in Name : Rename(a, p, name)
        \/ \E enabled \in BOOLEAN : SetWatermark(a, p, enabled)
        \/ \E o \in OpId : SelectRevision(a, p, o) \/ RemoveRevision(a, p, o)
        \/ SetPrivacy(a, p, None)
        \/ /\ Known(p)
           /\ \E pw \in NextPasswords(p) : SetPrivacy(a, p, pw)

Maintain ==
    \/ \E o \in OpId : AbortExpired(o)
    \/ \E p \in Pid : ExpireProject(p)

Clock ==
    \/ \E o \in OpId : OperationDeadline(o)
    \/ \E p \in Pid : ProjectDeadline(p) \/ TransferDeadline(p)

Next == Maintain \/ Clock \/ \E a \in Actor : Publish(a) \/ Manage(a)

Spec == Init /\ [][Next]_vars

\* RunMaintenance repeats its pass every minute, and deadlines are reached.
Fairness ==
    /\ \A o \in OpId : WF_vars(AbortExpired(o)) /\ WF_vars(OperationDeadline(o))
    /\ \A p \in Pid : WF_vars(ExpireProject(p))

FairSpec == Spec /\ Fairness

-----------------------------------------------------------------------------
(* Properties *)

\* The shape of the stored records.
TypeOK ==
    /\ projects \in [Pid -> Project \cup {None}]
    /\ ops \in [OpId -> Operation \cup {None}]
    /\ slugs \in [Slug -> Pid \cup {None}]
    /\ digests \in [Digest -> IndexEntry \cup {None}]
    /\ quotas \in [Owner -> [count : Nat, charged : Nat]]
    /\ index \in [Owner -> SUBSET Pid]
    /\ transfers \in [Pid -> [owner : Owner, expired : BOOLEAN] \cup {None}]
    /\ removed \subseteq Pid \X Digest

OwnedBy(o) == {p \in Pid : Known(p) /\ projects[p].owner = o}
Current(o) == {p \in OwnedBy(o) : projects[p].status # "deleted"}

\* An owner's count is the number of its reserved and active projects and its
\* index lists exactly them, through aborts, claims, redeemed links, deletions
\* and expiry; neither ever exceeds the owner's limit.
CountsExact ==
    \A o \in Owner :
        /\ quotas[o].count = Cardinality(Current(o)) /\ index[o] = Current(o)
        /\ quotas[o].count <= Limit[Kind(o)]

\* The bytes that operations charged to the projects of ps, each of them once: one
\* member per byte, so that their sum is a number of members.
Charges(ps) ==
    UNION {{o} \X (1..VersionCharge(ops[o].digest)) :
             o \in {i \in OpId : ops[i] # None /\ ops[i].project \in ps}}

\* Bytes are charged once per operation, never refunded by an abort or a
\* deletion, and move with the project: an owner is charged exactly for the
\* operations of the projects it owns, within its byte limit.
ChargesExact ==
    \A o \in Owner :
        /\ quotas[o].charged = Cardinality(Charges(OwnedBy(o)))
        /\ quotas[o].charged <= ByteLimit[Kind(o)]

\* An owner's count, index and charge are what its projects add up to.
QuotasExact == CountsExact /\ ChargesExact

\* A pending operation is the one its project waits for, and the quota it would
\* give back is there: abort inside Maintain never returns ErrConflict, which
\* would end every later maintenance pass at the same record.
PendingExact ==
    /\ \A o \in OpId : Pending(o) =>
        /\ projects[ops[o].project].pending = o
        /\ ops[o].new => quotas[projects[ops[o].project].owner].count > 0
    /\ \A p \in Pid : Known(p) /\ projects[p].pending # None =>
        Pending(projects[p].pending)

\* Every reserved or active project is found under its own name: no rename,
\* abort or reuse of a deleted project's name ever takes it away.
NamesHeld ==
    \A p \in Pid : Known(p) /\ projects[p].status # "deleted" => slugs[projects[p].slug] = p

\* No two live projects serve the same digest, and the index names the one that
\* does; an upload in progress of an unexpired project keeps its claim.
ContentUnique ==
    /\ \A p, q \in Pid : Live(p) /\ Live(q) /\ p # q => projects[p].digest # projects[q].digest
    /\ \A p \in Pid : Live(p) => /\ digests[projects[p].digest] # None
                                 /\ digests[projects[p].digest].project = p
    /\ \A o \in OpId : /\ Pending(o)
                       /\ ~projects[ops[o].project].expired
                       => digests[ops[o].digest] = [project |-> ops[o].project, op |-> o]

\* A removed version is never served and never about to be.
RemovedNeverServed ==
    \A p \in Pid : Known(p) /\ projects[p].status = "active" =>
        /\ <<p, projects[p].digest>> \notin removed
        /\ projects[p].pending # None => <<p, ops[projects[p].pending].digest>> \notin removed

\* A transfer link never outlives the anonymous ownership it was issued under:
\* a claim or a redeemed link leaves no other link that could move the project.
LinksCurrent ==
    \A p \in Pid : transfers[p] # None =>
        /\ transfers[p].owner \in Anonymous
        /\ projects[p].owner = transfers[p].owner

\* Access grants are bound to a policy revision.  Whatever changes what a grant
\* gives access to (password, privacy, name, rollback, deletion) raises it, and
\* nothing lowers it.
AccessChangesBumpPolicy ==
    [][\A p \in Pid : Known(p) =>
        LET old == projects[p]
            new == projects'[p]
        IN  /\ new.policy >= old.policy
            /\ \/ new.password # old.password \/ new.slug # old.slug
               \/ old.status = "active" /\ new.status = "deleted"
               \/ old.digest # None /\ new.digest # old.digest /\ new.pending = old.pending
               => new.policy > old.policy]_vars

\* An upload that is never finished does not hold its project for ever.
UploadsSettle ==
    \A o \in OpId : Pending(o) ~> ~Pending(o)

\* An anonymous project past its deadline is eventually deleted.
ExpiryFinalized ==
    \A p \in Pid : (Known(p) /\ projects[p].expired) ~> (Known(p) /\ projects[p].status = "deleted")
=============================================================================
