----------------------------- MODULE AgentAuth -----------------------------
(***************************************************************************)
(* Agent sign-in: consents, grants, one-use credentials and the rotation   *)
(* of the identity provider's token (internal/httpserver/agent_*.go and    *)
(* internal/project/agent_maintenance.go).                                 *)
(*                                                                         *)
(* Every AgentTransaction is one step of the replicated store (module      *)
(* Transactions); a request is the sequence of its transactions and of its *)
(* calls to the provider, interleaved with the requests of the other       *)
(* replicas.  A transaction may fail, or commit and still report an error. *)
(* One request at a time is in progress at a replica.                      *)
(***************************************************************************)
EXTENDS Naturals, Sequences, FiniteSets

CONSTANTS
    Replica,      \* the HTTP servers
    Uid,          \* accounts
    Quota,        \* live connections of an account (50 in the code)
    MaxPending,   \* bound: authorization pages opened
    MaxGrants,    \* bound: grants created
    MaxCred,      \* bound: codes and refresh tokens created
    MaxToken,     \* bound: versions of a grant's provider token
    None

AgentAssumption ==
    /\ {Quota, MaxPending, MaxGrants, MaxCred, MaxToken} \subseteq Nat
    /\ None \notin Nat \cup Replica \cup {"fresh", "refused", "unavailable"}

VARIABLES
    pending,      \* consents: "open", "used" or "expired", by handle
    grants,       \* agent_grants/, by number
    owners,       \* agent_grant_owners/: the grants listed for an account, once each
    creds,        \* agent_credentials/ of kind code and refresh
    cache,        \* per replica, the grants with a usable cached ID token
    provider,     \* newest token version the provider issued for a grant
    req,          \* the request in progress at a replica
    ended,        \* ghost: grants that were revoked or lapsed at some point
    stored        \* ghost: newest token version ever stored for a grant

vars == <<pending, grants, owners, creds, cache, provider, req, ended, stored>>

Grants == DOMAIN grants
Idle == [pc |-> "idle"]

(* A grant is the record of agent_grants/.  life is where the clock stands  *)
(* against ExpiresAt and IdleUntil: "live", "lapsed" (one of them passed)    *)
(* or "retired" (a day after ExpiresAt, when the records may be deleted).    *)
NewGrant(uid, h) ==
    [uid |-> uid, by |-> h, revoked |-> FALSE, life |-> "live", token |-> 1,
     lease |-> None, held |-> FALSE]

(* agentGrantLive *)
Live(g) == ~grants[g].revoked /\ grants[g].life = "live"

Present(g) == grants[g].life # "gone"

Revoked(gr) == [gr EXCEPT !.revoked = TRUE, !.token = None]

NoteEnded == ended' = ended \cup
    {g \in DOMAIN grants' : grants'[g].revoked \/ grants'[g].life # "live"}

NoteStored == stored' = [g \in DOMAIN grants' |->
    LET before == IF g \in Grants THEN stored[g] ELSE 0
        now == grants'[g].token
    IN  IF now # None /\ now > before THEN now ELSE before]

(* A transaction that writes grants and only grants. *)
SetGrants(new) ==
    /\ grants' = new
    /\ NoteEnded
    /\ NoteStored
    /\ UNCHANGED <<owners, creds, pending>>

Go(p, pc) == req' = [req EXCEPT ![p].pc = pc]
Done(p) == req' = [req EXCEPT ![p] = Idle]

Init ==
    /\ pending = <<>> /\ grants = <<>> /\ creds = <<>>
    /\ owners = [u \in Uid |-> {}]
    /\ cache = [p \in Replica |-> {}]
    /\ provider = <<>> /\ stored = <<>>
    /\ req = [p \in Replica |-> Idle]
    /\ ended = {}

-----------------------------------------------------------------------------
(* Consent *)

(* authorize: the page is rendered once its pending record is created. *)
Authorize ==
    /\ Len(pending) < MaxPending
    /\ pending' = Append(pending, "open")
    /\ UNCHANGED <<grants, owners, creds, cache, provider, req, ended, stored>>

(* The ten minutes of a pending consent pass. *)
PendingExpires(h) ==
    /\ pending[h] = "open"
    /\ pending' = [pending EXCEPT ![h] = "expired"]
    /\ UNCHANGED <<grants, owners, creds, cache, provider, req, ended, stored>>

(* consent with action "deny". *)
Deny(h) ==
    /\ pending[h] = "open"
    /\ pending' = [pending EXCEPT ![h] = "used"]
    /\ UNCHANGED <<grants, owners, creds, cache, provider, req, ended, stored>>

(* consent with action "allow": the first check, then the ID token and the  *)
(* refresh token are exchanged outside any transaction.                      *)
ConsentCheck(p, h, u) ==
    /\ req[p] = Idle
    /\ pending[h] = "open"
    /\ req' = [req EXCEPT ![p] = [pc |-> "consent", handle |-> h, uid |-> u]]
    /\ UNCHANGED <<pending, grants, owners, creds, cache, provider, ended, stored>>

(* The committing transaction re-checks the pending record and the quota,    *)
(* and drops from the index the connections that are no longer live.         *)
StillPendingStale(h) == h \in DOMAIN pending
StillPending(h) == pending[h] = "open"

ConsentCommit(p) ==
    LET h == req[p].handle
        u == req[p].uid
        g == Len(grants) + 1
        active == {k \in owners[u] : Live(k)}
    IN  /\ req[p].pc = "consent"
        /\ g <= MaxGrants /\ Len(creds) < MaxCred
        /\ StillPending(h)
        /\ \A k \in owners[u] : Present(k)
        /\ Cardinality(active) < Quota
        /\ pending' = [pending EXCEPT ![h] = "used"]
        /\ grants' = Append(grants, NewGrant(u, h))
        /\ creds' = Append(creds, [kind |-> "code", grant |-> g, used |-> FALSE, late |-> FALSE])
        /\ owners' = [owners EXCEPT ![u] = active \cup {g}]
        /\ provider' = Append(provider, 1)
        /\ cache' \in {cache, [cache EXCEPT ![p] = @ \cup {g}]}
        /\ NoteEnded /\ NoteStored
        /\ Done(p)

-----------------------------------------------------------------------------
(* Credentials *)

(* token, first transaction.  A credential that was used before revokes the  *)
(* grant; any other mismatch (expired, wrong client, wrong verifier) leaves  *)
(* everything as it is.                                                      *)
TokenReplay(p, c) ==
    LET g == creds[c].grant IN
    /\ req[p] = Idle
    /\ creds[c].kind # "deleted" /\ creds[c].used
    /\ Present(g)
    /\ SetGrants([grants EXCEPT ![g] = Revoked(@)])
    /\ UNCHANGED <<cache, provider, req>>

TokenUse(p, c) ==
    LET g == creds[c].grant IN
    /\ req[p] = Idle
    /\ creds[c].kind # "deleted" /\ ~creds[c].used
    /\ Present(g) /\ Live(g)
    /\ creds' = [creds EXCEPT ![c].used = TRUE]
    /\ \/ req' = [req EXCEPT ![p] =
              [pc |-> IF creds[c].kind = "code" THEN "issue" ELSE "acquire",
               op |-> "token", grant |-> g, token |-> None, result |-> None]]
       \/ UNCHANGED req
    /\ UNCHANGED <<pending, grants, owners, cache, provider, ended, stored>>

(* token, last transaction: the next refresh token (with its access token).  *)
(* The code reads the clock just before it; expiry in between, within the    *)
(* time of one transaction, is taken to be after the commit.                 *)
MayIssueSpent(g) == Present(g)
MayIssue(g) == Live(g)

TokenIssue(p) ==
    LET g == req[p].grant IN
    /\ req[p].pc = "issue"
    /\ Len(creds) < MaxCred
    /\ Present(g) /\ MayIssue(g)
    /\ creds' = Append(creds, [kind |-> "refresh", grant |-> g, used |-> FALSE,
                               late |-> g \in ended])
    /\ Done(p)
    /\ UNCHANGED <<pending, grants, owners, cache, provider, ended, stored>>

(* revokeGrant after an indeterminate refresh. *)
TokenGiveUp(p) ==
    LET g == req[p].grant IN
    /\ req[p].pc = "giveup"
    /\ Present(g)
    /\ SetGrants([grants EXCEPT ![g] = Revoked(@)])
    /\ cache' = [cache EXCEPT ![p] = @ \ {g}]
    /\ Done(p)
    /\ UNCHANGED provider

(* revoke: the client presents a refresh or an access token of the grant.    *)
RevokeToken(g) ==
    /\ Present(g)
    /\ \E c \in DOMAIN creds : creds[c].kind = "refresh" /\ creds[c].grant = g
    /\ SetGrants([grants EXCEPT ![g] = Revoked(@)])
    /\ UNCHANGED <<cache, provider, req>>

(* deleteGrant: the user disconnects the agent at replica p. *)
DeleteGrant(p, g) ==
    /\ Present(g)
    /\ SetGrants([grants EXCEPT ![g] = Revoked(@)])
    /\ cache' = [cache EXCEPT ![p] = @ \ {g}]
    /\ UNCHANGED <<provider, req>>

-----------------------------------------------------------------------------
(* The provider's session: firebaseFor *)

(* gateway: an access token of a live grant.  Only the first transaction;    *)
(* the ID token it needs comes from firebaseFor without force.               *)
Gateway(p, g) ==
    /\ req[p] = Idle
    /\ Present(g) /\ Live(g)
    /\ \E c \in DOMAIN creds : creds[c].grant = g /\ creds[c].kind = "refresh"
    /\ req' = [req EXCEPT ![p] =
          [pc |-> "acquire", op |-> "gateway", grant |-> g, token |-> None, result |-> None]]
    /\ UNCHANGED <<pending, grants, owners, creds, cache, provider, ended, stored>>

Forced(p) == req[p].op = "token"
Returned(p) == IF Forced(p) THEN "issue" ELSE "touch"
Failed(p) == IF Forced(p) THEN Go(p, "giveup") ELSE Done(p)

(* One turn of the loop: invalid, busy, cached or acquired.  A busy caller   *)
(* goes round again until its deadline.                                      *)
AcquireInvalid(p) ==
    /\ req[p].pc = "acquire"
    /\ Present(req[p].grant) /\ ~Live(req[p].grant)
    /\ Done(p)
    /\ UNCHANGED <<pending, grants, owners, creds, cache, provider, ended, stored>>

AcquireCached(p) ==
    /\ req[p].pc = "acquire"
    /\ Present(req[p].grant) /\ Live(req[p].grant)
    /\ ~Forced(p) /\ req[p].grant \in cache[p]
    /\ Go(p, Returned(p))
    /\ UNCHANGED <<pending, grants, owners, creds, cache, provider, ended, stored>>

AcquireLease(p) ==
    LET g == req[p].grant IN
    /\ req[p].pc = "acquire"
    /\ Present(g) /\ Live(g)
    /\ ~(grants[g].lease # None /\ grants[g].held)
    /\ Forced(p) \/ g \notin cache[p]
    /\ SetGrants([grants EXCEPT ![g].lease = p, ![g].held = TRUE])
    /\ \/ req' = [req EXCEPT ![p].pc = "exchange", ![p].token = grants[g].token]
       \/ Failed(p)
    /\ UNCHANGED <<cache, provider>>

AcquireBusy(p) ==
    LET g == req[p].grant IN
    /\ req[p].pc = "acquire"
    /\ Present(g) /\ Live(g)
    /\ grants[g].lease # None /\ grants[g].held
    /\ Forced(p) \/ g \notin cache[p]
    /\ Failed(p)
    /\ UNCHANGED <<pending, grants, owners, creds, cache, provider, ended, stored>>

(* The stored token cannot be decrypted: revokeGrant, which may fail itself. *)
DecryptFails(p) ==
    LET g == req[p].grant IN
    /\ req[p].pc = "exchange"
    /\ \/ Present(g) /\ SetGrants([grants EXCEPT ![g] = Revoked(@)])
       \/ UNCHANGED <<pending, grants, owners, creds, ended, stored>>
    /\ cache' = [cache EXCEPT ![p] = @ \ {g}]
    /\ Done(p)
    /\ UNCHANGED provider

(* exchangeFirebase: the provider may hand out a newer token, with or        *)
(* without the answer reaching the caller; it may refuse the one it is given. *)
Exchange(p) ==
    LET g == req[p].grant IN
    /\ req[p].pc = "exchange"
    /\ provider' \in {provider} \cup
          {q \in {[provider EXCEPT ![g] = @ + 1]} : provider[g] < MaxToken}
    /\ \E result \in {"fresh", "refused", "unavailable"} :
          /\ result = "refused" => provider' = provider
          /\ req' = [req EXCEPT ![p].pc = "finish", ![p].result = result,
                                ![p].token = IF result = "fresh" THEN provider'[g] ELSE @]
    /\ UNCHANGED <<pending, grants, owners, creds, cache, ended, stored>>

(* The closing transaction runs whatever became of the caller, and only      *)
(* under the lease it took.                                                  *)
HoldsLeaseAny(p, g) == TRUE
HoldsLease(p, g) == grants[g].lease = p

(* What the closing transaction writes: the grant it has just read, never    *)
(* the one read when the lease was taken.                                    *)
Closed(p, g) ==
    LET released == [grants[g] EXCEPT !.lease = None, !.held = FALSE] IN
    CASE req[p].result = "refused" -> Revoked(released)
      [] req[p].result = "unavailable" -> released
      [] OTHER -> [released EXCEPT !.token = req[p].token]

Finish(p) ==
    LET g == req[p].grant IN
    /\ req[p].pc = "finish"
    /\ Present(g) /\ Live(g) /\ HoldsLease(p, g)
    /\ SetGrants([grants EXCEPT ![g] = Closed(p, g)])
    /\ CASE req[p].result = "refused" -> (Done(p) \/ Failed(p)) /\ UNCHANGED cache
         [] req[p].result = "unavailable" -> Failed(p) /\ UNCHANGED cache
         [] OTHER -> \/ /\ Go(p, Returned(p))
                        /\ cache' = [cache EXCEPT ![p] = @ \cup {g}]
                     \/ Failed(p) /\ UNCHANGED cache
    /\ UNCHANGED provider

(* The lease went to somebody else, or the grant ended meanwhile. *)
FinishInvalid(p) ==
    LET g == req[p].grant IN
    /\ req[p].pc = "finish"
    /\ Present(g)
    /\ ~(Live(g) /\ HoldsLease(p, g))
    /\ Done(p)
    /\ UNCHANGED <<pending, grants, owners, creds, cache, provider, ended, stored>>

(* gateway, last transaction: the activity stamp.  The call is forwarded if   *)
(* the grant is still live and refused otherwise; both end the request.      *)
Touch(p) ==
    /\ req[p].pc = "touch"
    /\ Present(req[p].grant)
    /\ Done(p)
    /\ UNCHANGED <<pending, grants, owners, creds, cache, provider, ended, stored>>

-----------------------------------------------------------------------------
(* Faults, clocks and maintenance *)

(* A transaction fails, the client leaves while it waits, or a record it     *)
(* reads was deleted.                                                        *)
Fails(p) ==
    /\ req[p].pc \notin {"idle", "exchange"}
    /\ IF req[p].pc \in {"acquire", "finish"} THEN Failed(p) ELSE Done(p)
    /\ cache' = IF req[p].pc = "giveup" THEN [cache EXCEPT ![p] = @ \ {req[p].grant}] ELSE cache
    /\ UNCHANGED <<pending, grants, owners, creds, provider, ended, stored>>

Crash(p) ==
    /\ req[p] # Idle \/ cache[p] # {}
    /\ Done(p)
    /\ cache' = [cache EXCEPT ![p] = {}]
    /\ UNCHANGED <<pending, grants, owners, creds, provider, ended, stored>>

(* Five minutes before its end a cached ID token is no longer used. *)
SessionExpires(p, g) ==
    /\ g \in cache[p]
    /\ cache' = [cache EXCEPT ![p] = @ \ {g}]
    /\ UNCHANGED <<pending, grants, owners, creds, provider, req, ended, stored>>

(* The fifteen seconds of a lease pass, whoever still works under it. *)
LeaseExpires(g) ==
    /\ grants[g].held
    /\ SetGrants([grants EXCEPT ![g].held = FALSE])
    /\ UNCHANGED <<cache, provider, req>>

(* ExpiresAt or IdleUntil passes; later, a day after ExpiresAt. *)
GrantAges(g) ==
    /\ grants[g].life \in {"live", "lapsed"}
    /\ SetGrants([grants EXCEPT ![g].life = IF @ = "live" THEN "lapsed" ELSE "retired"])
    /\ UNCHANGED <<cache, provider, req>>

(* MaintainAgents on a grant: an ended one loses its token, a retired one    *)
(* its record and its place in the index.                                    *)
MaintainGrant(g) ==
    \/ /\ Present(g) /\ grants[g].life # "retired"
       /\ grants[g].token # None /\ ~Live(g)
       /\ SetGrants([grants EXCEPT ![g] = Revoked(@)])
       /\ UNCHANGED <<cache, provider, req>>
    \/ /\ grants[g].life = "retired"
       /\ grants' = [grants EXCEPT ![g] = [Revoked(@) EXCEPT !.life = "gone"]]
       /\ owners' = [owners EXCEPT ![grants[g].uid] = @ \ {g}]
       /\ NoteEnded /\ NoteStored
       /\ UNCHANGED <<pending, creds, cache, provider, req>>

(* MaintainAgents on a credential: kept, used or not, for as long as the     *)
(* grant could still be live, so that a replay is recognised.                *)
Retained(c) == grants[creds[c].grant].life \notin {"retired", "gone"}

MaintainCredential(c) ==
    /\ creds[c].kind # "deleted" /\ ~Retained(c)
    /\ creds' = [creds EXCEPT ![c].kind = "deleted"]
    /\ UNCHANGED <<pending, grants, owners, cache, provider, req, ended, stored>>

Next ==
    \/ Authorize
    \/ \E h \in DOMAIN pending : PendingExpires(h) \/ Deny(h)
    \/ \E p \in Replica, h \in DOMAIN pending, u \in Uid : ConsentCheck(p, h, u)
    \/ \E p \in Replica : \/ ConsentCommit(p) \/ TokenIssue(p) \/ TokenGiveUp(p)
                          \/ AcquireInvalid(p) \/ AcquireCached(p) \/ AcquireLease(p)
                          \/ AcquireBusy(p) \/ DecryptFails(p) \/ Exchange(p) \/ Finish(p) \/ FinishInvalid(p)
                          \/ Touch(p) \/ Fails(p) \/ Crash(p)
    \/ \E p \in Replica, c \in DOMAIN creds : TokenReplay(p, c) \/ TokenUse(p, c)
    \/ \E c \in DOMAIN creds : MaintainCredential(c)
    \/ \E g \in Grants : \/ RevokeToken(g) \/ LeaseExpires(g) \/ GrantAges(g)
                         \/ MaintainGrant(g)
    \/ \E g \in Grants, p \in Replica : \/ DeleteGrant(p, g) \/ Gateway(p, g)
                                        \/ SessionExpires(p, g)

Spec == Init /\ [][Next]_vars

-----------------------------------------------------------------------------
(* What spends or is about to replace the client's one-use credential. *)
Spendable(g) == {c \in DOMAIN creds : /\ creds[c].grant = g /\ ~creds[c].used
                                      /\ creds[c].kind # "deleted"}
Replacing(g) == {p \in Replica : /\ req[p].pc \in {"acquire", "exchange", "finish", "issue"}
                                 /\ req[p].op = "token" /\ req[p].grant = g}

(* A connection that ended (revoked, replayed, refused by the provider,      *)
(* disconnected, expired or idle too long) never becomes live again, a       *)
(* revoked one keeps no provider token, and no credential is issued for it   *)
(* by a request that began before the end: no closing transaction of         *)
(* firebaseFor and no issuing transaction of token brings it back.           *)
EndedStaysEnded ==
    /\ \A g \in ended : ~Live(g) /\ (grants[g].revoked => grants[g].token = None)
    /\ \A c \in DOMAIN creds : ~creds[c].late

(* Codes and refresh tokens form one chain: a live connection has at most    *)
(* one that is unspent or being replaced, whichever replicas serve the       *)
(* requests and whichever of their commits were reported as errors.  The     *)
(* provider token it stores is the newest ever stored: a rotation that       *)
(* finishes after its lease ran out does not put back an older one.          *)
RotationExact ==
    \A g \in Grants : Live(g) =>
        /\ Cardinality(Spendable(g)) + Cardinality(Replacing(g)) <= 1
        /\ grants[g].token = stored[g]

(* A consent becomes at most one connection, every live connection is in the *)
(* list its owner can disconnect it from, the list names only records that   *)
(* exist, and an account never has more live connections than the quota.     *)
ConnectionsListed ==
    /\ \A u \in Uid : \A g \in owners[u] : Present(g)
    /\ \A g \in Grants : Live(g) => g \in owners[grants[g].uid]
    /\ \A u \in Uid : Cardinality({g \in Grants : grants[g].uid = u /\ Live(g)}) <= Quota
    /\ \A g, k \in Grants : g # k => grants[g].by # grants[k].by
=============================================================================
