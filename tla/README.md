# Flux Drop in TLA+

Flux Drop hosts static sites. A browser or an agent publishes a folder, the server stores
it, names it and serves it. Metadata is a Raft-replicated key/value store changed by
optimistic transactions; content lives on the server's own volume or on a pool of storage
apps whose instances replicate with Syncthing.

This directory models the parts of the program that carry its logic. TLC checks the models
on small instances; TLAPS proves, for every instance, the safety of the authority window, the
writer, transactions, the project repository and upload links, sessions, passwords and agents'
connections, reclamation of storage, lookups for serving, the count of views, the founding of a
cluster, forced recovery and membership.
`PROJECT.json` is the machine-readable index: components, runs, mutants, the map from every
definition to the lines it models, hazards, findings and theorems.

    tlc -workers 2 -config Lease.cfg MCAuthorityLease     # a run
    tlapm PublishingProofs.tla                            # the proofs of a module

## 1. The system

| part | state it keeps | operations | talks to |
| --- | --- | --- | --- |
| state machine (`cluster/state.go`, `kv`) | records with versions, index | apply a checked transaction, read, scan | Raft |
| writer (`cluster/async.go`) | speculative view, journal, queue, lease, failed | ensure, commit, replicate, heartbeat | Raft, state machine, bbolt journal |
| metadata RPC (`cluster/rpc.go`, `transaction_reads.go`) | remembered leader | stamped reads, commit, one redirect | writer of the leader |
| transactions (`metadata/transaction.go`) | reads and writes of one attempt | Get, Set, Run, retry on a known conflict | RPC |
| serving (`metadata/serving.go`) | flights, memory of absences | RunServing | local state machine, leader |
| projects (`project`) | projects, operations, slugs, digests, quotas, indexes, transfers, removals | reserve, activate, abort, claim, rename, privacy, delete, links, revisions, maintenance | transactions |
| sessions (`session`) | sessions, creation budget | create, login, logout, rotate, reap | identity provider, transactions |
| passwords and grants (`project/privacy.go`, `grants.go`, `password`) | password records on disk, grants, budgets | change, unlock, validate | hash workers, transactions |
| storage pool (`storagepool`) | receipts, fences, trees on a volume | reserve, upload, commit, cancel, reclaim; Install, ReclaimObsolete | primaries over HTTPS, Syncthing |
| file cache (`storagepool/file_cache.go`, `fetch.go`, `cache.go`) | entries, idle list, budget, pins, spools, flights | open, download once, keep, hand over, evict, retire | storage instances, Nginx |
| delivery (`httpserver/delivery.go`, `replica`) | caches | serve a page, fall back to a peer | serving, grants, file cache |
| bootstrap (`cluster/automatic.go`) | the list as a node knows it, its directory, a marker | refresh, tick, ask the others, found | discovery, peers |
| membership, enrolment (`cluster/membership.go`, `enrollment.go`, `rejoin.go`) | Raft configuration, admission records, policy floor, controller counters | probe, promote, retire, admit, rejoin, move | Raft, peers |
| forced recovery (`cluster/recovery*.go`, `rejoin_protocol.go`) | intent, generation, receipts, archived histories, watermark on the shared volume | prepare, fork, commit a generation, publish, connect, rejoin | Raft, disk, peers |
| automatic recovery (`cluster/auto_recovery*.go`) | samples, signed policy, request | sample, agree, close, request | discovery, peers |
| agent sign-in (`httpserver/agent_*`) | consents, grants, credentials, the provider's token | authorise, exchange, refresh, revoke, reap | identity provider, transactions |
| upload links (`agent_connections.go`, `publisher.go`) | tickets with their lease and receipt | make a link, upload with it, reap | projects, transactions |
| previews (`preview`) | queue, leased state, public index, images | notify, scan, claim, render, finish | transactions, a browser |
| analytics (`analytics`) | counters, outbox, archive files | record, roll over, flush, accept, compact, sweep | peers, replicated volume |

What is hard, and what makes each part correct:

* **Reads without a quorum round.** A leader serves for 750 ms after a quorum confirmed it.
  This is right only if nobody else can be elected inside that window, whatever the clocks,
  suspends, restarts and leadership transfers do.
* **Acknowledging before replication.** Content changes are acknowledged early, security
  changes are not. A failover may lose the first, never the second, and a policy must never
  be read from a view that Raft has not committed.
* **Indeterminate commits.** A transaction may be repeated only when it certainly did not
  happen.
* **Long operations made of short transactions.** An upload, a login, a password change and
  an unlock read in one transaction, work for seconds, and write in another.
* **Shared bookkeeping.** Counts, charges, names and the digest index are separate records
  that every path must update together, including the clean-up after a client has vanished.
* **Deleting replicated files.** Bytes may be refunded only when no instance, no running
  upload and no replication can bring them back.
* **More than one history.** A forced recovery gives up on quorum intersection. From then on
  only generations, journals on disk and checks on every connection keep two histories apart,
  and a process may stop between any two of their steps.
* **Two records, two commits.** The admission record and the Raft configuration change one
  after the other; so do a credential and the identity provider's token.
* **Work that must end in spite of everything.** Notifications are lost, workers are cut short,
  leases run out, and still every public project gets the image of its present content, every
  lookup an answer and every view is counted once.

`PROJECT.json` lists the hazards at their lines, with the properties that cover them, or the
reason why none does yet.

## 2. Modules

`AuthorityLease` — the authority window. State: Raft's terms, votes and leader contact, the
confirmation rounds in flight, the window with the time since its anchor on both clocks, the
failed flag and a leadership transfer. Actions: StartProof and FinishProof are the round of
heartbeat and ensure, HeartbeatSeesFailed and LeadershipTransfer the two halves of the
heartbeat around its unlock, TransferEnds the end of an attempt to hand over, after which the next
second brings another, Tick the passing of time. A node with a clock fault may be
suspended (its monotonic clock stops) or have its wall clock stepped.

`AsyncWriter` — one writer per node over one Raft log. An election may drop any uncommitted
suffix; a deposed leader may go on believing it leads. `Ensure`, `Enqueue`/`CommitLocal`/
`CommitReplicated`, `CallerDone`/`CallerTimeout` and `WorkerTake` to `WorkerSettle` follow the
functions of `async.go`; `Apply`, `Accepts` and `Fits` follow `state.go`. That no election
succeeds inside another node's window is a guard of `Elect`, and is what `AuthorityLease` is
about. A transfer is sent only while `failed` holds; the stale decision is studied in
`AuthorityLease`.

`Transactions`, `AtomicStore` — a client reads records one by one, stamped by the leader's
term and index (a leader of the previous release sends none), and commits by comparing every
version. The commit is a message that may be lost or redirected, and a content transaction
(`RunContent`) may be acknowledged when only the leader has it on disk: `views` has the leader's
view and what it was before each write that is not replicated yet. `Replicate` confirms the oldest
of them; an election or a fenced leader's new baseline keeps some of them and drops the rest, which
is the loss that `docs/DURABILITY.md` accepts ("possible loss of recently published content after
primary loss"). `AtomicStore` is the promise, with its limits in the open: each call takes effect
at one instant between its call and its return, a refused one never, an unknown one at most once;
the store may lose its latest writes as long as they are local and no replicated write came after
them (`Lose`); and a write that the leader applied and answered with not_leader stands while its
caller may go on as if it did not (`Forget`), which is the finding `transactions_demoted`.
`Transactions` implements it under the mapping in its property `Atomic`.

`Serving` — RunServing in one process whose node applies the log late: lookups, one shared
confirmation per key, callers that wait for it, the bounded memory of absences (a list, newest
first), slots and time-outs. A slot is given back with the end of the confirmation rather than a
moment later.

`Projects` — one action per committed repository transaction. Records are kept field by field
where a rule depends on the field. A name's five suffix lengths are one candidate with the
seed of its project. Deadlines may pass at any moment. Requests that change nothing have no
action.

`Sessions` — login and logout are three-step requests (load, verify with the provider, rotate)
over a sequence of sessions, with a clock for lifetimes and minute budgets. Replicas share one
clock.

`Unlock` — privacy changes and unlock attempts as multi-step requests over one project: read,
hash with a limited number of workers, store the password record, commit. A request is handled by
one primary, with its own workers, and stores and loads records under that primary's own data root;
Syncthing (`Sync`) copies them to the others some time later or never, and a primary may be lost
with its disk (`LoseDisk`). A visitor whose primary has not got the record yet fails. `PasswordDurable`
says that the record a project names is on some disk, unless the primary that wrote it lost its own:
until Syncthing has copied it that is the only copy, and the program promises no more. Grants, budgets
and their reaping included. A change that is refused because an upload is in progress is a change
that fails.

`Reclamation` — one project's versions on the instances of one storage app: the authority's
records, the instances' receipts and fences, the bytes on each volume, Syncthing (external:
an unpaused folder copies anything that neither side ignores), the reclaimer of any primary
and the seven steps of the reclaim handler with crashes, failing calls and stale copies of
requests. `missed` holds the uploads that an instance which joined late is never offered. The wait
of a removal for open readers is not modelled.

`UploadLinks` — an upload by ticket from the handler's first transaction to its deferred last
one: lease, inspection of the target, reservation, installation, activation together with the
receipt. The request may fail or be cut off at every step, commit and report an error, and be
repeated with another body; the lease, the operation and the ticket run out in any order. What
names, contents and quotas refuse is in `Projects` and is here a request that fails. Clocks of
replicas differ, so a lease may lapse while its holder is at work.

`AgentAuth` — consents, connections and their quota, one-use codes and refresh tokens, the
fifteen-second lease on the provider's token, revocation and maintenance. A request is the
sequence of its transactions and of its calls to the provider; a transaction may also commit
and report an error. A spent credential that is presented again ends its connection. An account's
list of connections is the set of its members. Requests read the clock in the step that commits; the
program reads it a moment before its transaction.

`Membership` — the leader's controller (`reconcile`: probe, floor, promote, retire), the
handlers of enrolment, rejoin and new addresses, and the Raft configuration they change. An
operation of a leader that is deposed ends with the election. Keys, certificates and addresses
are abstracted to whether they are the recorded ones. The least number of voters is 1 instead
of 3 so that four hosts show both edges of the policy. The controller's list of absent nodes keeps
those that have left the configuration, as the code's does.

`Genesis` — the unanimous automatic bootstrap. Discovery loses nobody here: where it does, the
marker on the shared volume is the only safeguard, and it reaches other nodes only in time.

`Recovery` — forced singleton recovery in its steps on disk (intent, rewritten history,
generation, commit, watermark), connections bound to a generation, and the rejoin of a node
that was left behind, whose old history is moved away under a journal. An approval may be a minute
old when it is used, so a node may be admitted that has moved on to a later generation since. A crash
may separate any two steps.

`AutoRecovery` — the survivors' samples. A sample asks the listed nodes one after the other
while nodes come and go; a series of equal samples, a signed policy and one last sample precede
the request. Each view is one snapshot of the node that gives it.

`Preview` — the worker of every primary: notification, scan, claim with a lease, rendering,
the final transaction, the index of public projects. Clocks agree, so a lease of one minute
outlives a job of 45 seconds, and the volume has room for the image. A project that goes from
public to private and back between two of the worker's transactions may be missing in the index
until its next change; no property claims otherwise.

`FileCache` — one mutex section is one step: shared downloads with their spools and slots, the
cache's entries, idle list and budget, pins, copies handed to Nginx, eviction, retirement,
damage on disk, failing removals and shutdown. What the last reference to a finished flight leaves,
a pin to release or a spool to unlink, is done in a step of its own, after the lock.

`Analytics` — counting without a lock, rollover of the day, cumulative snapshots with a durable
outbox, delivery to any primary, immutable files that are replicated late, compaction and
sweeping. A sum of views is a number of units.

Four modules put components side by side that share no state, so that they are checked in one run
and proved about in one place: `Accounts` extends `Sessions` with instances of `Unlock`
(`Unlocking`) and `AgentAuth` (`Agents`), `Publishing` extends `Projects` with `UploadLinks`
(`Links`), `Histories` has `Genesis` (`Seed`), `Recovery` (`Rec`) and `Membership` (`Group`),
`Pages` extends `Serving` with `Analytics` (`Views`) and `FileCache` (`Copies`). They repeat the
instances' constants and assumptions and name the instances' properties.

The MC modules give model values, small sets and symmetry. Where modules share no state, or
each models the other's work as far as it depends on it, one MC module explores their instances
side by side: the variable `part` says which of them a behaviour is about, and the others keep
their initial state. `MCPublishing`, `MCSettling`, `MCAccounts`, `MCCluster`, `MCServing` and
`MCPages` are such; fairness is then stated for the part that is explored.

## 3. Runs

| run | what it shows | bounds |
| --- | --- | --- |
| `lease` | an open window excludes an election until a voter is made to forget its leader; even then a superseded leader stops within one window | 3 voters, window and timeout of 1 tick, 2 terms, suspends, restarts, transfers |
| `lease_transfer` (violation) | a transfer decided before ensure cleared the failure lets a superseded leader answer reads | the same, 2 ticks, two proof sources |
| `writer_failover` | acknowledged policy is in every served view, no policy is served before Raft committed it, revisions are unique, what was predicted is what Raft applies, what a serving leader showed is not undone | 2 nodes, 2 terms, 2 revisions a term, one pending |
| `settling` | quotas and transfer links are exact through claims and transfers, uploads and expired projects end; every proposal settles, a fenced leader recovers or gives up, also when it cannot hand over | an anonymous browser that may sign in, 1 key, 2 names, a reserved one, a password; a writer of 1 term, 4 kinds of transactions, queue of 2 |
| `projects_account` | pending uploads, names, the digest index, removed revisions and policy revisions; an upload link publishes at most once, on the revision and with the password it was made for | a browser and an agent of one account, 3 keys, 2 contents, 5 revisions, limit 2; one link with 2 requests, 2 bodies, 2 edits and 2 faults; two links with 2 requests and a fault |
| `upload_link` (violation) | an upload that fails after its reservation uses the link up | the same |
| `accounts` | one live holder of an anonymous owner, no inheritance between accounts; a usable grant was earned with the present password, whose record is on a disk whichever of two concurrent changes won; an ended connection stays ended, a live one has one credential to spend and the newest token; budgets and connection lists hold | sessions: 2 requests at a time, 4 sessions, 2 accounts, 2 minutes of 2 ticks; unlock: 2 primaries, 2 passwords and either 1 change at a time with 1 visitor, 2 minutes, limits of 1 and 2, or 2 tabs and lost disks without visitors; agents: 2 replicas, 2 connections, 3 credentials and 2 tokens, or 2 consents at a time |
| `cluster` | every call refines a transaction on one atomic store that loses at most its latest local writes; one node founds the history, no entry of a fork reaches another and generations are given once (`OneHistory`); one survivor recovers by itself (`RecoveriesApart`); absence never takes the voters below the policy's floor, and a retired node votes again only when admitted again | transactions: 2 clients, 2 nodes (one old), 2 keys, 2 writes, 2 terms, 2 attempts; recovery: 2 nodes, 2 forks, 2 connections, 1 crash from one founder or 2 from two; automatic: 2 survivors, samples of 2, 2 changes; members: 4 hosts, 1 fault, starting with 1 or 3 voters, or with 3 voters and 2 addresses; genesis: 2 nodes, 2 crashes |
| `transactions_demoted` (violation) | a leader demoted between applying and answering makes one call write twice | the transactions above |
| `serving` | denials are fresh, decisions are one's own, every lookup is answered; a live project ends up with the image of its content | 2 requests, 2 keys, 1 slot, memory of 1; 2 replicas, 1 project, 2 changes, 1 fault |
| `pages` | entries, files, idle list, pins and budget of the file cache agree; retries, crashes and late replication never count a view twice, and a captured view stays on a disk until its day expires | 2 readers, 2 files, room for 1 with 2 downloads, 1 fault; 2 days, 2 processes, 2 primaries, 5 views, flushes, midnights and restarts together |
| `reclamation` | a refunded version is nowhere, no version one may roll back to loses its last copy, charge and queue are exact | 2 instances, 2 versions, 1 fault |

The bounds are the smallest in which each hazard's interleaving happens: every property has a
mutant of the code's own definitions (a dropped guard, a missing reset, a wrong anchor) that
TLC rejects under the same configuration. Two terms and three voters are what a handover
needs; two contents, two names and three keys make every collision of the repository
possible; the clocks run over two minutes so that a window closes and reopens.

In `Recovery` two nodes suffice because an entry that crosses from one history to another does
so on one connection. `Membership` needs four hosts: three voters and one that comes and goes.

The bound of `AutoRecovery` is a premise, too: at most as many changes of the surroundings as a
series has samples. A majority that came back and went on between any two samples of each of two
survivors, unseen by both, could let both see a series of equal samples and recover. In the
program that takes an unseen return in every interval of at most 45 seconds for half an hour;
`docs/CLUSTER.md` says of this evidence that it "does not prove global absence".

Bounded terms, clocks, sessions, revisions and faults end a behaviour, so every configuration
sets `CHECK_DEADLOCK FALSE`. Where the program must not come to rest with work undone, a
liveness property says so: `LookupsAnswered`, `PreviewsSettle`, `UploadsSettle`,
`ExpiryFinalized`, `ProposalsSettle`, `FencedLeaderRecovers`.

**Fairness.** Liveness is checked only under fairness of what the program, Raft or time always
does: the replicate goroutine, Raft's commit and apply, a deposed leader's step-down, and ensure,
in one term, so that no election interrupts for ever. Ensure is fair because every primary's
maintenance loop (`project/raft_maintenance.go:217`, each minute) and enrolment loop
(`cluster/enrollment.go:552`, each 15 seconds) read through the leader and thereby call it; that Raft
refuses its barrier during an attempt to hand over is assumed not to hit every call, since attempts
end within a second. The hand-over itself is not fair: its error is ignored (`async.go:86`), and a
single voter or one without a follower that has caught up never succeeds. Nothing is claimed for a
node that fenced itself. Also fair are the maintenance
loop of every primary and the passing of deadlines (`settling`); the confirmation goroutine
with its ten-second context, the callers' own steps, the preview worker, its ticker and the
end of leases and pauses (`serving`). Strong fairness is assumed of two things there: the scan
of a replica, which the ticker repeats although at times it has nothing to add to the queue,
and a rendering that succeeds, since a page is not beyond rendering for ever. No client is assumed to act.

**Findings.** The three violation runs are disagreements between the code and its own comments
or documents; `PROJECT.json` quotes them.

* `lease_transfer`: a successful read need not linearise. It stays bounded by the window
  (`StaleReadsBounded`).
* `transactions_demoted`: one call may write twice. `AtomicStore` allows it only after a write was
  answered with not_leader, so `Atomic` shows that this is the only way.
* `upload_link`: a failed upload can consume its link. The key of the operation is the ticket's
  digest, an operation lives fifteen minutes and a ticket thirty; an operation that is overdue
  or aborted refuses every retry. Nothing wrong is published (`LinkHonoured`).

## 4. Proofs

Eight modules hold theorems, each beside the module it EXTENDS. None of them bounds anything:
sets of nodes, clients, keys, sessions, projects and passwords are arbitrary, and so are the
limits, terms and clocks that the runs keep small. A proof module first states its inductive
invariant as a conjunction of named parts, then lemmas about the operators and frames, one lemma
per action, and the theorems.

| module | about | theorem | states |
| --- | --- | --- | --- |
| `AuthorityLeaseProofs` | `AuthorityLease` | `WindowsExclude`, `StaleBounded`, `TypesHold` | `WindowExcludesElection`, `StaleReadsBounded`, `TypeOK` |
| `AsyncWriterProofs` | `AsyncWriter` | `RevisionsUnique`, `NoPolicySpeculated`, `AckedPoliciesServed`, `ServedViewsAdvance`, `SpeculationsSound`, `TypesHold` | every property of `writer_failover` |
| `TransactionsProofs` | `Transactions` | `ImplementsAtomicStore` | `Transactions` implements `AtomicStore` |
| `PublishingProofs` | `Projects` | `NamesStayHeld`, `LinksStayCurrent`, `ContentsUnique`, `RemovedStayUnserved`, `PendingStaysExact`, `AccessBumpsPolicy`, `CountsStayExact`, `QuotasStayExact`, `TypesHold` | every safety property of `Projects` |
| | `UploadLinks` | `LinksHonoured` | `LinkHonoured` |
| `AccountsProofs` | `Sessions` | `OwnersHeldOnce`, `NothingInherited`, `SessionBudgetsHold`, `TypesHold` | `OwnerHeldOnce`, `NoInheritance`, the limits of a minute |
| | `Unlock` | `GrantsBacked`, `PasswordsDurable`, `AttemptsLimited`, `UnlockTypesHold` | `GrantBacked`, `PasswordDurable`, the attempts of a minute |
| | `AgentAuth` | `EndedForGood`, `RotationsExact`, `ConnectionsStayListed` | `EndedStaysEnded`, `RotationExact`, the lists and their quota |
| | all three | `LimitsKept` | `BudgetsKept` |
| `ReclamationProofs` | `Reclamation` | `Reclaimed`, `Held`, `Ledger`, `Types` | `ReclaimedGone`, `BytesHeld`, `LedgerExact` |
| `ServingProofs` | `Serving` | `Fresh`, `Decisions`, `TypesHeld` | `DenialsFresh`, `OwnDecision` |
| | `Analytics` | `ViewsStayCounted` | `ViewsCountedOnce` |
| | `FileCache` | `CopiesStayExact` | `CacheExact` |
| `HistoriesProofs` | `Genesis`, `Recovery` | `OneFounder`, `HistoriesStayApart`, `GenerationsOnce`, `OneHistoryKept` | `OneHistory` |
| | `Membership` | `FloorStaysKept`, `VotesAdmitted` | `FloorKept`, `VoteAdmitted` |

**The authority window.** Quorum intersection is the only fact about quorums
(`QuorumAssumption`), and the window is no longer than Raft's time-out (`WindowAssumption`). On
the clock of a node that does not misbehave, an anchor has an age `Real`. The heart of `Inv` is
`WindowsRefuse`: behind an open window stands a quorum whose voters still refuse to vote, the age
of the anchor and the rest of their refusal adding up to the time-out, and no later candidate has
their votes. `RoundsRefuse` says the same of the acknowledgements of a round in flight, which
become a window; `Elections` is the usual safety of votes. All of that holds until a voter is
made to forget its leader (`forgot`). `StaleReadsBounded` does not need that: `RoundsOlder` and
`WindowsOlder` say that a superseded leader's window is at least as old as the leader is stale,
because a quorum that has moved on can acknowledge no new round.

**The writer.** `Inv` has the leaders of terms, the issue of revisions (what is in the log, the
queue and the worker was issued in order by the one leader of its term, and a restart issues
nothing again: `Used`), the committed history as the fold of the log, the security commit that
waits with its preview, and the views: a view shows committed policy, and the present leader's
shows all that was acknowledged. Two more layers rest on it. `Waits` has the journal, the queue's
bounds and the order between a view and what is queued behind it, which `TypeOK` and
`ServedViewNeverRegresses` need. `Predicted` is the invariant of the speculation: there is a
sequence of states, one before each entry of the log, in which every command of its own term is
accepted, and the view of a leader that has not failed is the last of them with what it has
queued applied. A committed command is therefore one that its leader saw accepted
(`SpeculationsSound`).

**Transactions.** The mapping takes a call's effect to the moment its commit applies, or, for a
call that only reads, to its last read. No revision is given twice, so that views are told apart by
their index, also after local writes were lost (`ViewsOrdered`); a view that was built anew has the
log's index, which differs from every revision (`rebuilt`). `StampCurrent` says that what was read
under a stamp is what the view with that index holds, if the leader may still go back to it, so that
what was read under the present stamp is current. `EffectOnce`: a request still on its way belongs to
a call that has not taken effect, unless its answer says so. A replicated write leaves nothing before
it in `views`, so what `Elect` and `Rebuild` drop is what `Lose` may drop. `ImplementsAtomicStore`
assumes `Premises`: `None` is none of the values it stands beside.

**The project repository.** Four layers. `Inv` (types, `OpsKnown`, `PendingNotDeleted`,
`NamesHeld`, `LinksKnown`, `LinksCurrent`) is inductive: an activation or abort reaches its
project through the operation, ending an upload must not bring back a deleted project whose name
may have a new holder, and `chooseSlug` only takes a slug whose holder is none, deleted or the
project itself (`ChosenIsFree`). `Settled` adds how a pending operation, its project and the
digest index name one another (`UploadOK`, `ProjectOK`); an expired project is the exception, whose
claim may be taken over. `Counted` adds that an owner's index lists its reserved and active
projects and the count is their number. The last layer is about bytes: what a project and its
owner are charged is the number of units that the project's operations charged and nothing has
refunded. A sum over operations is stated as the number of members of a set of units, so that the
theorems about cardinality suffice where a fold would need induction. The lemmas named
`...Effect` say what an action does to the records of one project, so that each layer reasons
about projects one at a time. That maintenance never stops at an operation it cannot abort
(`PendingExact`) needs the first three.

**Upload links.** `LinkKept`: a link's receipt is its one publication, on the link's revision and
with its privacy. `UploadsBased` and `PutKept` carry that from the ticket to the operation and to a
request that may be a repetition with another body.

**Sessions and passwords.** `RequestsTrue`: what a request read before the provider answered still
holds of its session unless the session is gone, since owner and account of a session never
change. `HolderLast`: while a live session has no account, no session of its owner has one. In
`Unlock`, `PasswordKept` and `Kept` say that the record of the password in force, and the one a
change is about to select, are on a disk or their maker's disk is lost, which changes of other tabs,
copies and losses keep; `GrantsOfPolicy` ties a grant's password to the policy revision, `AttemptsVerified` a
visitor's second transaction to a password that was compared, `BudgetsCount` a budget record to
the attempts of the present minute, through reaping and recreation. The budget of a browser's
sessions moves with every rotation to another record: `MeterInv` says that one unrevoked record
of a lineage counts, that a request reads the clock after that record was made, and that a
bucket lets through no more than its count and what late requests may still add.

**Agents' connections.** Only the holder of the lease stores a provider token, and under its lease
nothing newer was stored since it asked the provider; the request that spends a credential is the
only one to replace it. An ended connection has nothing that a later transaction could write back.
`ListInv`: only an open consent becomes a connection and is used up by that, and an account's list
is the set of its connections that are still recorded, every live one among them, so that the
quota that is compared with the list bounds the live ones.

**Reclamation.** The members of a version that is being reclaimed are fixed. A member passes the
handler's second look only while the folder has exactly these members, is paused and ignores the
version; whoever joins after one has passed comes too late to be offered the upload. Once all have
passed, nobody else has a copy and no stale request, upload or replication can make one. `Held`
needs the converse: what an owner may go back to is never in a queue, and as long as it is not, one
confirmed instance has it.

**Serving.** The absence that a caller is told of was one at the leader since the confirmation
began (`FlightsHeld`) or is remembered no longer than its time limit after such a reading
(`ListHeld`), wherever the list drops or refreshes its entries; a shared confirmation gives records
and absences, and `RequestsHeld` has each caller's own decision on them.

**The count of views.** Everything is ordered by the revision of a day. A view is counted before
the revision is raised, so that the counter is the revision and the number of calls in between; a
capture reads the revision first, so that a snapshot has at least the views of its revision
(`SnapsHeld`, `CaptureHeld`). What the collector marks, and every name an archive has deleted, is
covered by a snapshot on some disk with at least, or more than, that revision (`KeptHeld`,
`RemovedHeld`), which acknowledgements, compaction and replication in any order keep. That nothing
is counted twice rests on one file per name (`NamesOnce`) and an injection of the archive's units
into those that were served.

**Local copies.** `CacheExact` is about names on disk; `CopiesInv` accounts for who holds them. The
references of a flight are the requests that ride on it (`RefsExact`), so that it is taken down
once and by the last of them. The pins of a file are the requests that found it in the cache, the
flight that holds it and the releases still to come (`PinsExact`); a pinned file is therefore an
entry that is not in the idle list, and no eviction, failed lookup or shutdown takes its name. A
spool has one owner: a download in progress, a flight, a cleanup or the list of orphans
(`SpoolBooks`), so that its reservation is freed once. The idle list names each unpinned entry
once; what an eviction takes is the end of that list, given by the number of turns of the loop
instead of a recursion, and a sum of sizes is a number of files.

**Founding and recovery.** `Guarded`: once there is a founder, some listed node with a log keeps
everybody who sees that part of the list from founding: whoever is asking the others has not asked
it yet, or has a log of its own. The argument uses that ranks are numbers and that what nodes are
told are prefixes of one list; discovery that loses nodes is outside the model. In `Recovery` a
fork is one node's, unnamed and spoken for to nobody until its journal is done; its lineage is
drawn once, so that names differ as forks do. A node that speaks by a name has a history of that
fork, also while it resets an older one under its journal, and a connection, which is bound to one
name, carries entries of one fork.

**Members.** `WorkRight` and `ChangeRight`: what the controller decided, and a change that is
under way, stay right until they are done, because a pending change keeps the controller from
deciding anew and what others change in between gives and takes no vote.

**Assumptions.** Every assumption a proof uses is a named ASSUME of the module. Where a module is
explored as an instance, the module that extends it assumes the instance's (`UnlockingAssumption`,
`AgentsAssumption`, `LinksAssumed`, `HistoriesAssumption`, `ViewsAssumed`, `CopiesAssumed`), so that TLC evaluates
all of them; only `Premises` is about infinite sets and stays a hypothesis. They say what constants
are (numbers, subsets, finite sets of nodes, that `None` is no other value), that quorums
intersect, and that the window is no longer than the time-out.

**Only model-checked.** Liveness, which rests on fairness and ENABLED: `LookupsAnswered`,
`PreviewsSettle`, `UploadsSettle`, `ExpiryFinalized`, `ProposalsSettle`, `FencedLeaderRecovers`.
`RecoveriesApart`, which holds only
while surroundings change as slowly as section 3 says. `AuthorityLease` and `AsyncWriter` are
proved apart: that no election succeeds inside a window is a guard of the one and a theorem of the
other.

## 5. Not modelled

Content ingestion, certificates, configuration, dashboards, web pages, metadata backups and
start-up are file formats, I/O or formatting. The Firestore back end is a second implementation
that the runtime does not use. Raft, Syncthing, Nginx, discovery, the identity provider, the
rendering browser and clocks are external and modelled by what the code sees of them.
Digest-addressed versions of the first storage layout (no generation), the byte arithmetic of
allocations and the audited upgrade of allocations are left out of `Reclamation`. The write gate
of a fenced voter change, registration of agent clients, the life of agent keys and the caches
of local versions and open files have no module yet. That a folder which Drop paused is resumed
after a failed repetition of a reclamation (`storagepool/reclamation.go:98`) has its steps in
`Reclamation` but no property: it takes two faults in one behaviour, beyond the run's bound.

## 6. Plan

1. `AuthorityLease` and `AsyncWriter` composed: the guard of `Elect` as an instance of
   `WindowExcludesElection`.
2. Modelling: page delivery over `Serving`, `Unlock` and the caches of versions and descriptors;
   the accounting upgrade and liveness of reclamation; agent keys and clients.
3. `AutoRecovery`: which rate of unseen returns the series of samples excludes, as an assumption
   under which `RecoveriesApart` can be proved.
