---------------------------- MODULE AsyncWriter ----------------------------
(***************************************************************************)
(* The leader-only speculative writer of internal/cluster/async.go over    *)
(* the replicated state machine of internal/cluster/state.go.              *)
(*                                                                         *)
(* Every node runs one writer.  On the Raft leader it keeps a `view': a    *)
(* committed baseline plus the content transactions it has acknowledged    *)
(* before Raft replicated them.  Security transactions are acknowledged    *)
(* only after Raft has committed them.  A single worker (replicate) feeds  *)
(* the queue to Raft in order.  Any doubt sets `failed', which fences the  *)
(* view until `ensure' rebuilds it from a committed baseline.              *)
(*                                                                         *)
(* HashiCorp Raft is external.  It is modelled by what the writer sees of  *)
(* it: one log, of which an election may drop any uncommitted suffix, a    *)
(* committed prefix, and nodes that may go on believing they lead a term   *)
(* that is over.  That no election succeeds while another node's authority *)
(* window is open is the subject of module AuthorityLease and is a guard   *)
(* of Elect here.                                                          *)
(***************************************************************************)
EXTENDS Naturals, Sequences, FiniteSets

CONSTANTS
    Node,        \* the Raft voters
    Key,         \* metadata records
    Projects,    \* keys holding the content fields of project records
    Digests,     \* keys a content transaction may delete
    Secure,      \* security fields and protected collections
    Internal,    \* keys of the cluster_ collections
    Shapes,      \* the transactions the application issues
    MaxRecords,  \* maxRecords of state.go
    MaxPending,  \* maxPendingContent of async.go
    MaxTerm,     \* bound: Raft terms explored
    MaxSeq,      \* bound: revisions issued per term
    None

Shape == [reads : SUBSET Key, writes : SUBSET Key, dels : SUBSET Key, hint : BOOLEAN]

ASSUME KeysAssumption ==
    /\ Projects \subseteq Key /\ Digests \subseteq Key
    /\ Secure \subseteq Key /\ Internal \subseteq Secure
    /\ Projects \cap Secure = {} /\ Digests \cap Secure = {}

\* What validateTransaction accepts: every written key is also checked.
ASSUME ShapesAssumption ==
    /\ Shapes \subseteq Shape
    /\ \A s \in Shapes : s.writes # {} /\ s.writes \subseteq s.reads /\ s.dels \subseteq s.writes

ASSUME BoundsAssumption ==
    /\ MaxRecords \in Nat /\ MaxPending \in Nat \ {0}
    /\ MaxTerm \in Nat /\ MaxSeq \in Nat

VARIABLES
    elections,  \* elections[t]: the node Raft elected in term t
    log,        \* log of the latest leader
    hist,       \* hist[i+1]: the state machine after the first i entries, all committed
    applied,    \* applied[n]: number of log entries node n's state machine has consumed
    believes,   \* believes[n]: the term node n thinks it leads, 0 for a follower
    voters,     \* number of voters in the Raft configuration, 1 or 2 (two or more)
    view,       \* asyncWriter.view
    wterm,      \* asyncWriter.term
    seq,        \* asyncWriter.sequence
    leaseTerm,  \* asyncWriter.leaseTerm while the authority window is open, else 0
    failed,     \* asyncWriter.failed
    journal,    \* revisions in the fsynced bucket pending-v1
    queue,      \* asyncWriter.queue
    worker,     \* the proposal the replicate goroutine holds
    caller,     \* the security commit waiting on proposal.done (it holds writeMu)
    ackedSec    \* ghost: last security revision acknowledged per key

raftVars   == <<elections, log, hist, applied, believes, voters>>
writerVars == <<view, wterm, seq, leaseTerm, failed, journal, queue, worker, caller>>
vars == <<elections, log, hist, applied, believes, voters, view, wterm, seq, leaseTerm,
          failed, journal, queue, worker, caller, ackedSec>>

-----------------------------------------------------------------------------
(* Revisions and records.  term<<32|sequence is a pair: both halves are kept *)
(* within 32 bits by ensure and commit, so the packing is injective.         *)

Rev    == Nat \X Nat
NoRev  == <<0, 0>>
RevLeq(a, b) == a[1] < b[1] \/ (a[1] = b[1] /\ a[2] <= b[2])

\* A deleted record is absent (version 0); rev still names the deleting
\* transaction so that the properties can order it.
Record == [rev : Rev, live : BOOLEAN]
Version(r) == IF r.live THEN r.rev ELSE NoRev
States == [Key -> Record]
NoRecords == [k \in Key |-> [rev |-> NoRev, live |-> FALSE]]

Transaction ==
    [rev : Rev, checks : SUBSET (Key \X Rev), writes : SUBSET Key,
     dels : SUBSET Key, local : BOOLEAN]

Entry == [term : Nat, cmd : Transaction]

-----------------------------------------------------------------------------
(* state.Apply *)

Install(s, cmd) ==
    [k \in Key |-> IF k \in cmd.writes
                   THEN [rev |-> cmd.rev, live |-> k \notin cmd.dels]
                   ELSE s[k]]

Fits(s) == Cardinality({k \in Key : s[k].live}) <= MaxRecords

\* The revision fence, the version checks and the capacity check of Apply.  A
\* command without a revision passes the fence in the code; the writer never
\* issues one, and commitRaft, which does, is only used by a node without a writer.
Accepts(s, cmd, term) ==
    /\ cmd.rev[1] = term /\ cmd.rev[2] # 0
    /\ \A c \in cmd.checks : Version(s[c[1]]) = c[2]
    /\ Fits(Install(s, cmd))

Apply(s, cmd, term) == IF Accepts(s, cmd, term) THEN Install(s, cmd) ELSE s

-----------------------------------------------------------------------------
Term == Len(elections)
Committed == Len(hist) - 1

\* asyncWriter.authoritative: State() = Leader and CurrentTerm() = leaseTerm
\* inside the window.  A self-fenced node is one whose window is closed.
Authoritative(n) == believes[n] # 0 /\ leaseTerm[n] = believes[n]

\* The fast path of ensure and of readSnapshot: the view may be served.
Serving(n) == wterm[n] = believes[n] /\ ~failed[n] /\ Authoritative(n)

\* asyncWriter.outstanding
Outstanding(n) == Len(queue[n]) + IF worker[n] = None THEN 0 ELSE 1

\* localContentAllowed: the hint cannot downgrade security fields, protected
\* collections or deletions, and some project must be written.
LocalContentAllowed(s) ==
    /\ s.hint
    /\ s.writes \cap Secure = {}
    /\ s.dels \subseteq Digests
    /\ s.writes \cap Projects # {}

Init ==
    /\ elections = <<>> /\ log = <<>> /\ hist = <<NoRecords>>
    /\ applied = [n \in Node |-> 0]
    /\ believes = [n \in Node |-> 0]
    /\ voters = 1
    /\ view = [n \in Node |-> NoRecords]
    /\ wterm = [n \in Node |-> 0]
    /\ seq = [n \in Node |-> 0]
    /\ leaseTerm = [n \in Node |-> 0]
    /\ failed = [n \in Node |-> FALSE]
    /\ journal = [n \in Node |-> {}]
    /\ queue = [n \in Node |-> <<>>]
    /\ worker = [n \in Node |-> None]
    /\ caller = [n \in Node |-> None]
    /\ ackedSec = [k \in Key |-> NoRev]

-----------------------------------------------------------------------------
(* Raft as the writer sees it (external) *)

\* A follower wins an election after the authority window of every other node
\* closed; the entries it lacks, none of them committed, are lost.
Elect(n) ==
    /\ Term < MaxTerm
    /\ believes[n] = 0
    /\ \A m \in Node \ {n} : ~Authoritative(m)
    /\ elections' = Append(elections, n)
    /\ believes' = [believes EXCEPT ![n] = Term + 1]
    /\ \E k \in Committed..Len(log) : log' = SubSeq(log, 1, k)
    /\ UNCHANGED <<hist, applied, voters, writerVars, ackedSec>>

StepDown(n) ==
    /\ believes[n] # 0
    /\ believes' = [believes EXCEPT ![n] = 0]
    /\ UNCHANGED <<elections, log, hist, applied, voters, writerVars, ackedSec>>

RaftCommit ==
    /\ Committed < Len(log)
    /\ LET e == log[Committed + 1]
       IN  hist' = Append(hist, Apply(hist[Len(hist)], e.cmd, e.term))
    /\ UNCHANGED <<elections, log, applied, believes, voters, writerVars, ackedSec>>

FsmApply(n) ==
    /\ applied[n] < Committed
    /\ applied' = [applied EXCEPT ![n] = @ + 1]
    /\ UNCHANGED <<elections, log, hist, believes, voters, writerVars, ackedSec>>

VoterJoins ==
    /\ voters = 1
    /\ voters' = 2
    /\ UNCHANGED <<elections, log, hist, applied, believes, writerVars, ackedSec>>

-----------------------------------------------------------------------------
(* heartbeat *)

\* VerifyLeader succeeds only on the node that still leads.
RenewLease(n) ==
    /\ believes[n] # 0 /\ believes[n] = Term
    /\ leaseTerm[n] # Term
    /\ leaseTerm' = [leaseTerm EXCEPT ![n] = Term]
    /\ UNCHANGED <<raftVars, view, wterm, seq, failed, journal, queue, worker, caller, ackedSec>>

\* authorityTimeValid turns false, or the recovery manager fences the node.
LeaseExpires(n) ==
    /\ leaseTerm[n] # 0
    /\ leaseTerm' = [leaseTerm EXCEPT ![n] = 0]
    /\ UNCHANGED <<raftVars, view, wterm, seq, failed, journal, queue, worker, caller, ackedSec>>

\* A failed leader hands leadership to a follower that has its whole log.  It
\* may still believe it leads its old term afterwards.  At the bound MaxTerm it
\* only steps down.  The heartbeat ignores the result, and nothing promises that
\* a transfer ever succeeds.
TransferLeadership(n) ==
    /\ failed[n] /\ believes[n] # 0 /\ believes[n] = Term
    /\ \/ /\ Term < MaxTerm
          /\ \E m \in Node \ {n} :
                /\ believes[m] = 0
                /\ elections' = Append(elections, m)
                /\ believes' = [believes EXCEPT ![m] = Term + 1]
       \/ /\ Term = MaxTerm
          /\ believes' = [believes EXCEPT ![n] = 0]
          /\ UNCHANGED elections
    /\ UNCHANGED <<log, hist, applied, voters, writerVars, ackedSec>>

-----------------------------------------------------------------------------
(* ensure, slow path *)

\* Mutant of BaselineReady: the rebuild runs without the Barrier.
BaselineNoBarrier(n) == Outstanding(n) = 0

\* No future outstanding, and Barrier passed: the whole log is committed and
\* consumed here.
BaselineReady(n) ==
    /\ Outstanding(n) = 0
    /\ Committed = Len(log) /\ applied[n] = Len(log)

\* Mutant of FirstSequence: every rebuild restarts the sequence.
SequenceRestarts(n) == 0

\* The sequence restarts only in a new term.
FirstSequence(n) == IF wterm[n] # Term THEN 0 ELSE seq[n]

\* Mutant of NeedsBaseline: a baseline is built once per term, as ensure's comment says.
NeedsBaselineOnce(n) == wterm[n] # Term

\* The fast path does not apply: a new term, or a view that failed in this one.
NeedsBaseline(n) == wterm[n] # Term \/ failed[n]

\* Leadership verified; the journal of the previous view is discarded.
Ensure(n) ==
    /\ believes[n] # 0 /\ believes[n] = Term
    /\ NeedsBaseline(n)
    /\ BaselineReady(n)
    /\ leaseTerm' = [leaseTerm EXCEPT ![n] = Term]
    /\ view' = [view EXCEPT ![n] = hist[applied[n] + 1]]
    /\ journal' = [journal EXCEPT ![n] = {}]
    /\ seq' = [seq EXCEPT ![n] = FirstSequence(n)]
    /\ wterm' = [wterm EXCEPT ![n] = Term]
    /\ failed' = [failed EXCEPT ![n] = FALSE]
    /\ UNCHANGED <<raftVars, queue, worker, caller, ackedSec>>

-----------------------------------------------------------------------------
(* commit *)

NextRev(n) == <<wterm[n], seq[n] + 1>>

\* The command commit builds when the client's versions match the view.
Command(n, s) ==
    [rev |-> NextRev(n),
     checks |-> {<<k, Version(view[n][k])>> : k \in s.reads},
     writes |-> s.writes, dels |-> s.dels, local |-> LocalContentAllowed(s)]

\* Mutant of CanCommit: writeMu is released while a security commit waits.
CanCommitUnlocked(n, s) ==
    /\ Serving(n)
    /\ LocalContentAllowed(s) \/ voters >= 2 \/ s.writes \subseteq Internal
    /\ seq[n] < MaxSeq

\* commit up to w.sequence++: writeMu free, ensure passed, versions matched and,
\* for user and security state, a second voter exists.
CanCommit(n, s) ==
    /\ caller[n] = None
    /\ Serving(n)
    /\ LocalContentAllowed(s) \/ voters >= 2 \/ s.writes \subseteq Internal
    /\ seq[n] < MaxSeq

Preflight(n, s) == Accepts(view[n], Command(n, s), wterm[n])

JournalHasRoom(n) == Cardinality(journal[n]) < MaxPending

\* Over capacity: an error, but the revision is used up.
CommitRefused(n, s) ==
    /\ CanCommit(n, s)
    /\ ~Preflight(n, s) \/ ~JournalHasRoom(n)
    /\ seq' = [seq EXCEPT ![n] = @ + 1]
    /\ UNCHANGED <<raftVars, view, wterm, leaseTerm, failed, journal, queue, worker, caller, ackedSec>>

\* The authority window closed while the journal was being synced.
CommitFenced(n, s) ==
    /\ CanCommit(n, s) /\ Preflight(n, s) /\ JournalHasRoom(n)
    /\ seq' = [seq EXCEPT ![n] = @ + 1]
    /\ journal' = [journal EXCEPT ![n] = @ \cup {NextRev(n)}]
    /\ leaseTerm' = [leaseTerm EXCEPT ![n] = 0]
    /\ failed' = [failed EXCEPT ![n] = TRUE]
    /\ UNCHANGED <<raftVars, view, wterm, queue, worker, caller, ackedSec>>

\* Journal and enqueue.  The channel has the journal's capacity and is never
\* full here (QueueHasRoom), so commit's ErrCapacity arm cannot be taken.
Enqueue(n, s) ==
    /\ CanCommit(n, s) /\ Preflight(n, s) /\ JournalHasRoom(n)
    /\ seq' = [seq EXCEPT ![n] = @ + 1]
    /\ journal' = [journal EXCEPT ![n] = @ \cup {NextRev(n)}]
    /\ queue' = [queue EXCEPT ![n] = Append(@, Command(n, s))]

\* Content: acknowledged at once, visible in the view at once.
CommitLocal(n, s) ==
    /\ LocalContentAllowed(s)
    /\ Enqueue(n, s)
    /\ view' = [view EXCEPT ![n] = Install(@, Command(n, s))]
    /\ UNCHANGED <<raftVars, wterm, leaseTerm, failed, worker, caller, ackedSec>>

\* Mutant of CommitReplicated: the preview is published before Raft commits it.
CommitReplicatedEarly(n, s) ==
    /\ ~LocalContentAllowed(s)
    /\ Enqueue(n, s)
    /\ view' = [view EXCEPT ![n] = Install(@, Command(n, s))]
    /\ caller' = [caller EXCEPT ![n] = [cmd |-> Command(n, s), result |-> "pending",
                                        preview |-> Install(view[n], Command(n, s))]]
    /\ UNCHANGED <<raftVars, wterm, leaseTerm, failed, worker, ackedSec>>

\* Security: the caller keeps writeMu and waits; the view does not change yet.
CommitReplicated(n, s) ==
    /\ ~LocalContentAllowed(s)
    /\ Enqueue(n, s)
    /\ caller' = [caller EXCEPT ![n] = [cmd |-> Command(n, s), result |-> "pending",
                                        preview |-> Install(view[n], Command(n, s))]]
    /\ UNCHANGED <<raftVars, view, wterm, leaseTerm, failed, worker, ackedSec>>

\* case err := <-p.done
CallerDone(n) ==
    /\ caller[n] # None /\ caller[n].result # "pending"
    /\ caller' = [caller EXCEPT ![n] = None]
    /\ LET c == caller[n].cmd
           sameTerm == wterm[n] = c.rev[1]
           publish == Authoritative(n) /\ sameTerm /\ ~failed[n]
       IN  \/ /\ caller[n].result = "error"
              /\ UNCHANGED <<view, failed, ackedSec>>
           \/ /\ caller[n].result = "ok" /\ publish
              /\ view' = [view EXCEPT ![n] = caller[n].preview]
              /\ ackedSec' = [k \in Key |-> IF k \in c.writes THEN c.rev ELSE ackedSec[k]]
              /\ UNCHANGED failed
           \/ /\ caller[n].result = "ok" /\ ~publish
              /\ failed' = [failed EXCEPT ![n] = @ \/ sameTerm]
              /\ UNCHANGED <<view, ackedSec>>
    /\ UNCHANGED <<raftVars, wterm, seq, leaseTerm, journal, queue, worker>>

\* Mutant of CallerTimeout: the caller gives up without fencing the view.
CallerTimeoutUnfenced(n) ==
    /\ caller[n] # None
    /\ caller' = [caller EXCEPT ![n] = None]
    /\ UNCHANGED <<raftVars, view, wterm, seq, leaseTerm, failed, journal, queue, worker, ackedSec>>

\* case <-ctx.Done(): the write may commit later, so the view is fenced.
CallerTimeout(n) ==
    /\ caller[n] # None
    /\ caller' = [caller EXCEPT ![n] = None]
    /\ failed' = [failed EXCEPT ![n] = TRUE]
    /\ UNCHANGED <<raftVars, view, wterm, seq, leaseTerm, journal, queue, worker, ackedSec>>

-----------------------------------------------------------------------------
(* replicate *)

\* Receive a proposal and decide under mu whether it is still valid.
WorkerTake(n) ==
    /\ queue[n] # <<>> /\ worker[n] = None
    /\ LET c == Head(queue[n])
           valid == wterm[n] = c.rev[1] /\ ~failed[n] /\ Authoritative(n)
       IN  worker' = [worker EXCEPT ![n] =
                        [cmd |-> c, stage |-> IF valid THEN "propose" ELSE "failed",
                         term |-> 0, at |-> 0]]
    /\ queue' = [queue EXCEPT ![n] = Tail(@)]
    /\ UNCHANGED <<raftVars, view, wterm, seq, leaseTerm, failed, journal, caller, ackedSec>>

\* raft.Apply, outside mu: the node may have lost and regained leadership since
\* the validity check, and the entry then carries the new term.
WorkerPropose(n) ==
    /\ worker[n] # None /\ worker[n].stage = "propose"
    /\ believes[n] # 0 /\ believes[n] = Term
    /\ log' = Append(log, [term |-> Term, cmd |-> worker[n].cmd])
    /\ worker' = [worker EXCEPT ![n] =
                    [cmd |-> @.cmd, stage |-> "wait", term |-> Term, at |-> Len(log) + 1]]
    /\ UNCHANGED <<elections, hist, applied, believes, voters, view, wterm, seq, leaseTerm,
                   failed, journal, queue, caller, ackedSec>>

\* Mutant of WorkerLost: a future whose leader stepped down is never failed.
WorkerLostUnsent(n) ==
    /\ worker[n] # None /\ worker[n].stage = "propose"
    /\ worker' = [worker EXCEPT ![n].stage = "failed"]
    /\ UNCHANGED <<raftVars, view, wterm, seq, leaseTerm, failed, journal, queue, caller, ackedSec>>

\* The future fails: not enqueued (not leader, transfer in progress, timeout),
\* or leadership lost with the entry's fate unknown.
WorkerLost(n) ==
    /\ worker[n] # None
    /\ \/ worker[n].stage = "propose"
       \/ worker[n].stage = "wait" /\ believes[n] # worker[n].term
    /\ worker' = [worker EXCEPT ![n].stage = "failed"]
    /\ UNCHANGED <<raftVars, view, wterm, seq, leaseTerm, failed, journal, queue, caller, ackedSec>>

\* The future succeeded: this node's state machine consumed the entry.
WorkerAnswered(n) ==
    /\ worker[n].stage = "wait" /\ believes[n] = worker[n].term
    /\ worker[n].at <= applied[n]
    /\ log[worker[n].at] = [term |-> worker[n].term, cmd |-> worker[n].cmd]

\* The locked section after the future: drop the journal entry on success
\* (which may itself fail), fence the view on error, then signal done.
WorkerSettle(n) ==
    /\ worker[n] # None
    /\ worker[n].stage = "failed" \/ WorkerAnswered(n)
    /\ \E synced \in BOOLEAN :
        LET w  == worker[n]
            ok == /\ w.stage = "wait"
                  /\ Accepts(hist[w.at], w.cmd, w.term)
                  /\ synced
        IN  /\ journal' = [journal EXCEPT ![n] = IF ok THEN @ \ {w.cmd.rev} ELSE @]
            /\ failed' = [failed EXCEPT ![n] = @ \/ (~ok /\ wterm[n] = w.cmd.rev[1])]
            /\ caller' = IF caller[n] # None /\ caller[n].cmd = w.cmd
                         THEN [caller EXCEPT ![n].result = IF ok THEN "ok" ELSE "error"]
                         ELSE caller
    /\ worker' = [worker EXCEPT ![n] = None]
    /\ UNCHANGED <<raftVars, view, wterm, seq, leaseTerm, queue, ackedSec>>

-----------------------------------------------------------------------------
\* Process restart: only Raft's log and the journal survive.
Restart(n) ==
    /\ believes' = [believes EXCEPT ![n] = 0]
    /\ applied' = [applied EXCEPT ![n] = 0]
    /\ view' = [view EXCEPT ![n] = NoRecords]
    /\ wterm' = [wterm EXCEPT ![n] = 0]
    /\ seq' = [seq EXCEPT ![n] = 0]
    /\ leaseTerm' = [leaseTerm EXCEPT ![n] = 0]
    /\ failed' = [failed EXCEPT ![n] = FALSE]
    /\ queue' = [queue EXCEPT ![n] = <<>>]
    /\ worker' = [worker EXCEPT ![n] = None]
    /\ caller' = [caller EXCEPT ![n] = None]
    /\ UNCHANGED <<elections, log, hist, voters, journal, ackedSec>>

Worker(n) == WorkerTake(n) \/ WorkerPropose(n) \/ WorkerLost(n) \/ WorkerSettle(n)

Next ==
    \/ RaftCommit \/ VoterJoins
    \/ \E n \in Node :
        \/ Elect(n) \/ StepDown(n) \/ FsmApply(n)
        \/ RenewLease(n) \/ LeaseExpires(n) \/ TransferLeadership(n)
        \/ Ensure(n)
        \/ CallerDone(n) \/ CallerTimeout(n)
        \/ Worker(n)
        \/ Restart(n)
        \/ \E s \in Shapes :
            \/ CommitRefused(n, s) \/ CommitFenced(n, s)
            \/ CommitLocal(n, s) \/ CommitReplicated(n, s)

Spec == Init /\ [][Next]_vars

\* Fairness: Go schedules the worker and Raft's goroutines, a stale leader hears
\* of the newer term, an elected leader commits what is in its log, and requests
\* keep coming: the maintenance and enrollment loops read through the leader's
\* ensure whatever the visitors do.  A leadership transfer may fail for ever.
Fairness ==
    /\ WF_vars(RaftCommit)
    /\ \A n \in Node :
        /\ WF_vars(Worker(n))
        /\ WF_vars(FsmApply(n))
        /\ WF_vars(believes[n] < Term /\ StepDown(n))
        /\ WF_vars(Ensure(n))

FairSpec == Spec /\ Fairness

-----------------------------------------------------------------------------
(* Properties *)

Proposal == [cmd : Transaction, stage : {"propose", "wait", "failed"}, term : Nat, at : Nat]
Waiting  == [cmd : Transaction, result : {"pending", "ok", "error"}, preview : States]

\* nil is neither a proposal nor a waiting commit.
ASSUME NoneAssumption == None \notin Proposal /\ None \notin Waiting

\* A proposal that passed the journal's bound always finds room in the queue
\* channel, so commit never acknowledges its journal entry and then fails on
\* the channel; the worker's proposals are all still in the journal.
QueueHasRoom ==
    \A n \in Node :
        /\ Outstanding(n) <= MaxPending
        /\ {queue[n][i].rev : i \in DOMAIN queue[n]} \subseteq journal[n]

\* The shape of the state: all of asyncWriter's fields and of the Raft it sees,
\* and the bound of the queue.
TypeOK ==
    /\ QueueHasRoom
    /\ elections \in Seq(Node)
    /\ log \in Seq(Entry)
    /\ hist \in Seq(States) /\ Len(hist) \in 1..(Len(log) + 1)
    /\ applied \in [Node -> Nat] /\ \A n \in Node : applied[n] <= Committed
    /\ believes \in [Node -> Nat] /\ \A n \in Node : believes[n] <= Term
    /\ voters \in {1, 2}
    /\ view \in [Node -> States]
    /\ wterm \in [Node -> Nat] /\ \A n \in Node : wterm[n] <= Term
    /\ seq \in [Node -> Nat]
    /\ leaseTerm \in [Node -> Nat] /\ \A n \in Node : leaseTerm[n] <= Term
    /\ failed \in [Node -> BOOLEAN]
    /\ journal \in [Node -> SUBSET Rev]
    /\ queue \in [Node -> Seq(Transaction)]
    /\ worker \in [Node -> Proposal \cup {None}]
    /\ caller \in [Node -> Waiting \cup {None}]
    /\ ackedSec \in [Key -> Rev]

\* A command that reached the committed log in the term it was issued for is
\* never rejected by state.Apply: the speculative view it was checked against
\* (commit, async.go) predicted the replicated state exactly, so content that
\* was acknowledged early and got replicated is never undone by a conflict or a
\* capacity error.
SpeculationSound ==
    \A i \in 1..Committed :
        log[i].cmd.rev[1] = log[i].term => Accepts(hist[i], log[i].cmd, log[i].term)

\* Every view that may be served reflects every acknowledged security write or
\* a later one, on whichever node: a policy change is never read back undone
\* (readSnapshot, commit and ensure in async.go).
AckedPolicyServed ==
    \A n \in Node : Serving(n) =>
        \A k \in Key : k \in Secure => RevLeq(ackedSec[k], view[n][k].rev)

CommittedRevs == {log[i].cmd.rev : i \in 1..Committed}

\* "no uncommitted security write is exposed through it" (asyncWriter): what a
\* served view says of a security key was committed by Raft.
NoSpeculativePolicy ==
    \A n \in Node : Serving(n) =>
        \A k \in Secure : view[n][k].rev \in CommittedRevs \cup {NoRev}

\* A revision (term<<32|sequence) names at most one transaction, in the log and
\* in every queue, across failures inside a term, elections and restarts.
\* Versions are revisions, so a reused one would defeat every version check.
RevisionUnique ==
    \A i, j \in 1..Len(log) : log[i].cmd.rev = log[j].cmd.rev => i = j

\* While a node keeps serving, no record of its view goes back to an earlier
\* revision: an acknowledged upload disappears only through a fence and a
\* rebuild, never silently.
ServedViewNeverRegresses ==
    [][\A n \in Node : Serving(n) /\ Serving(n)' =>
        \A k \in Key : RevLeq(view[n][k].rev, view'[n][k].rev)]_vars

\* No proposal is held for ever: every future settles, so the rebuild that waits
\* for outstanding = 0 can run.
ProposalsSettle == \A n \in Node : Outstanding(n) > 0 ~> Outstanding(n) = 0

\* A leader whose writer failed does not stay a fenced leader, even if no follower
\* can take over (a single voter): ensure rebuilds its view in the same term, or it
\* gives up leadership.
FencedLeaderRecovers ==
    \A n \in Node : (failed[n] /\ believes[n] # 0) ~> (~failed[n] \/ believes[n] = 0)
=============================================================================
