---------------------------- MODULE Transactions ----------------------------
(***************************************************************************)
(* Optimistic transactions of internal/metadata over the cluster's         *)
(* metadata RPC (internal/cluster, rpc.go and transaction_reads.go).       *)
(*                                                                         *)
(* A client reads records one by one from the leader, all stamped with the *)
(* same term and index (or, from a leader that predates stamps, unstamped  *)
(* and checked again at the end), and commits by a compare and swap on     *)
(* every version it read.  A known conflict runs the whole transaction     *)
(* again.  A commit is a message: it is routed to the leader the client    *)
(* remembers, follows one hint, and may be lost in either direction.       *)
(*                                                                         *)
(* A content transaction is acknowledged once the leader has it on disk,   *)
(* before the cluster does: what of it was not replicated is gone when the *)
(* leader's view is built anew.                                            *)
(*                                                                         *)
(* The leader answers from the newest store: that its reads are current is *)
(* the subject of AsyncWriter and AuthorityLease.                          *)
(***************************************************************************)
EXTENDS Naturals, Sequences, FiniteSets

CONSTANTS
    Key, Client, Node,
    Home,          \* Home[c]: the node c's process runs on (Client.local)
    Old,           \* nodes of the previous release, which know no stamps
    Attempts,      \* attempts of Store.run (8)
    MaxIndex,      \* bound: writes
    MaxTerm,       \* bound: elections
    None

ASSUME TransactionsAssumption ==
    /\ Home \in [Client -> Node] /\ Old \subseteq Node
    /\ Attempts \in Nat \ {0} /\ MaxIndex \in Nat /\ MaxTerm \in Nat
    /\ None \notin Node

VARIABLES
    views,   \* asyncWriter.view, preceded by the views since the last replicated
             \* write: records (version by key, 0 when absent) and index
    issued,  \* the last revision given to a write; none is given twice
    rebuilt, \* is the view's index that of the log, and not yet a revision?
    term,
    leader,  \* the node that leads, or None
    tx,      \* each client's transaction
    net,     \* each client's commit request or answer in flight
    cache,   \* Client.leaderID
    applied  \* ghost: how often a client's transaction changed the store

vars == <<views, issued, rebuilt, term, leader, tx, net, cache, applied>>

view  == views[Len(views)]
store == view.store

Unread == [k \in Key |-> None]

Tx0 == [call |-> "idle", kind |-> None, attempt |-> 1, reads |-> Unread,
        stamp |-> None, legacy |-> FALSE, saw |-> None, late |-> FALSE]

Init ==
    /\ views = <<[store |-> [k \in Key |-> 0], index |-> 0]>>
    /\ issued = 0 /\ rebuilt = TRUE /\ term = 1
    /\ leader \in Node
    /\ tx = [c \in Client |-> Tx0]
    /\ net = [c \in Client |-> None]
    /\ cache = [c \in Client |-> None]
    /\ applied = [c \in Client |-> 0]

-----------------------------------------------------------------------------
(* Store.run, Tx.record *)

\* Run, RunContent and RunSnapshot: a reader validates what it read, a snapshot
\* reader relies on the stamp, a writer commits, and a content writer's commit
\* need not be replicated before it is acknowledged.
Begin(c, kind) ==
    /\ tx[c].call = "idle"
    /\ tx' = [tx EXCEPT ![c] = [Tx0 EXCEPT !.call = "open", !.kind = kind]]
    /\ UNCHANGED <<views, issued, rebuilt, term, leader, net, cache, applied>>

\* A call that returned has no transaction left.
Returned(t, call) ==
    [Tx0 EXCEPT !.call = call, !.kind = t.kind, !.saw = t.saw, !.late = t.late]

\* A conflict: start over, or give up after the last attempt.
Again(t) ==
    IF t.attempt < Attempts
    THEN [Tx0 EXCEPT !.call = "open", !.kind = t.kind, !.attempt = t.attempt + 1, !.late = t.late]
    ELSE Returned(t, "refused")

\* The client waits for nothing and has something left to read.
Reading(c) == tx[c].call = "open" /\ net[c] = None

\* A view that was built anew has the index of the log, so the stamp differs from
\* that of the same records under the revision of their last write.
Stamp == <<term, rebuilt, view.index>>

\* CoherentSnapshot
Coherent(t) == ~t.legacy /\ t.stamp # None

\* A snapshot reader returns as soon as it has read everything.
Settle(t) ==
    IF t.kind = "snapshot" /\ Coherent(t) /\ \A k \in Key : t.reads[k] # None
    THEN Returned([t EXCEPT !.saw = t.reads], "ok")
    ELSE t

Noted(t, k) == [t EXCEPT !.reads[k] = store[k]]

\* Mutant of StampHolds: a later read may be newer.
StampIgnored(t) == TRUE

\* readSnapshot compares the whole stamp: any write in between is a conflict.
StampHolds(t) == t.stamp \in {None, Stamp}

\* transactionBackend.Read: stamped, unless the transaction's first read met a
\* leader of the previous release.  An answer makes the client remember the leader.
ReadKey(c, k) ==
    LET t == tx[c] IN
    /\ Reading(c) /\ leader # None /\ t.reads[k] = None
    /\ tx' = [tx EXCEPT ![c] =
         IF t.legacy \/ (leader \in Old /\ t.stamp = None)
         THEN Noted([t EXCEPT !.legacy = TRUE], k)
         ELSE IF leader \in Old THEN Returned(t, "refused")
         ELSE IF StampHolds(t) THEN Settle(Noted([t EXCEPT !.stamp = Stamp], k))
         ELSE Again(t)]
    /\ cache' = [cache EXCEPT ![c] = leader]
    /\ UNCHANGED <<views, issued, rebuilt, term, leader, net, applied>>

\* A read fails for lack of a leader or of an answer; nothing was written.
ReadFails(c) ==
    /\ Reading(c)
    /\ tx' = [tx EXCEPT ![c] = Returned(@, "refused")]
    /\ cache' = [cache EXCEPT ![c] = None]
    /\ UNCHANGED <<views, issued, rebuilt, term, leader, net, applied>>

Writing == {"writer", "content"}

ReadAll(t) == \A k \in Key : t.reads[k] # None

\* transactionBackend.Check: the stamp still holds or, without a stamp, every
\* version does.
Unchanged(t) == IF t.legacy THEN t.reads = store ELSE StampHolds(t)

\* finish, without writes.
CheckReads(c) ==
    LET t == tx[c] IN
    /\ Reading(c) /\ leader # None /\ ReadAll(t) /\ t.kind \notin Writing
    /\ ~t.legacy => leader \notin Old
    /\ tx' = [tx EXCEPT ![c] =
         IF Unchanged(t) THEN Returned([t EXCEPT !.saw = t.reads], "ok") ELSE Again(t)]
    /\ cache' = [cache EXCEPT ![c] = leader]
    /\ UNCHANGED <<views, issued, rebuilt, term, leader, net, applied>>

-----------------------------------------------------------------------------
(* Client.call with method commit *)

\* finish, with a write of k (a deletion stores version 0): the request goes to
\* the remembered leader or to the local node.
SendCommit(c, k, delete) ==
    /\ Reading(c) /\ ReadAll(tx[c]) /\ tx[c].kind \in Writing
    /\ delete => tx[c].reads[k] # 0
    /\ net' = [net EXCEPT ![c] =
         [at |-> IF cache[c] # None THEN cache[c] ELSE Home[c], hop |-> 0, key |-> k,
          delete |-> delete, answer |-> None, hint |-> None]]
    /\ UNCHANGED <<views, issued, rebuilt, term, leader, tx, cache, applied>>

Answer(c, answer, hint) == [net EXCEPT ![c].answer = answer, ![c].hint = hint]

Waiting(c) == net[c] # None /\ net[c].answer = None

\* rpcHandler on a follower, or on a leader without authority: the request
\* changes nothing and is sent on, possibly to a leader of the past.
Redirect(c, hint) ==
    /\ Waiting(c)
    /\ net' = Answer(c, "not_leader", hint)
    /\ UNCHANGED <<views, issued, rebuilt, term, leader, tx, cache, applied>>

\* The compare and swap of Commit: every version read is current.
Matches(t) == t.reads = store

\* The view after a write, with the next revision.
Written(m) ==
    [store |-> [store EXCEPT ![m.key] = IF m.delete THEN 0 ELSE issued + 1],
     index |-> issued + 1]

\* localContentAllowed: acknowledged ahead of the cluster.  The leader may
\* refuse the hint, and a replicated write follows all earlier ones in the log.
Extended(t, v) ==
    {<<v>>} \cup (IF t.kind = "content" THEN {Append(views, v)} ELSE {})

\* rpcHandler and Commit on the leader.  The request may be one its client no
\* longer waits for; the leader may lose its authority before it answers, or find
\* itself fenced once the write is done.
Commit(c) ==
    /\ Waiting(c) /\ net[c].at = leader
    /\ IF Matches(tx[c])
       THEN /\ issued < MaxIndex
            /\ views' \in Extended(tx[c], Written(net[c]))
            /\ issued' = issued + 1 /\ rebuilt' = FALSE
            /\ applied' = [applied EXCEPT ![c] = @ + 1]
            /\ \E a \in {"ok", "not_leader"} :
                /\ net' = Answer(c, a, None)
                /\ tx' = [tx EXCEPT ![c].saw = tx[c].reads, ![c].late = @ \/ a # "ok"]
       ELSE /\ net' = Answer(c, "conflict", None)
            /\ UNCHANGED <<views, issued, rebuilt, applied, tx>>
    /\ UNCHANGED <<term, leader, cache>>

\* replicate: the oldest write that was only local reaches the cluster.
Replicate ==
    /\ Len(views) > 1
    /\ views' = Tail(views)
    /\ UNCHANGED <<issued, rebuilt, term, leader, tx, net, cache, applied>>

\* The client is still there to take the answer.
Answered(c) == net[c] # None /\ net[c].answer # None /\ tx[c].call = "open"

Success(c) ==
    /\ Answered(c) /\ net[c].answer = "ok"
    /\ tx' = [tx EXCEPT ![c] = Returned(@, "ok")]
    /\ cache' = [cache EXCEPT ![c] = net[c].at]
    /\ net' = [net EXCEPT ![c] = None]
    /\ UNCHANGED <<views, issued, rebuilt, term, leader, applied>>

\* Run starts over.
Conflict(c) ==
    /\ Answered(c) /\ net[c].answer = "conflict"
    /\ tx' = [tx EXCEPT ![c] = Again(tx[c])]
    /\ net' = [net EXCEPT ![c] = None]
    /\ UNCHANGED <<views, issued, rebuilt, term, leader, cache, applied>>

\* not_leader: without a hint a remote answer sends the request to the local
\* node, with one to the node it names, at most once; otherwise the call ends
\* and Run does not repeat it.  The client forgets a write that was applied.
NotLeader(c) ==
    LET m == net[c]
        next == IF m.hop # 0 THEN None
                ELSE IF m.hint = None /\ m.at # Home[c] THEN Home[c]
                ELSE m.hint
    IN  /\ Answered(c) /\ m.answer = "not_leader"
        /\ cache' = [cache EXCEPT ![c] = None]
        /\ IF next = None
           THEN /\ tx' = [tx EXCEPT ![c] = Returned(@, "unknown")]
                /\ net' = [net EXCEPT ![c] = None]
           ELSE /\ net' = [net EXCEPT ![c] = [m EXCEPT !.at = next, !.hop = 1,
                                                       !.answer = None, !.hint = None]]
                /\ tx' = [tx EXCEPT ![c].saw = None]
        /\ UNCHANGED <<views, issued, rebuilt, term, leader, applied>>

\* "Never replay an indeterminate transport/leadership error."
Interrupted(t) == [t EXCEPT !.call = "unknown"]

\* The request, or its answer, is lost or late: the client gives up.  A request
\* that is still on its way may reach the leader afterwards.
Lose(c) ==
    /\ net[c] # None /\ tx[c].call = "open"
    /\ tx' = [tx EXCEPT ![c] = Interrupted(tx[c])]
    /\ cache' = [cache EXCEPT ![c] = None]
    /\ net' = [net EXCEPT ![c] = IF Waiting(c) THEN @ ELSE None]
    /\ UNCHANGED <<views, issued, rebuilt, term, leader, applied>>

-----------------------------------------------------------------------------
(* ensure: the leader's view is built anew from what the cluster holds, which *)
(* is every replicated write and the oldest of those that were only local.   *)
Baseline(i) == views' = <<views[i]>> /\ rebuilt' = TRUE

\* A new leader.
Elect(n, i) ==
    /\ term < MaxTerm
    /\ leader' = n /\ term' = term + 1 /\ Baseline(i)
    /\ UNCHANGED <<issued, tx, net, cache, applied>>

\* The same leader, after it was fenced.
Rebuild(i) ==
    /\ leader # None /\ Baseline(i)
    /\ UNCHANGED <<issued, term, leader, tx, net, cache, applied>>

StepDown ==
    /\ leader # None
    /\ leader' = None
    /\ UNCHANGED <<views, issued, rebuilt, term, tx, net, cache, applied>>

Next ==
    \/ \E c \in Client :
        \/ \E kind \in {"reader", "snapshot"} \cup Writing : Begin(c, kind)
        \/ \E k \in Key : ReadKey(c, k)
        \/ ReadFails(c) \/ CheckReads(c)
        \/ \E k \in Key, delete \in BOOLEAN : SendCommit(c, k, delete)
        \/ \E hint \in Node \cup {None} : Redirect(c, hint)
        \/ Commit(c) \/ Success(c) \/ Conflict(c) \/ NotLeader(c) \/ Lose(c)
    \/ Replicate
    \/ \E i \in DOMAIN views : Rebuild(i) \/ \E n \in Node : Elect(n, i)
    \/ StepDown

Spec == Init /\ [][Next]_vars

-----------------------------------------------------------------------------
TypeOK ==
    /\ views \in Seq([store : [Key -> 0..MaxIndex], index : 0..MaxIndex]) /\ views # <<>>
    /\ issued \in 0..MaxIndex /\ term \in 1..MaxTerm
    /\ leader \in Node \cup {None} /\ cache \in [Client -> Node \cup {None}]
    /\ \A c \in Client :
        /\ tx[c].call \in {"idle", "open", "ok", "refused", "unknown"}
        /\ tx[c].attempt \in 1..Attempts
        /\ net[c] # None => net[c].at \in Node


Abstract == INSTANCE AtomicStore WITH
    stores <- [i \in DOMAIN views |-> views[i].store],
    call   <- [c \in Client |-> tx[c].call],
    local  <- [c \in Client |-> tx[c].kind = "content"],
    done   <- [c \in Client |-> tx[c].saw # None],
    got    <- [c \in Client |-> tx[c].saw],
    late   <- [c \in Client |-> tx[c].late]

\* Transactions over the cluster behave like transactions on one atomic store,
\* through conflicts, elections, demotions, lost messages and leaders of two
\* releases; only content that was acknowledged ahead of the cluster is ever lost.
Atomic == Abstract!Spec
=============================================================================
